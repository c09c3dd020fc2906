---------------------------- MODULE ListSyncProofs ---------------------------
(***************************************************************************)
(* Proofs about ListSync, for any number of user modules, any set of pids  *)
(* and any number of entries.  The inductive invariant LInv adds to the    *)
(* properties who can be inside the module in which state of its life      *)
(* cycle (ModInv), that a caller with an insertion pending has met every   *)
(* other such caller and whoever listed that pid (PendingInv), that no two *)
(* callers hold the same entry (HeldInv), and how a timestamp relates to   *)
(* real time (StampInv).                                                   *)
(***************************************************************************)
EXTENDS ListSync, TLAPS

ModInv ==
  /\ pc[Self] # "out" => mod = "init"
  /\ \A u \in Users : pc[u] # "out" => mod = "live"
  /\ pc[Self] # "in"
  /\ mod = "out" => list = {}
  /\ \A c \in Callers : pc[c] \in {"alloc", "insert"} => left[c] > 0

PendingInv ==
  /\ \A c \in Callers, e \in list :
       Pending(c, e.pid) =>
         /\ c # e.by /\ c \in Users /\ e.by \in Users
         /\ c \in e.rivals /\ e.by \in ti[c].rivals
  /\ \A c, d \in Callers :
       c # d /\ Pending(c, ti[d].pid) /\ Pending(d, ti[d].pid) => d \in ti[c].rivals
  /\ \A c \in Callers : Holds(c) => ti[c].by = c

HeldInv ==
  \A c, d \in Callers : Holds(c) /\ Holds(d) /\ ti[c].addr = ti[d].addr => c = d

\* The timestamp of an entry is the clock at a moment that has passed.
Stamped(e) == e.timestamp = e.born % Wrap /\ e.born <= now

StampInv ==
  /\ \A e \in list : Stamped(e)
  /\ \A c \in Callers : Holds(c) => Stamped(ti[c])

LInv ==
  /\ TypeOK /\ ModInv
  /\ DuplicatesNeedOverlap /\ PendingInv
  /\ NoLeakNoDangling /\ HeldInv
  /\ StampInv

-----------------------------------------------------------------------------
\* Before list_sync is loaded the invariant holds.
LEMMA InitLInv == Init => LInv
<1> SUFFICES ASSUME Init PROVE LInv
  OBVIOUS
<1> USE ListAssumption DEF Init
<1>1. TypeOK
  <2>1. NoEntry \in MaybeEntries
    BY DEF MaybeEntries, NoEntry, Callers
  <2>2. ti \in [Callers -> MaybeEntries]
    BY <2>1
  <2>3. stuck \in BOOLEAN
    OBVIOUS
  <2> QED
    BY <2>2, <2>3 DEF TypeOK
<1>2. ModInv /\ DuplicatesNeedOverlap /\ HeldInv
  BY DEF ModInv, DuplicatesNeedOverlap, HeldInv, Holds, Callers
<1>3. PendingInv /\ StampInv
  BY DEF PendingInv, StampInv, Holds, Pending, Callers
<1>4. NoLeakNoDangling
  BY DEF NoLeakNoDangling, Addresses, Holds, Callers
<1> QED
  BY <1>1, <1>2, <1>3, <1>4 DEF LInv

\* Refreshing an entry changes its timestamp, its count and nothing else.
LEMMA RefreshEffect ==
  ASSUME TypeOK, NEW c \in Callers, Refresh(c)
  PROVE  \E e \in list, r \in Entries :
           /\ r.addr = e.addr /\ r.pid = e.pid /\ r.by = e.by /\ r.rivals = e.rivals
           /\ r.timestamp = jiffies /\ r.born = now
           /\ list' = (list \ {e}) \cup {r}
<1>1. PICK q \in Pids, e \in list :
        list' = (list \ {e}) \cup {[e EXCEPT !.timestamp = jiffies, !.born = now,
                                            !.count = AtomicInc(@)]}
  BY DEF Refresh
<1> DEFINE r == [e EXCEPT !.timestamp = jiffies, !.born = now, !.count = AtomicInc(@)]
<1>2. e \in Entries
  BY DEF TypeOK
<1>3. jiffies \in 0 .. Wrap - 1 /\ now \in Nat
  BY ListAssumption DEF jiffies, TypeOK
<1>4. AtomicInc(e.count) \in -IntMax - 1 .. IntMax
  BY <1>2, ListAssumption DEF AtomicInc, Entries
<1>5. /\ r \in Entries
      /\ r.addr = e.addr /\ r.pid = e.pid /\ r.by = e.by /\ r.rivals = e.rivals
      /\ r.timestamp = jiffies /\ r.born = now
  BY <1>2, <1>3, <1>4 DEF Entries
<1> QED
  BY <1>1, <1>5

\* Inserting an entry puts it on the list as task_info_alloc filled it in.
LEMMA InsertEffect ==
  ASSUME TypeOK, NEW c \in Callers, Insert(c)
  PROVE  \E r \in Entries :
           /\ r.addr = ti[c].addr /\ r.pid = ti[c].pid /\ r.by = ti[c].by
           /\ r.rivals = ti[c].rivals
           /\ r.timestamp = ti[c].timestamp /\ r.born = ti[c].born
           /\ list' = list \cup {r}
<1>1. PICK n \in NextTo : list' = list \cup {[ti[c] EXCEPT !.pos = n]}
  BY DEF Insert
<1>2. n \in Nat
  BY DEF NextTo, TypeOK, Entries
<1>3. ti[c] \in Entries
  BY DEF TypeOK, Insert, Goto, MaybeEntries, Entries
<1> QED
  BY <1>1, <1>2, <1>3 DEF Entries

\* A search that misses its pid records it, and the callers on their way to
\* insert the same pid; no entry in anybody's hands changes otherwise.
LEMMA MissingEffect ==
  ASSUME TypeOK, NEW c \in Callers, Missing(c)
  PROVE  \E q \in Pids :
           /\ \A e \in list : e.pid # q
           /\ pc[c] = "add" /\ pc' = [pc EXCEPT ![c] = "alloc"]
           /\ UNCHANGED <<list, heap, now, stuck, mod, left>>
           /\ ti' \in [Callers -> MaybeEntries]
           /\ ti'[c].pid = q
           /\ \A d \in Callers : d # c /\ Pending(d, q) => d \in ti'[c].rivals
           /\ \A d \in Callers : d # c =>
                /\ ti'[d].addr = ti[d].addr /\ ti'[d].pid = ti[d].pid
                /\ ti'[d].by = ti[d].by /\ ti'[d].timestamp = ti[d].timestamp
                /\ ti'[d].born = ti[d].born
                /\ ti[d].rivals \subseteq ti'[d].rivals
                /\ Pending(d, q) => c \in ti'[d].rivals
<1>1. PICK q \in Pids : (\A e \in list : e.pid # q) /\ Missed(c, q)
  BY DEF Missing
<1>2. /\ pc[c] = "add" /\ pc' = [pc EXCEPT ![c] = "alloc"]
      /\ UNCHANGED <<list, heap, now, stuck, mod, left>>
  BY DEF Missing, Goto
<1>3. ti'[c] = [ti[c] EXCEPT !.pid = q, !.rivals = {r \in Callers \ {c} : Pending(r, q)}]
  BY <1>1 DEF Missed
<1>4. /\ ti'[c] \in MaybeEntries /\ ti'[c].pid = q
      /\ ti'[c].rivals = {r \in Callers \ {c} : Pending(r, q)}
  <2> DEFINE met == {r \in Callers \ {c} : Pending(r, q)}
  <2>1. met \in SUBSET Callers
    OBVIOUS
  <2>2. ti[c] \in MaybeEntries
    BY DEF TypeOK
  <2> HIDE DEF met
  <2>3. ti'[c] = [ti[c] EXCEPT !.pid = q, !.rivals = met]
    BY <1>3 DEF met
  <2>4. ti'[c] \in MaybeEntries /\ ti'[c].pid = q /\ ti'[c].rivals = met
    BY <2>1, <2>2, <2>3 DEF MaybeEntries
  <2> QED
    BY <2>4 DEF met
<1>5. ASSUME NEW d \in Callers, d # c
      PROVE  /\ ti'[d] \in MaybeEntries
             /\ ti'[d].addr = ti[d].addr /\ ti'[d].pid = ti[d].pid
             /\ ti'[d].by = ti[d].by /\ ti'[d].timestamp = ti[d].timestamp
             /\ ti'[d].born = ti[d].born
             /\ ti[d].rivals \subseteq ti'[d].rivals
             /\ Pending(d, q) => c \in ti'[d].rivals
  <2>1. ti[d] \in MaybeEntries
    BY DEF TypeOK
  <2>2. CASE Pending(d, q)
    <3>1. ti'[d] = [ti[d] EXCEPT !.rivals = @ \cup {c}]
      BY <1>1, <1>5, <2>2 DEF Missed
    <3> QED
      BY <2>1, <3>1 DEF MaybeEntries
  <2>3. CASE ~Pending(d, q)
    <3>1. ti'[d] = ti[d]
      BY <1>1, <1>5, <2>3 DEF Missed
    <3> QED
      BY <2>1, <2>3, <3>1
  <2> QED
    BY <2>2, <2>3
<1>6. ti' \in [Callers -> MaybeEntries]
  BY <1>1, <1>4, <1>5 DEF Missed
<1> QED
  BY <1>1, <1>2, <1>4, <1>5, <1>6

-----------------------------------------------------------------------------
(***************************************************************************)
(* One lemma per part of the invariant, one step per action.               *)
(***************************************************************************)
\* Every step keeps every variable in its type.
LEMMA TypeStep == LInv /\ [Next]_vars => TypeOK'
<1> SUFFICES ASSUME LInv, [Next]_vars PROVE TypeOK'
  OBVIOUS
<1> USE ListAssumption DEF LInv, TypeOK, Callers
<1>1. CASE list_sync_init
  BY <1>1 DEF list_sync_init
<1>2. CASE list_sync_live
  BY <1>2 DEF list_sync_live, Goto
<1>3. CASE list_sync_exit
  BY <1>3 DEF list_sync_exit, RemoveExpired
<1>4. CASE task_info_purge_list
  BY <1>4 DEF task_info_purge_list
<1>5. ASSUME NEW u \in Users, list_test_init(u) PROVE TypeOK'
  BY <1>5 DEF list_test_init, Goto
<1>6. ASSUME NEW u \in Users, list_test_live(u) PROVE TypeOK'
  BY <1>6 DEF list_test_live, Goto
<1>7. ASSUME NEW u \in Users, list_test_exit(u) PROVE TypeOK'
  BY <1>7 DEF list_test_exit, RemoveExpired, Goto
<1>8. ASSUME NEW c \in Callers, Refresh(c) PROVE TypeOK'
  <2>1. PICK e \in list, r \in Entries : list' = (list \ {e}) \cup {r}
    BY <1>8, RefreshEffect
  <2> QED
    BY <1>8, <2>1 DEF Refresh
<1>9. ASSUME NEW c \in Callers, Missing(c) PROVE TypeOK'
  <2>1. PICK q \in Pids :
          /\ pc' = [pc EXCEPT ![c] = "alloc"]
          /\ UNCHANGED <<list, heap, now, stuck, mod, left>>
          /\ ti' \in [Callers -> MaybeEntries] /\ ti'[c].pid = q
          /\ \A d \in Callers : d # c => ti'[d].pid = ti[d].pid
    BY <1>9, MissingEffect
  <2> QED
    BY <2>1
<1>10. ASSUME NEW c \in Callers, task_info_alloc(c) PROVE TypeOK'
  <2>1. ti' \in [Callers -> MaybeEntries] /\ heap' \subseteq Addrs
    BY <1>10 DEF task_info_alloc, Goto, MaybeEntries, jiffies
  <2>2. ti'[c].pid = ti[c].pid /\ pc' = [pc EXCEPT ![c] = "insert"]
    BY <1>10 DEF task_info_alloc, Goto, MaybeEntries
  <2>3. \A d \in Callers : d # c => ti'[d] = ti[d]
    BY <1>10 DEF task_info_alloc
  <2> QED
    BY <1>10, <2>1, <2>2, <2>3 DEF task_info_alloc, Goto
<1>11. ASSUME NEW c \in Callers, Insert(c) PROVE TypeOK'
  <2>1. PICK r \in Entries : list' = list \cup {r}
    BY <1>11, InsertEffect
  <2>2. NoEntry \in MaybeEntries
    BY DEF NoEntry, MaybeEntries
  <2> QED
    BY <1>11, <2>1, <2>2 DEF Insert, Goto, ModInv
<1>12. ASSUME NEW c \in Callers, InsertNull(c) PROVE TypeOK'
  BY <1>12 DEF InsertNull, Goto
<1>13. CASE Tick
  BY <1>13 DEF Tick
<1>14. CASE UNCHANGED vars
  BY <1>14 DEF vars
<1> QED
  BY <1>1, <1>2, <1>3, <1>4, <1>5, <1>6, <1>7, <1>8, <1>9, <1>10, <1>11, <1>12, <1>13, <1>14
     DEF Next, AddSteps

\* Every step keeps callers out of a module that is not there.
LEMMA ModStep == LInv /\ [Next]_vars => ModInv'
<1> SUFFICES ASSUME LInv, [Next]_vars PROVE ModInv'
  OBVIOUS
<1> USE ListAssumption DEF LInv, TypeOK, Callers, ModInv
<1>1. CASE list_sync_init
  BY <1>1 DEF list_sync_init
<1>2. CASE list_sync_live
  BY <1>2 DEF list_sync_live, Goto
<1>3. CASE list_sync_exit
  BY <1>3 DEF list_sync_exit, RemoveExpired
<1>4. CASE task_info_purge_list
  BY <1>4 DEF task_info_purge_list
<1>5. ASSUME NEW u \in Users, list_test_init(u) PROVE ModInv'
  BY <1>5 DEF list_test_init, Goto
<1>6. ASSUME NEW u \in Users, list_test_live(u) PROVE ModInv'
  BY <1>6 DEF list_test_live, Goto
<1>7. ASSUME NEW u \in Users, list_test_exit(u) PROVE ModInv'
  BY <1>7 DEF list_test_exit, RemoveExpired, Goto
<1>8. ASSUME NEW c \in Callers, Refresh(c) PROVE ModInv'
  BY <1>8 DEF Refresh
<1>9. ASSUME NEW c \in Callers, Missing(c) PROVE ModInv'
  BY <1>9 DEF Missing, Goto
<1>10. ASSUME NEW c \in Callers, task_info_alloc(c) PROVE ModInv'
  BY <1>10 DEF task_info_alloc, Goto
<1>11. ASSUME NEW c \in Callers, Insert(c) PROVE ModInv'
  BY <1>11 DEF Insert, Goto
<1>12. ASSUME NEW c \in Callers, InsertNull(c) PROVE ModInv'
  BY <1>12 DEF InsertNull, Goto
<1>13. CASE Tick
  BY <1>13 DEF Tick
<1>14. CASE UNCHANGED vars
  BY <1>14 DEF vars
<1> QED
  BY <1>1, <1>2, <1>3, <1>4, <1>5, <1>6, <1>7, <1>8, <1>9, <1>10, <1>11, <1>12, <1>13, <1>14
     DEF Next, AddSteps

\* Every step keeps duplicates and pending insertions to users that have met.
LEMMA OverlapStep == LInv /\ [Next]_vars => (DuplicatesNeedOverlap /\ PendingInv)'
<1> SUFFICES ASSUME LInv, [Next]_vars PROVE (DuplicatesNeedOverlap /\ PendingInv)'
  OBVIOUS
<1> USE ListAssumption DEF LInv, TypeOK, Callers, DuplicatesNeedOverlap, PendingInv, Pending, Holds
<1>1. CASE list_sync_init
  BY <1>1 DEF list_sync_init
<1>2. CASE list_sync_live
  BY <1>2 DEF list_sync_live, Goto
<1>3. CASE list_sync_exit
  BY <1>3 DEF list_sync_exit, RemoveExpired
<1>4. CASE task_info_purge_list
  BY <1>4 DEF task_info_purge_list
<1>5. ASSUME NEW u \in Users, list_test_init(u) PROVE (DuplicatesNeedOverlap /\ PendingInv)'
  BY <1>5 DEF list_test_init, Goto
<1>6. ASSUME NEW u \in Users, list_test_live(u) PROVE (DuplicatesNeedOverlap /\ PendingInv)'
  BY <1>6 DEF list_test_live, Goto
<1>7. ASSUME NEW u \in Users, list_test_exit(u) PROVE (DuplicatesNeedOverlap /\ PendingInv)'
  BY <1>7 DEF list_test_exit, RemoveExpired, Goto
<1>8. ASSUME NEW c \in Callers, Refresh(c) PROVE (DuplicatesNeedOverlap /\ PendingInv)'
  <2>1. PICK e \in list, r \in Entries :
          /\ r.pid = e.pid /\ r.by = e.by /\ r.rivals = e.rivals
          /\ list' = (list \ {e}) \cup {r}
    BY <1>8, RefreshEffect
  <2> QED
    BY <1>8, <2>1 DEF Refresh
<1>9. ASSUME NEW c \in Callers, Missing(c) PROVE (DuplicatesNeedOverlap /\ PendingInv)'
  <2>1. PICK q \in Pids :
          /\ \A e \in list : e.pid # q
          /\ pc[c] = "add" /\ pc' = [pc EXCEPT ![c] = "alloc"]
          /\ UNCHANGED <<list, heap, now, stuck, mod, left>>
          /\ ti'[c].pid = q
          /\ \A d \in Callers : d # c /\ Pending(d, q) => d \in ti'[c].rivals
          /\ \A d \in Callers : d # c =>
               /\ ti'[d].addr = ti[d].addr /\ ti'[d].pid = ti[d].pid
               /\ ti'[d].by = ti[d].by
               /\ ti[d].rivals \subseteq ti'[d].rivals
               /\ Pending(d, q) => c \in ti'[d].rivals
    BY <1>9, MissingEffect
  <2>2. DuplicatesNeedOverlap'
    BY <2>1
  <2>3. \A d \in Callers : Holds(d)' => ti'[d].by = d
    BY <2>1
  <2>4. ASSUME NEW d \in Callers, NEW e \in list, Pending(d, e.pid)'
        PROVE  /\ d # e.by /\ d \in Users /\ e.by \in Users
               /\ d \in e.rivals /\ e.by \in ti'[d].rivals
    <3>1. d # c /\ Pending(d, e.pid)
      BY <2>1, <2>4
    <3> QED
      BY <2>1, <3>1
  <2>5. ASSUME NEW b \in Callers, NEW d \in Callers, b # d,
               Pending(b, ti[d].pid)', Pending(d, ti[d].pid)'
        PROVE  d \in ti'[b].rivals
    <3>1. CASE b = c
      BY <2>1, <2>5, <3>1
    <3>2. CASE d = c
      BY <2>1, <2>5, <3>2
    <3>3. CASE b # c /\ d # c
      BY <2>1, <2>5, <3>3
    <3> QED
      BY <3>1, <3>2, <3>3
  <2> QED
    BY <2>1, <2>2, <2>3, <2>4, <2>5
<1>10. ASSUME NEW c \in Callers, task_info_alloc(c) PROVE (DuplicatesNeedOverlap /\ PendingInv)'
  <2>1. /\ pc[c] = "alloc" /\ pc' = [pc EXCEPT ![c] = "insert"] /\ list' = list
        /\ ti'[c].pid = ti[c].pid /\ ti'[c].rivals = ti[c].rivals
        /\ ti'[c].addr # Null => ti'[c].by = c
        /\ \A d \in Callers : d # c => ti'[d] = ti[d]
    BY <1>10 DEF task_info_alloc, Goto, MaybeEntries
  <2>2. DuplicatesNeedOverlap'
    BY <2>1
  <2>3. ASSUME NEW d \in Callers, NEW e \in list, Pending(d, e.pid)'
        PROVE  /\ d # e.by /\ d \in Users /\ e.by \in Users
               /\ d \in e.rivals /\ e.by \in ti'[d].rivals
    <3>1. Pending(d, e.pid) /\ ti'[d].rivals = ti[d].rivals
      BY <2>1, <2>3
    <3> QED
      BY <3>1
  <2>4. ASSUME NEW d \in Callers, Holds(d)' PROVE ti'[d].by = d
    BY <2>1, <2>4
  <2>5. ASSUME NEW b \in Callers, NEW d \in Callers, b # d,
               Pending(b, ti[d].pid)', Pending(d, ti[d].pid)'
        PROVE  d \in ti'[b].rivals
    <3>1. ti'[b].rivals = ti[b].rivals /\ ti'[b].pid = ti[b].pid /\ ti'[d].pid = ti[d].pid
      BY <2>1
    <3>2. Pending(b, ti[d].pid) /\ Pending(d, ti[d].pid)
      BY <2>1, <2>5, <3>1
    <3> QED
      BY <2>5, <3>1, <3>2
  <2> QED
    BY <2>1, <2>2, <2>3, <2>4, <2>5
<1>11. ASSUME NEW c \in Callers, Insert(c) PROVE (DuplicatesNeedOverlap /\ PendingInv)'
  <2>1. PICK r \in Entries :
          /\ r.pid = ti[c].pid /\ r.by = ti[c].by /\ r.rivals = ti[c].rivals
          /\ list' = list \cup {r}
    BY <1>11, InsertEffect
  <2>2. /\ pc[c] = "insert" /\ ti[c].addr # Null /\ pc' = [pc EXCEPT ![c] = "add"]
        /\ \A d \in Callers : d # c => ti'[d] = ti[d]
    BY <1>11 DEF Insert, Goto
  <2>3. r.by = c
    BY <2>1, <2>2
  <2>4. DuplicatesNeedOverlap'
    <3>1. ASSUME NEW e \in list, e.pid = r.pid
          PROVE  /\ e.by # c /\ e.by \in Users /\ c \in Users
                 /\ c \in e.rivals /\ e.by \in r.rivals
      BY <2>1, <2>2, <3>1
    <3> QED
      BY <2>1, <2>3, <3>1
  <2>5. ASSUME NEW d \in Callers, Pending(d, r.pid)'
        PROVE  /\ d # c /\ d \in Users /\ c \in Users
               /\ d \in r.rivals /\ c \in ti'[d].rivals
    <3>1. d # c /\ Pending(d, r.pid) /\ Pending(c, r.pid) /\ ti'[d] = ti[d]
      BY <2>1, <2>2, <2>5
    <3>2. d \in Users /\ c \in Users
      BY <3>1 DEF ModInv
    <3>3. d \in ti[c].rivals /\ c \in ti[d].rivals
      BY <2>1, <3>1
    <3> QED
      BY <2>1, <3>1, <3>2, <3>3
  <2>6. ASSUME NEW d \in Callers, NEW e \in list, Pending(d, e.pid)'
        PROVE  /\ d # e.by /\ d \in Users /\ e.by \in Users
               /\ d \in e.rivals /\ e.by \in ti'[d].rivals
    BY <2>2, <2>6
  <2>7. ASSUME NEW b \in Callers, NEW d \in Callers, b # d,
               Pending(b, ti[d].pid)', Pending(d, ti[d].pid)'
        PROVE  d \in ti'[b].rivals
    BY <2>2, <2>7
  <2>8. \A d \in Callers : Holds(d)' => ti'[d].by = d
    BY <2>2
  <2> QED
    BY <2>1, <2>3, <2>4, <2>5, <2>6, <2>7, <2>8
<1>12. ASSUME NEW c \in Callers, InsertNull(c) PROVE (DuplicatesNeedOverlap /\ PendingInv)'
  BY <1>12 DEF InsertNull, Goto
<1>13. CASE Tick
  BY <1>13 DEF Tick
<1>14. CASE UNCHANGED vars
  BY <1>14 DEF vars
<1> QED
  BY <1>1, <1>2, <1>3, <1>4, <1>5, <1>6, <1>7, <1>8, <1>9, <1>10, <1>11, <1>12, <1>13, <1>14
     DEF Next, AddSteps

\* Every step keeps the heap equal to what is listed and what is held.
LEMMA HeapStep == LInv /\ [Next]_vars => (NoLeakNoDangling /\ HeldInv)'
<1> SUFFICES ASSUME LInv, [Next]_vars PROVE (NoLeakNoDangling /\ HeldInv)'
  OBVIOUS
<1> USE ListAssumption DEF LInv, TypeOK, Callers, NoLeakNoDangling, HeldInv, Addresses, Holds
<1>1. CASE list_sync_init
  <2>1. list = {} /\ pc[Self] = "out"
    BY <1>1 DEF list_sync_init, ModInv
  <2> QED
    BY <1>1, <2>1 DEF list_sync_init
<1>2. CASE list_sync_live
  BY <1>2 DEF list_sync_live, Goto
<1>3. CASE list_sync_exit
  BY <1>3 DEF list_sync_exit, RemoveExpired
<1>4. CASE task_info_purge_list
  BY <1>4 DEF task_info_purge_list
<1>5. ASSUME NEW u \in Users, list_test_init(u) PROVE (NoLeakNoDangling /\ HeldInv)'
  BY <1>5 DEF list_test_init, Goto
<1>6. ASSUME NEW u \in Users, list_test_live(u) PROVE (NoLeakNoDangling /\ HeldInv)'
  BY <1>6 DEF list_test_live, Goto
<1>7. ASSUME NEW u \in Users, list_test_exit(u) PROVE (NoLeakNoDangling /\ HeldInv)'
  BY <1>7 DEF list_test_exit, RemoveExpired, Goto
<1>8. ASSUME NEW c \in Callers, Refresh(c) PROVE (NoLeakNoDangling /\ HeldInv)'
  <2>1. PICK e \in list, r \in Entries :
          r.addr = e.addr /\ list' = (list \ {e}) \cup {r}
    BY <1>8, RefreshEffect
  <2>2. Addresses(list') = Addresses(list)
    BY <2>1
  <2>3. /\ heap' = heap /\ ti' = ti /\ pc' = pc
    BY <1>8 DEF Refresh
  <2>4. \A f, g \in list' : f.addr = g.addr => f = g
    BY <2>1
  <2>5. \A d \in Callers : Holds(d)' => ti'[d].addr \notin Addresses(list')
    BY <2>2, <2>3
  <2> HIDE DEF Addresses
  <2> QED
    BY <2>2, <2>3, <2>4, <2>5
<1>9. ASSUME NEW c \in Callers, Missing(c) PROVE (NoLeakNoDangling /\ HeldInv)'
  <2>1. /\ pc[c] = "add" /\ pc' = [pc EXCEPT ![c] = "alloc"]
        /\ list' = list /\ heap' = heap
        /\ \A d \in Callers : d # c => ti'[d].addr = ti[d].addr
    BY <1>9, MissingEffect
  <2>2. /\ ~Holds(c) /\ ~Holds(c)'
        /\ \A d \in Callers : d # c => (Holds(d)' <=> Holds(d))
    BY <2>1
  <2> HIDE DEF Holds
  <2>3. heap' = Addresses(list') \cup {ti'[d].addr : d \in {b \in Callers : Holds(b)'}}
    BY <2>1, <2>2
  <2>4. HeldInv'
    BY <2>1, <2>2
  <2> QED
    BY <2>1, <2>2, <2>3, <2>4
<1>10. ASSUME NEW c \in Callers, task_info_alloc(c) PROVE (NoLeakNoDangling /\ HeldInv)'
  <2>1. /\ pc[c] = "alloc" /\ pc' = [pc EXCEPT ![c] = "insert"] /\ list' = list
        /\ \A d \in Callers : d # c => ti'[d] = ti[d]
    BY <1>10 DEF task_info_alloc, Goto
  <2>2. \A d \in Callers : d # c => (Holds(d)' <=> Holds(d))
    BY <2>1
  <2>3. ~Holds(c)
    BY <2>1
  <2>4. CASE heap' = heap /\ ti' = [ti EXCEPT ![c].addr = Null]
    <3>1. ~Holds(c)'
      BY <2>1, <2>4 DEF MaybeEntries
    <3> HIDE DEF Holds, Addresses
    <3> QED
      BY <2>1, <2>2, <2>3, <2>4, <3>1
  <2>5. CASE \E a \in Addrs \ heap : heap' = heap \cup {a} /\ ti'[c].addr = a
    <3>1. PICK a \in Addrs \ heap : heap' = heap \cup {a} /\ ti'[c].addr = a
      BY <2>5
    <3>2. Holds(c)'
      BY <2>1, <3>1
    <3> HIDE DEF Holds
    <3>3. heap' = Addresses(list') \cup {ti'[d].addr : d \in {b \in Callers : Holds(b)'}}
      BY <2>1, <2>2, <2>3, <3>1, <3>2
    <3>4. HeldInv'
      BY <2>1, <2>2, <2>3, <3>1, <3>2
    <3> QED
      BY <2>1, <2>2, <2>3, <3>1, <3>2, <3>3, <3>4
  <2> QED
    BY <1>10, <2>1, <2>4, <2>5 DEF task_info_alloc
<1>11. ASSUME NEW c \in Callers, Insert(c) PROVE (NoLeakNoDangling /\ HeldInv)'
  <2>1. PICK r \in Entries : r.addr = ti[c].addr /\ list' = list \cup {r}
    BY <1>11, InsertEffect
  <2>2. /\ pc[c] = "insert" /\ ti[c].addr # Null /\ pc' = [pc EXCEPT ![c] = "add"]
        /\ heap' = heap /\ \A d \in Callers : d # c => ti'[d] = ti[d]
    BY <1>11 DEF Insert, Goto
  <2>3. /\ Holds(c) /\ ~Holds(c)'
        /\ \A d \in Callers : d # c => (Holds(d)' <=> Holds(d))
    BY <2>2
  <2> HIDE DEF Holds
  <2>4. Addresses(list') = Addresses(list) \cup {ti[c].addr}
    BY <2>1
  <2>5. heap' = Addresses(list') \cup {ti'[d].addr : d \in {b \in Callers : Holds(b)'}}
    BY <2>2, <2>3, <2>4
  <2>6. \A f, g \in list' : f.addr = g.addr => f = g
    BY <2>1, <2>3
  <2>7. \A d \in Callers : Holds(d)' => ti'[d].addr \notin Addresses(list')
    <3> HIDE DEF Addresses
    <3> QED
      BY <2>2, <2>3, <2>4
  <2>8. HeldInv'
    BY <2>2, <2>3
  <2> QED
    BY <2>5, <2>6, <2>7, <2>8
<1>12. ASSUME NEW c \in Callers, InsertNull(c) PROVE (NoLeakNoDangling /\ HeldInv)'
  BY <1>12 DEF InsertNull, Goto
<1>13. CASE Tick
  BY <1>13 DEF Tick
<1>14. CASE UNCHANGED vars
  BY <1>14 DEF vars
<1> QED
  BY <1>1, <1>2, <1>3, <1>4, <1>5, <1>6, <1>7, <1>8, <1>9, <1>10, <1>11, <1>12, <1>13, <1>14
     DEF Next, AddSteps

\* Every step keeps timestamps equal to the clock they were read from.
LEMMA StampStep == LInv /\ [Next]_vars => StampInv'
<1> SUFFICES ASSUME LInv, [Next]_vars PROVE StampInv'
  OBVIOUS
<1> USE ListAssumption DEF LInv, TypeOK, Callers, StampInv, Stamped, Holds
<1>1. CASE list_sync_init
  BY <1>1 DEF list_sync_init
<1>2. CASE list_sync_live
  BY <1>2 DEF list_sync_live, Goto
<1>3. CASE list_sync_exit
  BY <1>3 DEF list_sync_exit, RemoveExpired
<1>4. CASE task_info_purge_list
  BY <1>4 DEF task_info_purge_list
<1>5. ASSUME NEW u \in Users, list_test_init(u) PROVE StampInv'
  BY <1>5 DEF list_test_init, Goto
<1>6. ASSUME NEW u \in Users, list_test_live(u) PROVE StampInv'
  BY <1>6 DEF list_test_live, Goto
<1>7. ASSUME NEW u \in Users, list_test_exit(u) PROVE StampInv'
  BY <1>7 DEF list_test_exit, RemoveExpired, Goto
<1>8. ASSUME NEW c \in Callers, Refresh(c) PROVE StampInv'
  <2>1. PICK e \in list, r \in Entries :
          r.timestamp = jiffies /\ r.born = now /\ list' = (list \ {e}) \cup {r}
    BY <1>8, RefreshEffect
  <2>2. now' = now /\ ti' = ti /\ pc' = pc
    BY <1>8 DEF Refresh
  <2> QED
    BY <2>1, <2>2 DEF jiffies
<1>9. ASSUME NEW c \in Callers, Missing(c) PROVE StampInv'
  <2>1. /\ pc' = [pc EXCEPT ![c] = "alloc"] /\ list' = list /\ now' = now
        /\ \A d \in Callers : d # c =>
             /\ ti'[d].addr = ti[d].addr
             /\ ti'[d].timestamp = ti[d].timestamp /\ ti'[d].born = ti[d].born
    BY <1>9, MissingEffect
  <2> QED
    BY <2>1
<1>10. ASSUME NEW c \in Callers, task_info_alloc(c) PROVE StampInv'
  <2>1. /\ pc' = [pc EXCEPT ![c] = "insert"] /\ list' = list /\ now' = now
        /\ \A d \in Callers : d # c => ti'[d] = ti[d]
        /\ ti'[c].addr # Null => ti'[c].timestamp = jiffies /\ ti'[c].born = now
    BY <1>10 DEF task_info_alloc, Goto, MaybeEntries
  <2> QED
    BY <2>1 DEF jiffies
<1>11. ASSUME NEW c \in Callers, Insert(c) PROVE StampInv'
  <2>1. PICK r \in Entries :
          /\ r.timestamp = ti[c].timestamp /\ r.born = ti[c].born
          /\ list' = list \cup {r}
    BY <1>11, InsertEffect
  <2>2. /\ pc[c] = "insert" /\ ti[c].addr # Null /\ pc' = [pc EXCEPT ![c] = "add"]
        /\ now' = now /\ \A d \in Callers : d # c => ti'[d] = ti[d]
    BY <1>11 DEF Insert, Goto
  <2>3. Stamped(r)
    BY <2>1, <2>2
  <2> QED
    BY <2>1, <2>2, <2>3
<1>12. ASSUME NEW c \in Callers, InsertNull(c) PROVE StampInv'
  BY <1>12 DEF InsertNull, Goto
<1>13. CASE Tick
  <2>1. /\ now' = now + 1 /\ list' = list /\ ti' = ti /\ pc' = pc
    BY <1>13 DEF Tick
  <2>2. \A e \in list : e.born \in Nat
    BY DEF Entries
  <2>3. \A d \in Callers : ti[d].born \in Nat
    BY DEF MaybeEntries
  <2> QED
    BY <2>1, <2>2, <2>3
<1>14. CASE UNCHANGED vars
  BY <1>14 DEF vars
<1> QED
  BY <1>1, <1>2, <1>3, <1>4, <1>5, <1>6, <1>7, <1>8, <1>9, <1>10, <1>11, <1>12, <1>13, <1>14
     DEF Next, AddSteps

-----------------------------------------------------------------------------
(***************************************************************************)
(* The theorems.                                                           *)
(***************************************************************************)
\* LInv holds in every reachable state.
LEMMA LInvInvariant == Spec => []LInv
<1>1. LInv /\ [Next]_vars => LInv'
  BY TypeStep, ModStep, OverlapStep, HeapStep, StampStep DEF LInv
<1> QED
  BY InitLInv, <1>1, PTL DEF Spec

\* Type correctness of list_sync.c.
THEOREM TypeCorrect == Spec => []TypeOK
<1>1. LInv => TypeOK
  BY DEF LInv
<1> QED
  BY LInvInvariant, <1>1, PTL

\* A pid is listed twice only by two different user modules that both were
\* between their search and their insertion, however many modules use the list.
THEOREM DuplicatesBounded == Spec => []DuplicatesNeedOverlap
<1>1. LInv => DuplicatesNeedOverlap
  BY DEF LInv
<1> QED
  BY LInvInvariant, <1>1, PTL

\* With a single user, as with list_test alone, every pid is listed once: the
\* lock dropped between search and insertion does no harm then.
THEOREM UniqueForOneUser ==
  ASSUME \A u, v \in Users : u = v
  PROVE  Spec => [](\A e, f \in list : e.pid = f.pid => e = f)
<1>1. LInv => \A e, f \in list : e.pid = f.pid => e = f
  BY DEF LInv, DuplicatesNeedOverlap
<1> QED
  BY LInvInvariant, <1>1, PTL

\* list_sync.c neither leaks a task_info nor keeps one that was freed.
THEOREM MemorySafe == Spec => []NoLeakNoDangling
<1>1. LInv => NoLeakNoDangling
  BY DEF LInv
<1> QED
  BY LInvInvariant, <1>1, PTL

\* list_sync_exit leaves nothing behind.
THEOREM CleanUnload == Spec => []UnloadedIsClean
<1>1. LInv => UnloadedIsClean
  <2> SUFFICES ASSUME LInv, mod = "out"
               PROVE  list = {} /\ heap = {} /\ \A c \in Callers : pc[c] = "out"
    BY DEF UnloadedIsClean
  <2>1. list = {} /\ \A c \in Callers : pc[c] = "out"
    BY DEF LInv, ModInv, Callers
  <2> QED
    BY <2>1 DEF LInv, NoLeakNoDangling, Addresses, Holds
<1> QED
  BY LInvInvariant, <1>1, PTL

\* Ages computed from wrapped clocks never exceed the real age.
LEMMA WrappedAge ==
  ASSUME NEW a \in Nat, NEW b \in Nat, b <= a
  PROVE  ((a % Wrap) - (b % Wrap)) % Wrap <= a - b
<1> DEFINE q == a \div Wrap
           k == b \div Wrap
           x == a % Wrap
           y == b % Wrap
<1> USE ListAssumption
<1>1. /\ q \in Nat /\ k \in Nat /\ x \in 0 .. Wrap - 1 /\ y \in 0 .. Wrap - 1
      /\ a = Wrap * q + x /\ b = Wrap * k + y
  OBVIOUS
<1> HIDE DEF q, k, x, y
<1>2. k <= q
  <2> SUFFICES ASSUME q + 1 <= k PROVE FALSE
    BY <1>1
  <2>1. Wrap * (q + 1) <= Wrap * k
    BY <1>1
  <2> QED
    BY <1>1, <2>1
<1>3. CASE y <= x
  <2>1. (x - y) % Wrap = x - y
    BY <1>1, <1>3
  <2>2. Wrap * k <= Wrap * q
    BY <1>1, <1>2
  <2> QED
    BY <1>1, <2>1, <2>2 DEF x, y
<1>4. CASE x < y
  <2>1. (x - y) % Wrap = x - y + Wrap
    BY <1>1, <1>4
  <2>2. k + 1 <= q
    <3> SUFFICES ASSUME k = q PROVE FALSE
      BY <1>1, <1>2
    <3> QED
      BY <1>1, <1>4
  <2>3. Wrap * k + Wrap <= Wrap * q
    <3>1. Wrap * (k + 1) <= Wrap * q
      BY <1>1, <2>2
    <3> QED
      BY <1>1, <3>1
  <2> QED
    BY <1>1, <2>1, <2>3 DEF x, y
<1> QED
  BY <1>1, <1>3, <1>4

\* task_info_remove_expired never removes an entry that is not old enough, for
\* any width of jiffies and however often it has wrapped.
THEOREM ExpiryCorrect == Spec => OnlyExpiredRemoved
<1> DEFINE Fair(e) == mod # "purge" /\ e.addr \notin Addresses(list')
                        => now - e.born > Expiry /\ e.count < KeepCount
<1>1. ASSUME LInv, NEW e \in list, Expired(e)
      PROVE  now - e.born > Expiry /\ e.count < KeepCount
  <2>1. e.timestamp = e.born % Wrap /\ e.born <= now /\ e.born \in Nat /\ now \in Nat
    BY <1>1 DEF LInv, StampInv, Stamped, TypeOK, Entries
  <2>2. (jiffies - e.timestamp) % Wrap <= now - e.born
    BY <2>1, WrappedAge DEF jiffies
  <2>3. (jiffies - e.timestamp) % Wrap \in Int
    BY <2>1, ListAssumption DEF jiffies
  <2> QED
    BY <1>1, <2>1, <2>2, <2>3, ListAssumption DEF Expired
<1>2. ASSUME LInv, [Next]_vars, NEW e \in list PROVE Fair(e)
  <2> USE <1>2 DEF Addresses
  <2>1. CASE list_sync_init
    BY <2>1 DEF list_sync_init, LInv, ModInv
  <2>2. CASE list_sync_exit
    BY <2>2, <1>1 DEF list_sync_exit, RemoveExpired
  <2>3. CASE task_info_purge_list
    BY <2>3 DEF task_info_purge_list
  <2>4. CASE \E u \in Users : list_test_exit(u)
    BY <2>4, <1>1 DEF list_test_exit, RemoveExpired
  <2>5. CASE \E c \in Callers : Refresh(c)
    BY <2>5, RefreshEffect DEF LInv
  <2>6. CASE \E c \in Callers : Insert(c)
    BY <2>6, InsertEffect DEF LInv
  <2>7. CASE list' = list
    BY <2>7
  <2> QED
    BY <2>1, <2>2, <2>3, <2>4, <2>5, <2>6, <2>7
       DEF Next, AddSteps, vars, list_sync_live, list_test_init, list_test_live,
           Missing, task_info_alloc, InsertNull, Tick
<1>3. LInv /\ [Next]_vars
        => [\A e \in list : Fair(e)]_vars
  BY <1>2
<1> QED
  BY LInvInvariant, <1>3, PTL DEF Spec, OnlyExpiredRemoved
=============================================================================
