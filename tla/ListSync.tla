------------------------------- MODULE ListSync ------------------------------
(***************************************************************************)
(* The task list of src/kernel_api/kernel_lists: list_sync, which keeps it *)
(* under a spinlock and exports task_info_add_for_current and              *)
(* task_info_remove_expired, and the modules that use these symbols.  Each *)
(* user does what list_test does: it adds to the list when it is loaded    *)
(* and removes the expired entries when it is unloaded.  The kernel loads  *)
(* and unloads different modules concurrently, and keeps list_sync in      *)
(* place while a module that uses its symbols is loaded.                   *)
(*                                                                         *)
(* Every critical section of list_sync is one action: all of its callers   *)
(* are processes and take the same spinlock.  What lies between two of     *)
(* them is not atomic, in particular the allocation in                     *)
(* task_info_add_to_list.                                                  *)
(***************************************************************************)
EXTENDS Integers

CONSTANTS Users,     \* the modules that call the exported functions
          Self,      \* list_sync itself, which fills the list when loaded
          Pids,      \* process identifiers
          Addrs,     \* addresses kmalloc can return
          Null,      \* the null pointer: what kmalloc returns when it fails
          Adds,      \* calls of task_info_add_to_list in one add (4)
          Expiry,    \* age in jiffies after which an entry expires (3 * HZ)
          KeepCount, \* an entry used this often never expires (5)
          Wrap,      \* jiffies counts modulo Wrap (2^64)
          IntMax,    \* the largest value of an atomic_t (2^31 - 1)
          MaxTime    \* bound: the clock stops here

ASSUME ListAssumption ==
  /\ Self \notin Users
  /\ Null \notin Addrs
  /\ Adds \in Nat /\ Expiry \in Nat /\ KeepCount \in Nat /\ MaxTime \in Nat
  /\ IntMax \in Nat
  /\ Wrap \in Nat \ {0}

VARIABLES
  list,   \* the entries of the list, each with its place in it
  heap,   \* addresses of the task_info structures allocated and not freed
  now,    \* real time, in jiffies since boot
  stuck,  \* a caller died between spin_lock and spin_unlock
  mod,    \* life cycle of list_sync
  pc,     \* pc[c]: where caller c is
  left,   \* left[c]: calls of task_info_add_to_list c has still to make
  ti      \* ti[c]: the entry c has allocated, while pc[c] = "insert"

vars == <<list, heap, now, stuck, mod, pc, left, ti>>

Callers == Users \cup {Self}

jiffies == now % Wrap

\* A task_info structure at address addr.  pos is its place: the head of the
\* list has the highest.  The last three fields are not in the code, they record
\* who added the entry, which callers were between their search for the pid and
\* its insertion at the same time as that one, and when, in real time, the
\* timestamp was last set.
Entries == [addr : Addrs, pid : Pids, timestamp : 0 .. Wrap - 1,
            count : -IntMax - 1 .. IntMax, pos : Nat,
            by : Callers, rivals : SUBSET Callers, born : Nat]

\* What ti[c] is while the caller has no entry in hand.
NoEntry == [addr |-> Null, pid |-> Null, timestamp |-> 0, count |-> 0,
            pos |-> 0, by |-> Self, rivals |-> {}, born |-> 0]

MaybeEntries == [addr : Addrs \cup {Null}, pid : Pids \cup {Null},
                 timestamp : 0 .. Wrap - 1, count : -IntMax - 1 .. IntMax,
                 pos : Nat, by : Callers, rivals : SUBSET Callers, born : Nat]

Goto(c, from, to) == pc[c] = from /\ pc' = [pc EXCEPT ![c] = to]

Addresses(entries) == {e.addr : e \in entries}

\* The places next to those in use; the one above all entries is the head.
NextTo == {1} \cup {e.pos + 1 : e \in list}

IsHead(n) == \A e \in list : e.pos < n

-----------------------------------------------------------------------------
(***************************************************************************)
(* task_info_add_to_list: look for the pid under the lock; when it is not  *)
(* there, drop the lock, allocate, and insert under the lock again.        *)
(***************************************************************************)
\* An atomic_t is a signed int and wraps.
AtomicInc(n) == IF n = IntMax THEN -IntMax - 1 ELSE n + 1

\* task_info_find_pid walks from the head: it returns the newest entry of p.
IsFound(e, p) ==
  /\ e \in list
  /\ e.pid = p
  /\ \A f \in list : f.pid = p => f.pos <= e.pos

\* The entry is there: its timestamp and its count are brought up to date.
Refresh(c) ==
  /\ ~stuck
  /\ left[c] > 0
  /\ pc[c] = "add"
  /\ \E p \in Pids, e \in list :
       /\ IsFound(e, p)
       /\ list' = (list \ {e}) \cup {[e EXCEPT !.timestamp = jiffies, !.born = now,
                                               !.count = AtomicInc(@)]}
  /\ left' = [left EXCEPT ![c] = @ - 1]
  /\ UNCHANGED <<heap, now, stuck, mod, pc, ti>>

\* A caller between its failed search and its insertion, and for which pid.
Pending(c, p) == pc[c] \in {"alloc", "insert"} /\ ti[c].pid = p

\* c has missed p: it and the callers that are on their way to insert p have
\* met, which their entries record.
Missed(c, p) ==
  ti' = [d \in Callers |->
           IF d = c THEN [ti[c] EXCEPT !.pid = p,
                            !.rivals = {r \in Callers \ {c} : Pending(r, p)}]
           ELSE IF Pending(d, p) THEN [ti[d] EXCEPT !.rivals = @ \cup {c}]
           ELSE ti[d]]

\* Faulty variant: the search sees only the entries that the caller added.
MissingOthers(c) ==
  /\ ~stuck
  /\ left[c] > 0
  /\ Goto(c, "add", "alloc")
  /\ \E p \in Pids : (\A e \in list : e.by = c => e.pid # p) /\ Missed(c, p)
  /\ UNCHANGED <<list, heap, now, stuck, mod, left>>

\* Faulty variant: the lock is not dropped before the allocation.
MissingKeepsLock(c) ==
  /\ ~stuck
  /\ left[c] > 0
  /\ Goto(c, "add", "alloc")
  /\ \E p \in Pids : (\A e \in list : e.pid # p) /\ Missed(c, p)
  /\ stuck' = TRUE
  /\ UNCHANGED <<list, heap, now, mod, left>>

\* The entry is not there: remember the pid and drop the lock.
Missing(c) ==
  /\ ~stuck
  /\ left[c] > 0
  /\ Goto(c, "add", "alloc")
  /\ \E p \in Pids : (\A e \in list : e.pid # p) /\ Missed(c, p)
  /\ UNCHANGED <<list, heap, now, stuck, mod, left>>

\* Faulty variant: the pid is not stored, and the entry has what was in the memory.
task_info_allocNoPid(c) ==
  /\ Goto(c, "alloc", "insert")
  /\ \/ \E a \in Addrs \ heap :
          /\ heap' = heap \cup {a}
          /\ ti' = [ti EXCEPT ![c] = [addr |-> a, pid |-> Null, timestamp |-> jiffies,
                                      count |-> 0, pos |-> 0, by |-> c,
                                      rivals |-> ti[c].rivals, born |-> now]]
     \/ /\ ti' = [ti EXCEPT ![c].addr = Null]
        /\ UNCHANGED heap
  /\ UNCHANGED <<list, now, stuck, mod, left>>

\* task_info_alloc, which may fail.
task_info_alloc(c) ==
  /\ Goto(c, "alloc", "insert")
  /\ \/ \E a \in Addrs \ heap :
          /\ heap' = heap \cup {a}
          /\ ti' = [ti EXCEPT ![c] = [addr |-> a, pid |-> ti[c].pid, timestamp |-> jiffies,
                                      count |-> 0, pos |-> 0, by |-> c,
                                      rivals |-> ti[c].rivals, born |-> now]]
     \/ /\ ti' = [ti EXCEPT ![c].addr = Null]
        /\ UNCHANGED heap
  /\ UNCHANGED <<list, now, stuck, mod, left>>

\* list_add under the lock.  The code does not test for a failed allocation:
\* list_add through the null pointer kills the caller with the lock taken.
Insert(c) ==
  /\ ~stuck
  /\ ti[c].addr # Null
  /\ Goto(c, "insert", "add")
  /\ \E n \in NextTo : IsHead(n) /\ list' = list \cup {[ti[c] EXCEPT !.pos = n]}
  /\ ti' = [ti EXCEPT ![c] = NoEntry]
  /\ left' = [left EXCEPT ![c] = @ - 1]
  /\ UNCHANGED <<heap, now, stuck, mod>>

InsertNull(c) ==
  /\ ~stuck
  /\ ti[c].addr = Null
  /\ Goto(c, "insert", "dead")
  /\ stuck' = TRUE
  /\ UNCHANGED <<list, heap, now, mod, left, ti>>

-----------------------------------------------------------------------------
(***************************************************************************)
(* task_info_remove_expired: the age is computed in unsigned arithmetic.   *)
(***************************************************************************)
\* Faulty variant: the deadline is compared with jiffies, as if neither wrapped.
ExpiredByDeadline(e) ==
  /\ (e.timestamp + Expiry) % Wrap < jiffies
  /\ e.count < KeepCount

Expired(e) ==
  /\ (jiffies - e.timestamp) % Wrap > Expiry
  /\ e.count < KeepCount

\* Faulty variant: the entries are unlinked and not freed.
RemoveExpiredNoFree ==
  /\ ~stuck
  /\ list' = {e \in list : ~Expired(e)}
  /\ UNCHANGED heap

RemoveExpired ==
  /\ ~stuck
  /\ list' = {e \in list : ~Expired(e)}
  /\ heap' = heap \ Addresses({e \in list : Expired(e)})

-----------------------------------------------------------------------------
(***************************************************************************)
(* The modules.  A load and an unload end with task_info_print_list, which *)
(* takes the lock and changes nothing.                                     *)
(***************************************************************************)
list_sync_init ==
  /\ mod = "out"
  /\ mod' = "init"
  /\ list' = {}
  /\ pc' = [pc EXCEPT ![Self] = "add"]
  /\ left' = [left EXCEPT ![Self] = Adds]
  /\ UNCHANGED <<heap, now, stuck, ti>>

\* list_sync_init prints the list, sleeps and returns.
list_sync_live ==
  /\ ~stuck
  /\ mod = "init"
  /\ left[Self] = 0
  /\ Goto(Self, "add", "out")
  /\ mod' = "live"
  /\ UNCHANGED <<list, heap, now, stuck, left, ti>>

\* rmmod of list_sync, refused while a module that uses its symbols is loaded.
list_sync_exit ==
  /\ mod = "live"
  /\ \A u \in Users : pc[u] = "out"
  /\ RemoveExpired
  /\ mod' = "purge"
  /\ UNCHANGED <<now, stuck, pc, left, ti>>

\* Faulty variant: the entries are freed and left on the list.
task_info_purge_listNoUnlink ==
  /\ ~stuck
  /\ mod = "purge"
  /\ heap' = heap \ Addresses(list)
  /\ mod' = "out"
  /\ UNCHANGED <<list, now, stuck, pc, left, ti>>

\* task_info_purge_list.
task_info_purge_list ==
  /\ ~stuck
  /\ mod = "purge"
  /\ list' = {}
  /\ heap' = heap \ Addresses(list)
  /\ mod' = "out"
  /\ UNCHANGED <<now, stuck, pc, left, ti>>

list_test_init(u) ==
  /\ mod = "live"
  /\ Goto(u, "out", "add")
  /\ left' = [left EXCEPT ![u] = Adds]
  /\ UNCHANGED <<list, heap, now, stuck, mod, ti>>

list_test_live(u) ==
  /\ ~stuck
  /\ left[u] = 0
  /\ Goto(u, "add", "in")
  /\ UNCHANGED <<list, heap, now, stuck, mod, left, ti>>

list_test_exit(u) ==
  /\ Goto(u, "in", "out")
  /\ RemoveExpired
  /\ UNCHANGED <<now, stuck, mod, left, ti>>

Tick ==
  /\ now < MaxTime
  /\ now' = now + 1
  /\ UNCHANGED <<list, heap, stuck, mod, pc, left, ti>>

-----------------------------------------------------------------------------
Init ==
  /\ list = {}
  /\ heap = {}
  /\ now = 0
  /\ stuck = FALSE
  /\ mod = "out"
  /\ pc = [c \in Callers |-> "out"]
  /\ left = [c \in Callers |-> 0]
  /\ ti = [c \in Callers |-> NoEntry]

AddSteps(c) ==
  Refresh(c) \/ Missing(c) \/ task_info_alloc(c) \/ Insert(c) \/ InsertNull(c)

Next ==
  \/ list_sync_init \/ list_sync_live \/ list_sync_exit \/ task_info_purge_list
  \/ \E u \in Users : list_test_init(u) \/ list_test_live(u) \/ list_test_exit(u)
  \/ \E c \in Callers : AddSteps(c)
  \/ Tick

Spec == Init /\ [][Next]_vars

\* A call that has begun goes on, and the kernel's queued spinlocks give the lock
\* to each caller in its turn.  Nothing makes a module load or unload.
FairSpec ==
  /\ Spec
  /\ WF_vars(list_sync_live) /\ WF_vars(task_info_purge_list)
  /\ \A u \in Users : WF_vars(list_test_live(u))
  /\ \A c \in Callers : WF_vars(AddSteps(c))

-----------------------------------------------------------------------------
(***************************************************************************)
(* Properties.                                                             *)
(***************************************************************************)
\* A caller that holds an allocated entry it has not inserted yet.
Holds(c) == pc[c] = "insert" /\ ti[c].addr # Null

\* Every variable of list_sync.c keeps its type.
TypeOK ==
  /\ list \subseteq Entries
  /\ heap \subseteq Addrs
  /\ now \in Nat
  /\ stuck \in BOOLEAN
  /\ mod \in {"out", "init", "live", "purge"}
  /\ pc \in [Callers -> {"out", "add", "alloc", "insert", "in", "dead"}]
  /\ left \in [Callers -> 0 .. Adds]
  /\ ti \in [Callers -> MaybeEntries]
  /\ \A c \in Callers : pc[c] \in {"alloc", "insert"} => ti[c].pid \in Pids

\* task_info_add_to_list drops the lock between its search and its insertion,
\* so a pid can be listed twice; but only by two different user modules, each of
\* which was between its search for this pid and its insertion at the same time
\* as the other.  Without such an overlap, in particular with list_test as the
\* only user, no pid is listed twice.
DuplicatesNeedOverlap ==
  \A e, f \in list : e # f /\ e.pid = f.pid =>
    /\ e.by # f.by /\ {e.by, f.by} \subseteq Users
    /\ e.by \in f.rivals /\ f.by \in e.rivals

\* Every task_info that was allocated and not freed is on the list or about to
\* be inserted, and nothing on the list has been freed or is listed twice.
NoLeakNoDangling ==
  /\ heap = Addresses(list) \cup {ti[c].addr : c \in {d \in Callers : Holds(d)}}
  /\ \A e, f \in list : e.addr = f.addr => e = f
  /\ \A c \in Callers : Holds(c) => ti[c].addr \notin Addresses(list)

\* list_sync_exit frees every entry, and no user is inside its code by then.
UnloadedIsClean ==
  mod = "out" => list = {} /\ heap = {} /\ \A c \in Callers : pc[c] = "out"

\* However often jiffies wraps, an entry leaves the list of a loaded module only
\* when its last use is more than Expiry jiffies back and it was used rarely.
OnlyExpiredRemoved ==
  [][\A e \in list :
       mod # "purge" /\ e.addr \notin Addresses(list') =>
         now - e.born > Expiry /\ e.count < KeepCount]_vars

\* Every load returns and an unload of list_sync ends, however the callers
\* contend for the lock; unless a failed allocation, which
\* task_info_add_to_list does not test for, has killed one of them with the
\* lock taken.
CallsReturn ==
  LET Killed == \E d \in Callers : pc[d] = "dead"
  IN  /\ \A c \in Callers : pc[c] = "add" ~> (pc[c] \in {"in", "out"} \/ Killed)
      /\ mod = "purge" ~> (mod = "out" \/ Killed)
=============================================================================
