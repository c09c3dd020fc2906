---------------------------- MODULE DeferredProofs ----------------------------
(***************************************************************************)
(* Proofs about Deferred: for any number of CPUs, processes and entries    *)
(* and any length of a delay.                                              *)
(***************************************************************************)
EXTENDS Deferred, FiniteSetTheorems, TLAPS

LEMMA UsersAreCpus == Users \subseteq Cpus
BY DeferredAssumption

\* Every delay the ioctls and the handler pass to mod_timer is within the bound.
LEMMA Ticks ==
  /\ MaxTicks \in Nat
  /\ 0 \in 0 .. MaxTicks /\ HZ \in 0 .. MaxTicks
  /\ \A n \in 0 .. MaxDelay : n * HZ \in 0 .. MaxTicks
<1>1. MaxDelay \in Nat \ {0} /\ HZ \in Nat \ {0}
  BY DeferredAssumption
<1>2. MaxTicks \in Nat
  BY <1>1 DEF MaxTicks
<1>3. ASSUME NEW n \in 0 .. MaxDelay
      PROVE  n * HZ \in 0 .. MaxTicks
  BY <1>1 DEF MaxTicks
<1>4. HZ <= MaxDelay * HZ
  BY <1>1
<1> QED BY <1>1, <1>2, <1>3, <1>4 DEF MaxTicks

\* The local variables of the ioctls.
LocalInv == p \in [Cpus -> [addr : Addrs \cup {None}, task : Tasks \cup {None}]]

\* The owner of the lock is the one context in a critical section, and a thread
\* there, or on its way, keeps the handler off its CPU.
LockInv ==
  /\ lock = Softirq <=> hpc = "scan"
  /\ \A c \in Cpus : lock = c <=> pc[c] = "add"
  /\ \A c \in Cpus : pc[c] \in {"spin", "add"} => bhoff[c]

\* Where the handler is, and what it has still to look at.
HandlerInv ==
  /\ hcpu = None <=> hpc = "idle"
  /\ \A c \in Cpus : hcpu = c => ~bhoff[c]
  /\ hpc = "scan" => todo \subseteq list

\* What may be registered, pending and running in each state of the life cycle.
ModInv ==
  /\ mod = "out" => held = {}
  /\ mod = "init_cdev" => held = {"chrdev"}
  /\ mod \in {"out", "init_cdev"} \cup Going => \A c \in Cpus : pc[c] = "closed"
  /\ mod \in Going => held = {}
  /\ mod \in {"out", "init_cdev"} => list = {}
  /\ ready => mod \in {"live"} \cup Going
  /\ ~ready \/ mod \in {"exit_flush", "exit_free"} => timer = None /\ hcpu = None
  /\ mod \in {"out", "init_cdev", "init_class", "init_timer", "exit_free"} =>
       ~work.queued /\ ~work.running

\* Each struct mon_proc belongs to the list or to one ioctl.
OwnerInv ==
  /\ IsFiniteSet(list)
  /\ NoLeakNoDangling
  /\ \A c, d \in Cpus : Holds(c) /\ Holds(d) /\ p[c].addr = p[d].addr => c = d

DInv ==
  /\ TypeOK /\ LocalInv /\ LockInv /\ HandlerInv /\ ModInv /\ OwnerInv /\ RefsBalanced

-----------------------------------------------------------------------------
(***************************************************************************)
(* Counting references.                                                    *)
(***************************************************************************)
Listed(t) == {e \in list : e.task = t}
Holders(t) == {c \in Cpus : Holds(c) /\ p[c].task = t}

LEMMA Counted ==
  ASSUME DInv, NEW t \in Tasks
  PROVE  /\ IsFiniteSet(Listed(t)) /\ IsFiniteSet(Holders(t))
         /\ Cardinality(Listed(t)) \in Nat /\ Cardinality(Holders(t)) \in Nat
         /\ refs[t] = Cardinality(Listed(t)) + Cardinality(Holders(t))
<1>1. IsFiniteSet(Listed(t)) /\ IsFiniteSet(Holders(t))
  <2>1. IsFiniteSet(list) /\ Listed(t) \subseteq list
    BY DEF DInv, OwnerInv, Listed
  <2>2. IsFiniteSet(Cpus) /\ Holders(t) \subseteq Cpus
    BY DeferredAssumption DEF Holders
  <2> QED BY <2>1, <2>2, FS_Subset
<1>2. refs[t] = Cardinality(Listed(t)) + Cardinality(Holders(t))
  BY DEF DInv, RefsBalanced, Listed, Holders
<1> QED BY <1>1, <1>2, FS_CardinalityType

\* A task on the list is referenced, and by as many references as entries.
LEMMA ListedIsReferenced ==
  ASSUME DInv, NEW e \in list
  PROVE  /\ e.task \in Tasks /\ refs[e.task] \in Nat \ {0}
         /\ refs[e.task] = 1 => \A f \in list : f.task = e.task => f = e
<1>1. e.task \in Tasks /\ e \in Listed(e.task)
  BY DEF DInv, TypeOK, Procs, Listed
<1>2. Cardinality(Listed(e.task)) \in Nat \ {0}
  BY <1>1, Counted, FS_EmptySet
<1>3. ASSUME NEW f \in list, f.task = e.task, f # e
      PROVE  refs[e.task] > 1
  <2>1. f \in Listed(e.task) \ {e}
    BY <1>3 DEF Listed
  <2>2. /\ IsFiniteSet(Listed(e.task) \ {e})
        /\ Cardinality(Listed(e.task) \ {e}) = Cardinality(Listed(e.task)) - 1
    BY <1>1, Counted, FS_RemoveElement
  <2>3. Cardinality(Listed(e.task) \ {e}) \in Nat \ {0}
    BY <2>1, <2>2, FS_EmptySet, FS_CardinalityType
  <2> QED BY <1>1, <2>2, <2>3, Counted
<1> QED BY <1>1, <1>2, <1>3, Counted

\* Steps that move no entry and no reference.
LEMMA SameOwners ==
  ASSUME DInv, UNCHANGED <<list, heap, refs>>,
         \A c \in Cpus : /\ Holds(c)' <=> Holds(c)
                         /\ Holds(c) => p'[c] = p[c]
  PROVE  OwnerInv' /\ RefsBalanced'
<1>1. OwnerInv'
  BY DEF DInv, OwnerInv, NoLeakNoDangling
<1>2. \A t \in Tasks : Listed(t)' = Listed(t) /\ Holders(t)' = Holders(t)
  BY DEF Listed, Holders
<1>3. RefsBalanced'
  BY <1>2 DEF DInv, RefsBalanced, Listed, Holders
<1> QED BY <1>1, <1>3

\* HandlerScan and ExitFree drop an entry with its reference.
LEMMA EntryDropped ==
  ASSUME DInv, NEW e \in list, put_task_struct(e.task), UNCHANGED <<pc, p>>,
         list' = list \ {e}, heap' = heap \ {e.addr}
  PROVE  OwnerInv' /\ RefsBalanced'
<1>1. e.task \in Tasks /\ refs \in [Tasks -> Nat]
  BY ListedIsReferenced DEF DInv, TypeOK
<1>2. NoLeakNoDangling'
  <2>1. heap' = {f.addr : f \in list'} \cup {p[c].addr : c \in {d \in Cpus : Holds(d)}}
    BY DEF DInv, OwnerInv, NoLeakNoDangling
  <2> QED BY <2>1 DEF DInv, OwnerInv, NoLeakNoDangling, Holds
<1>3. IsFiniteSet(list')
  BY FS_RemoveElement DEF DInv, OwnerInv
<1>4. OwnerInv'
  BY <1>2, <1>3 DEF DInv, OwnerInv, Holds
<1>5. ASSUME NEW t \in Tasks
      PROVE  refs'[t] = Cardinality(Listed(t)') + Cardinality(Holders(t)')
  <2>1. Holders(t)' = Holders(t)
    BY DEF Holders, Holds
  <2>2. CASE t = e.task
    <3>1. e \in Listed(t) /\ Listed(t)' = Listed(t) \ {e}
      BY <2>2 DEF Listed
    <3>2. Cardinality(Listed(t)') = Cardinality(Listed(t)) - 1
      BY <3>1, Counted, FS_RemoveElement
    <3>3. refs'[t] = refs[t] - 1
      BY <1>1, <2>2 DEF put_task_struct
    <3> QED BY <2>1, <3>2, <3>3, Counted
  <2>3. CASE t # e.task
    <3>1. Listed(t)' = Listed(t)
      BY <2>3 DEF Listed
    <3>2. refs'[t] = refs[t]
      BY <1>1, <2>3 DEF put_task_struct
    <3> QED BY <2>1, <3>1, <3>2, Counted
  <2> QED BY <2>2, <2>3
<1>6. RefsBalanced'
  BY <1>5 DEF RefsBalanced, Listed, Holders
<1> QED BY <1>4, <1>6

\* get_proc allocates an entry and takes its reference.
LEMMA EntryTaken ==
  ASSUME DInv, NEW c \in Cpus, MonGet(c)
  PROVE  OwnerInv' /\ RefsBalanced'
<1> USE DEF DInv
<1>1. PICK a \in Addrs \ heap : /\ heap' = heap \cup {a}
                                /\ p' = [p EXCEPT ![c].addr = a]
  BY DEF MonGet
<1>2. /\ ~Holds(c) /\ Holds(c)' /\ p'[c].addr = a /\ p'[c].task = p[c].task
      /\ p[c].task \in Tasks
      /\ \A d \in Cpus \ {c} : (Holds(d)' <=> Holds(d)) /\ p'[d] = p[d]
      /\ list' = list
  BY <1>1 DEF MonGet, Goto, Holds, TypeOK, LocalInv
<1>3. {p'[d].addr : d \in {x \in Cpus : Holds(x)'}}
        = {p[d].addr : d \in {x \in Cpus : Holds(x)}} \cup {a}
  BY <1>2
<1>4. \A e \in list : e.addr # a
  BY DEF OwnerInv, NoLeakNoDangling
<1>5. \A d \in Cpus : Holds(d) => p[d].addr # a
  BY DEF OwnerInv, NoLeakNoDangling
<1>6. NoLeakNoDangling'
  BY <1>1, <1>2, <1>3, <1>4 DEF OwnerInv, NoLeakNoDangling
<1>7. OwnerInv'
  BY <1>2, <1>5, <1>6 DEF OwnerInv
<1>8. ASSUME NEW t \in Tasks
      PROVE  refs'[t] = Cardinality(Listed(t)') + Cardinality(Holders(t)')
  <2>1. Listed(t)' = Listed(t)
    BY <1>2 DEF Listed
  <2>2. CASE t = p[c].task
    <3>1. c \notin Holders(t) /\ Holders(t)' = Holders(t) \cup {c}
      BY <1>2, <2>2 DEF Holders
    <3>2. Cardinality(Holders(t)') = Cardinality(Holders(t)) + 1
      BY <3>1, Counted, FS_AddElement
    <3>3. refs'[t] = refs[t] + 1
      BY <1>2, <2>2 DEF MonGet, TypeOK
    <3> QED BY <2>1, <3>2, <3>3, Counted
  <2>3. CASE t # p[c].task
    <3>1. Holders(t)' = Holders(t)
      BY <1>2, <2>3 DEF Holders
    <3>2. refs'[t] = refs[t]
      BY <1>2, <2>3 DEF MonGet, TypeOK
    <3> QED BY <2>1, <3>1, <3>2, Counted
  <2> QED BY <2>2, <2>3
<1>9. RefsBalanced'
  BY <1>8 DEF RefsBalanced, Listed, Holders
<1> QED BY <1>7, <1>9

\* list_add hands the entry, and its reference, from the ioctl to the list.
LEMMA EntryListed ==
  ASSUME DInv, NEW c \in Cpus, MonAdd(c)
  PROVE  OwnerInv' /\ RefsBalanced'
<1> USE DEF DInv
<1>1. /\ Holds(c) /\ ~Holds(c)' /\ p[c] \in Procs
      /\ \A d \in Cpus \ {c} : (Holds(d)' <=> Holds(d)) /\ p'[d] = p[d]
      /\ list' = list \cup {p[c]} /\ heap' = heap /\ refs' = refs
  BY DEF MonAdd, Goto, Holds, TypeOK, LocalInv
<1>2. p[c] \notin list
  BY <1>1 DEF OwnerInv, NoLeakNoDangling
<1>3. {p[d].addr : d \in {x \in Cpus : Holds(x)}}
        = {p'[d].addr : d \in {x \in Cpus : Holds(x)'}} \cup {p[c].addr}
  BY <1>1
<1>4. {e.addr : e \in list'} = {e.addr : e \in list} \cup {p[c].addr}
  BY <1>1
<1>5. \A d \in Cpus : Holds(d)' => p'[d].addr # p[c].addr
  BY <1>1 DEF OwnerInv
<1>6. NoLeakNoDangling'
  BY <1>1, <1>3, <1>4, <1>5 DEF OwnerInv, NoLeakNoDangling
<1>7. IsFiniteSet(list')
  BY <1>1, FS_AddElement DEF OwnerInv
<1>8. OwnerInv'
  BY <1>1, <1>6, <1>7 DEF OwnerInv
<1>9. ASSUME NEW t \in Tasks
      PROVE  refs'[t] = Cardinality(Listed(t)') + Cardinality(Holders(t)')
  <2>1. CASE t = p[c].task
    <3>1. p[c] \notin Listed(t) /\ Listed(t)' = Listed(t) \cup {p[c]}
      BY <1>1, <1>2, <2>1 DEF Listed
    <3>2. c \in Holders(t) /\ Holders(t)' = Holders(t) \ {c}
      BY <1>1, <2>1 DEF Holders
    <3>3. Cardinality(Listed(t)') = Cardinality(Listed(t)) + 1
      BY <3>1, Counted, FS_AddElement
    <3>4. Cardinality(Holders(t)') = Cardinality(Holders(t)) - 1
      BY <3>2, Counted, FS_RemoveElement
    <3> QED BY <1>1, <3>3, <3>4, Counted
  <2>2. CASE t # p[c].task
    <3>1. Listed(t)' = Listed(t) /\ Holders(t)' = Holders(t)
      BY <1>1, <2>2 DEF Listed, Holders
    <3> QED BY <1>1, <3>1, Counted
  <2> QED BY <2>1, <2>2
<1>10. RefsBalanced'
  BY <1>9 DEF RefsBalanced, Listed, Holders
<1> QED BY <1>8, <1>10

-----------------------------------------------------------------------------
(***************************************************************************)
(* Every step keeps each part of the invariant.                            *)
(***************************************************************************)

LEMMA TypeStep == ASSUME DInv, Next PROVE TypeOK'
<1> USE DeferredAssumption DEF DInv, device, monitored, thread, handler, module
<1> USE DEF TypeOK, Holds, Procs, NoProc, LocalInv, Going
<1>1. CASE Tick
  BY <1>1, Ticks DEF Tick
<1>2. ASSUME NEW t \in Tasks, TaskExit(t) PROVE TypeOK'
  BY <1>2 DEF TaskExit
<1>3. ASSUME NEW t \in Tasks, TaskReap(t) PROVE TypeOK'
  BY <1>3 DEF TaskReap
<1>4. CASE WorkStart
  BY <1>4 DEF WorkStart
<1>5. CASE work_handler
  <2>1. work' \in [queued : BOOLEAN, running : BOOLEAN]
    BY <1>5 DEF work_handler
  <2> QED BY <1>5, <2>1 DEF work_handler
<1>6. ASSUME NEW c \in Cpus, Expire(c) PROVE TypeOK'
  BY <1>6 DEF Expire
<1>7. CASE HandlerSwitch
  BY <1>7, Ticks DEF HandlerSwitch
<1>8. CASE HandlerLock
  BY <1>8 DEF HandlerLock
<1>9. CASE HandlerScan
  <2>1. todo \subseteq list
    BY <1>9 DEF HandlerScan, HandlerInv
  <2>2. PICK e \in todo :
          \/ /\ put_task_struct(e.task)
             /\ list' = list \ {e} /\ heap' = heap \ {e.addr}
          \/ UNCHANGED monitored
    BY <1>9 DEF HandlerScan
  <2>3. refs' \in [Tasks -> Nat] /\ freed' \subseteq Tasks
    BY <2>1, <2>2, ListedIsReferenced DEF put_task_struct
  <2>4. list' \subseteq Procs /\ heap' \subseteq Addrs /\ todo' \subseteq Procs
    BY <1>9, <2>2 DEF HandlerScan
  <2> QED BY <1>9, <2>3, <2>4 DEF HandlerScan
<1>10. CASE HandlerUnlock
  BY <1>10 DEF HandlerUnlock
<1>11. CASE HandlerRearm
  BY <1>11, Ticks DEF HandlerRearm, mod_timer
<1>12. ASSUME NEW c \in Cpus, deferred_open(c) PROVE TypeOK'
  BY <1>12 DEF deferred_open, Goto
<1>13. ASSUME NEW c \in Cpus, deferred_release(c) PROVE TypeOK'
  BY <1>13 DEF deferred_release, Goto
<1>14. ASSUME NEW c \in Cpus, NEW n \in 0 .. MaxDelay, IoctlSet(c, n) PROVE TypeOK'
  BY <1>14, Ticks DEF IoctlSet, Goto
<1>15. ASSUME NEW c \in Cpus, NEW n \in 0 .. MaxDelay, IoctlAlloc(c, n) PROVE TypeOK'
  BY <1>15, Ticks DEF IoctlAlloc, Goto
<1>16. ASSUME NEW c \in Cpus, IoctlArm(c) PROVE TypeOK'
  BY <1>16, Ticks DEF IoctlArm, Goto, mod_timer
<1>17. ASSUME NEW c \in Cpus, IoctlCancel(c) PROVE TypeOK'
  BY <1>17 DEF IoctlCancel, Goto
<1>18. ASSUME NEW c \in Cpus, CancelDone(c) PROVE TypeOK'
  BY <1>18, Ticks DEF CancelDone, Goto, timer_delete_sync
<1>19. ASSUME NEW c \in Cpus, NEW t \in Tasks, IoctlMon(c, t) PROVE TypeOK'
  BY <1>19 DEF IoctlMon, Goto
<1>20. ASSUME NEW c \in Cpus, MonNoMemory(c) PROVE TypeOK'
  BY <1>20 DEF MonNoMemory, Goto
<1>21. ASSUME NEW c \in Cpus, MonGet(c) PROVE TypeOK'
  BY <1>21 DEF MonGet, Goto
<1>22. ASSUME NEW c \in Cpus, MonBh(c) PROVE TypeOK'
  BY <1>22 DEF MonBh, Goto, BhDisable
<1>23. ASSUME NEW c \in Cpus, MonLock(c) PROVE TypeOK'
  BY <1>23 DEF MonLock, Goto
<1>24. ASSUME NEW c \in Cpus, MonAdd(c) PROVE TypeOK'
  BY <1>24 DEF MonAdd, Goto
<1>25. ASSUME NEW c \in Cpus, MonFlag(c) PROVE TypeOK'
  BY <1>25, Ticks DEF MonFlag, Goto
<1>26. CASE InitRegion
  BY <1>26 DEF InitRegion
<1>27. CASE InitCdev
  BY <1>27 DEF InitCdev
<1>28. CASE InitClass
  BY <1>28 DEF InitClass
<1>29. CASE InitTimer
  BY <1>29 DEF InitTimer
<1>30. CASE Rmmod
  BY <1>30 DEF Rmmod
<1>31. CASE ExitTimer
  BY <1>31 DEF ExitTimer, timer_delete_sync
<1>32. CASE ExitFlush
  BY <1>32 DEF ExitFlush
<1>33. CASE ExitFree
  <2>1. refs' \in [Tasks -> Nat]
    BY <1>33, ListedIsReferenced DEF ExitFree, put_task_struct
  <2> QED BY <1>33, <2>1, ListedIsReferenced DEF ExitFree, put_task_struct
<1>34. CASE ExitDone
  BY <1>34 DEF ExitDone
<1> QED
  BY <1>1, <1>2, <1>3, <1>4, <1>5, <1>6, <1>7, <1>8, <1>9, <1>10, <1>11, <1>12, <1>13,
     <1>14, <1>15, <1>16, <1>17, <1>18, <1>19, <1>20, <1>21, <1>22, <1>23, <1>24, <1>25, <1>26,
     <1>27, <1>28, <1>29, <1>30, <1>31, <1>32, <1>33, <1>34, UsersAreCpus
  DEF Next, WorkSteps, HandlerSteps, Calls, CallSteps, InitSteps, ExitSteps

LEMMA LocalStep == ASSUME DInv, Next PROVE LocalInv'
<1> USE DEF DInv, device, monitored, thread, handler, module
<1> USE DEF LocalInv, TypeOK, NoProc
<1>1. CASE Tick
  BY <1>1 DEF Tick
<1>2. ASSUME NEW t \in Tasks, TaskExit(t) PROVE LocalInv'
  BY <1>2 DEF TaskExit
<1>3. ASSUME NEW t \in Tasks, TaskReap(t) PROVE LocalInv'
  BY <1>3 DEF TaskReap
<1>4. CASE WorkStart
  BY <1>4 DEF WorkStart
<1>5. CASE work_handler
  BY <1>5 DEF work_handler
<1>6. ASSUME NEW c \in Cpus, Expire(c) PROVE LocalInv'
  BY <1>6 DEF Expire
<1>7. CASE HandlerSwitch
  BY <1>7 DEF HandlerSwitch
<1>8. CASE HandlerLock
  BY <1>8 DEF HandlerLock
<1>9. CASE HandlerScan
  BY <1>9 DEF HandlerScan, put_task_struct
<1>10. CASE HandlerUnlock
  BY <1>10 DEF HandlerUnlock
<1>11. CASE HandlerRearm
  BY <1>11 DEF HandlerRearm, mod_timer
<1>12. ASSUME NEW c \in Cpus, deferred_open(c) PROVE LocalInv'
  BY <1>12 DEF deferred_open, Goto
<1>13. ASSUME NEW c \in Cpus, deferred_release(c) PROVE LocalInv'
  BY <1>13 DEF deferred_release, Goto
<1>14. ASSUME NEW c \in Cpus, NEW n \in 0 .. MaxDelay, IoctlSet(c, n) PROVE LocalInv'
  BY <1>14 DEF IoctlSet, Goto
<1>15. ASSUME NEW c \in Cpus, NEW n \in 0 .. MaxDelay, IoctlAlloc(c, n) PROVE LocalInv'
  BY <1>15 DEF IoctlAlloc, Goto
<1>16. ASSUME NEW c \in Cpus, IoctlArm(c) PROVE LocalInv'
  BY <1>16 DEF IoctlArm, Goto, mod_timer
<1>17. ASSUME NEW c \in Cpus, IoctlCancel(c) PROVE LocalInv'
  BY <1>17 DEF IoctlCancel, Goto
<1>18. ASSUME NEW c \in Cpus, CancelDone(c) PROVE LocalInv'
  BY <1>18 DEF CancelDone, Goto, timer_delete_sync
<1>19. ASSUME NEW c \in Cpus, NEW t \in Tasks, IoctlMon(c, t) PROVE LocalInv'
  BY <1>19 DEF IoctlMon, Goto
<1>20. ASSUME NEW c \in Cpus, MonNoMemory(c) PROVE LocalInv'
  BY <1>20 DEF MonNoMemory, Goto
<1>21. ASSUME NEW c \in Cpus, MonGet(c) PROVE LocalInv'
  BY <1>21 DEF MonGet, Goto
<1>22. ASSUME NEW c \in Cpus, MonBh(c) PROVE LocalInv'
  BY <1>22 DEF MonBh, Goto, BhDisable
<1>23. ASSUME NEW c \in Cpus, MonLock(c) PROVE LocalInv'
  BY <1>23 DEF MonLock, Goto
<1>24. ASSUME NEW c \in Cpus, MonAdd(c) PROVE LocalInv'
  BY <1>24 DEF MonAdd, Goto
<1>25. ASSUME NEW c \in Cpus, MonFlag(c) PROVE LocalInv'
  BY <1>25 DEF MonFlag, Goto
<1>26. CASE InitRegion
  BY <1>26 DEF InitRegion
<1>27. CASE InitCdev
  BY <1>27 DEF InitCdev
<1>28. CASE InitClass
  BY <1>28 DEF InitClass
<1>29. CASE InitTimer
  BY <1>29 DEF InitTimer
<1>30. CASE Rmmod
  BY <1>30 DEF Rmmod
<1>31. CASE ExitTimer
  BY <1>31 DEF ExitTimer, timer_delete_sync
<1>32. CASE ExitFlush
  BY <1>32 DEF ExitFlush
<1>33. CASE ExitFree
  BY <1>33 DEF ExitFree, put_task_struct
<1>34. CASE ExitDone
  BY <1>34 DEF ExitDone
<1> QED
  BY <1>1, <1>2, <1>3, <1>4, <1>5, <1>6, <1>7, <1>8, <1>9, <1>10, <1>11, <1>12, <1>13,
     <1>14, <1>15, <1>16, <1>17, <1>18, <1>19, <1>20, <1>21, <1>22, <1>23, <1>24, <1>25, <1>26,
     <1>27, <1>28, <1>29, <1>30, <1>31, <1>32, <1>33, <1>34, UsersAreCpus
  DEF Next, WorkSteps, HandlerSteps, Calls, CallSteps, InitSteps, ExitSteps

LEMMA LockStep == ASSUME DInv, Next PROVE LockInv'
<1> USE DeferredAssumption DEF DInv, device, monitored, thread, handler, module
<1> USE DEF LockInv, TypeOK, HandlerInv, ModInv, Going
<1>1. CASE Tick
  BY <1>1 DEF Tick
<1>2. ASSUME NEW t \in Tasks, TaskExit(t) PROVE LockInv'
  BY <1>2 DEF TaskExit
<1>3. ASSUME NEW t \in Tasks, TaskReap(t) PROVE LockInv'
  BY <1>3 DEF TaskReap
<1>4. CASE WorkStart
  BY <1>4 DEF WorkStart
<1>5. CASE work_handler
  BY <1>5 DEF work_handler
<1>6. ASSUME NEW c \in Cpus, Expire(c) PROVE LockInv'
  BY <1>6 DEF Expire
<1>7. CASE HandlerSwitch
  BY <1>7 DEF HandlerSwitch
<1>8. CASE HandlerLock
  BY <1>8 DEF HandlerLock
<1>9. CASE HandlerScan
  BY <1>9 DEF HandlerScan, put_task_struct
<1>10. CASE HandlerUnlock
  BY <1>10 DEF HandlerUnlock
<1>11. CASE HandlerRearm
  BY <1>11 DEF HandlerRearm, mod_timer
<1>12. ASSUME NEW c \in Cpus, deferred_open(c) PROVE LockInv'
  BY <1>12 DEF deferred_open, Goto
<1>13. ASSUME NEW c \in Cpus, deferred_release(c) PROVE LockInv'
  BY <1>13 DEF deferred_release, Goto
<1>14. ASSUME NEW c \in Cpus, NEW n \in 0 .. MaxDelay, IoctlSet(c, n) PROVE LockInv'
  BY <1>14 DEF IoctlSet, Goto
<1>15. ASSUME NEW c \in Cpus, NEW n \in 0 .. MaxDelay, IoctlAlloc(c, n) PROVE LockInv'
  BY <1>15 DEF IoctlAlloc, Goto
<1>16. ASSUME NEW c \in Cpus, IoctlArm(c) PROVE LockInv'
  BY <1>16 DEF IoctlArm, Goto, mod_timer
<1>17. ASSUME NEW c \in Cpus, IoctlCancel(c) PROVE LockInv'
  BY <1>17 DEF IoctlCancel, Goto
<1>18. ASSUME NEW c \in Cpus, CancelDone(c) PROVE LockInv'
  BY <1>18 DEF CancelDone, Goto, timer_delete_sync
<1>19. ASSUME NEW c \in Cpus, NEW t \in Tasks, IoctlMon(c, t) PROVE LockInv'
  BY <1>19 DEF IoctlMon, Goto
<1>20. ASSUME NEW c \in Cpus, MonNoMemory(c) PROVE LockInv'
  BY <1>20 DEF MonNoMemory, Goto
<1>21. ASSUME NEW c \in Cpus, MonGet(c) PROVE LockInv'
  BY <1>21 DEF MonGet, Goto
<1>22. ASSUME NEW c \in Cpus, MonBh(c) PROVE LockInv'
  BY <1>22 DEF MonBh, Goto, BhDisable
<1>23. ASSUME NEW c \in Cpus, MonLock(c) PROVE LockInv'
  BY <1>23 DEF MonLock, Goto
<1>24. ASSUME NEW c \in Cpus, MonAdd(c) PROVE LockInv'
  BY <1>24 DEF MonAdd, Goto
<1>25. ASSUME NEW c \in Cpus, MonFlag(c) PROVE LockInv'
  BY <1>25 DEF MonFlag, Goto
<1>26. CASE InitRegion
  BY <1>26 DEF InitRegion
<1>27. CASE InitCdev
  BY <1>27 DEF InitCdev
<1>28. CASE InitClass
  BY <1>28 DEF InitClass
<1>29. CASE InitTimer
  BY <1>29 DEF InitTimer
<1>30. CASE Rmmod
  BY <1>30 DEF Rmmod
<1>31. CASE ExitTimer
  BY <1>31 DEF ExitTimer, timer_delete_sync
<1>32. CASE ExitFlush
  BY <1>32 DEF ExitFlush
<1>33. CASE ExitFree
  BY <1>33 DEF ExitFree, put_task_struct
<1>34. CASE ExitDone
  BY <1>34 DEF ExitDone
<1> QED
  BY <1>1, <1>2, <1>3, <1>4, <1>5, <1>6, <1>7, <1>8, <1>9, <1>10, <1>11, <1>12, <1>13,
     <1>14, <1>15, <1>16, <1>17, <1>18, <1>19, <1>20, <1>21, <1>22, <1>23, <1>24, <1>25, <1>26,
     <1>27, <1>28, <1>29, <1>30, <1>31, <1>32, <1>33, <1>34, UsersAreCpus
  DEF Next, WorkSteps, HandlerSteps, Calls, CallSteps, InitSteps, ExitSteps

LEMMA HandlerStep == ASSUME DInv, Next PROVE HandlerInv'
<1> USE DeferredAssumption DEF DInv, device, monitored, thread, handler, module
<1> USE DEF HandlerInv, LockInv, TypeOK, ModInv, Going
<1>1. CASE Tick
  BY <1>1 DEF Tick
<1>2. ASSUME NEW t \in Tasks, TaskExit(t) PROVE HandlerInv'
  BY <1>2 DEF TaskExit
<1>3. ASSUME NEW t \in Tasks, TaskReap(t) PROVE HandlerInv'
  BY <1>3 DEF TaskReap
<1>4. CASE WorkStart
  BY <1>4 DEF WorkStart
<1>5. CASE work_handler
  BY <1>5 DEF work_handler
<1>6. ASSUME NEW c \in Cpus, Expire(c) PROVE HandlerInv'
  BY <1>6 DEF Expire
<1>7. CASE HandlerSwitch
  BY <1>7 DEF HandlerSwitch
<1>8. CASE HandlerLock
  BY <1>8 DEF HandlerLock
<1>9. CASE HandlerScan
  BY <1>9 DEF HandlerScan, put_task_struct
<1>10. CASE HandlerUnlock
  BY <1>10 DEF HandlerUnlock
<1>11. CASE HandlerRearm
  BY <1>11 DEF HandlerRearm, mod_timer
<1>12. ASSUME NEW c \in Cpus, deferred_open(c) PROVE HandlerInv'
  BY <1>12 DEF deferred_open, Goto
<1>13. ASSUME NEW c \in Cpus, deferred_release(c) PROVE HandlerInv'
  BY <1>13 DEF deferred_release, Goto
<1>14. ASSUME NEW c \in Cpus, NEW n \in 0 .. MaxDelay, IoctlSet(c, n) PROVE HandlerInv'
  BY <1>14 DEF IoctlSet, Goto
<1>15. ASSUME NEW c \in Cpus, NEW n \in 0 .. MaxDelay, IoctlAlloc(c, n) PROVE HandlerInv'
  BY <1>15 DEF IoctlAlloc, Goto
<1>16. ASSUME NEW c \in Cpus, IoctlArm(c) PROVE HandlerInv'
  BY <1>16 DEF IoctlArm, Goto, mod_timer
<1>17. ASSUME NEW c \in Cpus, IoctlCancel(c) PROVE HandlerInv'
  BY <1>17 DEF IoctlCancel, Goto
<1>18. ASSUME NEW c \in Cpus, CancelDone(c) PROVE HandlerInv'
  BY <1>18 DEF CancelDone, Goto, timer_delete_sync
<1>19. ASSUME NEW c \in Cpus, NEW t \in Tasks, IoctlMon(c, t) PROVE HandlerInv'
  BY <1>19 DEF IoctlMon, Goto
<1>20. ASSUME NEW c \in Cpus, MonNoMemory(c) PROVE HandlerInv'
  BY <1>20 DEF MonNoMemory, Goto
<1>21. ASSUME NEW c \in Cpus, MonGet(c) PROVE HandlerInv'
  BY <1>21 DEF MonGet, Goto
<1>22. ASSUME NEW c \in Cpus, MonBh(c) PROVE HandlerInv'
  BY <1>22 DEF MonBh, Goto, BhDisable
<1>23. ASSUME NEW c \in Cpus, MonLock(c) PROVE HandlerInv'
  BY <1>23 DEF MonLock, Goto
<1>24. ASSUME NEW c \in Cpus, MonAdd(c) PROVE HandlerInv'
  BY <1>24 DEF MonAdd, Goto
<1>25. ASSUME NEW c \in Cpus, MonFlag(c) PROVE HandlerInv'
  BY <1>25 DEF MonFlag, Goto
<1>26. CASE InitRegion
  BY <1>26 DEF InitRegion
<1>27. CASE InitCdev
  BY <1>27 DEF InitCdev
<1>28. CASE InitClass
  BY <1>28 DEF InitClass
<1>29. CASE InitTimer
  BY <1>29 DEF InitTimer
<1>30. CASE Rmmod
  BY <1>30 DEF Rmmod
<1>31. CASE ExitTimer
  BY <1>31 DEF ExitTimer, timer_delete_sync
<1>32. CASE ExitFlush
  BY <1>32 DEF ExitFlush
<1>33. CASE ExitFree
  BY <1>33 DEF ExitFree, put_task_struct
<1>34. CASE ExitDone
  BY <1>34 DEF ExitDone
<1> QED
  BY <1>1, <1>2, <1>3, <1>4, <1>5, <1>6, <1>7, <1>8, <1>9, <1>10, <1>11, <1>12, <1>13,
     <1>14, <1>15, <1>16, <1>17, <1>18, <1>19, <1>20, <1>21, <1>22, <1>23, <1>24, <1>25, <1>26,
     <1>27, <1>28, <1>29, <1>30, <1>31, <1>32, <1>33, <1>34, UsersAreCpus
  DEF Next, WorkSteps, HandlerSteps, Calls, CallSteps, InitSteps, ExitSteps

LEMMA ModStep == ASSUME DInv, Next PROVE ModInv'
<1> USE DeferredAssumption DEF DInv, device, monitored, thread, handler, module
<1> USE DEF ModInv, HandlerInv, TypeOK, Going
<1>1. CASE Tick
  BY <1>1 DEF Tick
<1>2. ASSUME NEW t \in Tasks, TaskExit(t) PROVE ModInv'
  BY <1>2 DEF TaskExit
<1>3. ASSUME NEW t \in Tasks, TaskReap(t) PROVE ModInv'
  BY <1>3 DEF TaskReap
<1>4. CASE WorkStart
  BY <1>4 DEF WorkStart
<1>5. CASE work_handler
  BY <1>5 DEF work_handler
<1>6. ASSUME NEW c \in Cpus, Expire(c) PROVE ModInv'
  BY <1>6 DEF Expire
<1>7. CASE HandlerSwitch
  BY <1>7 DEF HandlerSwitch
<1>8. CASE HandlerLock
  BY <1>8 DEF HandlerLock
<1>9. CASE HandlerScan
  BY <1>9 DEF HandlerScan, put_task_struct
<1>10. CASE HandlerUnlock
  BY <1>10 DEF HandlerUnlock
<1>11. CASE HandlerRearm
  BY <1>11 DEF HandlerRearm, mod_timer
<1>12. ASSUME NEW c \in Cpus, deferred_open(c) PROVE ModInv'
  BY <1>12 DEF deferred_open, Goto
<1>13. ASSUME NEW c \in Cpus, deferred_release(c) PROVE ModInv'
  BY <1>13 DEF deferred_release, Goto
<1>14. ASSUME NEW c \in Cpus, NEW n \in 0 .. MaxDelay, IoctlSet(c, n) PROVE ModInv'
  BY <1>14 DEF IoctlSet, Goto
<1>15. ASSUME NEW c \in Cpus, NEW n \in 0 .. MaxDelay, IoctlAlloc(c, n) PROVE ModInv'
  BY <1>15 DEF IoctlAlloc, Goto
<1>16. ASSUME NEW c \in Cpus, IoctlArm(c) PROVE ModInv'
  BY <1>16 DEF IoctlArm, Goto, mod_timer
<1>17. ASSUME NEW c \in Cpus, IoctlCancel(c) PROVE ModInv'
  BY <1>17 DEF IoctlCancel, Goto
<1>18. ASSUME NEW c \in Cpus, CancelDone(c) PROVE ModInv'
  BY <1>18 DEF CancelDone, Goto, timer_delete_sync
<1>19. ASSUME NEW c \in Cpus, NEW t \in Tasks, IoctlMon(c, t) PROVE ModInv'
  BY <1>19 DEF IoctlMon, Goto
<1>20. ASSUME NEW c \in Cpus, MonNoMemory(c) PROVE ModInv'
  BY <1>20 DEF MonNoMemory, Goto
<1>21. ASSUME NEW c \in Cpus, MonGet(c) PROVE ModInv'
  BY <1>21 DEF MonGet, Goto
<1>22. ASSUME NEW c \in Cpus, MonBh(c) PROVE ModInv'
  BY <1>22 DEF MonBh, Goto, BhDisable
<1>23. ASSUME NEW c \in Cpus, MonLock(c) PROVE ModInv'
  BY <1>23 DEF MonLock, Goto
<1>24. ASSUME NEW c \in Cpus, MonAdd(c) PROVE ModInv'
  BY <1>24 DEF MonAdd, Goto
<1>25. ASSUME NEW c \in Cpus, MonFlag(c) PROVE ModInv'
  BY <1>25 DEF MonFlag, Goto
<1>26. CASE InitRegion
  BY <1>26 DEF InitRegion
<1>27. CASE InitCdev
  BY <1>27 DEF InitCdev
<1>28. CASE InitClass
  BY <1>28 DEF InitClass
<1>29. CASE InitTimer
  BY <1>29 DEF InitTimer
<1>30. CASE Rmmod
  BY <1>30 DEF Rmmod
<1>31. CASE ExitTimer
  BY <1>31 DEF ExitTimer, timer_delete_sync
<1>32. CASE ExitFlush
  BY <1>32 DEF ExitFlush
<1>33. CASE ExitFree
  BY <1>33 DEF ExitFree, put_task_struct
<1>34. CASE ExitDone
  BY <1>34 DEF ExitDone
<1> QED
  BY <1>1, <1>2, <1>3, <1>4, <1>5, <1>6, <1>7, <1>8, <1>9, <1>10, <1>11, <1>12, <1>13,
     <1>14, <1>15, <1>16, <1>17, <1>18, <1>19, <1>20, <1>21, <1>22, <1>23, <1>24, <1>25, <1>26,
     <1>27, <1>28, <1>29, <1>30, <1>31, <1>32, <1>33, <1>34, UsersAreCpus
  DEF Next, WorkSteps, HandlerSteps, Calls, CallSteps, InitSteps, ExitSteps

LEMMA OwnerStep == ASSUME DInv, Next PROVE OwnerInv' /\ RefsBalanced'
<1> USE SameOwners DEF DInv, device, monitored, thread, handler, module
<1> USE DEF Holds, TypeOK
<1>1. CASE Tick
  BY <1>1 DEF Tick
<1>2. ASSUME NEW t \in Tasks, TaskExit(t) PROVE OwnerInv' /\ RefsBalanced'
  BY <1>2 DEF TaskExit
<1>3. ASSUME NEW t \in Tasks, TaskReap(t) PROVE OwnerInv' /\ RefsBalanced'
  BY <1>3 DEF TaskReap
<1>4. CASE WorkStart
  BY <1>4 DEF WorkStart
<1>5. CASE work_handler
  BY <1>5 DEF work_handler
<1>6. ASSUME NEW c \in Cpus, Expire(c) PROVE OwnerInv' /\ RefsBalanced'
  BY <1>6 DEF Expire
<1>7. CASE HandlerSwitch
  BY <1>7 DEF HandlerSwitch
<1>8. CASE HandlerLock
  BY <1>8 DEF HandlerLock
<1>9. CASE HandlerScan
  <2>1. todo \subseteq list
    BY <1>9 DEF HandlerScan, HandlerInv
  <2>2. PICK e \in todo :
          \/ put_task_struct(e.task) /\ list' = list \ {e} /\ heap' = heap \ {e.addr}
          \/ UNCHANGED monitored
    BY <1>9 DEF HandlerScan
  <2>3. UNCHANGED <<pc, p>>
    BY <1>9 DEF HandlerScan
  <2> QED BY <2>1, <2>2, <2>3, EntryDropped, SameOwners DEF Holds
<1>10. CASE HandlerUnlock
  BY <1>10 DEF HandlerUnlock
<1>11. CASE HandlerRearm
  BY <1>11 DEF HandlerRearm, mod_timer
<1>12. ASSUME NEW c \in Cpus, deferred_open(c) PROVE OwnerInv' /\ RefsBalanced'
  BY <1>12 DEF deferred_open, Goto
<1>13. ASSUME NEW c \in Cpus, deferred_release(c) PROVE OwnerInv' /\ RefsBalanced'
  BY <1>13 DEF deferred_release, Goto
<1>14. ASSUME NEW c \in Cpus, NEW n \in 0 .. MaxDelay, IoctlSet(c, n)
       PROVE  OwnerInv' /\ RefsBalanced'
  BY <1>14 DEF IoctlSet, Goto
<1>15. ASSUME NEW c \in Cpus, NEW n \in 0 .. MaxDelay, IoctlAlloc(c, n)
       PROVE  OwnerInv' /\ RefsBalanced'
  BY <1>15 DEF IoctlAlloc, Goto
<1>16. ASSUME NEW c \in Cpus, IoctlArm(c) PROVE OwnerInv' /\ RefsBalanced'
  BY <1>16 DEF IoctlArm, Goto, mod_timer
<1>17. ASSUME NEW c \in Cpus, IoctlCancel(c) PROVE OwnerInv' /\ RefsBalanced'
  BY <1>17 DEF IoctlCancel, Goto
<1>18. ASSUME NEW c \in Cpus, CancelDone(c) PROVE OwnerInv' /\ RefsBalanced'
  BY <1>18 DEF CancelDone, Goto, timer_delete_sync
<1>19. ASSUME NEW c \in Cpus, NEW t \in Tasks, IoctlMon(c, t) PROVE OwnerInv' /\ RefsBalanced'
  BY <1>19 DEF IoctlMon, Goto
<1>20. ASSUME NEW c \in Cpus, MonNoMemory(c) PROVE OwnerInv' /\ RefsBalanced'
  BY <1>20 DEF MonNoMemory, Goto
<1>21. ASSUME NEW c \in Cpus, MonGet(c) PROVE OwnerInv' /\ RefsBalanced'
  BY <1>21, EntryTaken
<1>22. ASSUME NEW c \in Cpus, MonBh(c) PROVE OwnerInv' /\ RefsBalanced'
  BY <1>22 DEF MonBh, Goto, BhDisable
<1>23. ASSUME NEW c \in Cpus, MonLock(c) PROVE OwnerInv' /\ RefsBalanced'
  BY <1>23 DEF MonLock, Goto
<1>24. ASSUME NEW c \in Cpus, MonAdd(c) PROVE OwnerInv' /\ RefsBalanced'
  BY <1>24, EntryListed
<1>25. ASSUME NEW c \in Cpus, MonFlag(c) PROVE OwnerInv' /\ RefsBalanced'
  BY <1>25 DEF MonFlag, Goto
<1>26. CASE InitRegion
  BY <1>26 DEF InitRegion
<1>27. CASE InitCdev
  <2>1. list' = list
    BY <1>27 DEF InitCdev, ModInv
  <2> QED BY <1>27, <2>1, SameOwners DEF InitCdev, Holds
<1>28. CASE InitClass
  BY <1>28 DEF InitClass
<1>29. CASE InitTimer
  BY <1>29 DEF InitTimer
<1>30. CASE Rmmod
  BY <1>30 DEF Rmmod
<1>31. CASE ExitTimer
  BY <1>31 DEF ExitTimer, timer_delete_sync
<1>32. CASE ExitFlush
  BY <1>32 DEF ExitFlush
<1>33. CASE ExitFree
  <2>1. PICK e \in list : put_task_struct(e.task) /\ list' = list \ {e} /\ heap' = heap \ {e.addr}
    BY <1>33 DEF ExitFree
  <2> QED BY <1>33, <2>1, EntryDropped DEF ExitFree
<1>34. CASE ExitDone
  BY <1>34 DEF ExitDone
<1> QED
  BY <1>1, <1>2, <1>3, <1>4, <1>5, <1>6, <1>7, <1>8, <1>9, <1>10, <1>11, <1>12, <1>13,
     <1>14, <1>15, <1>16, <1>17, <1>18, <1>19, <1>20, <1>21, <1>22, <1>23, <1>24, <1>25, <1>26,
     <1>27, <1>28, <1>29, <1>30, <1>31, <1>32, <1>33, <1>34, UsersAreCpus
  DEF Next, WorkSteps, HandlerSteps, Calls, CallSteps, InitSteps, ExitSteps

LEMMA DInvInit == Init => DInv
<1> SUFFICES ASSUME Init PROVE DInv
  OBVIOUS
<1>1. TypeOK /\ LocalInv
  <2>1. LocalInv
    BY DEF Init, LocalInv, NoProc
  <2>2. 0 \in 0 .. MaxTicks
    BY Ticks
  <2> QED BY <2>1, <2>2 DEF Init, TypeOK, Holds, Going
<1>2. LockInv /\ HandlerInv /\ ModInv
  BY DeferredAssumption DEF Init, LockInv, HandlerInv, ModInv, Going
<1>3. OwnerInv
  BY FS_EmptySet DEF Init, OwnerInv, NoLeakNoDangling, Holds
<1>4. \A t \in Tasks : /\ {e \in list : e.task = t} = {}
                      /\ {c \in Cpus : Holds(c) /\ p[c].task = t} = {}
  BY DEF Init, Holds
<1>5. RefsBalanced
  BY <1>4, FS_EmptySet DEF Init, RefsBalanced
<1> QED BY <1>1, <1>2, <1>3, <1>5 DEF DInv

LEMMA DInvStep == DInv /\ [Next]_vars => DInv'
<1> SUFFICES ASSUME DInv, [Next]_vars PROVE DInv'
  OBVIOUS
<1>1. CASE Next
  BY <1>1, TypeStep, LocalStep, LockStep, HandlerStep, ModStep, OwnerStep DEF DInv
<1>2. CASE UNCHANGED vars
  <2>1. OwnerInv' /\ RefsBalanced'
    BY <1>2, SameOwners DEF vars, Holds
  <2>2. TypeOK' /\ LocalInv'
    BY <1>2 DEF vars, DInv, TypeOK, LocalInv, Holds
  <2>3. LockInv' /\ HandlerInv' /\ ModInv'
    BY <1>2 DEF vars, DInv, LockInv, HandlerInv, ModInv
  <2> QED BY <2>1, <2>2, <2>3 DEF DInv
<1> QED BY <1>1, <1>2

LEMMA DInvAlways == Spec => []DInv
BY DInvInit, DInvStep, PTL DEF Spec

-----------------------------------------------------------------------------
(***************************************************************************)
(* The properties.                                                         *)
(***************************************************************************)

\* Every variable of deferred.c keeps its type.
THEOREM TypeCorrect == Spec => []TypeOK
<1>1. DInv => TypeOK
  BY DEF DInv
<1> QED BY <1>1, DInvAlways, PTL

\* get_proc, timer_handler and deferred_exit give back every reference they take
\* exactly once.
THEOREM ReferencesBalanced == Spec => []RefsBalanced
<1>1. DInv => RefsBalanced
  BY DEF DInv
<1> QED BY <1>1, DInvAlways, PTL

\* No struct mon_proc of deferred.c is lost, freed twice or listed after it was
\* freed.
THEOREM EntriesOwned == Spec => []NoLeakNoDangling
<1>1. DInv => NoLeakNoDangling
  BY DEF DInv, OwnerInv
<1> QED BY <1>1, DInvAlways, PTL

\* timer_handler never spins for a lock that the thread below it holds.
THEOREM HandlerNeverSelfDeadlocks == Spec => []NoSelfDeadlock
<1>1. DInv => NoSelfDeadlock
  BY DEF DInv, NoSelfDeadlock, LockInv, HandlerInv
<1> QED BY <1>1, DInvAlways, PTL

\* deferred_exit, and the window before timer_setup in deferred_init, leave no
\* timer, handler, work, entry, reference or registration behind.
THEOREM UnloadIsClean == Spec => []UnloadedIsClean
<1>1. DInv => UnloadedIsClean
  <2> SUFFICES ASSUME DInv PROVE UnloadedIsClean
    OBVIOUS
  <2>1. mod = "init_timer" => timer = None /\ hcpu = None
    BY DEF DInv, ModInv, Going
  <2>2. ASSUME mod = "out"
        PROVE  /\ timer = None /\ hcpu = None /\ list = {} /\ held = {}
               /\ ~work.queued /\ ~work.running
               /\ \A c \in Cpus : pc[c] = "closed"
    BY <2>2 DEF DInv, ModInv, Going
  <2>3. mod = "out" => lock = None
    BY <2>2 DEF DInv, TypeOK, LockInv, HandlerInv
  <2>4. mod = "out" => heap = {}
    BY <2>2 DEF DInv, OwnerInv, NoLeakNoDangling, Holds
  <2>5. mod = "out" => \A t \in Tasks : Listed(t) = {} /\ Holders(t) = {}
    BY <2>2 DEF Listed, Holders, Holds
  <2>6. mod = "out" => \A t \in Tasks : refs[t] = 0
    BY <2>5, Counted, FS_EmptySet
  <2> QED BY <2>1, <2>2, <2>3, <2>4, <2>6 DEF UnloadedIsClean
<1> QED BY <1>1, DInvAlways, PTL

\* A step that frees a task_struct: the last reference of a reaped process is
\* dropped, or a process is reaped that nobody references.
LEMMA FreesUnlisted ==
  ASSUME DInv, [Next]_vars
  PROVE  \A e \in list : e.task \in freed' => e.task \in freed \/ e \notin list'
<1> SUFFICES ASSUME NEW e \in list, e.task \in freed', e.task \notin freed
             PROVE  e \notin list'
  OBVIOUS
<1>1. freed' # freed
  OBVIOUS
<1>2. ASSUME NEW f \in list, put_task_struct(f.task), list' = list \ {f}
      PROVE  e \notin list'
  <2>1. f.task = e.task /\ refs[f.task] = 1
    BY <1>2 DEF put_task_struct
  <2> QED BY <1>2, <2>1, ListedIsReferenced
<1>3. CASE HandlerScan
  <2>1. PICK f \in todo : put_task_struct(f.task) /\ list' = list \ {f}
    BY <1>1, <1>3 DEF HandlerScan, monitored
  <2> QED BY <1>2, <1>3, <2>1 DEF HandlerScan, DInv, HandlerInv
<1>4. CASE ExitFree
  BY <1>2, <1>4 DEF ExitFree
<1>5. ASSUME NEW t \in Tasks, TaskReap(t) PROVE e \notin list'
  BY <1>5, ListedIsReferenced DEF TaskReap
<1>6. CASE ~(HandlerScan \/ ExitFree \/ \E t \in Tasks : TaskReap(t))
  <2> USE DEF device, monitored, thread, handler, module
  <2>1. \A c \in Cpus : ~Expire(c) /\ ~Calls(c) /\ ~CallSteps(c)
    BY <1>1 DEF Expire, Calls, deferred_open, deferred_release, IoctlSet, IoctlAlloc,
       IoctlCancel, IoctlMon, CallSteps, IoctlArm, CancelDone, MonNoMemory, MonGet, MonBh,
       MonLock, MonAdd, MonFlag
  <2>2. ~Tick /\ ~WorkSteps /\ \A t \in Tasks : ~TaskExit(t)
    BY <1>1 DEF Tick, WorkSteps, WorkStart, work_handler, TaskExit
  <2>3. ~HandlerSteps
    BY <1>1, <1>6 DEF HandlerSteps, HandlerSwitch, HandlerLock, HandlerUnlock, HandlerRearm
  <2>4. ~InitRegion /\ ~InitSteps /\ ~Rmmod /\ ~ExitSteps
    BY <1>1, <1>6 DEF InitRegion, InitSteps, InitCdev, InitClass, InitTimer, Rmmod, ExitSteps,
       ExitTimer, ExitFlush, ExitDone
  <2> QED BY <1>1, <1>6, <2>1, <2>2, <2>3, <2>4, UsersAreCpus DEF Next, vars
<1> QED BY <1>3, <1>4, <1>5, <1>6

\* The task_struct of a listed process is not freed before timer_handler or
\* deferred_exit takes the process off the list.
THEOREM ListedStaysAllocated == Spec => ListedNotFreed
<1>1. DInv /\ [Next]_vars =>
        [\A e \in list : e.task \in freed' => e.task \in freed \/ e \notin list']_vars
  BY FreesUnlisted
<1> QED BY <1>1, DInvAlways, PTL DEF Spec, ListedNotFreed
=============================================================================
