------------------------------- MODULE Deferred ------------------------------
(***************************************************************************)
(* The deferred-work device, src/deferred_work/deferred/kernel/deferred.c: *)
(* the ioctls that arm, cancel and re-purpose one kernel timer, the timer  *)
(* handler that runs in softirq context, the work item it schedules, the   *)
(* list of monitored processes with their task references, and the         *)
(* module's life cycle.                                                    *)
(*                                                                         *)
(* A CPU runs at most one user thread; the handler runs on top of the      *)
(* thread of the CPU whose softirq it is, unless that thread has disabled  *)
(* bottom halves.  Time advances in jiffies, one Tick each, HZ of them a   *)
(* second: a pending timer can be moved many times before it expires.      *)
(***************************************************************************)
EXTENDS Integers, FiniteSets

CONSTANTS Cpus,      \* the CPUs
          Users,     \* those with a user thread; the others only take softirqs
          Tasks,     \* the processes that can be monitored
          Addrs,     \* addresses kmalloc can return for a struct mon_proc
          HZ,        \* the jiffies of a second
          MaxDelay,  \* bound: the largest number of seconds of an ioctl
          None,      \* no CPU, no timer, no process
          Softirq    \* the handler as a holder of the lock

ASSUME DeferredAssumption ==
  /\ HZ \in Nat \ {0} /\ MaxDelay \in Nat \ {0}
  /\ None \notin Cpus /\ Softirq \notin Cpus /\ None # Softirq
  /\ None \notin Nat
  /\ Users \subseteq Cpus /\ IsFiniteSet(Cpus)

VARIABLES
  flag,     \* my_data->flag, the purpose of the timer
  timer,    \* jiffies until the timer expires, or None when it is not pending
  ready,    \* timer_setup has given the timer its function
  list,     \* the monitored processes, a set of struct mon_proc
  heap,     \* addresses of the struct mon_proc allocated and not freed
  lock,     \* who holds the spinlock, or None
  work,     \* the work item: is it queued, is it running
  pc,       \* pc[c]: where the thread of c is ("closed": no file open)
  delay,    \* delay[c]: the jiffies the thread passes to mod_timer
  p,        \* p[c]: the struct mon_proc the thread has in hand
  bhoff,    \* bhoff[c]: the thread of c has disabled bottom halves
  hcpu,     \* the CPU the timer handler runs on, or None
  hpc,      \* where the handler is
  todo,     \* the entries the handler has still to look at
  state,    \* state[t]: "run", "dead" (TASK_DEAD) or "reaped" by the kernel
  refs,     \* refs[t]: references the module has taken on t and not dropped
  freed,    \* the tasks whose task_struct has been freed
  mod,      \* the module's life cycle
  held,     \* what the module has registered
  due       \* jiffies before the allocation asked for last is due (0: none is asked for)

device == <<flag, timer, ready>>
monitored == <<list, heap, refs, freed>>
thread == <<pc, delay, p, bhoff>>
handler == <<hcpu, hpc, todo>>
module == <<mod, held>>
vars == <<flag, timer, ready, list, heap, lock, work, pc, delay, p, bhoff,
          hcpu, hpc, todo, state, refs, freed, mod, held, due>>

Procs == [addr : Addrs, task : Tasks]

NoProc == [addr |-> None, task |-> None]

\* The longest delay an ioctl can ask for, in jiffies.
MaxTicks == MaxDelay * HZ

-----------------------------------------------------------------------------
(***************************************************************************)
(* What the kernel provides.                                               *)
(***************************************************************************)

\* mod_timer starts a timer or moves its deadline; it ignores a timer that
\* timer_setup has not given a function yet.
mod_timer(jiffies) == timer' = IF ready THEN jiffies ELSE timer

\* timer_delete_sync returns when the timer is not pending and its handler is
\* not running, on any CPU.
timer_delete_sync == hcpu = None /\ timer' = None

\* put_task_struct frees the task_struct with the last reference.
put_task_struct(t) ==
  /\ refs' = [refs EXCEPT ![t] = @ - 1]
  /\ freed' = IF refs[t] = 1 /\ state[t] = "reaped" THEN freed \cup {t} ELSE freed

\* One jiffy passes.
Tick ==
  /\ timer' = IF timer \in Nat /\ timer > 0 THEN timer - 1 ELSE timer
  /\ due' = IF due > 0 THEN due - 1 ELSE 0
  /\ UNCHANGED <<flag, ready, monitored, lock, work, thread, handler, state, module>>

\* A process exits; later its parent waits for it and the kernel drops its own
\* references.
TaskExit(t) ==
  /\ state[t] = "run"
  /\ state' = [state EXCEPT ![t] = "dead"]
  /\ UNCHANGED <<device, monitored, lock, work, thread, handler, module, due>>

TaskReap(t) ==
  /\ state[t] = "dead"
  /\ state' = [state EXCEPT ![t] = "reaped"]
  /\ freed' = IF refs[t] = 0 THEN freed \cup {t} ELSE freed
  /\ UNCHANGED <<device, list, heap, refs, lock, work, thread, handler, module, due>>

\* The system workqueue runs the work item; work_handler sleeps and returns.
WorkStart ==
  /\ work.queued /\ ~work.running
  /\ work' = [queued |-> FALSE, running |-> TRUE]
  /\ UNCHANGED <<device, monitored, lock, thread, handler, state, module, due>>

\* Faulty variant: the work item schedules itself again.
work_handlerRequeues ==
  /\ work.running
  /\ work' = [queued |-> TRUE, running |-> FALSE]
  /\ UNCHANGED <<device, monitored, lock, thread, handler, state, module, due>>

work_handler ==
  /\ work.running
  /\ work' = [work EXCEPT !.running = FALSE]
  /\ UNCHANGED <<device, monitored, lock, thread, handler, state, module, due>>

-----------------------------------------------------------------------------
(***************************************************************************)
(* timer_handler.  The timer is no longer pending when its handler starts. *)
(***************************************************************************)
Expire(c) ==
  /\ timer = 0
  /\ hcpu = None
  /\ ~bhoff[c]
  /\ timer' = None
  /\ hcpu' = c
  /\ hpc' = "switch"
  /\ UNCHANGED <<flag, ready, todo, monitored, lock, work, thread, state, module, due>>

\* The switch on the flag: schedule the work, go on to the list, or nothing.
HandlerSwitch ==
  /\ hpc = "switch"
  /\ IF flag = "mon"
       THEN hpc' = "lock" /\ UNCHANGED <<hcpu, work>>
       ELSE /\ hpc' = "idle" /\ hcpu' = None
            /\ work' = IF flag = "alloc" THEN [work EXCEPT !.queued = TRUE] ELSE work
  /\ due' = IF flag = "alloc" THEN 0 ELSE due
  /\ UNCHANGED <<todo, device, monitored, lock, thread, state, module>>

HandlerLock ==
  /\ hpc = "lock"
  /\ lock = None
  /\ lock' = Softirq
  /\ hpc' = "scan"
  /\ todo' = list
  /\ UNCHANGED <<hcpu, device, monitored, work, thread, state, module, due>>

\* Faulty variant: a dead process is reported and unlinked, its struct mon_proc
\* is not freed.
HandlerScanNoFree ==
  /\ hpc = "scan"
  /\ \E e \in todo :
       /\ todo' = todo \ {e}
       /\ \/ /\ state[e.task] # "run" \/ e.task \in freed
             /\ put_task_struct(e.task)
             /\ list' = list \ {e}
             /\ UNCHANGED heap
          \/ /\ state[e.task] = "run" \/ e.task \in freed
             /\ UNCHANGED monitored
  /\ UNCHANGED <<hcpu, hpc, device, lock, work, thread, state, module, due>>

\* Faulty variant: a process counts as dead only once it has been reaped.
HandlerScanReapedOnly ==
  /\ hpc = "scan"
  /\ \E e \in todo :
       /\ todo' = todo \ {e}
       /\ \/ /\ state[e.task] = "reaped" \/ e.task \in freed
             /\ put_task_struct(e.task)
             /\ list' = list \ {e}
             /\ heap' = heap \ {e.addr}
          \/ /\ state[e.task] # "reaped" \/ e.task \in freed
             /\ UNCHANGED monitored
  /\ UNCHANGED <<hcpu, hpc, device, lock, work, thread, state, module, due>>

\* One turn of the loop over the list: report a dead process and forget it.
\* What is read through a pointer to a freed task_struct can be anything.
HandlerScan ==
  /\ hpc = "scan"
  /\ \E e \in todo :
       /\ todo' = todo \ {e}
       /\ \/ /\ state[e.task] # "run" \/ e.task \in freed
             /\ put_task_struct(e.task)
             /\ list' = list \ {e}
             /\ heap' = heap \ {e.addr}
          \/ /\ state[e.task] = "run" \/ e.task \in freed
             /\ UNCHANGED monitored
  /\ UNCHANGED <<hcpu, hpc, device, lock, work, thread, state, module, due>>

\* Faulty variant: the handler keeps the lock.
HandlerUnlockForgotten ==
  /\ hpc = "scan"
  /\ todo = {}
  /\ hpc' = "rearm"
  /\ UNCHANGED <<lock, hcpu, todo, device, monitored, work, thread, state, module, due>>

HandlerUnlock ==
  /\ hpc = "scan"
  /\ todo = {}
  /\ lock' = None
  /\ hpc' = "rearm"
  /\ UNCHANGED <<hcpu, todo, device, monitored, work, thread, state, module, due>>

HandlerRearm ==
  /\ hpc = "rearm"
  /\ mod_timer(HZ)
  /\ hpc' = "idle"
  /\ hcpu' = None
  /\ UNCHANGED <<flag, ready, todo, monitored, lock, work, thread, state, module, due>>

-----------------------------------------------------------------------------
(***************************************************************************)
(* The file operations.                                                    *)
(***************************************************************************)
Goto(c, from, to) ==
  /\ hcpu # c
  /\ pc[c] = from
  /\ pc' = [pc EXCEPT ![c] = to]

\* The file opens through a registered cdev of a module that is not going.
Going == {"exit_timer", "exit_flush", "exit_free"}

deferred_open(c) ==
  /\ "cdev" \in held
  /\ mod \notin Going
  /\ Goto(c, "closed", "idle")
  /\ UNCHANGED <<delay, p, bhoff, device, monitored, lock, work, handler, state, module, due>>

deferred_release(c) ==
  /\ Goto(c, "idle", "closed")
  /\ UNCHANGED <<delay, p, bhoff, device, monitored, lock, work, handler, state, module, due>>

\* MY_IOCTL_TIMER_SET and MY_IOCTL_TIMER_ALLOC up to mod_timer.
IoctlSet(c, seconds) ==
  /\ Goto(c, "idle", "arm")
  /\ flag' = "set"
  /\ delay' = [delay EXCEPT ![c] = seconds * HZ]
  /\ due' = 0
  /\ UNCHANGED <<timer, ready, p, bhoff, monitored, lock, work, handler, state, module>>

IoctlAlloc(c, seconds) ==
  /\ Goto(c, "idle", "arm")
  /\ flag' = "alloc"
  /\ delay' = [delay EXCEPT ![c] = seconds * HZ]
  /\ due' = seconds * HZ
  /\ UNCHANGED <<timer, ready, p, bhoff, monitored, lock, work, handler, state, module>>

IoctlArm(c) ==
  /\ Goto(c, "arm", "idle")
  /\ mod_timer(delay[c])
  /\ delay' = [delay EXCEPT ![c] = 0]
  /\ UNCHANGED <<flag, ready, p, bhoff, monitored, lock, work, handler, state, module, due>>

\* MY_IOCTL_TIMER_CANCEL.
IoctlCancel(c) ==
  /\ Goto(c, "idle", "cancel")
  /\ UNCHANGED <<delay, p, bhoff, device, monitored, lock, work, handler, state, module, due>>

CancelDone(c) ==
  /\ Goto(c, "cancel", "idle")
  /\ timer_delete_sync
  /\ due' = 0
  /\ UNCHANGED <<flag, ready, delay, p, bhoff, monitored, lock, work, handler, state, module>>

\* MY_IOCTL_TIMER_MON.  get_proc looks the process up (a pid that is not found
\* returns -ESRCH and changes nothing) and leaves the RCU section; it allocates,
\* or returns -ENOMEM; only then does it take its reference.
IoctlMon(c, t) ==
  /\ state[t] # "reaped"
  /\ Goto(c, "idle", "get")
  /\ p' = [p EXCEPT ![c].task = t]
  /\ UNCHANGED <<delay, bhoff, device, monitored, lock, work, handler, state, module, due>>

\* Faulty variant: the ioctl does not test what get_proc returned.
MonNoMemoryUntested(c) ==
  /\ Goto(c, "get", "bh")
  /\ UNCHANGED <<p, delay, bhoff, device, monitored, lock, work, handler, state, module, due>>

MonNoMemory(c) ==
  /\ Goto(c, "get", "idle")
  /\ p' = [p EXCEPT ![c] = NoProc]
  /\ UNCHANGED <<delay, bhoff, device, monitored, lock, work, handler, state, module, due>>

\* Faulty variant: get_proc does not take a reference.
MonGetNoReference(c) ==
  /\ Goto(c, "get", "bh")
  /\ \E a \in Addrs \ heap :
       /\ heap' = heap \cup {a}
       /\ p' = [p EXCEPT ![c].addr = a]
  /\ UNCHANGED <<refs, list, freed, delay, bhoff, device, lock, work, handler, state, module, due>>

MonGet(c) ==
  /\ Goto(c, "get", "bh")
  /\ \E a \in Addrs \ heap :
       /\ heap' = heap \cup {a}
       /\ p' = [p EXCEPT ![c].addr = a]
  /\ refs' = [refs EXCEPT ![p[c].task] = @ + 1]
  /\ UNCHANGED <<list, freed, delay, bhoff, device, lock, work, handler, state, module, due>>

\* Faulty variant: spin_lock instead of spin_lock_bh.
BhDisableForgotten(c) == UNCHANGED bhoff

\* spin_lock_bh disables bottom halves on this CPU and then spins.
BhDisable(c) == bhoff' = [bhoff EXCEPT ![c] = TRUE]

MonBh(c) ==
  /\ Goto(c, "bh", "spin")
  /\ BhDisable(c)
  /\ UNCHANGED <<delay, p, device, monitored, lock, work, handler, state, module, due>>

MonLock(c) ==
  /\ Goto(c, "spin", "add")
  /\ lock = None
  /\ lock' = c
  /\ UNCHANGED <<delay, p, bhoff, device, monitored, work, handler, state, module, due>>

\* list_add and spin_unlock_bh.
MonAdd(c) ==
  /\ Goto(c, "add", "flag")
  /\ list' = list \cup {p[c]}
  /\ p' = [p EXCEPT ![c] = NoProc]
  /\ lock' = None
  /\ bhoff' = [bhoff EXCEPT ![c] = FALSE]
  /\ UNCHANGED <<heap, refs, freed, delay, device, work, handler, state, module, due>>

MonFlag(c) ==
  /\ Goto(c, "flag", "arm")
  /\ flag' = "mon"
  /\ delay' = [delay EXCEPT ![c] = HZ]
  /\ due' = 0
  /\ UNCHANGED <<timer, ready, p, bhoff, monitored, lock, work, handler, state, module>>

-----------------------------------------------------------------------------
(***************************************************************************)
(* Life cycle.                                                             *)
(***************************************************************************)
\* register_chrdev_region, whose failure ends the load.
InitRegion ==
  /\ mod = "out"
  /\ mod' = "init_cdev"
  /\ held' = {"chrdev"}
  /\ UNCHANGED <<device, monitored, lock, work, thread, handler, state, due>>

\* The fields of dev, and cdev_add: its result is ignored.  From here on the
\* device can be opened.
InitCdev ==
  /\ mod = "init_cdev"
  /\ flag' = "none"
  /\ work' = [queued |-> FALSE, running |-> FALSE]
  /\ lock' = None
  /\ list' = {}
  /\ held' \in {held, held \cup {"cdev"}}
  /\ mod' = "init_class"
  /\ UNCHANGED <<timer, ready, heap, refs, freed, thread, handler, state, due>>

InitClass ==
  /\ mod = "init_class"
  /\ held' = held \cup {"class", "device"}
  /\ mod' = "init_timer"
  /\ UNCHANGED <<device, monitored, lock, work, thread, handler, state, due>>

InitTimer ==
  /\ mod = "init_timer"
  /\ ready' = TRUE
  /\ timer' = None
  /\ mod' = "live"
  /\ UNCHANGED <<flag, monitored, lock, work, thread, handler, state, held, due>>

\* rmmod, refused while a file is open: my_fops.owner holds a reference.
\* deferred_exit first removes the device and its number.
Rmmod ==
  /\ mod = "live"
  /\ \A c \in Cpus : pc[c] = "closed"
  /\ held' = {}
  /\ mod' = "exit_timer"
  /\ UNCHANGED <<device, monitored, lock, work, thread, handler, state, due>>

\* Faulty variant: timer_delete, which does not wait for a running handler.
ExitTimerNoSync ==
  /\ mod = "exit_timer"
  /\ timer' = None
  /\ mod' = "exit_flush"
  /\ UNCHANGED <<flag, ready, monitored, lock, work, thread, handler, state, held, due>>

ExitTimer ==
  /\ mod = "exit_timer"
  /\ timer_delete_sync
  /\ mod' = "exit_flush"
  /\ UNCHANGED <<flag, ready, monitored, lock, work, thread, handler, state, held, due>>

\* flush_scheduled_work waits for the work item.
ExitFlush ==
  /\ mod = "exit_flush"
  /\ ~work.queued /\ ~work.running
  /\ mod' = "exit_free"
  /\ UNCHANGED <<device, monitored, lock, work, thread, handler, state, held, due>>

\* One turn of the loop that empties the list, without the lock.
ExitFree ==
  /\ mod = "exit_free"
  /\ \E e \in list :
       /\ put_task_struct(e.task)
       /\ list' = list \ {e}
       /\ heap' = heap \ {e.addr}
  /\ UNCHANGED <<device, lock, work, thread, handler, state, module, due>>

\* The module's memory, dev with it, is gone.
ExitDone ==
  /\ mod = "exit_free"
  /\ list = {}
  /\ mod' = "out"
  /\ ready' = FALSE
  /\ flag' = "none"
  /\ UNCHANGED <<timer, monitored, lock, work, thread, handler, state, held, due>>

-----------------------------------------------------------------------------
Init ==
  /\ flag = "none" /\ timer = None /\ ready = FALSE
  /\ list = {} /\ heap = {} /\ lock = None
  /\ work = [queued |-> FALSE, running |-> FALSE]
  /\ pc = [c \in Cpus |-> "closed"]
  /\ delay = [c \in Cpus |-> 0]
  /\ p = [c \in Cpus |-> NoProc]
  /\ bhoff = [c \in Cpus |-> FALSE]
  /\ hcpu = None /\ hpc = "idle" /\ todo = {}
  /\ state = [t \in Tasks |-> "run"]
  /\ refs = [t \in Tasks |-> 0]
  /\ freed = {}
  /\ mod = "out" /\ held = {}
  /\ due = 0

InitSteps == InitCdev \/ InitClass \/ InitTimer

ExitSteps == ExitTimer \/ ExitFlush \/ ExitFree \/ ExitDone

HandlerSteps ==
  HandlerSwitch \/ HandlerLock \/ HandlerScan \/ HandlerUnlock \/ HandlerRearm

WorkSteps == WorkStart \/ work_handler

\* The steps an ioctl takes by itself once it is called.
CallSteps(c) ==
  \/ IoctlArm(c) \/ CancelDone(c) \/ MonNoMemory(c) \/ MonGet(c)
  \/ MonBh(c) \/ MonLock(c) \/ MonAdd(c) \/ MonFlag(c)

Calls(c) ==
  \/ deferred_open(c) \/ deferred_release(c)
  \/ \E seconds \in 0 .. MaxDelay : IoctlSet(c, seconds) \/ IoctlAlloc(c, seconds)
  \/ IoctlCancel(c)
  \/ \E t \in Tasks : IoctlMon(c, t)

Next ==
  \/ Tick
  \/ \E t \in Tasks : TaskExit(t) \/ TaskReap(t)
  \/ WorkSteps
  \/ \E c \in Cpus : Expire(c)
  \/ HandlerSteps
  \/ \E c \in Users : Calls(c) \/ CallSteps(c)
  \/ InitRegion \/ InitSteps \/ Rmmod \/ ExitSteps

Spec == Init /\ [][Next]_vars

(***************************************************************************)
(* Fairness.  Time passes, expired timers are run, softirqs and workqueues *)
(* make progress, and a thread inside an ioctl runs again and again and    *)
(* gets the spinlock in its turn.  Nothing makes a user call an ioctl, a   *)
(* process exit, or the administrator load or unload the module.           *)
(***************************************************************************)
Fairness ==
  /\ WF_vars(Tick)
  /\ SF_vars(\E c \in Cpus : Expire(c))
  /\ WF_vars(HandlerSteps) /\ WF_vars(WorkSteps)
  /\ WF_vars(InitSteps) /\ SF_vars(ExitSteps)
  /\ \A c \in Users : SF_vars(CallSteps(c))

FairSpec == Spec /\ Fairness

-----------------------------------------------------------------------------
(***************************************************************************)
(* Properties.                                                             *)
(***************************************************************************)
\* The thread of c holds a struct mon_proc that is not on the list yet.
Holds(c) == pc[c] \in {"bh", "spin", "add"}

\* Every variable of deferred.c keeps its type.
TypeOK ==
  /\ flag \in {"none", "set", "alloc", "mon"}
  /\ timer \in 0 .. MaxTicks \cup {None}
  /\ ready \in BOOLEAN
  /\ list \subseteq Procs /\ todo \subseteq Procs /\ heap \subseteq Addrs
  /\ lock \in Cpus \cup {None, Softirq}
  /\ work \in [queued : BOOLEAN, running : BOOLEAN]
  /\ pc \in [Cpus -> {"closed", "idle", "arm", "cancel", "get", "bh", "spin", "add", "flag"}]
  /\ delay \in [Cpus -> 0 .. MaxTicks]
  /\ \A c \in Cpus : Holds(c) => p[c] \in Procs
  /\ \A c \in Cpus : pc[c] = "get" => p[c].task \in Tasks
  /\ bhoff \in [Cpus -> BOOLEAN]
  /\ hcpu \in Cpus \cup {None}
  /\ hpc \in {"idle", "switch", "lock", "scan", "rearm"}
  /\ state \in [Tasks -> {"run", "dead", "reaped"}]
  /\ refs \in [Tasks -> Nat]
  /\ freed \subseteq Tasks
  /\ mod \in {"out", "init_cdev", "init_class", "init_timer", "live"} \cup Going
  /\ held \subseteq {"chrdev", "cdev", "class", "device"}
  /\ due \in 0 .. MaxTicks

\* get_proc, the handler and deferred_exit together: the module's references to
\* a task are exactly its struct mon_proc for it, on the list or in the hands
\* of an ioctl, so each reference taken is dropped exactly once.
RefsBalanced ==
  \A t \in Tasks :
    refs[t] = Cardinality({e \in list : e.task = t})
              + Cardinality({c \in Cpus : Holds(c) /\ p[c].task = t})

\* Every struct mon_proc allocated is on the list or in the hands of one ioctl,
\* and nothing on the list has been freed.
NoLeakNoDangling ==
  /\ heap = {e.addr : e \in list} \cup {p[c].addr : c \in {d \in Cpus : Holds(d)}}
  /\ \A e, f \in list : e.addr = f.addr => e = f
  /\ \A c \in Cpus, e \in list : Holds(c) => p[c].addr # e.addr

\* The task_struct of a process is never freed while the list points to it.
\* (get_proc may still put one there that was freed before the reference was
\* taken: the lookup ends its RCU section first.)
ListedNotFreed ==
  [][\A e \in list : e.task \in freed' => e.task \in freed \/ e \notin list']_vars

\* The handler's plain spin_lock never spins on the CPU of the thread that holds
\* the lock: spin_lock_bh keeps the handler off that CPU.
NoSelfDeadlock == \A c \in Cpus : hcpu = c => lock # c

\* When the module is gone no timer is pending, neither the handler nor the
\* work item runs or is queued, no thread is in an ioctl, and every entry,
\* reference and registration has been given back.  The device can be opened,
\* and a timer asked for, before timer_setup runs at the end of deferred_init:
\* it never clears a pending timer or one whose handler runs, but a request made
\* in that window is lost.
UnloadedIsClean ==
  /\ mod = "out" =>
       /\ timer = None /\ hcpu = None /\ lock = None
       /\ ~work.queued /\ ~work.running
       /\ list = {} /\ heap = {} /\ \A t \in Tasks : refs[t] = 0
       /\ held = {} /\ \A c \in Cpus : pc[c] = "closed"
  /\ mod = "init_timer" => timer = None /\ hcpu = None

\* Once monitoring goes on undisturbed (no ioctl cancels, re-purposes or moves
\* the timer any more), a monitored process that dies is reported and dropped
\* from the list; unless get_proc listed it after it was freed.  Nothing weaker
\* will do: each MY_IOCTL_TIMER_MON moves the deadline to a second from now, and
\* while they come faster than that the handler does not run.
DeadAreReported ==
  \A t \in Tasks :
    /\ <>[](/\ flag = "mon" /\ (timer # None \/ hcpu # None)
            /\ \A c \in Cpus : pc[c] # "arm")
    /\ <>(state[t] # "run")
    /\ [](\A e \in list : e.task = t => t \notin freed)
    => []<>(\A e \in list : e.task # t)

\* Every ioctl returns, in particular the cancel of a timer that re-arms itself.
CallsReturn == \A c \in Users : pc[c] \notin {"closed", "idle"} ~> pc[c] = "idle"

\* rmmod finishes: its waits for the timer and for the work item end.
UnloadFinishes == mod = "exit_timer" ~> mod = "out"

\* user/test.c: "a <seconds> - allocate memory after <seconds> seconds".  The
\* work is not scheduled before that many seconds have passed.
AllocNotEarly == [][~work.queued /\ work'.queued => due = 0]_vars
=============================================================================
