-------------------------------- MODULE Kthread -------------------------------
(***************************************************************************)
(* The kernel-thread module, src/kernel_api/kthread/kthread.c: a thread    *)
(* that sleeps until the module is unloaded.  The unload sets a flag,      *)
(* wakes the thread and then calls kthread_stop.  By then the thread may   *)
(* have left, and as nobody holds a reference, its task may be freed: what *)
(* kthread_stop then does is undefined, and the model stops (oops).        *)
(***************************************************************************)
EXTENDS Integers

VARIABLES
  mod,          \* where my_kthread_init or my_kthread_exit is
  my_thread,    \* "null" or "task"
  task,         \* where the thread is
  flag_stop_thread, should_stop, oops

vars == <<mod, my_thread, task, flag_stop_thread, should_stop, oops>>

\* When kthread_run fails, my_thread is cleared before PTR_ERR looks at it: the
\* load returns 0 without a thread.
my_kthread_init ==
  /\ mod = "unloaded" /\ ~oops
  /\ mod' = "live" /\ flag_stop_thread' = 0 /\ should_stop' = FALSE
  /\ \/ my_thread' = "task" /\ task' = "new"
     \/ my_thread' = "null" /\ task' = "none"
  /\ UNCHANGED oops

\* A thread that is stopped before it ran never calls its function.
ThreadStart ==
  /\ ~oops /\ task = "new"
  /\ task' = IF should_stop THEN "dead" ELSE "test"
  /\ UNCHANGED <<mod, my_thread, flag_stop_thread, should_stop, oops>>

StopCondition == flag_stop_thread # 0 \/ should_stop

\* wait_event_interruptible enqueues the thread before it tests.
my_thread_fn ==
  /\ ~oops /\ task = "test"
  /\ task' = IF StopCondition THEN "leave" ELSE "sleep"
  /\ UNCHANGED <<mod, my_thread, flag_stop_thread, should_stop, oops>>

ThreadLeave ==
  /\ ~oops /\ task = "leave"
  /\ task' = "dead"
  /\ UNCHANGED <<mod, my_thread, flag_stop_thread, should_stop, oops>>

\* The kernel frees the task of a dead thread, unless kthread_stop pins it.
TaskFreed ==
  /\ ~oops /\ task = "dead" /\ mod # "wait"
  /\ task' = "freed"
  /\ UNCHANGED <<mod, my_thread, flag_stop_thread, should_stop, oops>>

Woken == IF task = "sleep" THEN "test" ELSE task

my_kthread_exit ==
  /\ ~oops /\ mod = "live"
  /\ flag_stop_thread' = 1 /\ mod' = "wake"
  /\ UNCHANGED <<my_thread, task, should_stop, oops>>

ExitWake ==
  /\ ~oops /\ mod = "wake"
  /\ task' = Woken /\ mod' = "stop"
  /\ UNCHANGED <<my_thread, flag_stop_thread, should_stop, oops>>

\* Faulty variant: the thread has been woken, and is not waited for.
kthread_stopSkipped ==
  /\ ~oops /\ mod = "stop"
  /\ mod' = "unloaded"
  /\ UNCHANGED <<my_thread, task, flag_stop_thread, should_stop, oops>>

\* if (my_thread) kthread_stop(my_thread).
kthread_stop ==
  /\ ~oops /\ mod = "stop"
  /\ IF my_thread = "null" THEN mod' = "unloaded" /\ UNCHANGED <<task, should_stop, oops>>
     ELSE IF task = "freed" THEN oops' = TRUE /\ UNCHANGED <<mod, task, should_stop>>
     ELSE /\ should_stop' = TRUE /\ task' = Woken
          /\ mod' = "wait" /\ UNCHANGED oops
  /\ UNCHANGED <<my_thread, flag_stop_thread>>

StopReturn ==
  /\ ~oops /\ mod = "wait" /\ task = "dead"
  /\ mod' = "unloaded"
  /\ UNCHANGED <<my_thread, task, flag_stop_thread, should_stop, oops>>

Init ==
  /\ mod = "unloaded" /\ my_thread = "null" /\ task = "none"
  /\ flag_stop_thread = 0 /\ should_stop = FALSE /\ oops = FALSE

Thread == ThreadStart \/ my_thread_fn \/ ThreadLeave
Exit == ExitWake \/ kthread_stop \/ StopReturn

Next == my_kthread_init \/ my_kthread_exit \/ Thread \/ TaskFreed \/ Exit

Spec == Init /\ [][Next]_vars

\* The thread and the unloading process are scheduled.
FairSpec == Spec /\ WF_vars(Thread) /\ WF_vars(Exit)

-----------------------------------------------------------------------------
\* Type correctness.
TypeOK ==
  /\ mod \in {"unloaded", "live", "wake", "stop", "wait"}
  /\ my_thread \in {"null", "task"}
  /\ task \in {"none", "new", "test", "sleep", "leave", "dead", "freed"}
  /\ flag_stop_thread \in {0, 1} /\ should_stop \in BOOLEAN /\ oops \in BOOLEAN

\* The thread is inside the module's code only while the module is loaded, and
\* leaves it only when an unload has begun.
ThreadWithinModule ==
  /\ mod = "unloaded" => task \in {"none", "dead", "freed"}
  /\ mod = "live" => task \in {"none", "new", "test", "sleep"}

\* Once begun, an unload ends (or meets the freed task).
UnloadFinishes == (mod = "wake") ~> (mod = "unloaded" \/ oops)
===============================================================================
