------------------------------ MODULE KernelTimer -----------------------------
(***************************************************************************)
(* The timer module, src/deferred_work/timer/timer.c: a timer whose        *)
(* handler arms it again, and an unload that deletes it.  The counter that *)
(* the handler prints is left out.                                         *)
(***************************************************************************)
VARIABLES mod, pending, handler   \* life cycle, the timer is armed, where the handler is

vars == <<mod, pending, handler>>

timer_init ==
  /\ mod = "unloaded" /\ handler = "idle"
  /\ mod' = "live" /\ pending' = TRUE
  /\ UNCHANGED handler

\* A second has passed.
Expire ==
  /\ pending /\ handler = "idle"
  /\ pending' = FALSE /\ handler' = "run"
  /\ UNCHANGED mod

\* mod_timer.
timer_handler ==
  /\ handler = "run" /\ handler' = "return"
  /\ pending' = TRUE
  /\ UNCHANGED mod

HandlerReturn ==
  /\ handler = "return" /\ handler' = "idle"
  /\ UNCHANGED <<mod, pending>>

\* timer_delete_sync: deletes the timer when its handler is not running.
timer_exit ==
  /\ mod = "live" /\ handler = "idle"
  /\ mod' = "unloaded" /\ pending' = FALSE
  /\ UNCHANGED handler

Init == mod = "unloaded" /\ pending = FALSE /\ handler = "idle"

Softirq == Expire \/ timer_handler \/ HandlerReturn

Next == timer_init \/ timer_exit \/ Softirq

Spec == Init /\ [][Next]_vars

\* Time passes and expired timers are run.
FairSpec == Spec /\ WF_vars(Softirq)

-----------------------------------------------------------------------------
\* Type correctness.
TypeOK ==
  mod \in {"unloaded", "live"} /\ pending \in BOOLEAN /\ handler \in {"idle", "run", "return"}

\* Nothing of the timer is left when the module's code is gone.
UnloadedIsClean == mod = "unloaded" => ~pending /\ handler = "idle"

\* The timer goes on as long as the module is loaded.
Ticks == (mod = "live") ~> (handler = "run" \/ mod = "unloaded")
===============================================================================
