------------------------------- MODULE KeyLog -------------------------------
(***************************************************************************)
(* What the keylogger of src/keylogger promises its readers, without the   *)
(* ring, the lock, the interrupts and the steps of load and unload: a      *)
(* bounded first-in first-out log of key presses.  Every press that        *)
(* arrives is logged, unless the log is full: only then is it dropped.  A  *)
(* reader takes the oldest key.  The log is emptied by a thread that has   *)
(* asked for it, once for each time it asks, and by a load; by nothing     *)
(* else.  Module Kbd is shown to implement this one.                       *)
(***************************************************************************)
EXTENDS Naturals, Sequences

CONSTANTS Capacity,   \* how many keys the log can hold
          Threads,    \* the threads that read the log and write to it
          Keys,       \* the characters a key press can log
          NoKey       \* what a thread has that has not taken a key yet

VARIABLES queue,      \* the keys logged and not yet read, oldest first
          got,        \* got[t]: the key thread t took last
          coming,     \* the key that was pressed and is not logged yet, if any
          clearing,   \* the threads whose write is about to empty the log
          loaded      \* the keylogger is there

logVars == <<queue, got, coming, clearing, loaded>>

LogInit ==
  /\ queue = << >>
  /\ got = [t \in Threads |-> NoKey]
  /\ coming = {}
  /\ clearing = {}
  /\ loaded = FALSE

Press(k) ==
  /\ loaded
  /\ coming = {}
  /\ coming' = {k}
  /\ UNCHANGED <<queue, got, clearing, loaded>>

Log(k) ==
  /\ k \in coming
  /\ coming' = {}
  /\ queue' = IF Len(queue) < Capacity THEN Append(queue, k) ELSE queue
  /\ UNCHANGED <<got, clearing, loaded>>

Take(t) ==
  /\ loaded
  /\ queue # << >>
  /\ got' = [got EXCEPT ![t] = Head(queue)]
  /\ queue' = Tail(queue)
  /\ UNCHANGED <<coming, clearing, loaded>>

AskClear(t) ==
  /\ loaded
  /\ t \notin clearing
  /\ clearing' = clearing \cup {t}
  /\ UNCHANGED <<queue, got, coming, loaded>>

Clear(t) ==
  /\ t \in clearing
  /\ clearing' = clearing \ {t}
  /\ queue' = << >>
  /\ UNCHANGED <<got, coming, loaded>>

Load ==
  /\ ~loaded
  /\ loaded' = TRUE
  /\ queue' = << >>
  /\ UNCHANGED <<got, coming, clearing>>

\* The keylogger goes only when no press and no write is under way.
Unload ==
  /\ loaded
  /\ coming = {} /\ clearing = {}
  /\ loaded' = FALSE
  /\ UNCHANGED <<queue, got, coming, clearing>>

LogNext ==
  \/ \E k \in Keys : Press(k) \/ Log(k)
  \/ \E t \in Threads : Take(t) \/ AskClear(t) \/ Clear(t)
  \/ Load \/ Unload

LogSpec == LogInit /\ [][LogNext]_logVars
=============================================================================
