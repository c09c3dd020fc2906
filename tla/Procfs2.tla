-------------------------------- MODULE Procfs2 -------------------------------
(***************************************************************************)
(* The writable /proc file, src/kernel_pseudo_filesystem/procfs_2.c.  All  *)
(* writers share procfs_buffer_size without a lock: it is set to what the  *)
(* user asked for and limited in a second statement, then read for the     *)
(* copy and again for the terminator.  Each statement is one step; the     *)
(* contents are left out.  procfile_read returns a constant and touches    *)
(* nothing that is shared.                                                 *)
(***************************************************************************)
EXTENDS Integers

CONSTANTS Threads,
          PROCFS_MAX_SIZE,
          MaxLen            \* bound: the largest length a user passes

ConstantsOK == PROCFS_MAX_SIZE \in Nat \ {0} /\ MaxLen \in Nat

VARIABLES
  mod, procfs_buffer_size,
  pc, buffer_length,   \* where a writer is, what it passed
  overlap              \* history: calls during which another one was under way

vars == <<mod, procfs_buffer_size, pc, buffer_length, overlap>>

Writers == {t \in Threads : pc[t] # "user"}
Goto(t, label) == pc' = [pc EXCEPT ![t] = label]
Leave(t) ==
  /\ Goto(t, "user")
  /\ buffer_length' = [buffer_length EXCEPT ![t] = 0]
  /\ overlap' = overlap \ {t}

procfs_2_init ==
  /\ mod = "unloaded" /\ mod' = "live" /\ procfs_buffer_size' = 0
  /\ UNCHANGED <<pc, buffer_length, overlap>>

\* proc_remove waits for calls under way.
procfs_2_exit ==
  /\ mod = "live" /\ Writers = {}
  /\ mod' = "unloaded"
  /\ UNCHANGED <<procfs_buffer_size, pc, buffer_length, overlap>>

procfile_write(t) ==
  /\ mod = "live" /\ pc[t] = "user"
  /\ \E n \in 0 .. MaxLen :
       procfs_buffer_size' = n /\ buffer_length' = [buffer_length EXCEPT ![t] = n]
  /\ Goto(t, "limit")
  /\ overlap' = IF Writers = {} THEN overlap ELSE overlap \cup Writers \cup {t}
  /\ UNCHANGED mod

TooLong(size) == size >= PROCFS_MAX_SIZE

WriteLimit(t) ==
  /\ pc[t] = "limit"
  /\ procfs_buffer_size' =
       IF TooLong(procfs_buffer_size) THEN PROCFS_MAX_SIZE - 1 ELSE procfs_buffer_size
  /\ Goto(t, "copy")
  /\ UNCHANGED <<mod, buffer_length, overlap>>

\* copy_from_user of procfs_buffer_size bytes, which may fault.
WriteCopy(t) ==
  /\ pc[t] = "copy"
  /\ Leave(t) \/ (Goto(t, "end") /\ UNCHANGED <<buffer_length, overlap>>)
  /\ UNCHANGED <<mod, procfs_buffer_size>>

\* procfs_buffer[procfs_buffer_size] = '\0', and the size is the result.
WriteEnd(t) ==
  /\ pc[t] = "end"
  /\ Leave(t)
  /\ UNCHANGED <<mod, procfs_buffer_size>>

Init ==
  /\ mod = "unloaded" /\ procfs_buffer_size = 0
  /\ pc = [t \in Threads |-> "user"] /\ buffer_length = [t \in Threads |-> 0]
  /\ overlap = {}

Next ==
  \/ procfs_2_init \/ procfs_2_exit
  \/ \E t \in Threads : procfile_write(t) \/ WriteLimit(t) \/ WriteCopy(t) \/ WriteEnd(t)

Spec == Init /\ [][Next]_vars

-----------------------------------------------------------------------------
\* Type correctness.
TypeOK ==
  /\ mod \in {"unloaded", "live"} /\ procfs_buffer_size \in Nat
  /\ pc \in [Threads -> {"user", "limit", "copy", "end"}]
  /\ buffer_length \in [Threads -> Nat] /\ overlap \subseteq Threads

\* The copy, the terminator and the result use the caller's own length, cut to
\* leave room for the terminator: only writes that overlap can disturb that.
WriteIsOwn ==
  \A t \in Threads \ overlap :
    pc[t] \in {"copy", "end"} =>
      procfs_buffer_size = IF buffer_length[t] < PROCFS_MAX_SIZE
                             THEN buffer_length[t] ELSE PROCFS_MAX_SIZE - 1
===============================================================================
