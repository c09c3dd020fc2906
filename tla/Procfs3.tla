-------------------------------- MODULE Procfs3 -------------------------------
(***************************************************************************)
(* The buffered /proc file, src/kernel_pseudo_filesystem/procfs_3.c: one   *)
(* buffer with a size that reads and writes share without a lock, and a    *)
(* module reference taken by open and taken again by close.                *)
(*                                                                         *)
(* procfs_write calls copy_to_user with a kernel destination, which fails  *)
(* unless it copies nothing, so the buffer always holds the zeros it       *)
(* started with and only its size is modelled.  The test, the minimum, the *)
(* copy and the result read the shared size in separate steps.  File       *)
(* positions are left out: a pread passes offset 0 whatever the position   *)
(* is, and a read at another offset returns 0 and touches nothing that is  *)
(* shared.  remove_proc_entry waits for calls under way and closes the     *)
(* files that are still open.                                              *)
(***************************************************************************)
EXTENDS Integers

CONSTANTS Threads, Files, NoFile,
          PROCFS_MAX_SIZE,
          MaxLen,   \* bound: the largest length a user passes
          MaxRefs   \* bound: the count of references stops here

ConstantsOK ==
  /\ PROCFS_MAX_SIZE \in Nat /\ MaxLen \in Nat /\ MaxRefs \in Nat \ {0}
  /\ NoFile \notin Files

VARIABLES
  procfs_buffer_size,
  mod, refs,       \* life cycle and reference count of the module
  files,           \* the open files
  pc, file,        \* where a thread is, the file it uses
  length           \* what the thread passed to read

vars == <<procfs_buffer_size, mod, refs, files, pc, file, length>>

MinOf(a, b) == IF a < b THEN a ELSE b
Goto(t, label) == pc' = [pc EXCEPT ![t] = label]
Leave(t) == /\ Goto(t, "user") /\ file' = [file EXCEPT ![t] = NoFile]
            /\ length' = [length EXCEPT ![t] = 0]

-----------------------------------------------------------------------------
\* proc_create; its failure leaves the module unloaded.
procfs_3_init ==
  /\ mod = "unloaded"
  /\ mod' = "live" /\ refs' = 0 /\ procfs_buffer_size' = 0
  /\ UNCHANGED <<files, pc, file, length>>

\* rmmod is refused while references are held.
Rmmod ==
  /\ mod = "live" /\ refs = 0
  /\ mod' = "going"
  /\ UNCHANGED <<procfs_buffer_size, refs, files, pc, file, length>>

\* remove_proc_entry; procfs_close of the files it closes gets no reference.
procfs_3_exit ==
  /\ mod = "going" /\ \A t \in Threads : pc[t] = "user"
  /\ mod' = "unloaded" /\ files' = {}
  /\ UNCHANGED <<procfs_buffer_size, refs, pc, file, length>>

\* Faulty variant: no reference is taken.
NoModuleGet == refs' = refs

\* try_module_get; a module that is going gives none.  No reference is ever
\* put, so the count may stop at MaxRefs.
TryModuleGet == refs' = IF mod = "live" THEN MinOf(refs + 1, MaxRefs) ELSE refs

procfs_open ==
  /\ mod # "unloaded"
  /\ \E f \in Files \ files : files' = files \cup {f}
  /\ TryModuleGet
  /\ UNCHANGED <<procfs_buffer_size, mod, pc, file, length>>

\* The last close of a file takes another reference.
procfs_close ==
  /\ mod # "unloaded"
  /\ \E f \in files :
       /\ \A t \in Threads : file[t] # f
       /\ files' = files \ {f}
  /\ TryModuleGet
  /\ UNCHANGED <<procfs_buffer_size, mod, pc, file, length>>

\* At offset 0, and not empty; otherwise the read has reached the end.
procfs_read(t) ==
  /\ pc[t] = "user"
  /\ \E f \in files, n \in 0 .. MaxLen :
       /\ procfs_buffer_size # 0
       /\ file' = [file EXCEPT ![t] = f]
       /\ length' = [length EXCEPT ![t] = n]
  /\ Goto(t, "read_min")
  /\ UNCHANGED <<procfs_buffer_size, mod, refs, files>>

\* procfs_buffer_size = min(procfs_buffer_size, length), for everyone.
ReadMin(t) ==
  /\ pc[t] = "read_min"
  /\ procfs_buffer_size' = MinOf(procfs_buffer_size, length[t])
  /\ Goto(t, "read_copy")
  /\ UNCHANGED <<mod, refs, files, file, length>>

\* copy_to_user, which may fault.
ReadCopy(t) ==
  /\ pc[t] = "read_copy"
  /\ \/ Leave(t)
     \/ Goto(t, "read_return") /\ UNCHANGED <<file, length>>
  /\ UNCHANGED <<procfs_buffer_size, mod, refs, files>>

\* The size is read again, for the position and the result.
ReadReturn(t) ==
  /\ pc[t] = "read_return"
  /\ Leave(t)
  /\ UNCHANGED <<procfs_buffer_size, mod, refs, files>>

Limited(n) == MinOf(PROCFS_MAX_SIZE, n)

\* The shared size is set first.
procfs_write(t) ==
  /\ pc[t] = "user"
  /\ \E f \in files : file' = [file EXCEPT ![t] = f]
  /\ \E n \in 0 .. MaxLen : procfs_buffer_size' = Limited(n)
  /\ Goto(t, "write_copy")
  /\ UNCHANGED <<mod, refs, files, length>>

\* copy_to_user to the kernel's buffer fails, unless the size is zero by now.
WriteCopy(t) ==
  /\ pc[t] = "write_copy"
  /\ IF procfs_buffer_size > 0
       THEN Leave(t)
       ELSE Goto(t, "write_return") /\ UNCHANGED <<file, length>>
  /\ UNCHANGED <<procfs_buffer_size, mod, refs, files>>

\* The size is read again, for the position and the result.
WriteReturn(t) ==
  /\ pc[t] = "write_return"
  /\ Leave(t)
  /\ UNCHANGED <<procfs_buffer_size, mod, refs, files>>

-----------------------------------------------------------------------------
Init ==
  /\ procfs_buffer_size = 0 /\ mod = "unloaded" /\ refs = 0
  /\ files = {}
  /\ pc = [t \in Threads |-> "user"] /\ file = [t \in Threads |-> NoFile]
  /\ length = [t \in Threads |-> 0]

Next ==
  \/ procfs_3_init \/ Rmmod \/ procfs_3_exit \/ procfs_open \/ procfs_close
  \/ \E t \in Threads : \/ procfs_read(t) \/ ReadMin(t) \/ ReadCopy(t)
                        \/ ReadReturn(t) \/ procfs_write(t) \/ WriteCopy(t)
                        \/ WriteReturn(t)

Spec == Init /\ [][Next]_vars

-----------------------------------------------------------------------------
\* Type correctness.  The shared size never exceeds the buffer, so no copy
\* reaches past it, although reads and writes change the size without a lock.
TypeOK ==
  /\ procfs_buffer_size \in 0 .. PROCFS_MAX_SIZE
  /\ mod \in {"unloaded", "live", "going"} /\ refs \in 0 .. MaxRefs
  /\ files \subseteq Files
  /\ pc \in [Threads -> {"user", "read_min", "read_copy", "read_return", "write_copy",
                         "write_return"}]
  /\ file \in [Threads -> Files \cup {NoFile}]
  /\ length \in [Threads -> 0 .. MaxLen]

\* The comment on procfs_open: it "prevents the module from being unloaded while
\* it's still in use".  rmmod never begins while a file is open.
NoUnloadInUse == [][mod = "live" /\ mod' = "going" => files = {}]_vars
=============================================================================
