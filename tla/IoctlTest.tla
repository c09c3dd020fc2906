------------------------------- MODULE IoctlTest ------------------------------
(***************************************************************************)
(* The ioctl test device, src/device_drivers/chardev/ioctl.c: every open   *)
(* file has a value of its own under a read-write lock, set and got by     *)
(* ioctls and repeated by read.  Threads share files.                      *)
(*                                                                         *)
(* A section under the lock is one step.  IOCTL_VALGET takes the value and *)
(* copies it once, a read of count bytes copies it count times; they are   *)
(* the same actions.  The operations of ioctl_num, one word written and    *)
(* read in one access each, are left out.  The build is for a kernel from  *)
(* 6.4 on, where the file operations name their owner.                     *)
(***************************************************************************)
EXTENDS Integers, FiniteSets

CONSTANTS Threads, Files,
          BYTE,      \* unsigned char wraps at BYTE
          Vals,      \* what users pass to IOCTL_VALSET
          MaxCount,  \* bound: the most bytes a user reads
          None

ConstantsOK == BYTE \in Nat \ {0} /\ Vals \subseteq Nat /\ MaxCount \in Nat /\ None \notin Nat

VARIABLES
  mod, held,       \* life cycle, resources held
  data,            \* the val of each file's test_ioctl_data; None: not allocated
  pc, file,        \* where a thread is and the file it uses
  val, count, out  \* its local, the bytes left to copy, the values copied

vars == <<mod, held, data, pc, file, val, count, out>>

Goto(t, label) == pc' = [pc EXCEPT ![t] = label]
Leave(t) ==
  /\ Goto(t, "user")
  /\ file' = [file EXCEPT ![t] = None] /\ val' = [val EXCEPT ![t] = None]
  /\ count' = [count EXCEPT ![t] = 0] /\ out' = [out EXCEPT ![t] = {}]

\* alloc_chrdev_region; its failure has nothing to undo.
ioctl_init ==
  /\ mod = "unloaded"
  /\ mod' = "loading" /\ held' = {"region"}
  /\ UNCHANGED <<data, pc, file, val, count, out>>

\* The label error, after cdev_add failed: cdev_ret is not 0, alloc_ret is.
Undone == {"region"}

InitCdev ==
  /\ mod = "loading"
  /\ \/ mod' = "live" /\ held' = held \cup {"cdev"}
     \/ mod' = "unloaded" /\ held' = held \ Undone
  /\ UNCHANGED <<data, pc, file, val, count, out>>

\* rmmod waits until no file is open.
ioctl_exit ==
  /\ mod = "live" /\ \A f \in Files : data[f] = None
  /\ mod' = "unloaded" /\ held' = {}
  /\ UNCHANGED <<data, pc, file, val, count, out>>

\* kmalloc and 0xFF.
test_ioctl_open ==
  /\ mod = "live"
  /\ \E f \in Files : data[f] = None /\ data' = [data EXCEPT ![f] = BYTE - 1]
  /\ UNCHANGED <<mod, held, pc, file, val, count, out>>

\* The last close of a file.
test_ioctl_close ==
  /\ \E f \in Files :
       /\ data[f] # None /\ \A t \in Threads : file[t] # f
       /\ data' = [data EXCEPT ![f] = None]
  /\ UNCHANGED <<mod, held, pc, file, val, count, out>>

\* copy_from_user, then the lock.
IOCTL_VALSET(t) ==
  /\ pc[t] = "user"
  /\ \E f \in Files, v \in Vals :
       /\ data[f] # None
       /\ file' = [file EXCEPT ![t] = f] /\ val' = [val EXCEPT ![t] = v]
  /\ Goto(t, "set")
  /\ UNCHANGED <<mod, held, data, count, out>>

\* An unsigned int stored in an unsigned char.
Stored(v) == v % BYTE

SetStore(t) ==
  /\ pc[t] = "set"
  /\ data' = [data EXCEPT ![file[t]] = Stored(val[t])]
  /\ Leave(t)
  /\ UNCHANGED <<mod, held>>

\* The value is taken under the lock.
test_ioctl_read(t) ==
  /\ pc[t] = "user"
  /\ \E f \in Files, n \in 1 .. MaxCount :
       /\ data[f] # None
       /\ file' = [file EXCEPT ![t] = f] /\ val' = [val EXCEPT ![t] = data[f]]
       /\ count' = [count EXCEPT ![t] = n]
  /\ Goto(t, "copy")
  /\ UNCHANGED <<mod, held, data, out>>

Copied(t) == val[t]

\* copy_to_user of one byte, which may fault.
CopyByte(t) ==
  /\ pc[t] = "copy"
  /\ \/ Leave(t)
     \/ /\ count[t] > 0
        /\ out' = [out EXCEPT ![t] = @ \cup {Copied(t)}]
        /\ count' = [count EXCEPT ![t] = @ - 1]
        /\ UNCHANGED <<pc, file, val>>
  /\ UNCHANGED <<mod, held, data>>

Init ==
  /\ mod = "unloaded" /\ held = {} /\ data = [f \in Files |-> None]
  /\ pc = [t \in Threads |-> "user"] /\ file = [t \in Threads |-> None]
  /\ val = [t \in Threads |-> None] /\ count = [t \in Threads |-> 0]
  /\ out = [t \in Threads |-> {}]

Next ==
  \/ ioctl_init \/ InitCdev \/ ioctl_exit \/ test_ioctl_open \/ test_ioctl_close
  \/ \E t \in Threads : IOCTL_VALSET(t) \/ SetStore(t) \/ test_ioctl_read(t) \/ CopyByte(t)

Spec == Init /\ [][Next]_vars

-----------------------------------------------------------------------------
\* Type correctness; a file's value fits its unsigned char.
TypeOK ==
  /\ mod \in {"unloaded", "loading", "live"} /\ held \subseteq {"region", "cdev"}
  /\ data \in [Files -> 0 .. BYTE - 1 \cup {None}]
  /\ pc \in [Threads -> {"user", "set", "copy"}]
  /\ file \in [Threads -> Files \cup {None}]
  /\ val \in [Threads -> Nat \cup {None}] /\ count \in [Threads -> 0 .. MaxCount]
  /\ \A t \in Threads : out[t] \subseteq Nat \cup {None}

\* All bytes of one read are the same, though another thread sets the file's
\* value between two of them; and a call's file is never freed under it.
UniformRead ==
  \A t \in Threads :
    Cardinality(out[t]) <= 1 /\ (pc[t] # "user" => data[file[t]] # None)

\* A failed load and an unload give back region, device and every value.
UnloadedIsClean == mod = "unloaded" => held = {} /\ \A f \in Files : data[f] = None
===============================================================================
