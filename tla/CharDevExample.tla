---------------------------- MODULE CharDevExample ----------------------------
(***************************************************************************)
(* The read-only character device, src/device_drivers/chardev/             *)
(* char_dev_example.c: a device that one process at a time may open, whose *)
(* open formats the message that reads return.  Its file operations name   *)
(* no owner and its open takes no reference: nothing keeps the module      *)
(* loaded.                                                                 *)
(*                                                                         *)
(* The message is modelled by the number it shows; it has TextLen bytes.   *)
(* A user opens the device from one thread and reads from the same file.   *)
(* What an access to the unloaded module does is undefined; the model      *)
(* stops there (oops).                                                     *)
(***************************************************************************)
EXTENDS Integers

CONSTANTS Users,
          TextLen,   \* the length of the message
          MaxCount,  \* bound: opens of one load of the module
          None

ConstantsOK == TextLen \in Nat \ {0} /\ MaxCount \in Nat /\ None \notin Nat

VARIABLES
  already_open,  \* TRUE for CDEV_EXCLUSIVE_OPEN
  counter, msg,  \* device_open's counter, the number that msg shows
  mod, oops,
  pc,            \* where each user is
  fpos,          \* the position of each user's file
  told, got      \* history: the number the user's open formatted, the last one it read

vars == <<already_open, counter, msg, mod, oops, pc, fpos, told, got>>

At(u, label) == ~oops /\ mod = "live" /\ pc[u] = label
Goto(u, label) == pc' = [pc EXCEPT ![u] = label]

\* register_chrdev with a new major; failure leaves the module unloaded.  The
\* model does not load it again while a file of the old one is left.
chardev_init ==
  /\ ~oops /\ mod = "unloaded"
  /\ \A u \in Users : pc[u] = "closed"
  /\ mod' = "live"
  /\ already_open' = FALSE /\ counter' = 0 /\ msg' = None
  /\ UNCHANGED <<oops, pc, fpos, told, got>>

\* No reference is ever taken: rmmod is never refused.
chardev_exit ==
  /\ ~oops /\ mod = "live"
  /\ mod' = "unloaded"
  /\ UNCHANGED <<already_open, counter, msg, oops, pc, fpos, told, got>>

FaultAfterUnload ==
  /\ ~oops /\ mod = "unloaded"
  /\ \E u \in Users : pc[u] # "closed"
  /\ oops' = TRUE
  /\ UNCHANGED <<already_open, counter, msg, mod, pc, fpos, told, got>>

\* Faulty variant: the flag is set, and what it was is not looked at.
device_openIgnoresFlag(u) ==
  /\ At(u, "closed")
  /\ already_open' = TRUE
  /\ Goto(u, "sprintf")
  /\ UNCHANGED <<counter, msg, mod, oops, fpos, told, got>>

\* atomic_cmpxchg; a user that finds the flag taken is told -EBUSY.
device_open(u) ==
  /\ At(u, "closed")
  /\ ~already_open /\ already_open' = TRUE
  /\ Goto(u, "sprintf")
  /\ UNCHANGED <<counter, msg, mod, oops, fpos, told, got>>

\* sprintf(msg, ..., counter++), and the new file starts at position 0.
OpenSprintf(u) ==
  /\ At(u, "sprintf") /\ counter < MaxCount
  /\ msg' = counter
  /\ counter' = counter + 1
  /\ told' = [told EXCEPT ![u] = counter]
  /\ fpos' = [fpos EXCEPT ![u] = 0]
  /\ Goto(u, "open")
  /\ UNCHANGED <<already_open, mod, oops, got>>

\* How many bytes the loop can copy: some length, up to the end of the message.
Copied(u) == 1 .. TextLen - fpos[u]

\* A read at the end returns 0 and starts over; any other copies bytes of msg.
device_read(u) ==
  /\ At(u, "open")
  /\ \/ /\ fpos[u] = TextLen
        /\ fpos' = [fpos EXCEPT ![u] = 0]
        /\ UNCHANGED got
     \/ \E n \in Copied(u) :
          /\ fpos' = [fpos EXCEPT ![u] = @ + n]
          /\ got' = [got EXCEPT ![u] = msg]
  /\ UNCHANGED <<already_open, counter, msg, mod, oops, pc, told>>

\* pread passes an offset of its own and leaves the position alone.  Within the
\* message it copies like a read.  Past it (char_dev_example.c:124 tests nothing)
\* it returns 0, bytes that are not of the message, or kills the process, whose
\* exit closes the file: nothing else changes.
device_pread(u) ==
  /\ At(u, "open")
  /\ got' = [got EXCEPT ![u] = msg]
  /\ UNCHANGED <<already_open, counter, msg, mod, oops, pc, fpos, told>>

\* The device is ready for the next caller.
device_release(u) ==
  /\ At(u, "open")
  /\ already_open' = FALSE
  /\ Goto(u, "closed")
  /\ told' = [told EXCEPT ![u] = None] /\ got' = [got EXCEPT ![u] = None]
  /\ UNCHANGED <<counter, msg, mod, oops, fpos>>

Init ==
  /\ already_open = FALSE /\ counter = 0 /\ msg = None
  /\ mod = "unloaded" /\ oops = FALSE
  /\ pc = [u \in Users |-> "closed"] /\ fpos = [u \in Users |-> 0]
  /\ told = [u \in Users |-> None] /\ got = [u \in Users |-> None]

Next ==
  \/ chardev_init \/ chardev_exit \/ FaultAfterUnload
  \/ \E u \in Users : \/ device_open(u) \/ OpenSprintf(u)
                      \/ device_read(u) \/ device_pread(u) \/ device_release(u)

Spec == Init /\ [][Next]_vars

-----------------------------------------------------------------------------
\* Type correctness; the position of a file never leaves the message.
TypeOK ==
  /\ already_open \in BOOLEAN /\ oops \in BOOLEAN
  /\ counter \in 0 .. MaxCount
  /\ msg \in 0 .. MaxCount \cup {None}
  /\ mod \in {"unloaded", "live"}
  /\ pc \in [Users -> {"closed", "sprintf", "open"}]
  /\ fpos \in [Users -> 0 .. TextLen]
  /\ told \in [Users -> 0 .. MaxCount \cup {None}]
  /\ got \in [Users -> 0 .. MaxCount \cup {None}]

\* Every read within the message returns the one that the reader's own open
\* formatted: no other open rewrites msg between a user's open and its release.
ReadsOwnMessage == \A u \in Users : got[u] # None => got[u] = told[u]
=============================================================================
