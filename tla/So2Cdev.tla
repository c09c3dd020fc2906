-------------------------------- MODULE So2Cdev -------------------------------
(***************************************************************************)
(* The SO2 character device, src/device_drivers/lkt_char_dev/so2_cdev.c:   *)
(* one device that one process at a time may open, whose file threads of   *)
(* that process share, with a sleeping open, reads and writes of a message *)
(* of fixed size, and a wait queue driven by two ioctls.                   *)
(*                                                                         *)
(* The test of register_chrdev_region in so2_cdev_init is inverted: when   *)
(* the region (42, 0) is free the module registers it, complains and stays *)
(* loaded without a device; when the registration fails, it goes on and    *)
(* adds its device.  The other modules that claim major 42 (kbd, deferred, *)
(* filter) are one environment process that registers and unregisters      *)
(* the region.                                                             *)
(*                                                                         *)
(* read and write pass the position of the file, pread and pwrite any      *)
(* offset.  What a copy outside the buffer does is undefined; the model    *)
(* stops there (oops).                                                     *)
(*                                                                         *)
(* The contents of the buffer are left out, and with them the ioctls that  *)
(* set and get it.  MY_IOCTL_PRINT and unknown commands change nothing.    *)
(***************************************************************************)
EXTENDS Integers, FiniteSets

CONSTANTS Threads,
          SIZE,    \* sizeof(MESSAGE), the size of the message
          BUFSIZ,  \* the size of the buffer that holds it
          WORD,    \* size_t wraps at WORD
          MaxReq,  \* bound: the largest size a user passes
          MaxPos,  \* bound: the largest offset a user passes
          NoFile

ConstantsOK ==
  /\ {SIZE, BUFSIZ, WORD, MaxReq, MaxPos} \subseteq Nat /\ SIZE > 0
  /\ SIZE <= BUFSIZ /\ SIZE < WORD /\ MaxReq < WORD /\ SIZE <= MaxPos
  /\ NoFile \notin Threads

VARIABLES
  region,      \* who holds region (42, 0): "none", "so2" or "other"
  mod, cdev,   \* the module is loaded; its device is in the kernel's map
  oops,
  dev_opend, flag,
  files, fpos, \* the open files, named after the thread that opened them; positions
  pc, file,    \* where a thread is, and the file it uses
  offset, size \* read and write: where the copy starts, the number of bytes

loading == <<region, mod, cdev, oops>>
vars == <<region, mod, cdev, oops, dev_opend, flag, files, fpos, pc, file, offset, size>>

At(t, label) == ~oops /\ pc[t] = label
Goto(t, label) == pc' = [pc EXCEPT ![t] = label]
Leave(t) == Goto(t, "user") /\ file' = [file EXCEPT ![t] = NoFile]
Use(t, f, label) == Goto(t, label) /\ file' = [file EXCEPT ![t] = f]

-----------------------------------------------------------------------------
(***************************************************************************)
(* Load and unload.                                                        *)
(***************************************************************************)

\* Another module registers the region, or gives it back.
OtherLoads ==
  /\ ~oops /\ region = "none" /\ region' = "other"
  /\ UNCHANGED <<mod, cdev, oops, dev_opend, flag, files, fpos, pc, file, offset, size>>

OtherUnloads ==
  /\ ~oops /\ region = "other" /\ region' = "none"
  /\ UNCHANGED <<mod, cdev, oops, dev_opend, flag, files, fpos, pc, file, offset, size>>

\* if(!err) after register_chrdev_region, which fails when the region is taken
\* and may fail for lack of memory.
so2_cdev_init ==
  /\ ~oops /\ mod = "unloaded"
  /\ mod' = "live"
  /\ \/ /\ region = "none" /\ region' = "so2"
        /\ UNCHANGED cdev
     \/ /\ UNCHANGED region
        /\ cdev' = TRUE
  /\ dev_opend' = 0 /\ flag' = 0
  /\ UNCHANGED <<oops, files, fpos, pc, file, offset, size>>

\* so2_fops.owner: rmmod is refused while a file is open or being opened.
\* unregister_chrdev_region removes the region whoever registered it.
so2_cdev_exit ==
  /\ ~oops /\ mod = "live" /\ files = {} /\ \A t \in Threads : pc[t] = "user"
  /\ mod' = "unloaded" /\ cdev' = FALSE
  /\ region' = "none"
  /\ UNCHANGED <<oops, dev_opend, flag, files, fpos, pc, file, offset, size>>

-----------------------------------------------------------------------------
(***************************************************************************)
(* Open and release.                                                       *)
(***************************************************************************)

\* Faulty variant: a refused open clears the flag on its way out.
so2_cdev_openClears(t) ==
  /\ cdev /\ At(t, "user") /\ t \notin files
  /\ IF dev_opend = 0
       THEN dev_opend' = 1 /\ Goto(t, "open_sleep")
       ELSE dev_opend' = 0 /\ UNCHANGED pc
  /\ UNCHANGED <<loading, flag, files, fpos, file, offset, size>>

\* atomic_cmpxchg(&data->dev_opend, 0, 1); a refused open returns -EBUSY and
\* changes nothing.
so2_cdev_open(t) ==
  /\ cdev /\ At(t, "user") /\ t \notin files
  /\ dev_opend = 0 /\ dev_opend' = 1
  /\ Goto(t, "open_sleep")
  /\ UNCHANGED <<loading, flag, files, fpos, file, offset, size>>

\* schedule_timeout ends, after ten seconds or by a signal; the new file is at
\* position 0.
OpenReturn(t) ==
  /\ At(t, "open_sleep")
  /\ files' = files \cup {t}
  /\ Goto(t, "user")
  /\ UNCHANGED <<loading, dev_opend, flag, fpos, file, offset, size>>

\* The last close of a file, by any thread that has it; its position is gone.
so2_cdev_release ==
  /\ ~oops
  /\ \E f \in files :
       /\ \A t \in Threads : file[t] # f
       /\ files' = files \ {f} /\ fpos' = [fpos EXCEPT ![f] = 0]
  /\ dev_opend' = 0
  /\ UNCHANGED <<loading, flag, pc, file, offset, size>>

-----------------------------------------------------------------------------
(***************************************************************************)
(* Read and write.                                                         *)
(***************************************************************************)

\* Faulty variant: the position is not subtracted.
LimitedBySizeOnly(req, pos) == IF req < SIZE THEN req ELSE SIZE

\* min(size, data->size - *offset), in size_t.
Limited(req, pos) ==
  LET rest == (SIZE - pos) % WORD IN IF req < rest THEN req ELSE rest

\* so2_cdev_read and so2_cdev_write compute the same: nothing left returns 0,
\* otherwise the copy starts at the position, of which the kernel passed a
\* copy.
so2_cdev_read(t) ==
  /\ At(t, "user")
  /\ \E f \in files, req \in 0 .. MaxReq :
       /\ Limited(req, fpos[f]) > 0
       /\ size' = [size EXCEPT ![t] = Limited(req, fpos[f])]
       /\ offset' = [offset EXCEPT ![t] = fpos[f]]
       /\ Use(t, f, "copy")
  /\ UNCHANGED <<loading, dev_opend, flag, files, fpos>>

\* The same called by pread and pwrite: past the message the subtraction wraps
\* and the request is not limited.
so2_cdev_pread(t) ==
  /\ At(t, "user")
  /\ \E f \in files, req \in 0 .. MaxReq, pos \in 0 .. MaxPos :
       /\ Limited(req, pos) > 0
       /\ size' = [size EXCEPT ![t] = Limited(req, pos)]
       /\ offset' = [offset EXCEPT ![t] = pos]
       /\ Use(t, f, "pcopy")
  /\ UNCHANGED <<loading, dev_opend, flag, files, fpos>>

Returned(t) ==
  /\ offset' = [offset EXCEPT ![t] = 0] /\ size' = [size EXCEPT ![t] = 0]
  /\ Leave(t)

\* The copy is complete and the kernel stores the position, or it faults.
CopyReturn(t) ==
  /\ At(t, "copy")
  /\ \/ fpos' = [fpos EXCEPT ![file[t]] = offset[t] + size[t]]
     \/ UNCHANGED fpos
  /\ Returned(t)
  /\ UNCHANGED <<loading, dev_opend, flag, files>>

InBuffer(t) == offset[t] + size[t] <= BUFSIZ

\* The offset of pread and pwrite is not stored.
PcopyReturn(t) ==
  /\ At(t, "pcopy") /\ InBuffer(t)
  /\ Returned(t)
  /\ UNCHANGED <<loading, dev_opend, flag, files, fpos>>

\* A copy leaves the buffer.
Stray(t) ==
  /\ At(t, "pcopy") /\ ~InBuffer(t)
  /\ oops' = TRUE
  /\ UNCHANGED <<region, mod, cdev, dev_opend, flag, files, fpos, pc, file, offset, size>>

-----------------------------------------------------------------------------
(***************************************************************************)
(* The ioctls.                                                             *)
(***************************************************************************)

MY_IOCTL_DOWN(t) ==
  /\ At(t, "user")
  /\ \E f \in files : Use(t, f, "down_test")
  /\ flag' = 0
  /\ UNCHANGED <<loading, dev_opend, files, fpos, offset, size>>

\* wait_event_interruptible enqueues the thread before it tests the flag, so a
\* wake-up after the test finds it ("down_sleep").
DownTest(t) ==
  /\ At(t, "down_test")
  /\ IF flag # 0 THEN Leave(t) ELSE Goto(t, "down_sleep") /\ UNCHANGED file
  /\ UNCHANGED <<loading, dev_opend, flag, files, fpos, offset, size>>

\* A signal ends the wait with -ERESTARTSYS.
DownSignal(t) ==
  /\ At(t, "down_sleep")
  /\ Leave(t)
  /\ UNCHANGED <<loading, dev_opend, flag, files, fpos, offset, size>>

MY_IOCTL_UP(t) ==
  /\ At(t, "user")
  /\ \E f \in files : Use(t, f, "up_wake")
  /\ flag' = 1
  /\ UNCHANGED <<loading, dev_opend, files, fpos, offset, size>>

\* wake_up_interruptible: every sleeping thread tests the flag again.
wake_up_interruptible(t) ==
  /\ At(t, "up_wake")
  /\ pc' = [u \in Threads |-> CASE u = t -> "user"
                                [] pc[u] = "down_sleep" -> "down_test"
                                [] OTHER -> pc[u]]
  /\ file' = [file EXCEPT ![t] = NoFile]
  /\ UNCHANGED <<loading, dev_opend, flag, files, fpos, offset, size>>

-----------------------------------------------------------------------------
Init ==
  /\ region = "none" /\ mod = "unloaded" /\ cdev = FALSE /\ oops = FALSE
  /\ dev_opend = 0 /\ flag = 0
  /\ files = {} /\ fpos = [t \in Threads |-> 0]
  /\ pc = [t \in Threads |-> "user"] /\ file = [t \in Threads |-> NoFile]
  /\ offset = [t \in Threads |-> 0] /\ size = [t \in Threads |-> 0]

\* What a thread does inside a call, waiting for a signal apart.
Inside(t) ==
  \/ OpenReturn(t) \/ CopyReturn(t) \/ PcopyReturn(t) \/ Stray(t)
  \/ DownTest(t) \/ wake_up_interruptible(t)

Next ==
  \/ OtherLoads \/ OtherUnloads \/ so2_cdev_init \/ so2_cdev_exit
  \/ so2_cdev_release
  \/ \E t \in Threads :
       \/ so2_cdev_open(t) \/ so2_cdev_read(t) \/ so2_cdev_pread(t)
       \/ MY_IOCTL_DOWN(t) \/ MY_IOCTL_UP(t) \/ DownSignal(t) \/ Inside(t)

Spec == Init /\ [][Next]_vars

\* Threads are scheduled and the ten seconds of open pass; nothing forces a
\* call, a signal or a load.
FairSpec == Spec /\ \A t \in Threads : WF_vars(Inside(t))

-----------------------------------------------------------------------------
\* Type correctness; the position of a file never leaves the message.
TypeOK ==
  /\ region \in {"none", "so2", "other"} /\ mod \in {"unloaded", "live"}
  /\ cdev \in BOOLEAN /\ oops \in BOOLEAN
  /\ dev_opend \in {0, 1} /\ flag \in {0, 1}
  /\ files \subseteq Threads /\ fpos \in [Threads -> 0 .. SIZE]
  /\ pc \in [Threads -> {"user", "open_sleep", "copy", "pcopy", "down_test", "down_sleep",
                         "up_wake"}]
  /\ file \in [Threads -> Threads \cup {NoFile}]
  /\ offset \in [Threads -> 0 .. MaxPos] /\ size \in [Threads -> 0 .. MaxReq]

\* dev_opend is 1 exactly while one file is open or being opened, and there is
\* never a second one, however opens, refusals and releases interleave.
ExclusiveOpen ==
  Cardinality(files \cup {t \in Threads : pc[t] = "open_sleep"}) = dev_opend

\* A read or write at the position of the file never copies past the message,
\* with threads that share the file and so start from a position another thread
\* is about to move; nor does a pread or pwrite that starts within the message.
\* One that starts past it is bound by nothing (so2_cdev.c:78 and 99).
CopyInBounds ==
  \A t \in Threads : pc[t] = "copy" \/ offset[t] <= SIZE => offset[t] + size[t] <= SIZE

\* A thread in MY_IOCTL_DOWN returns after MY_IOCTL_UP has set the flag, unless
\* a later DOWN clears the flag first: no wake-up is lost.
UpReleasesDown ==
  \A t \in Threads :
    (pc[t] = "down_sleep" /\ flag = 1) ~> (pc[t] = "user" \/ flag = 0 \/ oops)
=============================================================================
