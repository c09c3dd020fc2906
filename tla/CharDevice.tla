------------------------------ MODULE CharDevice ------------------------------
(***************************************************************************)
(* The character device with ioctls, src/device_drivers/chardev/           *)
(* char_device.c: one message buffer shared by every open file, a flag     *)
(* that only device_ioctl takes, bytes copied one at a time, and a module  *)
(* whose file operations name no owner, so that the reference device_open  *)
(* takes is all that keeps the module's code in memory.                    *)
(*                                                                         *)
(* Threads may share a file.  The kernel hands read a copy of the file     *)
(* position and stores it back when read returns; pread passes an offset   *)
(* of the user's.  User memory is readable and writable: get_user and      *)
(* put_user do not fault.  A load from outside the message array returns   *)
(* anything, or kills the thread in the middle of its call.  What an       *)
(* access to an unloaded module does is undefined; the model stops there   *)
(* (oops).                                                                 *)
(***************************************************************************)
EXTENDS Integers, Sequences, FiniteSets

CONSTANTS BUF_LEN,   \* the longest message, 80 in the code
          Bytes,     \* the bytes of a message
          NUL,       \* the zero byte that ends a string
          Threads, Files, NoFile,
          MaxLen     \* bound: the longest buffer a user passes

ASSUME CharAssumption ==
  /\ BUF_LEN \in Nat \ {0}
  /\ MaxLen \in Nat
  /\ NUL \notin Bytes
  /\ NoFile \notin Files
  /\ IsFiniteSet(Files)

VARIABLES
  message,       \* message[0 .. BUF_LEN], the last byte never written
  already_open,  \* TRUE for CDEV_EXCLUSIVE_OPEN
  mod, refs,     \* the module's life cycle and its reference count
  open, pinned,  \* the open files, and those opened before rmmod began
  fpos,          \* the position of each file
  call,          \* call[t]: the call thread t is in, with its local variables
  oops,          \* code or data of the unloaded module was used
  lastSet, plain \* history: the last message set other than "", which
                 \* IOCTL_SET_MSG ignores; write(2) has been called

life == <<mod, refs, open, pinned>>
history == <<lastSet, plain>>
vars == <<message, already_open, mod, refs, open, pinned, fpos, call, oops,
          lastSet, plain>>

Chars == Bytes \cup {NUL}
Strings == UNION {[1 .. n -> Bytes] : n \in 0 .. MaxLen}
MinOf(a, b) == IF a < b THEN a ELSE b

\* The bytes of s that the counting loop of IOCTL_SET_MSG passes on: the
\* string and its NUL, cut at BUF_LEN, and nothing at all for "".
SetBytes(s) ==
  IF s = <<>> THEN <<>> ELSE SubSeq(Append(s, NUL), 1, MinOf(Len(s) + 1, BUF_LEN))

\* A call: the label reached, the file, who called device_read or
\* device_write, device_read's msg_ptr (an index) and length,
\* device_write's buffer and loop index, what IOCTL_GET_MSG has put into the
\* user's buffer.
Labels == {"user", "open", "release_return", "read_eof", "read_test", "read_put",
           "read_return", "write", "ioctl_got", "ioctl_done", "wild", "killed"}
Callers == {"vfs", "pread", "ioctl"}
CallOn(pc, file, caller, ptr, length, src) ==
  [pc |-> pc, file |-> file, caller |-> caller, ptr |-> ptr, length |-> length,
   src |-> src, i |-> 0, out |-> <<>>]
Idle == CallOn("user", NoFile, "vfs", 0, 0, <<>>)

At(t, label) == ~oops /\ mod # "unloaded" /\ call[t].pc = label
Goto(t, label) == call' = [call EXCEPT ![t].pc = label]
Return(t) == call' = [call EXCEPT ![t] = Idle]

\* Thread t is in no call, or was killed in one and never runs again.
Away(t) == call[t].pc \in {"user", "killed"}

-----------------------------------------------------------------------------
(***************************************************************************)
(* Life cycle.                                                             *)
(***************************************************************************)

\* register_chrdev makes the device usable at once; the results of
\* class_create and device_create are not looked at.  A failed
\* registration leaves the module unloaded.  The model does not load the
\* module again while a file or a call of the old one is left; new threads
\* take the place of those that were killed.
char_dev_init ==
  /\ ~oops /\ mod = "unloaded"
  /\ open = {} /\ \A t \in Threads : Away(t)
  /\ call' = [t \in Threads |-> Idle]
  /\ mod' = "live"
  /\ message' = [k \in 0 .. BUF_LEN |-> NUL]
  /\ already_open' = FALSE
  /\ lastSet' = <<>> /\ plain' = FALSE
  /\ UNCHANGED <<refs, open, pinned, fpos, oops>>

\* rmmod is refused while references are held; from here on none is given.
Rmmod ==
  /\ ~oops /\ mod = "live" /\ refs = 0
  /\ mod' = "going"
  /\ UNCHANGED <<message, already_open, refs, open, pinned, fpos, call, oops, history>>

char_dev_exit ==
  /\ ~oops /\ mod = "going"
  /\ mod' = "unloaded"
  /\ UNCHANGED <<message, already_open, refs, open, pinned, fpos, call, oops, history>>

\* The kernel finds the device and is about to call device_open.
LookUp(t) ==
  /\ At(t, "user")
  /\ \E f \in Files \ open :
       /\ \A u \in Threads : call[u].file # f
       /\ call' = [call EXCEPT ![t] = CallOn("open", f, "vfs", 0, 0, <<>>)]
  /\ UNCHANGED <<message, already_open, life, fpos, oops, history>>

\* Faulty variant: no reference is taken.
NoModuleGet == refs' = refs

\* A module that is going gives no reference.
TryModuleGet == refs' = IF mod = "live" THEN refs + 1 ELSE refs

\* The result of try_module_get is ignored: the file is opened all the same.
device_open(t) ==
  /\ At(t, "open")
  /\ TryModuleGet
  /\ pinned' = IF mod = "live" THEN pinned \cup {call[t].file} ELSE pinned
  /\ open' = open \cup {call[t].file}
  /\ fpos' = [fpos EXCEPT ![call[t].file] = 0]
  /\ Return(t)
  /\ UNCHANGED <<message, already_open, mod, oops, history>>

\* The last close of a file: no thread is in a call on it.  module_put does
\* not go below zero; the thread still has to return from module code.
device_release(t) ==
  /\ At(t, "user")
  /\ \E f \in open :
       /\ \A u \in Threads : call[u].file # f
       /\ open' = open \ {f}
       /\ pinned' = pinned \ {f}
  /\ refs' = IF refs > 0 THEN refs - 1 ELSE 0
  /\ Goto(t, "release_return")
  /\ UNCHANGED <<message, already_open, mod, fpos, oops, history>>

ReleaseReturn(t) ==
  /\ At(t, "release_return")
  /\ Return(t)
  /\ UNCHANGED <<message, already_open, life, fpos, oops, history>>

\* A thread is in the code of an unloaded module, or calls into it through a
\* file that did not keep it loaded.
FaultAfterUnload ==
  /\ ~oops /\ mod = "unloaded"
  /\ open # {} \/ \E t \in Threads : ~Away(t)
  /\ oops' = TRUE
  /\ UNCHANGED <<message, already_open, life, fpos, call, history>>

-----------------------------------------------------------------------------
(***************************************************************************)
(* device_read and device_write, one byte at a time.                       *)
(***************************************************************************)

\* read(2): length bytes at the file's position.
device_read(t) ==
  /\ At(t, "user")
  /\ \E f \in open, length \in 0 .. MaxLen :
       call' = [call EXCEPT ![t] = CallOn("read_eof", f, "vfs", fpos[f], length, <<>>)]
  /\ UNCHANGED <<message, already_open, life, fpos, oops, history>>

\* pread(2): an offset of the user's, which nothing compares with the array.
device_pread(t) ==
  /\ At(t, "user")
  /\ \E f \in open :
       \/ \E offset \in 0 .. BUF_LEN, length \in 0 .. MaxLen :
            call' = [call EXCEPT ![t] = CallOn("read_eof", f, "pread", offset, length, <<>>)]
       \/ call' = [call EXCEPT ![t] = CallOn("wild", f, "pread", 0, 0, <<>>)]
  /\ UNCHANGED <<message, already_open, life, fpos, oops, history>>

\* At the end of the message the position goes back to 0.
ReadEof(t) ==
  /\ At(t, "read_eof")
  /\ IF message[call[t].ptr] = NUL
       THEN call' = [call EXCEPT ![t].ptr = 0, ![t].pc = "read_return"]
       ELSE Goto(t, "read_test")
  /\ UNCHANGED <<message, already_open, life, fpos, oops, history>>

\* The test of the loop and the copy each load the byte.
ReadTest(t) ==
  /\ At(t, "read_test")
  /\ Goto(t, IF call[t].length > 0 /\ message[call[t].ptr] # NUL
             THEN "read_put" ELSE "read_return")
  /\ UNCHANGED <<message, already_open, life, fpos, oops, history>>

\* out is kept for IOCTL_GET_MSG only.
ReadPut(t) ==
  /\ At(t, "read_put")
  /\ call' = [call EXCEPT
       ![t].out = IF call[t].caller = "ioctl" THEN Append(@, message[call[t].ptr]) ELSE @,
       ![t].ptr = @ + 1, ![t].length = @ - 1, ![t].pc = "read_test"]
  /\ UNCHANGED <<message, already_open, life, fpos, oops, history>>

\* Back in the kernel, where read(2) stores the position and pread(2) does not,
\* or in device_ioctl, whose offset is a local variable.
ReadReturn(t) ==
  /\ At(t, "read_return")
  /\ IF call[t].caller = "ioctl" THEN Goto(t, "ioctl_got") ELSE Return(t)
  /\ fpos' = IF call[t].caller = "vfs" THEN [fpos EXCEPT ![call[t].file] = call[t].ptr]
             ELSE fpos
  /\ UNCHANGED <<message, already_open, life, oops, history>>

\* The loads from outside the array go well, whatever they return.
WildLoad(t) ==
  /\ At(t, "wild")
  /\ IF call[t].caller = "ioctl" THEN Goto(t, "ioctl_done") ELSE Return(t)
  /\ UNCHANGED <<message, already_open, life, fpos, oops, history>>

\* Or one of them faults, and the thread is killed where it is: what it took is
\* not given back, and neither is the reference of the call on its file if
\* other threads share the table of open files.
Killed(t) ==
  /\ At(t, "wild")
  /\ \E f \in {NoFile, call[t].file} :
       call' = [call EXCEPT ![t] = CallOn("killed", f, call[t].caller, 0, 0, <<>>)]
  /\ UNCHANGED <<message, already_open, life, fpos, oops, history>>

\* write(2): no flag is taken and no NUL is added.
device_write(t) ==
  /\ At(t, "user")
  /\ \E f \in open, s \in Strings :
       call' = [call EXCEPT ![t] = CallOn("write", f, "vfs", 0, 0, s)]
  /\ plain' = TRUE /\ lastSet' = <<>>
  /\ UNCHANGED <<message, already_open, life, fpos, oops>>

\* Faulty variant: the loop runs to BUF_LEN inclusive.
WriteMoreOffByOne(t) == call[t].i < Len(call[t].src) /\ call[t].i <= BUF_LEN

WriteMore(t) == call[t].i < Len(call[t].src) /\ call[t].i < BUF_LEN

WriteByte(t) ==
  /\ At(t, "write") /\ WriteMore(t)
  /\ message' = [message EXCEPT ![call[t].i] = call[t].src[call[t].i + 1]]
  /\ call' = [call EXCEPT ![t].i = @ + 1]
  /\ UNCHANGED <<already_open, life, fpos, oops, history>>

WriteReturn(t) ==
  /\ At(t, "write") /\ ~WriteMore(t)
  /\ IF call[t].caller = "ioctl" THEN Goto(t, "ioctl_done") ELSE Return(t)
  /\ UNCHANGED <<message, already_open, life, fpos, oops, history>>

-----------------------------------------------------------------------------
(***************************************************************************)
(* device_ioctl.                                                           *)
(***************************************************************************)

\* Faulty variant: the flag is set whatever it was.
CmpxchgIgnored == already_open' = TRUE

\* atomic_cmpxchg(&already_open, CDEV_NOT_USED, CDEV_EXCLUSIVE_OPEN); a call
\* that finds the flag taken returns -EBUSY and changes nothing.
Cmpxchg == ~already_open /\ already_open' = TRUE

\* device_write of the user's string, with its NUL.
IOCTL_SET_MSG(t) ==
  /\ At(t, "user") /\ Cmpxchg
  /\ \E f \in open, s \in Strings :
       /\ call' = [call EXCEPT ![t] = CallOn("write", f, "ioctl", 0, 0, SetBytes(s))]
       /\ lastSet' = IF s = <<>> \/ plain THEN lastSet
                     ELSE SubSeq(s, 1, MinOf(Len(s), BUF_LEN))
  /\ UNCHANGED <<message, life, fpos, oops, plain>>

\* device_read with a length of 99 and an offset of its own.
IOCTL_GET_MSG(t) ==
  /\ At(t, "user") /\ Cmpxchg
  /\ \E f \in open :
       call' = [call EXCEPT ![t] = CallOn("read_eof", f, "ioctl", 0, BUF_LEN + 19, <<>>)]
  /\ UNCHANGED <<message, life, fpos, oops, history>>

\* A byte of the message is loaded and returned, and an unknown command returns
\* 0: neither changes anything but the flag.  The index is not looked at: one
\* that is not of the array loads from outside it, with the flag taken.
IOCTL_GET_NTH_BYTE(t) ==
  /\ At(t, "user") /\ Cmpxchg
  /\ \E f \in open, pc \in {"ioctl_done", "wild"} :
       call' = [call EXCEPT ![t] = CallOn(pc, f, "ioctl", 0, 0, <<>>)]
  /\ UNCHANGED <<message, life, fpos, oops, history>>

\* put_user of the NUL that ends the string in the user's buffer.
IoctlGot(t) ==
  /\ At(t, "ioctl_got")
  /\ Goto(t, "ioctl_done")
  /\ UNCHANGED <<message, already_open, life, fpos, oops, history>>

\* Faulty variant: the flag is not given back.
ioctl_returnKeepsFlag(t) ==
  /\ At(t, "ioctl_done")
  /\ Return(t)
  /\ UNCHANGED <<message, already_open, life, fpos, oops, history>>

ioctl_return(t) ==
  /\ At(t, "ioctl_done")
  /\ already_open' = FALSE
  /\ Return(t)
  /\ UNCHANGED <<message, life, fpos, oops, history>>

-----------------------------------------------------------------------------
Init ==
  /\ message = [k \in 0 .. BUF_LEN |-> NUL]
  /\ already_open = FALSE
  /\ mod = "unloaded" /\ refs = 0
  /\ open = {} /\ pinned = {}
  /\ fpos = [f \in Files |-> 0]
  /\ call = [t \in Threads |-> Idle]
  /\ oops = FALSE
  /\ lastSet = <<>> /\ plain = FALSE

\* What a thread does inside a call it has made.
Inside(t) ==
  \/ device_open(t) \/ ReleaseReturn(t)
  \/ ReadEof(t) \/ ReadTest(t) \/ ReadPut(t) \/ ReadReturn(t)
  \/ WriteByte(t) \/ WriteReturn(t)
  \/ WildLoad(t) \/ Killed(t)
  \/ IoctlGot(t) \/ ioctl_return(t)

Next ==
  \/ char_dev_init \/ Rmmod \/ char_dev_exit \/ FaultAfterUnload
  \/ \E t \in Threads :
       \/ LookUp(t) \/ device_release(t)
       \/ device_read(t) \/ device_pread(t) \/ device_write(t)
       \/ IOCTL_SET_MSG(t) \/ IOCTL_GET_MSG(t) \/ IOCTL_GET_NTH_BYTE(t)
       \/ Inside(t)

Spec == Init /\ [][Next]_vars

\* Threads inside a call are scheduled; nothing forces a user to call.
FairSpec == Spec /\ \A t \in Threads : WF_vars(Inside(t))

-----------------------------------------------------------------------------
Calls ==
  [pc : Labels, file : Files \cup {NoFile}, caller : Callers, ptr : 0 .. BUF_LEN,
   length : Nat, src : Seq(Chars), i : 0 .. BUF_LEN, out : Seq(Chars)]

\* Type correctness.  The file positions, and msg_ptr in a device_read that
\* starts at one (or at any offset inside the array), stay inside the message
\* array, although the message is rewritten while it is being read.  Nothing is
\* said of a pread that starts outside it or of a wild IOCTL_GET_NTH_BYTE.
TypeOK ==
  /\ message \in [0 .. BUF_LEN -> Chars]
  /\ already_open \in BOOLEAN /\ oops \in BOOLEAN /\ plain \in BOOLEAN
  /\ mod \in {"unloaded", "live", "going"} /\ refs \in Nat
  /\ open \subseteq Files /\ pinned \subseteq open
  /\ fpos \in [Files -> 0 .. BUF_LEN]
  /\ call \in [Threads -> Calls]
  /\ lastSet \in Seq(Bytes)

\* As long as only ioctls change the message, IOCTL_GET_MSG returns the whole
\* of the last message set that was not "" (device_ioctl's flag keeps sets and
\* gets apart, and a shorter message leaves nothing of a longer one behind).
\* IOCTL_SET_MSG of "" copies no byte at all, not even the terminator: it leaves
\* the earlier message in place.
GetReturnsLastNonEmpty ==
  \A t \in Threads : (call[t].pc = "ioctl_got" /\ ~plain) => call[t].out = lastSet

\* The module stays loaded while a file is open that was opened before rmmod
\* began (device_open, device_release): no call on it meets freed code.
OpenFilesPinModule == pinned # {} => mod = "live"

\* device_ioctl gives its flag back, whatever else runs: no call is answered
\* -EBUSY for ever.  Two things can prevent it: an unload in the middle of the
\* call, and an IOCTL_GET_NTH_BYTE whose index faults and kills the thread.
FlagIsReleased ==
  already_open ~>
    \/ ~already_open \/ mod = "unloaded"
    \/ \E t \in Threads : call[t].pc = "killed" /\ call[t].caller = "ioctl"
=============================================================================
