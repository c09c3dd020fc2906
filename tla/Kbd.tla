--------------------------------- MODULE Kbd --------------------------------
(***************************************************************************)
(* The keyboard logger, src/keylogger/kbd.c: the circular buffer of        *)
(* struct kbd, the interrupt handler that fills it, the read and write     *)
(* file operations that drain and reset it, the spinlock they share, and   *)
(* the module's life cycle (kbd_init with its error labels, kbd_exit).     *)
(*                                                                         *)
(* Every CPU runs one user thread.  The handler runs on top of the thread  *)
(* of the CPU that takes the interrupt, and that thread does not move      *)
(* until the handler returns; the kernel never runs two instances of one   *)
(* interrupt line at once.  A thread that spins for the lock or holds it   *)
(* cannot migrate, so pinning threads to CPUs loses nothing.               *)
(***************************************************************************)
EXTENDS Integers, Sequences

CONSTANTS BUFFER_SIZE,  \* slots of the circular buffer (1024 in the code)
          Cpus,         \* the CPUs, each with the user thread it runs
          Scancodes,    \* the bytes the keyboard can deliver, all below 256
          MaxRead,      \* bound: the largest size a read is called with
          NoCpu, Irq    \* lock holders that are not threads: none, the handler

ASSUME KbdAssumption ==
  /\ BUFFER_SIZE \in Nat \ {0}
  /\ Scancodes \subseteq 0 .. 255
  /\ MaxRead \in Nat
  /\ NoCpu \notin Cpus /\ Irq \notin Cpus /\ NoCpu # Irq

VARIABLES
  buf, put_idx, get_idx, count,  \* the fields of struct kbd
  lock,      \* the spinlock: NoCpu when free, else who holds it
  irqoff,    \* irqoff[c]: the thread of c has disabled local interrupts
  pc,        \* pc[c]: where the thread of c is ("closed": no file open)
  left,      \* left[c]: what remains of kbd_read's size
  ch,        \* ch[c]: kbd_read's local variable c
  cmd,       \* cmd[c]: what the thread passed to its last write
  irqcpu,    \* the CPU the handler runs on, or NoCpu
  ipc,       \* where the handler is
  scancode,  \* the handler's scaned_key
  mod,       \* the module's life cycle
  held       \* the kernel resources the module has acquired

ring == <<buf, put_idx, get_idx, count>>
handler == <<irqcpu, ipc, scancode>>
module == <<mod, held>>
thread == <<pc, left, ch, cmd>>
vars == <<buf, put_idx, get_idx, count, lock, irqoff, pc, left, ch, cmd,
          irqcpu, ipc, scancode, mod, held>>

Slots == 0 .. BUFFER_SIZE - 1

(***************************************************************************)
(* Scancodes.  Bit 0x80 of the byte tells a release from a press.          *)
(***************************************************************************)
is_key_press(s) == s < 128

row1 == <<"1", "2", "3", "4", "5", "6", "7", "8", "9", "0">>
row2 == <<"q", "w", "e", "r", "t", "y", "u", "i", "o", "p">>
row3 == <<"a", "s", "d", "f", "g", "h", "j", "k", "l">>
row4 == <<"z", "x", "c", "v", "b", "n", "m">>

get_ascii(s) ==
  LET sc == s % 128
  IN  CASE sc \in  2 .. 11 -> row1[sc - 1]
        [] sc \in 16 .. 25 -> row2[sc - 15]
        [] sc \in 30 .. 38 -> row3[sc - 29]
        [] sc \in 44 .. 50 -> row4[sc - 43]
        [] sc = 12 -> "-"           [] sc = 13 -> "="
        [] sc = 14 -> "backspace"   [] sc = 15 -> "tab"
        [] sc = 26 -> "["           [] sc = 27 -> "]"
        [] sc = 28 -> "enter"       [] sc = 39 -> ";"
        [] sc = 40 -> "quote"       [] sc = 41 -> "backtick"
        [] sc = 51 -> ","           [] sc = 52 -> "."
        [] sc = 53 -> "/"           [] sc = 57 -> " "
        [] OTHER -> "?"

\* What a slot of the buffer or a reader's variable can hold: the characters
\* of the keys, and the zero byte that static storage starts with.
Zero == "NUL"
Keys == {get_ascii(s) : s \in Scancodes}
Chars == Keys \cup {Zero}

(***************************************************************************)
(* The module's resources, in the order kbd_init acquires them, and what   *)
(* each of its error labels gives back.                                    *)
(***************************************************************************)
Resources == {"chrdev", "data_port", "status_port", "irq", "cdev"}

out_unregister == {"chrdev"}
\* Faulty variant: the label returns instead of falling through to the next.
out_release_region_Returns == {"data_port"}

out_release_region == {"data_port"} \cup out_unregister
out_release_regions == {"status_port"} \cup out_release_region

-----------------------------------------------------------------------------
(***************************************************************************)
(* Life cycle.                                                             *)
(***************************************************************************)

\* insmod gives the module fresh storage: devs[0] is all zeros.
Insmod ==
  /\ mod = "unloaded"
  /\ mod' = "init_region"
  /\ buf' = [i \in Slots |-> Zero]
  /\ put_idx' = 0 /\ get_idx' = 0 /\ count' = 0
  /\ lock' = NoCpu
  /\ UNCHANGED <<irqoff, thread, handler, held>>

\* One step of kbd_init: acquire r and go on, or fail, give back what the
\* error label releases and leave the module unloaded.
Acquire(at, r, next, label) ==
  /\ mod = at
  /\ \/ /\ held' = held \cup {r}
        /\ mod' = next
     \/ /\ held' = held \ label
        /\ mod' = "unloaded"
  /\ UNCHANGED <<ring, lock, irqoff, thread, handler>>

InitRegion == Acquire("init_region", "chrdev", "init_data", {})
InitData   == Acquire("init_data", "data_port", "init_status", out_unregister)
InitStatus == Acquire("init_status", "status_port", "init_irq", out_release_region)
InitIrq    == Acquire("init_irq", "irq", "init_cdev", out_release_regions)

\* cdev_add's result is ignored: the module loads with or without its device.
InitCdev ==
  /\ mod = "init_cdev"
  /\ held' \in {held, held \cup {"cdev"}}
  /\ mod' = "live"
  /\ UNCHANGED <<ring, lock, irqoff, thread, handler>>

\* rmmod is refused while a file is open: kbd_fops.owner holds a reference.
Rmmod ==
  /\ mod = "live"
  /\ \A c \in Cpus : pc[c] = "closed"
  /\ mod' = "exit_cdev"
  /\ UNCHANGED <<ring, lock, irqoff, thread, handler, held>>

ExitCdev ==
  /\ mod = "exit_cdev"
  /\ held' = held \ {"cdev"}
  /\ mod' = "exit_irq"
  /\ UNCHANGED <<ring, lock, irqoff, thread, handler>>

\* free_irq unlinks the handler and then waits for one that is running.
ExitIrq ==
  /\ mod = "exit_irq"
  /\ held' = held \ {"irq"}
  /\ mod' = "exit_sync"
  /\ UNCHANGED <<ring, lock, irqoff, thread, handler>>

ExitSync ==
  /\ mod = "exit_sync"
  /\ irqcpu = NoCpu
  /\ mod' = "exit_regions"
  /\ UNCHANGED <<ring, lock, irqoff, thread, handler, held>>

ExitRegions ==
  /\ mod = "exit_regions"
  /\ held' = held \ {"status_port", "data_port", "chrdev"}
  /\ mod' = "unloaded"
  /\ UNCHANGED <<ring, lock, irqoff, thread, handler>>

-----------------------------------------------------------------------------
(***************************************************************************)
(* The interrupt handler.  It runs with local interrupts off, on a CPU     *)
(* whose thread has not disabled them.                                     *)
(***************************************************************************)
Interrupt(c, s) ==
  /\ "irq" \in held
  /\ irqcpu = NoCpu
  /\ ~irqoff[c]
  /\ irqcpu' = c
  /\ ipc' = "entry"
  /\ scancode' = s
  /\ UNCHANGED <<ring, lock, irqoff, thread, module>>

\* Faulty variant: the handler waits for the release of a key to be a press.
IrqEntryWaits ==
  /\ ipc = "entry"
  /\ is_key_press(scancode)
  /\ ipc' = "spin"
  /\ UNCHANGED <<irqcpu, scancode, ring, lock, irqoff, thread, module>>

\* The handler is done when the key was released, and spins for the lock else.
IrqEntry ==
  /\ ipc = "entry"
  /\ IF is_key_press(scancode)
       THEN ipc' = "spin" /\ UNCHANGED irqcpu
       ELSE ipc' = "none" /\ irqcpu' = NoCpu
  /\ UNCHANGED <<scancode, ring, lock, irqoff, thread, module>>

IrqLock ==
  /\ ipc = "spin"
  /\ lock = NoCpu
  /\ lock' = Irq
  /\ ipc' = "put"
  /\ UNCHANGED <<irqcpu, scancode, ring, irqoff, thread, module>>

\* Faulty variant: put_char without its test for a full buffer.
PutStoreUnbounded ==
  /\ ipc = "put"
  /\ ipc' = "inc"
  /\ buf' = [buf EXCEPT ![put_idx] = get_ascii(scancode)]
  /\ put_idx' = (put_idx + 1) % BUFFER_SIZE
  /\ UNCHANGED <<irqcpu, scancode, get_idx, count, lock, irqoff, thread, module>>

\* Faulty variant: the test for a full buffer gives up one slot too early.
PutStoreEarlyFull ==
  /\ ipc = "put"
  /\ IF count >= BUFFER_SIZE - 1
       THEN /\ ipc' = "unlock"
            /\ UNCHANGED <<buf, put_idx>>
       ELSE /\ ipc' = "inc"
            /\ buf' = [buf EXCEPT ![put_idx] = get_ascii(scancode)]
            /\ put_idx' = (put_idx + 1) % BUFFER_SIZE
  /\ UNCHANGED <<irqcpu, scancode, get_idx, count, lock, irqoff, thread, module>>

\* put_char up to the increment of count; a full buffer drops the key.
PutStore ==
  /\ ipc = "put"
  /\ IF count >= BUFFER_SIZE
       THEN /\ ipc' = "unlock"
            /\ UNCHANGED <<buf, put_idx>>
       ELSE /\ ipc' = "inc"
            /\ buf' = [buf EXCEPT ![put_idx] = get_ascii(scancode)]
            /\ put_idx' = (put_idx + 1) % BUFFER_SIZE
  /\ UNCHANGED <<irqcpu, scancode, get_idx, count, lock, irqoff, thread, module>>

PutCount ==
  /\ ipc = "inc"
  /\ count' = count + 1
  /\ ipc' = "unlock"
  /\ UNCHANGED <<irqcpu, scancode, buf, put_idx, get_idx, lock, irqoff, thread, module>>

\* Faulty variant: the handler returns without unlocking.
IrqUnlockForgotten ==
  /\ ipc = "unlock"
  /\ ipc' = "none"
  /\ irqcpu' = NoCpu
  /\ UNCHANGED <<lock, scancode, ring, irqoff, thread, module>>

IrqUnlock ==
  /\ ipc = "unlock"
  /\ lock' = NoCpu
  /\ ipc' = "none"
  /\ irqcpu' = NoCpu
  /\ UNCHANGED <<scancode, ring, irqoff, thread, module>>

-----------------------------------------------------------------------------
(***************************************************************************)
(* The file operations.  A thread under the handler does not run.          *)
(***************************************************************************)
Runs(c) == irqcpu # c

Goto(c, from, to) ==
  /\ Runs(c)
  /\ pc[c] = from
  /\ pc' = [pc EXCEPT ![c] = to]

\* Faulty variant: spin_lock instead of spin_lock_irqsave.
IrqSaveForgotten(c) == UNCHANGED irqoff

\* spin_lock_irqsave disables local interrupts and then spins; here the first
\* half, the second is Lock.
IrqSave(c) == irqoff' = [irqoff EXCEPT ![c] = TRUE]

Lock(c, from, to) ==
  /\ Goto(c, from, to)
  /\ lock = NoCpu
  /\ lock' = c
  /\ UNCHANGED <<left, ch, cmd, ring, irqoff, handler, module>>

UnlockIrqRestore(c) ==
  /\ lock' = NoCpu
  /\ irqoff' = [irqoff EXCEPT ![c] = FALSE]

\* The kernel opens the file only through a registered cdev of a module that
\* is not going away.
kbd_open(c) ==
  /\ "cdev" \in held
  /\ mod = "live"
  /\ Goto(c, "closed", "idle")
  /\ UNCHANGED <<left, ch, cmd, ring, lock, irqoff, handler, module>>

kbd_release(c) ==
  /\ Goto(c, "idle", "closed")
  /\ UNCHANGED <<left, ch, cmd, ring, lock, irqoff, handler, module>>

\* kbd_read: the call with its size, and the loop head "while(size--)".
kbd_read(c, size) ==
  /\ Goto(c, "idle", "loop")
  /\ left' = [left EXCEPT ![c] = size]
  /\ UNCHANGED <<ch, cmd, ring, lock, irqoff, handler, module>>

ReadReturn(c) ==
  /\ left[c] = 0
  /\ Goto(c, "loop", "idle")
  /\ UNCHANGED <<left, ch, cmd, ring, lock, irqoff, handler, module>>

ReadNext(c) ==
  /\ left[c] > 0
  /\ Goto(c, "loop", "rspin")
  /\ left' = [left EXCEPT ![c] = @ - 1]
  /\ IrqSave(c)
  /\ UNCHANGED <<ch, cmd, ring, lock, handler, module>>

ReadLock(c) == Lock(c, "rspin", "get")

\* get_char up to the decrement of count, or nothing when the buffer is empty.
GetFetch(c) ==
  /\ count > 0
  /\ Goto(c, "get", "dec")
  /\ ch' = [ch EXCEPT ![c] = buf[get_idx]]
  /\ get_idx' = (get_idx + 1) % BUFFER_SIZE
  /\ UNCHANGED <<left, cmd, buf, put_idx, count, lock, irqoff, handler, module>>

GetEmpty(c) ==
  /\ count = 0
  /\ Goto(c, "get", "empty")
  /\ UNCHANGED <<left, ch, cmd, ring, lock, irqoff, handler, module>>

GetCount(c) ==
  /\ Goto(c, "dec", "more")
  /\ count' = count - 1
  /\ UNCHANGED <<left, ch, cmd, buf, put_idx, get_idx, lock, irqoff, handler, module>>

ReadUnlock(c) ==
  /\ \/ Goto(c, "more", "put_user")
     \/ Goto(c, "empty", "idle")
  /\ UnlockIrqRestore(c)
  /\ UNCHANGED <<left, ch, cmd, ring, handler, module>>

\* put_user hands the character over and the loop goes on, or faults and the
\* call returns -EFAULT: the character just taken is lost.
ReadPutUser(c) ==
  /\ \/ Goto(c, "put_user", "loop")
     \/ Goto(c, "put_user", "idle")
  /\ UNCHANGED <<left, ch, cmd, ring, lock, irqoff, handler, module>>

(***************************************************************************)
(* kbd_write.  The code copies USER_CMD_BUF_LEN bytes whatever the size of *)
(* the write, so what follows the bytes written decides whether the copy   *)
(* of "clear" compares equal to CLEAR_CMD: only when a zero byte follows.  *)
(* A copy that faults returns as well.                                     *)
(***************************************************************************)
Commands == {"clear", "other"}

MatchesClear(w, zero_follows) == w = "clear" /\ zero_follows

kbd_write(c, w) ==
  /\ \E zero_follows, fault \in BOOLEAN :
       IF fault \/ MatchesClear(w, zero_follows)
         THEN Goto(c, "idle", "idle") /\ UNCHANGED irqoff
         ELSE Goto(c, "idle", "wspin") /\ IrqSave(c)
  /\ cmd' = [cmd EXCEPT ![c] = w]
  /\ UNCHANGED <<left, ch, ring, lock, handler, module>>

WriteLock(c) == Lock(c, "wspin", "reset")

\* Faulty variant: reset_buffer forgets put_idx.
reset_bufferKeepsPut(c) ==
  /\ Goto(c, "reset", "wunlock")
  /\ count' = 0 /\ get_idx' = 0
  /\ UNCHANGED <<left, ch, cmd, buf, put_idx, lock, irqoff, handler, module>>

reset_buffer(c) ==
  /\ Goto(c, "reset", "wunlock")
  /\ count' = 0 /\ get_idx' = 0 /\ put_idx' = 0
  /\ UNCHANGED <<left, ch, cmd, buf, lock, irqoff, handler, module>>

WriteUnlock(c) ==
  /\ Goto(c, "wunlock", "idle")
  /\ UnlockIrqRestore(c)
  /\ UNCHANGED <<left, ch, cmd, ring, handler, module>>

-----------------------------------------------------------------------------
Init ==
  /\ buf = [i \in Slots |-> Zero]
  /\ put_idx = 0 /\ get_idx = 0 /\ count = 0
  /\ lock = NoCpu
  /\ irqoff = [c \in Cpus |-> FALSE]
  /\ pc = [c \in Cpus |-> "closed"]
  /\ left = [c \in Cpus |-> 0]
  /\ ch = [c \in Cpus |-> Zero]
  /\ cmd = [c \in Cpus |-> "other"]
  /\ irqcpu = NoCpu
  /\ ipc = "none"
  /\ scancode = 0
  /\ mod = "unloaded"
  /\ held = {}

LoadSteps ==
  InitRegion \/ InitData \/ InitStatus \/ InitIrq \/ InitCdev

UnloadSteps == ExitCdev \/ ExitIrq \/ ExitSync \/ ExitRegions

HandlerSteps == IrqEntry \/ IrqLock \/ PutStore \/ PutCount \/ IrqUnlock

\* The steps a call of read or write takes by itself, without the lock.
CallSteps(c) ==
  \/ ReadReturn(c) \/ ReadNext(c)
  \/ GetFetch(c) \/ GetEmpty(c) \/ GetCount(c) \/ ReadUnlock(c) \/ ReadPutUser(c)
  \/ reset_buffer(c) \/ WriteUnlock(c)

LockSteps(c) == ReadLock(c) \/ WriteLock(c)

Calls(c) ==
  \/ kbd_open(c) \/ kbd_release(c)
  \/ \E size \in 0 .. MaxRead : kbd_read(c, size)
  \/ \E w \in Commands : kbd_write(c, w)

Next ==
  \/ Insmod \/ LoadSteps \/ Rmmod \/ UnloadSteps
  \/ \E c \in Cpus, s \in Scancodes : Interrupt(c, s)
  \/ HandlerSteps
  \/ \E c \in Cpus : Calls(c) \/ CallSteps(c) \/ LockSteps(c)

Spec == Init /\ [][Next]_vars

(***************************************************************************)
(* Fairness.  A CPU runs its handler and, between interrupts, its thread:  *)
(* keys arrive at a finite rate, so a thread that can run infinitely often *)
(* does.  The kernel's queued spinlocks serve waiters in turn, so a waiter *)
(* that finds the lock free infinitely often gets it.  Nothing makes a     *)
(* user call an operation, press a key or load the module.                 *)
(***************************************************************************)
Fairness ==
  /\ WF_vars(LoadSteps) /\ WF_vars(UnloadSteps)
  /\ SF_vars(HandlerSteps)
  /\ \A c \in Cpus : SF_vars(CallSteps(c)) /\ SF_vars(LockSteps(c))

FairSpec == Spec /\ Fairness

-----------------------------------------------------------------------------
(***************************************************************************)
(* Properties.                                                             *)
(***************************************************************************)
ModStates == {"unloaded", "init_region", "init_data", "init_status", "init_irq",
              "init_cdev", "live", "exit_cdev", "exit_irq", "exit_sync", "exit_regions"}

ThreadLabels == {"closed", "idle", "loop", "rspin", "get", "dec", "more", "empty",
                 "put_user", "wspin", "reset", "wunlock"}

HandlerLabels == {"none", "entry", "spin", "put", "inc", "unlock"}

\* Every variable of kbd.c keeps its type; in particular the indices stay
\* inside buf and count never exceeds its size.
TypeOK ==
  /\ buf \in [Slots -> Chars]
  /\ put_idx \in Slots /\ get_idx \in Slots /\ count \in 0 .. BUFFER_SIZE
  /\ lock \in Cpus \cup {NoCpu, Irq}
  /\ irqoff \in [Cpus -> BOOLEAN]
  /\ pc \in [Cpus -> ThreadLabels]
  /\ left \in [Cpus -> 0 .. MaxRead]
  /\ ch \in [Cpus -> Chars]
  /\ cmd \in [Cpus -> Commands]
  /\ irqcpu \in Cpus \cup {NoCpu}
  /\ ipc \in HandlerLabels
  /\ scancode \in Scancodes \cup {0}
  /\ mod \in ModStates
  /\ held \in SUBSET Resources

\* Between critical sections the three fields of the ring agree: put_idx is
\* count slots after get_idx.  put_char, get_char and reset_buffer all update
\* them one after the other.
RingConsistent ==
  lock = NoCpu => put_idx = (get_idx + count) % BUFFER_SIZE

\* The handler takes the lock with a plain spin_lock.  It must never spin on a
\* CPU whose own thread holds the lock, for then neither would ever run again.
NoSelfDeadlock ==
  \A c \in Cpus : irqcpu = c => lock # c

\* Whichever step of kbd_init failed, and after kbd_exit, the module leaves no
\* resource behind and none of its code is still running.
UnloadedIsClean ==
  mod = "unloaded" =>
    /\ held = {}
    /\ irqcpu = NoCpu /\ ipc = "none" /\ lock = NoCpu
    /\ \A c \in Cpus : pc[c] = "closed"

\* count as the indices see it: a handler that has stored its key is one key
\* ahead of count, a reader that has fetched one is one key behind.
Fetched == \E c \in Cpus : pc[c] = "dec"

Indexed ==
  IF ipc = "inc" THEN count + 1
  ELSE IF Fetched THEN count - 1
  ELSE count

\* The keys in the ring, oldest first.
Contents == [i \in 1 .. Indexed |-> buf[(get_idx + i - 1) % BUFFER_SIZE]]

\* The key of a press that the handler has not dealt with yet.
Coming ==
  IF ipc \in {"entry", "spin", "put"} /\ is_key_press(scancode)
    THEN {get_ascii(scancode)} ELSE {}

\* The threads whose write has been told to reset the buffer and has not yet.
Clearing == {c \in Cpus : pc[c] \in {"wspin", "reset"}}

Abstract == INSTANCE KeyLog
  WITH Capacity <- BUFFER_SIZE, Threads <- Cpus, Keys <- Keys, NoKey <- Zero,
       queue <- Contents, got <- ch, coming <- Coming,
       clearing <- Clearing, loaded <- mod # "unloaded"

\* The ring under its lock is a bounded first-in first-out log: every press the
\* handler takes is logged unless the buffer is full at that moment, readers get
\* the keys in the order they were pressed, and the log is emptied only by a
\* write that reached reset_buffer, once for each such write, and by a reload.
ImplementsLog == Abstract!LogSpec

\* kbd_read and kbd_write return, however many keys arrive meanwhile and
\* however the threads contend for the lock.
CallsReturn ==
  \A c \in Cpus : pc[c] \notin {"closed", "idle"} ~> pc[c] = "idle"

\* rmmod finishes: free_irq's wait for a running handler ends.
UnloadFinishes == mod = "exit_cdev" ~> mod = "unloaded"

\* README of the keylogger: "Supports a `clear` command via write to reset the
\* buffer"; other writes are not said to reset it.
OnlyClearResets ==
  [][\A c \in Cpus : pc[c] = "reset" /\ pc'[c] # "reset" => cmd[c] = "clear"]_vars
=============================================================================
