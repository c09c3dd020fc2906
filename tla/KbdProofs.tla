------------------------------ MODULE KbdProofs -----------------------------
(***************************************************************************)
(* Proofs about Kbd, for every buffer size, every set of CPUs and every    *)
(* set of scancodes.  The inductive invariant KInv has three parts: who    *)
(* holds the lock and with interrupts in which state (LockInv), how far    *)
(* the ring's fields are from agreeing at each point of a critical section *)
(* (RingInv), and which resources and which running code each state of the *)
(* module's life cycle allows (ModInv).                                    *)
(***************************************************************************)
EXTENDS Kbd, SequenceTheorems, TLAPS

Critical == {"get", "dec", "more", "empty", "reset", "wunlock"}

LockInv ==
  /\ \A c \in Cpus : pc[c] \in Critical <=> lock = c
  /\ \A c \in Cpus : pc[c] \in Critical \cup {"rspin", "wspin"} => irqoff[c]
  /\ lock = Irq <=> ipc \in {"put", "inc", "unlock"}
  /\ irqcpu = NoCpu <=> ipc = "none"
  /\ \A c \in Cpus : irqcpu = c => ~irqoff[c]
  /\ ipc # "none" => scancode \in Scancodes
  /\ ipc \in {"spin", "put"} => is_key_press(scancode)

RingInv ==
  /\ Indexed \in 0 .. BUFFER_SIZE
  /\ put_idx = (get_idx + Indexed) % BUFFER_SIZE

Ports == {"chrdev", "data_port", "status_port"}

\* What each life-cycle state says of the resources held.
HeldAt(m) ==
  CASE m \in {"unloaded", "init_region"} -> {{}}
    [] m = "init_data"    -> {{"chrdev"}}
    [] m = "init_status"  -> {{"chrdev", "data_port"}}
    [] m = "init_irq"     -> {Ports}
    [] m \in {"init_cdev", "exit_irq"} -> {Ports \cup {"irq"}}
    [] m \in {"live", "exit_cdev"} -> {Ports \cup {"irq"}, Resources}
    [] OTHER              -> {Ports}

ModInv ==
  /\ held \in HeldAt(mod)
  /\ \A c \in Cpus : pc[c] # "closed" => mod = "live"
  /\ ipc # "none" => mod \in {"init_cdev", "live", "exit_cdev", "exit_irq", "exit_sync"}

KInv == TypeOK /\ LockInv /\ RingInv /\ ModInv

-----------------------------------------------------------------------------
\* The wrap-around of an index that is less than two turns ahead.
LEMMA WrapMod ==
  ASSUME NEW n \in Nat \ {0}, NEW a \in 0 .. 2 * n - 1
  PROVE  a % n = IF a < n THEN a ELSE a - n
  OBVIOUS

\* The state the module is inserted into satisfies the invariant.
LEMMA InitKInv == Init => KInv
<1> SUFFICES ASSUME Init PROVE KInv
  OBVIOUS
<1> USE KbdAssumption DEF Init
<1>1. TypeOK
  BY DEF TypeOK, Slots, Chars, ThreadLabels, HandlerLabels, ModStates, Commands
<1>2. LockInv
  BY DEF LockInv, Critical
<1>3. RingInv
  BY WrapMod DEF RingInv, Indexed, Fetched
<1>4. ModInv
  BY DEF ModInv, HeldAt
<1> QED
  BY <1>1, <1>2, <1>3, <1>4 DEF KInv

-----------------------------------------------------------------------------
(***************************************************************************)
(* Type correctness is preserved, one step per group of actions.           *)
(***************************************************************************)
\* An index stays inside the buffer when it is advanced.
LEMMA NextSlot ==
  ASSUME NEW i \in Slots
  PROVE  /\ (i + 1) % BUFFER_SIZE \in Slots
         /\ (i + 1) % BUFFER_SIZE = IF i + 1 = BUFFER_SIZE THEN 0 ELSE i + 1
  BY KbdAssumption DEF Slots

\* Every step of kbd.c keeps every variable in its type.
LEMMA TypeStep == KInv /\ [Next]_vars => TypeOK'
<1> SUFFICES ASSUME KInv, [Next]_vars PROVE TypeOK'
  OBVIOUS
<1> USE KbdAssumption DEF KInv, TypeOK, Slots, ThreadLabels, HandlerLabels,
        ModStates, Commands, Resources, module, handler, thread, ring
<1>1. CASE Insmod
  BY <1>1 DEF Insmod, Chars
<1>2. CASE InitRegion
  BY <1>2 DEF InitRegion, Acquire
<1>3. CASE InitData
  BY <1>3 DEF InitData, Acquire
<1>4. CASE InitStatus
  BY <1>4 DEF InitStatus, Acquire
<1>5. CASE InitIrq
  BY <1>5 DEF InitIrq, Acquire
<1>6. CASE InitCdev
  BY <1>6 DEF InitCdev
<1>7. CASE Rmmod
  BY <1>7 DEF Rmmod
<1>8. CASE ExitCdev
  BY <1>8 DEF ExitCdev
<1>9. CASE ExitIrq
  BY <1>9 DEF ExitIrq
<1>10. CASE ExitSync
  BY <1>10 DEF ExitSync
<1>11. CASE ExitRegions
  BY <1>11 DEF ExitRegions
<1>12. ASSUME NEW c \in Cpus, NEW s \in Scancodes, Interrupt(c, s) PROVE TypeOK'
  BY <1>12 DEF Interrupt
<1>13. CASE IrqEntry
  BY <1>13 DEF IrqEntry
<1>14. CASE IrqLock
  BY <1>14 DEF IrqLock
<1>15. CASE PutStore
  <2>1. put_idx' \in Slots
    BY <1>15, NextSlot DEF PutStore
  <2>2. buf' \in [Slots -> Chars]
    <3>1. get_ascii(scancode) \in Chars
      BY <1>15 DEF PutStore, LockInv, Chars, Keys
    <3> QED
      BY <1>15, <3>1 DEF PutStore
  <2> QED
    BY <1>15, <2>1, <2>2 DEF PutStore
<1>16. CASE PutCount
  BY <1>16 DEF PutCount, RingInv, Indexed
<1>17. CASE IrqUnlock
  BY <1>17 DEF IrqUnlock
<1>18. ASSUME NEW c \in Cpus, Calls(c) \/ CallSteps(c) \/ LockSteps(c) PROVE TypeOK'
  <2>1. CASE kbd_open(c)
    BY <2>1 DEF kbd_open, Goto
  <2>2. CASE kbd_release(c)
    BY <2>2 DEF kbd_release, Goto
  <2>3. CASE \E size \in 0 .. MaxRead : kbd_read(c, size)
    BY <2>3 DEF kbd_read, Goto
  <2>4. CASE \E w \in Commands : kbd_write(c, w)
    <3>1. PICK w \in Commands : kbd_write(c, w)
      BY <2>4
    <3>2. /\ \/ pc' = [pc EXCEPT ![c] = "idle"] /\ irqoff' = irqoff
             \/ pc' = [pc EXCEPT ![c] = "wspin"] /\ irqoff' = [irqoff EXCEPT ![c] = TRUE]
          /\ cmd' = [cmd EXCEPT ![c] = w]
      BY <3>1 DEF kbd_write, Goto, IrqSave
    <3>3. irqoff' \in [Cpus -> BOOLEAN]
      BY <3>2
    <3>4. pc' \in [Cpus -> ThreadLabels] /\ cmd' \in [Cpus -> Commands]
      BY <3>2
    <3> QED
      BY <3>1, <3>3, <3>4 DEF kbd_write
  <2>5. CASE ReadReturn(c)
    BY <2>5 DEF ReadReturn, Goto
  <2>6. CASE ReadNext(c)
    BY <2>6 DEF ReadNext, Goto, IrqSave
  <2>7. CASE GetFetch(c)
    <3>1. get_idx' \in Slots
      BY <2>7, NextSlot DEF GetFetch
    <3> QED
      BY <2>7, <3>1 DEF GetFetch, Goto
  <2>8. CASE GetEmpty(c)
    BY <2>8 DEF GetEmpty, Goto
  <2>9. CASE GetCount(c)
    <3>1. Fetched /\ ipc # "inc"
      BY <2>9 DEF GetCount, Goto, Fetched, LockInv, Critical
    <3> QED
      BY <2>9, <3>1 DEF GetCount, Goto, RingInv, Indexed
  <2>10. CASE ReadUnlock(c)
    BY <2>10 DEF ReadUnlock, Goto, UnlockIrqRestore
  <2>11. CASE ReadPutUser(c)
    BY <2>11 DEF ReadPutUser, Goto
  <2>12. CASE reset_buffer(c)
    BY <2>12 DEF reset_buffer, Goto
  <2>13. CASE WriteUnlock(c)
    BY <2>13 DEF WriteUnlock, Goto, UnlockIrqRestore
  <2>14. CASE ReadLock(c)
    BY <2>14 DEF ReadLock, Lock, Goto
  <2>15. CASE WriteLock(c)
    BY <2>15 DEF WriteLock, Lock, Goto
  <2> QED
    BY <1>18, <2>1, <2>2, <2>3, <2>4, <2>5, <2>6, <2>7, <2>8, <2>9, <2>10, <2>11, <2>12, <2>13, <2>14, <2>15
       DEF Calls, CallSteps, LockSteps
<1>19. CASE UNCHANGED vars
  BY <1>19 DEF vars
<1> QED
  BY <1>1, <1>2, <1>3, <1>4, <1>5, <1>6, <1>7, <1>8, <1>9,
     <1>10, <1>11, <1>12, <1>13, <1>14, <1>15, <1>16, <1>17, <1>18, <1>19
     DEF Next, LoadSteps, UnloadSteps, HandlerSteps

(***************************************************************************)
(* The lock: a step that takes it or drops it moves its owner with it.     *)
(***************************************************************************)
\* Every step of kbd.c keeps the lock with the context inside the critical
\* section, and local interrupts off around it.
LEMMA LockStep == KInv /\ [Next]_vars => LockInv'
<1> SUFFICES ASSUME KInv, [Next]_vars PROVE LockInv'
  OBVIOUS
<1> USE KbdAssumption DEF KInv, TypeOK, LockInv, Critical, ThreadLabels, HandlerLabels,
        module, handler, thread, ring
<1>1. CASE Insmod
  BY <1>1 DEF Insmod, ModInv
<1>2. CASE InitRegion
  BY <1>2 DEF InitRegion, Acquire
<1>3. CASE InitData
  BY <1>3 DEF InitData, Acquire
<1>4. CASE InitStatus
  BY <1>4 DEF InitStatus, Acquire
<1>5. CASE InitIrq
  BY <1>5 DEF InitIrq, Acquire
<1>6. CASE InitCdev
  BY <1>6 DEF InitCdev
<1>7. CASE Rmmod
  BY <1>7 DEF Rmmod
<1>8. CASE ExitCdev
  BY <1>8 DEF ExitCdev
<1>9. CASE ExitIrq
  BY <1>9 DEF ExitIrq
<1>10. CASE ExitSync
  BY <1>10 DEF ExitSync
<1>11. CASE ExitRegions
  BY <1>11 DEF ExitRegions
<1>12. ASSUME NEW c \in Cpus, NEW s \in Scancodes, Interrupt(c, s) PROVE LockInv'
  BY <1>12 DEF Interrupt
<1>13. CASE IrqEntry
  BY <1>13 DEF IrqEntry
<1>14. CASE IrqLock
  BY <1>14 DEF IrqLock
<1>15. CASE PutStore
  BY <1>15 DEF PutStore
<1>16. CASE PutCount
  BY <1>16 DEF PutCount
<1>17. CASE IrqUnlock
  BY <1>17 DEF IrqUnlock
<1>18. ASSUME NEW c \in Cpus, Calls(c) \/ CallSteps(c) \/ LockSteps(c) PROVE LockInv'
  <2>1. CASE kbd_open(c)
    BY <2>1 DEF kbd_open, Goto
  <2>2. CASE kbd_release(c)
    BY <2>2 DEF kbd_release, Goto
  <2>3. CASE \E size \in 0 .. MaxRead : kbd_read(c, size)
    BY <2>3 DEF kbd_read, Goto
  <2>4. CASE \E w \in Commands : kbd_write(c, w)
    <3>1. PICK w \in Commands : kbd_write(c, w)
      BY <2>4
    <3>2. /\ Runs(c) /\ pc[c] = "idle"
          /\ \/ pc' = [pc EXCEPT ![c] = "idle"] /\ irqoff' = irqoff
             \/ pc' = [pc EXCEPT ![c] = "wspin"] /\ irqoff' = [irqoff EXCEPT ![c] = TRUE]
      BY <3>1 DEF kbd_write, Goto, IrqSave
    <3>3. CASE pc' = [pc EXCEPT ![c] = "idle"] /\ irqoff' = irqoff
      BY <3>1, <3>2, <3>3 DEF kbd_write
    <3>4. CASE pc' = [pc EXCEPT ![c] = "wspin"] /\ irqoff' = [irqoff EXCEPT ![c] = TRUE]
      BY <3>1, <3>2, <3>4 DEF kbd_write, Runs
    <3> QED
      BY <3>2, <3>3, <3>4
  <2>5. CASE ReadReturn(c)
    BY <2>5 DEF ReadReturn, Goto
  <2>6. CASE ReadNext(c)
    BY <2>6 DEF ReadNext, Goto, IrqSave, Runs
  <2>7. CASE GetFetch(c)
    BY <2>7 DEF GetFetch, Goto
  <2>8. CASE GetEmpty(c)
    BY <2>8 DEF GetEmpty, Goto
  <2>9. CASE GetCount(c)
    BY <2>9 DEF GetCount, Goto
  <2>10. CASE ReadUnlock(c)
    BY <2>10 DEF ReadUnlock, Goto, UnlockIrqRestore
  <2>11. CASE ReadPutUser(c)
    BY <2>11 DEF ReadPutUser, Goto
  <2>12. CASE reset_buffer(c)
    BY <2>12 DEF reset_buffer, Goto
  <2>13. CASE WriteUnlock(c)
    BY <2>13 DEF WriteUnlock, Goto, UnlockIrqRestore
  <2>14. CASE ReadLock(c)
    BY <2>14 DEF ReadLock, Lock, Goto
  <2>15. CASE WriteLock(c)
    BY <2>15 DEF WriteLock, Lock, Goto
  <2> QED
    BY <1>18, <2>1, <2>2, <2>3, <2>4, <2>5, <2>6, <2>7, <2>8, <2>9, <2>10, <2>11, <2>12, <2>13, <2>14, <2>15
       DEF Calls, CallSteps, LockSteps
<1>19. CASE UNCHANGED vars
  BY <1>19 DEF vars
<1> QED
  BY <1>1, <1>2, <1>3, <1>4, <1>5, <1>6, <1>7, <1>8, <1>9,
     <1>10, <1>11, <1>12, <1>13, <1>14, <1>15, <1>16, <1>17, <1>18, <1>19
     DEF Next, LoadSteps, UnloadSteps, HandlerSteps

(***************************************************************************)
(* The ring.                                                               *)
(***************************************************************************)
\* Storing a key one slot further keeps the index equal to the sum.
LEMMA RingPut ==
  ASSUME NEW g \in Slots, NEW n \in 0 .. BUFFER_SIZE - 1
  PROVE  (((g + n) % BUFFER_SIZE) + 1) % BUFFER_SIZE = (g + (n + 1)) % BUFFER_SIZE
  BY KbdAssumption DEF Slots

\* Fetching the oldest key leaves the end of the ring where it was.
LEMMA RingGet ==
  ASSUME NEW g \in Slots, NEW n \in 1 .. BUFFER_SIZE
  PROVE  (((g + 1) % BUFFER_SIZE) + (n - 1)) % BUFFER_SIZE = (g + n) % BUFFER_SIZE
  BY KbdAssumption DEF Slots

\* The lock excludes: one context is inside a critical section at a time.
LEMMA Exclusive ==
  ASSUME TypeOK, LockInv
  PROVE  /\ ipc \in {"put", "inc", "unlock"} => \A c \in Cpus : pc[c] \notin Critical
         /\ \A c, d \in Cpus : pc[c] \in Critical /\ pc[d] \in Critical => c = d
  BY KbdAssumption DEF LockInv

\* Every step of kbd.c keeps put_idx, get_idx and count in step.
LEMMA RingStep == KInv /\ [Next]_vars => RingInv'
<1> SUFFICES ASSUME KInv, [Next]_vars PROVE RingInv'
  OBVIOUS
<1> USE KbdAssumption DEF KInv, TypeOK, RingInv, Indexed, Fetched, Slots, ThreadLabels, HandlerLabels,
        module, handler, thread, ring
<1>1. CASE Insmod
  <2>1. ipc = "none" /\ ~Fetched
    BY <1>1 DEF Insmod, ModInv
  <2> QED
    BY <1>1, <2>1 DEF Insmod
<1>2. CASE InitRegion
  BY <1>2 DEF InitRegion, Acquire
<1>3. CASE InitData
  BY <1>3 DEF InitData, Acquire
<1>4. CASE InitStatus
  BY <1>4 DEF InitStatus, Acquire
<1>5. CASE InitIrq
  BY <1>5 DEF InitIrq, Acquire
<1>6. CASE InitCdev
  BY <1>6 DEF InitCdev
<1>7. CASE Rmmod
  BY <1>7 DEF Rmmod
<1>8. CASE ExitCdev
  BY <1>8 DEF ExitCdev
<1>9. CASE ExitIrq
  BY <1>9 DEF ExitIrq
<1>10. CASE ExitSync
  BY <1>10 DEF ExitSync
<1>11. CASE ExitRegions
  BY <1>11 DEF ExitRegions
<1>12. ASSUME NEW c \in Cpus, NEW s \in Scancodes, Interrupt(c, s) PROVE RingInv'
  BY <1>12 DEF Interrupt, LockInv
<1>13. CASE IrqEntry
  BY <1>13 DEF IrqEntry
<1>14. CASE IrqLock
  BY <1>14 DEF IrqLock
<1>15. CASE PutStore
  <2>1. ~Fetched /\ ~Fetched'
    BY <1>15, Exclusive DEF PutStore, Critical
  <2>2. CASE count >= BUFFER_SIZE
    BY <1>15, <2>1, <2>2 DEF PutStore
  <2>3. CASE ~(count >= BUFFER_SIZE)
    BY <1>15, <2>1, <2>3, RingPut DEF PutStore
  <2> QED
    BY <2>2, <2>3
<1>16. CASE PutCount
  <2>1. ~Fetched /\ ~Fetched'
    BY <1>16, Exclusive DEF PutCount, Critical
  <2> QED
    BY <1>16, <2>1 DEF PutCount
<1>17. CASE IrqUnlock
  BY <1>17 DEF IrqUnlock
<1>18. ASSUME NEW c \in Cpus, Calls(c) \/ CallSteps(c) \/ LockSteps(c) PROVE RingInv'
  <2>1. CASE kbd_open(c)
    BY <2>1 DEF kbd_open, Goto
  <2>2. CASE kbd_release(c)
    BY <2>2 DEF kbd_release, Goto
  <2>3. CASE \E size \in 0 .. MaxRead : kbd_read(c, size)
    BY <2>3 DEF kbd_read, Goto
  <2>4. CASE \E w \in Commands : kbd_write(c, w)
    BY <2>4 DEF kbd_write, Goto, IrqSave
  <2>5. CASE ReadReturn(c)
    BY <2>5 DEF ReadReturn, Goto
  <2>6. CASE ReadNext(c)
    BY <2>6 DEF ReadNext, Goto, IrqSave
  <2>7. CASE GetFetch(c)
    <3>1. ipc # "inc" /\ ~Fetched /\ Fetched'
      BY <2>7, Exclusive DEF GetFetch, Goto, Critical
    <3>2. /\ get_idx' = (get_idx + 1) % BUFFER_SIZE /\ count \in 1 .. BUFFER_SIZE
          /\ put_idx' = put_idx /\ count' = count /\ ipc' = ipc
      BY <2>7 DEF GetFetch
    <3>3. put_idx = (((get_idx + 1) % BUFFER_SIZE) + (count - 1)) % BUFFER_SIZE
      BY <3>1, <3>2, RingGet
    <3>4. Indexed' = count - 1
      BY <3>1, <3>2
    <3>5. Indexed' \in 0 .. BUFFER_SIZE
      BY <3>2, <3>4
    <3>6. put_idx' = (get_idx' + Indexed') % BUFFER_SIZE
      BY <3>2, <3>3, <3>4
    <3> QED
      BY <3>5, <3>6
  <2>8. CASE GetEmpty(c)
    BY <2>8 DEF GetEmpty, Goto
  <2>9. CASE GetCount(c)
    <3>1. ipc # "inc" /\ Fetched /\ ~Fetched'
      BY <2>9, Exclusive DEF GetCount, Goto, Critical
    <3> QED
      BY <2>9, <3>1 DEF GetCount, Goto
  <2>10. CASE ReadUnlock(c)
    BY <2>10 DEF ReadUnlock, Goto, UnlockIrqRestore
  <2>11. CASE ReadPutUser(c)
    BY <2>11 DEF ReadPutUser, Goto
  <2>12. CASE reset_buffer(c)
    <3>1. ipc # "inc" /\ ~Fetched'
      BY <2>12, Exclusive DEF reset_buffer, Goto, Critical
    <3> QED
      BY <2>12, <3>1 DEF reset_buffer
  <2>13. CASE WriteUnlock(c)
    BY <2>13 DEF WriteUnlock, Goto, UnlockIrqRestore
  <2>14. CASE ReadLock(c)
    BY <2>14 DEF ReadLock, Lock, Goto
  <2>15. CASE WriteLock(c)
    BY <2>15 DEF WriteLock, Lock, Goto
  <2> QED
    BY <1>18, <2>1, <2>2, <2>3, <2>4, <2>5, <2>6, <2>7, <2>8, <2>9, <2>10, <2>11, <2>12, <2>13, <2>14, <2>15
       DEF Calls, CallSteps, LockSteps
<1>19. CASE UNCHANGED vars
  BY <1>19 DEF vars
<1> QED
  BY <1>1, <1>2, <1>3, <1>4, <1>5, <1>6, <1>7, <1>8, <1>9,
     <1>10, <1>11, <1>12, <1>13, <1>14, <1>15, <1>16, <1>17, <1>18, <1>19
     DEF Next, LoadSteps, UnloadSteps, HandlerSteps

(***************************************************************************)
(* The life cycle.                                                         *)
(***************************************************************************)
\* Every step of kbd.c holds the resources its life-cycle state says, and runs
\* module code only while the module is there.
LEMMA ModStep == KInv /\ [Next]_vars => ModInv'
<1> SUFFICES ASSUME KInv, [Next]_vars PROVE ModInv'
  OBVIOUS
<1> USE KbdAssumption DEF KInv, TypeOK, ModInv, HeldAt, Ports, Resources, ModStates, ThreadLabels, HandlerLabels,
        module, handler, thread, ring
<1>1. CASE Insmod
  BY <1>1 DEF Insmod
<1>2. CASE InitRegion
  BY <1>2 DEF InitRegion, Acquire
<1>3. CASE InitData
  BY <1>3 DEF InitData, Acquire, out_unregister, out_release_region, out_release_regions
<1>4. CASE InitStatus
  BY <1>4 DEF InitStatus, Acquire, out_unregister, out_release_region, out_release_regions
<1>5. CASE InitIrq
  BY <1>5 DEF InitIrq, Acquire, out_unregister, out_release_region, out_release_regions
<1>6. CASE InitCdev
  BY <1>6 DEF InitCdev
<1>7. CASE Rmmod
  BY <1>7 DEF Rmmod
<1>8. CASE ExitCdev
  BY <1>8 DEF ExitCdev
<1>9. CASE ExitIrq
  BY <1>9 DEF ExitIrq
<1>10. CASE ExitSync
  BY <1>10 DEF ExitSync, LockInv
<1>11. CASE ExitRegions
  BY <1>11 DEF ExitRegions
<1>12. ASSUME NEW c \in Cpus, NEW s \in Scancodes, Interrupt(c, s) PROVE ModInv'
  BY <1>12 DEF Interrupt
<1>13. CASE IrqEntry
  BY <1>13 DEF IrqEntry
<1>14. CASE IrqLock
  BY <1>14 DEF IrqLock
<1>15. CASE PutStore
  BY <1>15 DEF PutStore
<1>16. CASE PutCount
  BY <1>16 DEF PutCount
<1>17. CASE IrqUnlock
  BY <1>17 DEF IrqUnlock
<1>18. ASSUME NEW c \in Cpus, Calls(c) \/ CallSteps(c) \/ LockSteps(c) PROVE ModInv'
  <2>1. CASE kbd_open(c)
    BY <2>1 DEF kbd_open, Goto
  <2>2. CASE kbd_release(c)
    BY <2>2 DEF kbd_release, Goto
  <2>3. CASE \E size \in 0 .. MaxRead : kbd_read(c, size)
    BY <2>3 DEF kbd_read, Goto
  <2>4. CASE \E w \in Commands : kbd_write(c, w)
    BY <2>4 DEF kbd_write, Goto, IrqSave
  <2>5. CASE ReadReturn(c)
    BY <2>5 DEF ReadReturn, Goto
  <2>6. CASE ReadNext(c)
    BY <2>6 DEF ReadNext, Goto, IrqSave
  <2>7. CASE GetFetch(c)
    BY <2>7 DEF GetFetch, Goto
  <2>8. CASE GetEmpty(c)
    BY <2>8 DEF GetEmpty, Goto
  <2>9. CASE GetCount(c)
    BY <2>9 DEF GetCount, Goto
  <2>10. CASE ReadUnlock(c)
    BY <2>10 DEF ReadUnlock, Goto, UnlockIrqRestore
  <2>11. CASE ReadPutUser(c)
    BY <2>11 DEF ReadPutUser, Goto
  <2>12. CASE reset_buffer(c)
    BY <2>12 DEF reset_buffer, Goto
  <2>13. CASE WriteUnlock(c)
    BY <2>13 DEF WriteUnlock, Goto, UnlockIrqRestore
  <2>14. CASE ReadLock(c)
    BY <2>14 DEF ReadLock, Lock, Goto
  <2>15. CASE WriteLock(c)
    BY <2>15 DEF WriteLock, Lock, Goto
  <2> QED
    BY <1>18, <2>1, <2>2, <2>3, <2>4, <2>5, <2>6, <2>7, <2>8, <2>9, <2>10, <2>11, <2>12, <2>13, <2>14, <2>15
       DEF Calls, CallSteps, LockSteps
<1>19. CASE UNCHANGED vars
  BY <1>19 DEF vars
<1> QED
  BY <1>1, <1>2, <1>3, <1>4, <1>5, <1>6, <1>7, <1>8, <1>9,
     <1>10, <1>11, <1>12, <1>13, <1>14, <1>15, <1>16, <1>17, <1>18, <1>19
     DEF Next, LoadSteps, UnloadSteps, HandlerSteps

-----------------------------------------------------------------------------
(***************************************************************************)
(* The theorems.                                                           *)
(***************************************************************************)
\* KInv holds in every reachable state.
LEMMA KInvInvariant == Spec => []KInv
<1>1. KInv /\ [Next]_vars => KInv'
  BY TypeStep, LockStep, RingStep, ModStep DEF KInv
<1> QED
  BY InitKInv, <1>1, PTL DEF Spec

\* Type correctness of kbd.c: the indices never leave the buffer and count
\* never exceeds BUFFER_SIZE or goes below zero, for every buffer size.
THEOREM TypeCorrect == Spec => []TypeOK
<1>1. KInv => TypeOK
  BY DEF KInv
<1> QED
  BY KInvInvariant, <1>1, PTL

\* Whenever the lock is free, put_char, get_char and reset_buffer have left the
\* three fields of the ring in agreement.
THEOREM RingCorrect == Spec => []RingConsistent
<1>1. KInv => RingConsistent
  <2> SUFFICES ASSUME KInv, lock = NoCpu
               PROVE  put_idx = (get_idx + count) % BUFFER_SIZE
    BY DEF RingConsistent
  <2>1. ipc # "inc" /\ ~Fetched
    BY KbdAssumption DEF KInv, TypeOK, LockInv, Fetched, Critical
  <2> QED
    BY <2>1 DEF KInv, RingInv, Indexed
<1> QED
  BY KInvInvariant, <1>1, PTL

\* The handler's plain spin_lock never waits for the thread it interrupted:
\* every holder of the lock in process context has local interrupts off.
THEOREM NoDeadlockWithHandler == Spec => []NoSelfDeadlock
<1>1. KInv => NoSelfDeadlock
  BY KbdAssumption DEF KInv, TypeOK, LockInv, NoSelfDeadlock
<1> QED
  BY KInvInvariant, <1>1, PTL

\* However kbd_init failed, and after kbd_exit, nothing of the module is left.
THEOREM CleanUnload == Spec => []UnloadedIsClean
<1>1. KInv => UnloadedIsClean
  <2> SUFFICES ASSUME KInv, mod = "unloaded"
               PROVE  /\ held = {}
                      /\ irqcpu = NoCpu /\ ipc = "none" /\ lock = NoCpu
                      /\ \A c \in Cpus : pc[c] = "closed"
    BY DEF UnloadedIsClean
  <2>1. held = {}
    BY DEF KInv, ModInv, HeldAt
  <2>2. ipc = "none" /\ \A c \in Cpus : pc[c] = "closed"
    BY DEF KInv, ModInv
  <2> QED
    BY <2>1, <2>2, KbdAssumption DEF KInv, TypeOK, LockInv, Critical
<1> QED
  BY KInvInvariant, <1>1, PTL

-----------------------------------------------------------------------------
(***************************************************************************)
(* The refinement of KeyLog.  An interrupt for a press is the abstract     *)
(* Press, storing or dropping its key is Log, fetching one is Take, a      *)
(* write that goes on to reset_buffer is AskClear and the reset is Clear;  *)
(* insmod is Load and the last step of an unload or of a failed load is    *)
(* Unload.  The updates of count that follow do not change what the        *)
(* indices say and are stutters.                                           *)
(***************************************************************************)
\* A ring that holds no key is the empty sequence.
LEMMA EmptyContents == Indexed = 0 => Contents = << >>
  BY DEF Contents

\* The contents are a sequence of characters as long as the indices say.
LEMMA ContentsSeq ==
  ASSUME KInv
  PROVE  /\ Contents \in Seq(Chars)
         /\ Len(Contents) = Indexed
<1>1. Indexed \in 0 .. BUFFER_SIZE
  BY DEF KInv, RingInv
<1>2. ASSUME NEW i \in 1 .. Indexed
      PROVE  buf[(get_idx + i - 1) % BUFFER_SIZE] \in Chars
  <2>1. (get_idx + i - 1) % BUFFER_SIZE \in Slots
    BY <1>1, KbdAssumption DEF KInv, TypeOK, Slots
  <2> QED
    BY <2>1 DEF KInv, TypeOK
<1> QED
  BY <1>1, <1>2, KbdAssumption DEF Contents

\* While a slot is free, put_idx is none of the slots that hold a key.
LEMMA PutSlotFree ==
  ASSUME NEW g \in Slots, NEW n \in 0 .. BUFFER_SIZE - 1, NEW i \in 1 .. n
  PROVE  (g + i - 1) % BUFFER_SIZE # (g + n) % BUFFER_SIZE
  BY KbdAssumption DEF Slots

\* The slot of the i-th key after the oldest one is fetched.
LEMMA ShiftSlot ==
  ASSUME NEW g \in Slots, NEW i \in 1 .. BUFFER_SIZE
  PROVE  (((g + 1) % BUFFER_SIZE) + i - 1) % BUFFER_SIZE = (g + i) % BUFFER_SIZE
  BY KbdAssumption DEF Slots

\* put_char either drops the key because the ring is full, or appends it.
LEMMA PutLogs ==
  ASSUME KInv, PutStore
  PROVE  Abstract!Log(get_ascii(scancode)) /\ get_ascii(scancode) \in Keys
<1>1. ipc = "put" /\ ~Fetched /\ ~Fetched' /\ ch' = ch
  BY Exclusive DEF KInv, PutStore, thread, Critical, Fetched
<1>0. /\ get_ascii(scancode) \in Coming /\ Coming' = {}
      /\ Clearing' = Clearing /\ mod' = mod
  <2>1. is_key_press(scancode) /\ ipc' \in {"inc", "unlock"} /\ pc' = pc /\ mod' = mod
    BY <1>1 DEF KInv, LockInv, PutStore, thread, module
  <2> QED
    BY <1>1, <2>1 DEF Coming, Clearing
<1>2. scancode \in Scancodes
  BY <1>1 DEF KInv, LockInv
<1>3. get_ascii(scancode) \in Keys
  BY <1>2 DEF Keys
<1>4. Indexed = count /\ count \in 0 .. BUFFER_SIZE
  BY <1>1 DEF Indexed, KInv, TypeOK
<1>5. CASE count >= BUFFER_SIZE
  <2>1. Contents' = Contents
    BY <1>1, <1>5 DEF PutStore, Contents, Indexed
  <2>2. ~(Len(Contents) < BUFFER_SIZE)
    BY <1>4, <1>5, ContentsSeq, KbdAssumption
  <2> QED
    BY <1>0, <1>1, <1>3, <2>1, <2>2 DEF Abstract!Log
<1>6. CASE ~(count >= BUFFER_SIZE)
  <2>1. /\ ipc' = "inc" /\ count' = count /\ get_idx' = get_idx
        /\ buf' = [buf EXCEPT ![put_idx] = get_ascii(scancode)]
    BY <1>6 DEF PutStore
  <2>2. Indexed' = count + 1
    BY <2>1 DEF Indexed
  <2>3. /\ count \in 0 .. BUFFER_SIZE - 1 /\ get_idx \in Slots
        /\ put_idx \in Slots /\ buf \in [Slots -> Chars]
        /\ put_idx = (get_idx + count) % BUFFER_SIZE
    BY <1>4, <1>6, KbdAssumption DEF KInv, TypeOK, RingInv
  <2>4. Contents' = [i \in 1 .. count + 1 |->
                       buf'[(get_idx + i - 1) % BUFFER_SIZE]]
    BY <2>1, <2>2 DEF Contents
  <2>5. Contents = [i \in 1 .. count |-> buf[(get_idx + i - 1) % BUFFER_SIZE]]
    BY <1>4 DEF Contents
  <2>6. \A i \in 1 .. count : buf'[(get_idx + i - 1) % BUFFER_SIZE] = Contents[i]
    <3> TAKE i \in 1 .. count
    <3>1. (get_idx + i - 1) % BUFFER_SIZE \in Slots
      BY <2>3, KbdAssumption DEF Slots
    <3>2. (get_idx + i - 1) % BUFFER_SIZE # put_idx
      BY <2>3, PutSlotFree
    <3> QED
      BY <2>1, <2>3, <2>5, <3>1, <3>2
  <2>7. buf'[(get_idx + (count + 1) - 1) % BUFFER_SIZE] = get_ascii(scancode)
    <3>1. get_idx + (count + 1) - 1 = get_idx + count
      BY <2>3, KbdAssumption DEF Slots
    <3> QED
      BY <2>1, <2>3, <3>1
  <2>8. Contents' = Append(Contents, get_ascii(scancode))
    <3>1. Contents \in Seq(Chars) /\ Len(Contents) = count
      BY <1>4, ContentsSeq
    <3>2. Append(Contents, get_ascii(scancode))
            = [i \in 1 .. count + 1 |->
                 IF i = count + 1 THEN get_ascii(scancode) ELSE Contents[i]]
      <4>1. Append(Contents, get_ascii(scancode)) \in Seq(Chars)
        BY <1>3, <3>1, AppendProperties DEF Chars
      <4>2. Len(Append(Contents, get_ascii(scancode))) = count + 1
        BY <1>3, <3>1, AppendProperties DEF Chars
      <4>3. ASSUME NEW i \in 1 .. count + 1
            PROVE  Append(Contents, get_ascii(scancode))[i]
                     = IF i = count + 1 THEN get_ascii(scancode) ELSE Contents[i]
        BY <1>3, <2>3, <3>1, AppendProperties DEF Chars
      <4> QED
        BY <4>1, <4>2, <4>3, LenProperties
    <3>3. ASSUME NEW i \in 1 .. count + 1
          PROVE  buf'[(get_idx + i - 1) % BUFFER_SIZE]
                   = IF i = count + 1 THEN get_ascii(scancode) ELSE Contents[i]
      BY <2>3, <2>6, <2>7
    <3> QED
      BY <2>4, <3>2, <3>3
  <2>9. Len(Contents) < BUFFER_SIZE
    BY <1>4, <2>3, ContentsSeq, KbdAssumption
  <2> QED
    BY <1>0, <1>1, <1>3, <2>8, <2>9 DEF Abstract!Log
<1> QED
  BY <1>5, <1>6

\* get_char hands its caller the oldest key and removes it.
LEMMA FetchTakes ==
  ASSUME KInv, NEW c \in Cpus, GetFetch(c)
  PROVE  Abstract!Take(c)
<1>1. ipc # "inc" /\ ~Fetched /\ Fetched'
  BY Exclusive DEF KInv, GetFetch, Goto, Fetched, Critical, LockInv, TypeOK
<1>2. /\ count \in 1 .. BUFFER_SIZE /\ get_idx \in Slots /\ count' = count
      /\ ipc' = ipc /\ get_idx' = (get_idx + 1) % BUFFER_SIZE /\ buf' = buf
      /\ ch' = [ch EXCEPT ![c] = buf[get_idx]]
  BY DEF KInv, TypeOK, GetFetch, handler
<1>0. /\ Coming' = Coming /\ Clearing' = Clearing /\ mod' = mod
      /\ mod # "unloaded"
  <2>1. /\ pc[c] = "get" /\ pc' = [pc EXCEPT ![c] = "dec"]
        /\ ipc' = ipc /\ scancode' = scancode /\ mod' = mod
    BY DEF GetFetch, Goto, handler, module
  <2>2. Clearing' = Clearing
    BY <2>1 DEF Clearing, KInv, TypeOK
  <2>3. mod = "live"
    BY <2>1 DEF KInv, ModInv
  <2> QED
    BY <2>1, <2>2, <2>3 DEF Coming
<1>3. Indexed = count /\ Indexed' = count - 1
  BY <1>1, <1>2 DEF Indexed
<1>4. Contents \in Seq(Chars) /\ Len(Contents) = count /\ Contents # << >>
  BY <1>2, <1>3, ContentsSeq
<1>5. Contents = [i \in 1 .. count |-> buf[(get_idx + i - 1) % BUFFER_SIZE]]
  BY <1>3 DEF Contents
<1>6. Head(Contents) = buf[get_idx]
  <2>1. (get_idx + 1 - 1) % BUFFER_SIZE = get_idx
    BY <1>2, KbdAssumption DEF Slots
  <2> QED
    BY <1>2, <1>4, <1>5, <2>1
<1>7. Contents' = Tail(Contents)
  <2>1. Contents' = [i \in 1 .. count - 1 |->
                       buf[(((get_idx + 1) % BUFFER_SIZE) + i - 1) % BUFFER_SIZE]]
    BY <1>2, <1>3 DEF Contents
  <2>2. Tail(Contents) = [i \in 1 .. count - 1 |-> Contents[i + 1]]
    <3>1. Tail(Contents) \in Seq(Chars) /\ Len(Tail(Contents)) = count - 1
      BY <1>4, HeadTailProperties
    <3>2. ASSUME NEW i \in 1 .. count - 1 PROVE Tail(Contents)[i] = Contents[i + 1]
      BY <1>4, <3>1, HeadTailProperties
    <3> QED
      BY <3>1, <3>2, LenProperties
  <2>3. ASSUME NEW i \in 1 .. count - 1
        PROVE  Contents[i + 1]
                 = buf[(((get_idx + 1) % BUFFER_SIZE) + i - 1) % BUFFER_SIZE]
    <3>1. i \in 1 .. BUFFER_SIZE /\ i + 1 \in 1 .. count
      BY <1>2, KbdAssumption
    <3>2. Contents[i + 1] = buf[(get_idx + (i + 1) - 1) % BUFFER_SIZE]
      BY <1>5, <3>1
    <3>3. get_idx + (i + 1) - 1 = get_idx + i
      BY <1>2, <3>1 DEF Slots
    <3> QED
      BY <1>2, <3>1, <3>2, <3>3, ShiftSlot
  <2> QED
    BY <2>1, <2>2, <2>3
<1> QED
  BY <1>0, <1>2, <1>4, <1>6, <1>7 DEF Abstract!Take

\* A step that leaves the slots, the oldest slot and the number of keys alone,
\* and with them the presses, the writes and the life cycle.
LEMMA Quiet ==
  ASSUME buf' = buf, get_idx' = get_idx, Indexed' = Indexed, ch' = ch,
         Coming' = Coming, Clearing' = Clearing,
         mod' # "unloaded" <=> mod # "unloaded"
  PROVE  UNCHANGED Abstract!logVars
  BY DEF Contents, Abstract!logVars

\* A thread that goes from one label to another joins or leaves the threads
\* that are about to clear as the two labels say.
LEMMA ClearingMoves ==
  ASSUME TypeOK, NEW c \in Cpus, NEW to, pc' = [pc EXCEPT ![c] = to]
  PROVE  Clearing' = IF to \in {"wspin", "reset"} THEN Clearing \cup {c} ELSE Clearing \ {c}
  BY DEF Clearing, TypeOK

\* The last step of an unload or of a failed load leaves no press and no write
\* behind, so that it is the abstract Unload; a step before is none.
LEMMA LifeStep ==
  ASSUME KInv, mod # "unloaded", ipc = "none", \A c \in Cpus : pc[c] = "closed",
         UNCHANGED <<ring, thread, handler>>
  PROVE  UNCHANGED Abstract!logVars \/ Abstract!Unload
<1>1. Coming = {} /\ Clearing = {} /\ Coming' = Coming /\ Clearing' = Clearing
  BY DEF Coming, Clearing, handler, thread
<1>2. buf' = buf /\ get_idx' = get_idx /\ Indexed' = Indexed /\ ch' = ch
  BY DEF ring, thread, handler, Indexed, Fetched
<1>3. Contents' = Contents
  BY <1>2 DEF Contents
<1>4. CASE mod' # "unloaded"
  BY <1>1, <1>2, <1>4, Quiet
<1>5. CASE mod' = "unloaded"
  BY <1>1, <1>2, <1>3, <1>5 DEF Abstract!Unload
<1> QED
  BY <1>4, <1>5

\* While the module is being loaded, and from the end of free_irq on, no handler
\* runs and no file is open.
LEMMA NobodyInside ==
  ASSUME KInv,
         mod \in {"init_region", "init_data", "init_status", "init_irq", "exit_regions"}
  PROVE  ipc = "none" /\ \A c \in Cpus : pc[c] = "closed"
  BY DEF KInv, ModInv

\* An interrupt is the arrival of a key if it is for a press.
LEMMA InterruptPresses ==
  ASSUME KInv, NEW c \in Cpus, NEW s \in Scancodes, Interrupt(c, s)
  PROVE  UNCHANGED Abstract!logVars \/ Abstract!LogNext
<1>1. /\ ipc = "none" /\ ipc' = "entry" /\ scancode' = s /\ mod' = mod
      /\ pc' = pc /\ ch' = ch /\ buf' = buf /\ get_idx' = get_idx /\ count' = count
  BY KbdAssumption DEF Interrupt, KInv, LockInv, TypeOK, thread, ring, module
<1>2. mod # "unloaded"
  BY DEF Interrupt, KInv, ModInv, HeldAt
<1>3. Indexed' = Indexed /\ Clearing' = Clearing /\ Coming = {}
  BY <1>1 DEF Indexed, Fetched, Clearing, Coming
<1>4. Contents' = Contents
  BY <1>1, <1>3 DEF Contents
<1>5. CASE is_key_press(s)
  <2>1. Coming' = {get_ascii(s)} /\ get_ascii(s) \in Keys
    BY <1>1, <1>5 DEF Coming, Keys
  <2>2. Abstract!Press(get_ascii(s))
    BY <1>1, <1>2, <1>3, <1>4, <2>1 DEF Abstract!Press
  <2> QED
    BY <2>1, <2>2 DEF Abstract!LogNext
<1>6. CASE ~is_key_press(s)
  <2>1. Coming' = {}
    BY <1>1, <1>6 DEF Coming
  <2> QED
    BY <1>1, <1>3, <2>1, Quiet
<1> QED
  BY <1>5, <1>6

\* insmod gives the module an empty ring: the abstract Load.
LEMMA InsmodLoads ==
  ASSUME KInv, Insmod
  PROVE  Abstract!Load
<1>1. ipc = "none" /\ ~Fetched
  BY DEF Insmod, KInv, ModInv, Fetched
<1>2. /\ Indexed' = 0 /\ ch' = ch /\ Coming' = Coming /\ Clearing' = Clearing
      /\ mod = "unloaded" /\ mod' = "init_region"
  BY <1>1 DEF Insmod, Indexed, Fetched, Coming, Clearing, thread, handler
<1>3. Contents' = << >>
  BY <1>2 DEF Contents
<1> QED
  BY <1>2, <1>3 DEF Abstract!Load

\* reset_buffer empties the ring for the thread that asked for it.
LEMMA ResetClears ==
  ASSUME KInv, NEW c \in Cpus, reset_buffer(c)
  PROVE  Abstract!Clear(c)
<1>1. /\ pc[c] = "reset" /\ pc' = [pc EXCEPT ![c] = "wunlock"] /\ count' = 0
      /\ ch' = ch /\ ipc' = ipc /\ scancode' = scancode /\ mod' = mod
  BY DEF reset_buffer, Goto, handler, module
<1>2. ipc # "inc" /\ ~Fetched'
  BY <1>1, Exclusive DEF Critical, KInv, LockInv, TypeOK, Fetched
<1>3. Indexed' = 0
  BY <1>1, <1>2 DEF Indexed
<1>4. Contents' = << >>
  BY <1>3 DEF Contents
<1>5. c \in Clearing /\ Clearing' = Clearing \ {c} /\ Coming' = Coming
  BY <1>1, ClearingMoves DEF Clearing, Coming, KInv
<1> QED
  BY <1>1, <1>4, <1>5 DEF Abstract!Clear

\* A write that is told to reset the buffer is the abstract AskClear.
LEMMA WriteAsks ==
  ASSUME KInv, NEW c \in Cpus, NEW w \in Commands, kbd_write(c, w)
  PROVE  UNCHANGED Abstract!logVars \/ Abstract!AskClear(c)
<1>1. /\ pc[c] = "idle" /\ ch' = ch /\ mod' = mod /\ ipc' = ipc /\ scancode' = scancode
      /\ buf' = buf /\ get_idx' = get_idx /\ count' = count
      /\ pc' = [pc EXCEPT ![c] = "idle"] \/ pc' = [pc EXCEPT ![c] = "wspin"]
  BY DEF kbd_write, Goto, ring, handler, module
<1>2. mod # "unloaded"
  BY <1>1 DEF KInv, ModInv
<1>3. Indexed' = Indexed /\ Coming' = Coming /\ c \notin Clearing
  BY <1>1 DEF Indexed, Fetched, Coming, Clearing, KInv, TypeOK
<1>4. Contents' = Contents
  BY <1>1, <1>3 DEF Contents
<1>5. CASE pc' = [pc EXCEPT ![c] = "idle"]
  <2>0. Clearing' = Clearing \ {c}
    BY <1>5, ClearingMoves DEF KInv
  <2>1. Clearing' = Clearing
    BY <1>3, <2>0
  <2> QED
    BY <1>1, <1>3, <2>1, Quiet
<1>6. CASE pc' = [pc EXCEPT ![c] = "wspin"]
  <2>1. Clearing' = Clearing \cup {c}
    BY <1>6, ClearingMoves DEF KInv
  <2> QED
    BY <1>1, <1>2, <1>3, <1>4, <2>1 DEF Abstract!AskClear
<1> QED
  BY <1>1, <1>5, <1>6

\* Every step of kbd.c is a step of KeyLog or leaves the log alone.
LEMMA LogStep ==
  KInv /\ [Next]_vars => [Abstract!LogNext]_(Abstract!logVars)
<1> SUFFICES ASSUME KInv, [Next]_vars
             PROVE  UNCHANGED Abstract!logVars \/ Abstract!LogNext
  OBVIOUS
<1> DEFINE Done == UNCHANGED Abstract!logVars \/ Abstract!LogNext
           Same == /\ buf' = buf /\ get_idx' = get_idx /\ Indexed' = Indexed /\ ch' = ch
                   /\ mod' # "unloaded" <=> mod # "unloaded"
           Quiescent == Same /\ Coming' = Coming /\ Clearing' = Clearing
<1>0. ASSUME Quiescent PROVE Done
  BY <1>0, Quiet
<1>life. ASSUME UNCHANGED <<ring, thread, handler>>,
                mod \in {"init_region", "init_data", "init_status", "init_irq", "exit_regions"}
         PROVE  Done
  BY <1>life, NobodyInside, LifeStep DEF Abstract!LogNext
<1> USE DEF Indexed, Fetched, ring, thread, handler, module, Coming, Clearing
<1>1. ASSUME Insmod PROVE Done
  BY <1>1, InsmodLoads DEF Abstract!LogNext
<1>2. ASSUME InitRegion PROVE Done
  BY <1>2, <1>life DEF InitRegion, Acquire
<1>3. ASSUME InitData PROVE Done
  BY <1>3, <1>life DEF InitData, Acquire
<1>4. ASSUME InitStatus PROVE Done
  BY <1>4, <1>life DEF InitStatus, Acquire
<1>5. ASSUME InitIrq PROVE Done
  BY <1>5, <1>life DEF InitIrq, Acquire
<1>6. ASSUME InitCdev PROVE Quiescent
  BY <1>6 DEF InitCdev
<1>7. ASSUME Rmmod PROVE Quiescent
  BY <1>7 DEF Rmmod
<1>8. ASSUME ExitCdev PROVE Quiescent
  BY <1>8 DEF ExitCdev
<1>9. ASSUME ExitIrq PROVE Quiescent
  BY <1>9 DEF ExitIrq
<1>10. ASSUME ExitSync PROVE Quiescent
  BY <1>10 DEF ExitSync
<1>11. ASSUME ExitRegions PROVE Done
  BY <1>11, <1>life DEF ExitRegions
<1>12. ASSUME NEW c \in Cpus, NEW s \in Scancodes, Interrupt(c, s) PROVE Done
  BY <1>12, InterruptPresses
<1>13. ASSUME IrqEntry PROVE Quiescent
  BY <1>13 DEF IrqEntry
<1>14. ASSUME IrqLock PROVE Quiescent
  BY <1>14 DEF IrqLock
<1>15. ASSUME PutStore PROVE Done
  BY <1>15, PutLogs DEF Abstract!LogNext
<1>16. ASSUME PutCount PROVE Quiescent
  <2>1. ~Fetched /\ ~Fetched'
    BY <1>16, Exclusive DEF PutCount, Critical, KInv
  <2> QED
    BY <1>16, <2>1 DEF PutCount
<1>17. ASSUME IrqUnlock PROVE Quiescent
  BY <1>17 DEF IrqUnlock
<1>18. ASSUME NEW c \in Cpus, Calls(c) \/ CallSteps(c) \/ LockSteps(c)
       PROVE  Done
  <2> USE DEF KInv, TypeOK
  <2>1. ASSUME kbd_open(c) PROVE Quiescent
    BY <2>1 DEF kbd_open, Goto
  <2>2. ASSUME kbd_release(c) PROVE Quiescent
    BY <2>2 DEF kbd_release, Goto
  <2>3. ASSUME NEW size \in 0 .. MaxRead, kbd_read(c, size) PROVE Quiescent
    BY <2>3 DEF kbd_read, Goto
  <2>4. ASSUME NEW w \in Commands, kbd_write(c, w) PROVE Done
    BY <2>4, WriteAsks DEF Abstract!LogNext
  <2>5. ASSUME ReadReturn(c) PROVE Quiescent
    BY <2>5 DEF ReadReturn, Goto
  <2>6. ASSUME ReadNext(c) PROVE Quiescent
    BY <2>6 DEF ReadNext, Goto
  <2>7. ASSUME GetFetch(c) PROVE Done
    BY <2>7, FetchTakes DEF Abstract!LogNext
  <2>8. ASSUME GetEmpty(c) PROVE Quiescent
    BY <2>8 DEF GetEmpty, Goto
  <2>9. ASSUME GetCount(c) PROVE Quiescent
    <3>1. ipc # "inc" /\ Fetched /\ ~Fetched'
      BY <2>9, Exclusive DEF GetCount, Goto, Critical, LockInv
    <3>2. Same
      BY <2>9, <3>1 DEF GetCount
    <3>3. Coming' = Coming /\ Clearing' = Clearing
      BY <2>9 DEF GetCount, Goto
    <3> QED
      BY <3>2, <3>3
  <2>10. ASSUME ReadUnlock(c) PROVE Quiescent
    BY <2>10 DEF ReadUnlock, Goto
  <2>11. ASSUME ReadPutUser(c) PROVE Quiescent
    BY <2>11 DEF ReadPutUser, Goto
  <2>12. ASSUME reset_buffer(c) PROVE Done
    BY <2>12, ResetClears DEF Abstract!LogNext
  <2>13. ASSUME WriteUnlock(c) PROVE Quiescent
    BY <2>13 DEF WriteUnlock, Goto
  <2>14. ASSUME ReadLock(c) PROVE Quiescent
    BY <2>14 DEF ReadLock, Lock, Goto
  <2>15. ASSUME WriteLock(c) PROVE Quiescent
    BY <2>15 DEF WriteLock, Lock, Goto
  <2> HIDE DEF Quiescent, Done
  <2> QED
    BY <1>0, <1>18, <2>1, <2>2, <2>3, <2>4, <2>5, <2>6, <2>7, <2>8, <2>9,
       <2>10, <2>11, <2>12, <2>13, <2>14, <2>15
       DEF Calls, CallSteps, LockSteps
<1>19. ASSUME UNCHANGED vars PROVE Quiescent
  BY <1>19 DEF vars
<1> HIDE DEF Quiescent, Done
<1>20. Done
  BY <1>0, <1>1, <1>2, <1>3, <1>4, <1>5, <1>6, <1>7, <1>8, <1>9, <1>10, <1>11, <1>12,
     <1>13, <1>14, <1>15, <1>16, <1>17, <1>18, <1>19
     DEF Next, LoadSteps, UnloadSteps, HandlerSteps
<1> QED
  BY <1>20 DEF Done

\* kbd.c implements the bounded log, for every buffer size and any number of
\* CPUs: whatever the interleaving of presses, reads, writes, loads and unloads,
\* a key is lost only to a full ring, to a reset or to an unload, and the keys
\* that are read come in the order in which they were pressed.
THEOREM Refinement == Spec => ImplementsLog
<1>1. Init => Abstract!LogInit
  <2> SUFFICES ASSUME Init PROVE Abstract!LogInit
    OBVIOUS
  <2>1. Indexed = 0 /\ Coming = {} /\ Clearing = {} /\ mod = "unloaded"
    BY DEF Init, Indexed, Fetched, Coming, Clearing
  <2> QED
    BY <2>1, EmptyContents DEF Init, Abstract!LogInit
<1> QED
  BY <1>1, LogStep, KInvInvariant, PTL DEF Spec, ImplementsLog, Abstract!LogSpec
=============================================================================
