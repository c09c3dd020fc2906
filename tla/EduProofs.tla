------------------------------- MODULE EduProofs ------------------------------
(***************************************************************************)
(* Proofs about Edu: for any number of users, any arguments, every length  *)
(* of the DMA buffer and every mix of commands, whatever                   *)
(* alloc_chrdev_region returns.                                            *)
(***************************************************************************)
EXTENDS Edu, WellFoundedInduction, TLAPS

\* What the probe acquires, in order.
DevParts == {"enabled", "iomap", "dmabuf", "vectors", "irq"}

\* Between the stages of the load exactly the first ones are held; a load that
\* took a registered region for a failure holds nothing else.
LoadInv ==
  /\ mod = "unloaded" => held = {}
  /\ mod = "loading" => \E k \in 1 .. 5 : held = Unwinds(k + 1)
  /\ mod = "live" => \/ held = {"region"} /\ REGION_OK = 0
                     \/ held \ DevParts = Unwinds(7)
  /\ mod = "going" => held \ DevParts = {"mem", "driver"}

\* What is held of the device follows from where probe or remove is, and only a
\* registered driver has a device.
ProbeInv ==
  /\ held \cap DevParts \in
       CASE probe = "idle"     -> {{}, DevParts}
         [] probe = "iomap"    -> {{"enabled"}}
         [] probe = "mask"     -> {{"enabled", "iomap"}}
         [] probe = "dmabuf"   -> {{"enabled", "iomap"}}
         [] probe = "vectors"  -> {{"enabled", "iomap", "dmabuf"}}
         [] OTHER              -> {DevParts \ {"irq"}}
  /\ held \cap DevParts # {} => mod \in {"live", "going"} /\ {"mem", "driver"} \subseteq held
  /\ vec # "none" => "vectors" \in held
  /\ isr # "idle" => "irq" \in held

\* Users are there only while the module is live.
UserInv ==
  /\ vmas \subseteq files
  /\ files # {} \/ (\E u \in Users : pc[u] # "user") => mod = "live" /\ "mem" \in held

\* Lengths on their way into the DMA registers are those that LenOK let pass.
LengthInv ==
  \A u \in Users : /\ pc[u] \in DmaLabels => val[u] \in 1 .. EDU_DMA_BUF_SIZE
                   /\ pc[u] = "dma_cmd" => regs.size > 0

\* What a caller that nobody has interfered with finds in its unit.
LiveOwn(u) ==
  /\ pc[u] = "open_read" => live = OpenValue
  /\ pc[u] = "live_read" => live = val[u]

FactOwn(u) ==
  /\ pc[u] \in {"fact_test", "fact_sleep"} =>
       fact = IF computing THEN val[u] ELSE Factorial[val[u]]
  /\ pc[u] \in {"fact_req", "fact_read"} => ~computing /\ fact = Factorial[val[u]]

DmaOwn(u) ==
  /\ pc[u] \in DmaLabels => \A d \in Users \ {u} : pc[d] \notin DmaLabels
  /\ pc[u] \in {"dma_dst", "dma_size", "dma_cmd"} => ~running /\ regs.src = u
  /\ pc[u] \in {"dma_size", "dma_cmd"} => regs.dst = u
  /\ pc[u] = "dma_cmd" => regs.size = val[u]
  /\ pc[u] \in {"dma_test", "dma_sleep"} =>
       [src |-> u, dst |-> u, size |-> val[u]] = IF running THEN regs ELSE last

OwnInv == \A u \in Users \ clash : LiveOwn(u) /\ FactOwn(u) /\ DmaOwn(u)

EInv ==
  /\ TypeOK /\ LoadInv /\ ProbeInv /\ UserInv /\ LengthInv /\ OwnInv
  /\ SleepersHaveWaker
-----------------------------------------------------------------------------
(***************************************************************************)
(* The factorial that the device computes.                                 *)
(***************************************************************************)

LEMMA LeastNatural ==
  ASSUME NEW T, T \subseteq Nat, T # {}
  PROVE  \E x \in T : \A y \in T : x <= y
<1> DEFINE R == {ss \in Nat \X Nat : ss[1] < ss[2]}
<1>1. IsWellFoundedOn(R, Nat)
  BY NatLessThanWellFounded, Zenon DEF OpToRel
<1> HIDE DEF R
<1>2. PICK x \in T : \A y \in T : <<y, x>> \notin R
  BY <1>1, WFMin
<1>3. \A y \in Nat, z \in Nat : y < z => <<y, z>> \in R
  BY DEF R
<1>4. x \in Nat /\ \A y \in T : y \in Nat /\ ~(y < x)
  BY <1>2, <1>3, Zenon
<1> QED BY <1>4

LEMMA ProductType == \A a, b \in Nat : a * b \in Nat
OBVIOUS

\* The factorials up to n as a table.
Table(n) ==
  {g \in [0 .. n -> Nat] : g[0] = 1 /\ \A k \in 1 .. n : g[k] = k * g[k - 1]}

LEMMA TableExists == \A n \in Nat : Table(n) # {}
<1> DEFINE Bad == {n \in Nat : Table(n) = {}}
<1> SUFFICES ASSUME Bad # {} PROVE FALSE
  OBVIOUS
<1>1. PICK n \in Bad : \A m \in Bad : n <= m
  BY LeastNatural
<1>2. CASE n = 0
  <2>1. [k \in 0 .. n |-> 1] \in Table(n)
    BY <1>2 DEF Table
  <2> QED BY <1>1, <2>1
<1>3. CASE n # 0
  <2>1. n - 1 \in Nat /\ n - 1 \notin Bad
    BY <1>1, <1>3
  <2>2. PICK g \in Table(n - 1) : TRUE
    BY <2>1
  <2> DEFINE h == [k \in 0 .. n |-> IF k = n THEN n * g[n - 1] ELSE g[k]]
  <2>3. g \in [0 .. n - 1 -> Nat] /\ g[0] = 1 /\ \A k \in 1 .. n - 1 : g[k] = k * g[k - 1]
    BY <2>2 DEF Table
  <2>4. g[n - 1] \in Nat /\ n * g[n - 1] \in Nat
    BY <1>1, <2>1, <2>3, ProductType
  <2>5. h \in [0 .. n -> Nat]
    BY <1>1, <2>3, <2>4
  <2>6. h[0] = 1
    BY <1>1, <1>3, <2>3
  <2>7. ASSUME NEW k \in 1 .. n PROVE h[k] = k * h[k - 1]
    <3>1. CASE k = n
      <4>1. h[k] = n * g[n - 1] /\ h[k - 1] = g[n - 1]
        BY <1>1, <1>3, <3>1
      <4> QED BY <3>1, <4>1
    <3>2. CASE k # n
      <4>1. k \in 1 .. n - 1 /\ h[k] = g[k] /\ h[k - 1] = g[k - 1]
        BY <1>1, <3>2
      <4> QED BY <2>3, <4>1
    <3> QED BY <3>1, <3>2
  <2> HIDE DEF h
  <2>8. h \in Table(n)
    BY <2>5, <2>6, <2>7 DEF Table
  <2> QED BY <1>1, <2>8
<1> QED BY <1>2, <1>3

LEMMA TablesAgree ==
  ASSUME NEW m \in Nat, NEW n \in Nat, NEW g \in Table(m), NEW h \in Table(n),
         NEW k \in Nat, k <= m, k <= n
  PROVE  g[k] = h[k]
<1> DEFINE Bad == {j \in 0 .. k : g[j] # h[j]}
<1> SUFFICES ASSUME Bad # {} PROVE FALSE
  OBVIOUS
<1>1. PICK j \in Bad : \A i \in Bad : j <= i
  <2>1. Bad \subseteq Nat
    OBVIOUS
  <2> QED BY <2>1, LeastNatural
<1>2. g[0] = 1 /\ h[0] = 1
  BY DEF Table
<1>3. j \in 1 .. m /\ j \in 1 .. n /\ j - 1 \in 0 .. k
  BY <1>1, <1>2
<1>4. g[j - 1] = h[j - 1]
  BY <1>1, <1>3
<1>5. g[j] = j * g[j - 1] /\ h[j] = j * h[j - 1]
  BY <1>3 DEF Table
<1> QED BY <1>1, <1>4, <1>5

\* The recursive definition of Factorial has a solution, so Factorial is one.
LEMMA FactorialEquation ==
  Factorial = [n \in Nat |-> IF n = 0 THEN 1 ELSE n * Factorial[n - 1]]
<1> DEFINE T(n) == CHOOSE g \in Table(n) : TRUE
           F == [n \in Nat |-> T(n)[n]]
<1>1. \A n \in Nat : T(n) \in Table(n)
  BY TableExists
<1>2. F[0] = 1
  BY <1>1 DEF Table
<1>3. ASSUME NEW n \in Nat \ {0} PROVE F[n] = n * F[n - 1]
  <2>1. n - 1 \in Nat /\ n \in 1 .. n /\ T(n) \in Table(n) /\ T(n - 1) \in Table(n - 1)
    BY <1>1
  <2>2. T(n)[n] = n * T(n)[n - 1]
    BY <2>1 DEF Table
  <2>3. T(n)[n - 1] = T(n - 1)[n - 1]
    BY <2>1, TablesAgree
  <2> QED BY <2>1, <2>2, <2>3
<1>4. F = [n \in Nat |-> IF n = 0 THEN 1 ELSE n * F[n - 1]]
  <2> DEFINE G == [n \in Nat |-> IF n = 0 THEN 1 ELSE n * F[n - 1]]
  <2>1. \A n \in Nat : F[n] = G[n]
    BY <1>2, <1>3
  <2> QED BY <2>1
<1> HIDE DEF F
<1> QED BY <1>4 DEF Factorial

LEMMA FactorialType == \A n \in Nat : Factorial[n] \in Nat
<1> DEFINE Bad == {n \in Nat : Factorial[n] \notin Nat}
<1> SUFFICES ASSUME Bad # {} PROVE FALSE
  OBVIOUS
<1>1. PICK n \in Bad : \A m \in Bad : n <= m
  BY LeastNatural
<1>2. n \in Nat /\ Factorial[n] = IF n = 0 THEN 1 ELSE n * Factorial[n - 1]
  BY <1>1, FactorialEquation
<1>3. n # 0
  BY <1>1, <1>2
<1>4. n - 1 \in Nat /\ Factorial[n - 1] \in Nat
  BY <1>1, <1>2, <1>3
<1> QED BY <1>1, <1>2, <1>3, <1>4, ProductType

-----------------------------------------------------------------------------
(***************************************************************************)
(* The stages of the load.                                                 *)
(***************************************************************************)
LEMMA UnwindSets ==
  /\ Unwinds(1) = {}
  /\ Unwinds(2) = {"mem"}
  /\ Unwinds(3) = {"mem", "region"}
  /\ Unwinds(4) = {"mem", "region", "cdev"}
  /\ Unwinds(5) = {"mem", "region", "cdev", "class"}
  /\ Unwinds(6) = {"mem", "region", "cdev", "class", "device"}
  /\ Unwinds(7) = {"mem", "region", "cdev", "class", "device", "driver"}
  /\ DOMAIN Stages = {1, 2, 3, 4, 5, 6}
  /\ Stages[1] = "mem" /\ Stages[2] = "region" /\ Stages[3] = "cdev"
  /\ Stages[4] = "class" /\ Stages[5] = "device" /\ Stages[6] = "driver"
  /\ {Stages[i] : i \in DOMAIN Stages} = Unwinds(7)
BY DEF Unwinds, Stages

-----------------------------------------------------------------------------
(***************************************************************************)
(* Every step keeps each part of the invariant.                            *)
(***************************************************************************)

LEMMA LoadStep == ASSUME EInv, Next PROVE LoadInv'
<1> USE UnwindSets DEF EInv, load, irqs, units, users
<1> USE DEF LoadInv, ProbeInv, DevParts, Devres
<1>1. CASE pci_dev_init
  BY <1>1 DEF pci_dev_init
<1>2. CASE pci_dev_exit
  BY <1>2 DEF pci_dev_exit
<1>3. CASE ExitFree
  BY <1>3 DEF ExitFree
<1>4. CASE edu_probe
  BY <1>4 DEF edu_probe
<1>5. CASE ProbeStage
  BY <1>5 DEF ProbeStage, AfterStage
<1>6. CASE ProbeFails
  BY <1>6 DEF ProbeFails, Labels, Gone, Sleepers, Sleeping
<1>7. CASE edu_remove
  BY <1>7 DEF edu_remove, Gone, Sleepers, Sleeping
<1>8. CASE RemoveRest
  BY <1>8 DEF RemoveRest, Gone, Sleepers, Sleeping
<1>9. CASE edu_irq_handler
  BY <1>9 DEF edu_irq_handler
<1>10. CASE IrqWake
  BY <1>10 DEF IrqWake, Woken
<1>11. CASE IrqAck
  BY <1>11 DEF IrqAck
<1>12. CASE Compute
  BY <1>12 DEF Compute, Raise
<1>13. CASE Transfer
  BY <1>13 DEF Transfer, Raise, Coming
<1>14. CASE Fault
  BY <1>14 DEF Fault
<1>15. ASSUME NEW u \in Users, edu_open(u) PROVE LoadInv'
  BY <1>15 DEF edu_open, Goto, Enter
<1>16. ASSUME NEW u \in Users, OpenRead(u) PROVE LoadInv'
  BY <1>16 DEF OpenRead, Return, Goto
<1>17. ASSUME NEW u \in Users, edu_release(u) PROVE LoadInv'
  BY <1>17 DEF edu_release
<1>18. ASSUME NEW u \in Users, edu_mmap(u) PROVE LoadInv'
  BY <1>18 DEF edu_mmap
<1>19. ASSUME NEW u \in Users, ioctl_live_check(u) PROVE LoadInv'
  BY <1>19 DEF ioctl_live_check, Calls, Goto, Enter
<1>20. ASSUME NEW u \in Users, LiveRead(u) PROVE LoadInv'
  BY <1>20 DEF LiveRead, Return, Goto
<1>21. ASSUME NEW u \in Users, ioctl_raise_irq(u) PROVE LoadInv'
  BY <1>21 DEF ioctl_raise_irq, Calls, Raise
<1>22. ASSUME NEW u \in Users, ioctl_factorial(u) PROVE LoadInv'
  BY <1>22 DEF ioctl_factorial, Calls, Goto, Enter
<1>23. ASSUME NEW u \in Users, FactTest(u) PROVE LoadInv'
  BY <1>23 DEF FactTest, Goto
<1>24. ASSUME NEW u \in Users, FactRequest(u) PROVE LoadInv'
  BY <1>24 DEF FactRequest, Goto
<1>25. ASSUME NEW u \in Users, FactRead(u) PROVE LoadInv'
  BY <1>25 DEF FactRead, Return, Goto
<1>26. ASSUME NEW u \in Users, dma_operation(u) PROVE LoadInv'
  BY <1>26 DEF dma_operation, Calls, SetReg, LenOK, Goto, Enter
<1>27. ASSUME NEW u \in Users, DmaDst(u) PROVE LoadInv'
  BY <1>27 DEF DmaDst, SetReg, Goto
<1>28. ASSUME NEW u \in Users, DmaSize(u) PROVE LoadInv'
  BY <1>28 DEF DmaSize, SetReg, Goto
<1>29. ASSUME NEW u \in Users, DmaCmd(u) PROVE LoadInv'
  BY <1>29 DEF DmaCmd, Goto
<1>30. ASSUME NEW u \in Users, DmaTest(u) PROVE LoadInv'
  BY <1>30 DEF DmaTest, Return, Goto
<1>31. ASSUME NEW u \in Users, Signal(u) PROVE LoadInv'
  BY <1>31 DEF Signal, Sleeping, Return, Goto
<1> QED
  BY <1>1, <1>2, <1>3, <1>4, <1>5, <1>6, <1>7, <1>8, <1>9, <1>10, <1>11, <1>12, <1>13,
     <1>14, <1>15, <1>16, <1>17, <1>18, <1>19, <1>20, <1>21, <1>22, <1>23, <1>24, <1>25, <1>26,
     <1>27, <1>28, <1>29, <1>30, <1>31
  DEF Next, Core, Handler, Device

LEMMA ProbeStep == ASSUME EInv, Next PROVE ProbeInv'
<1> USE UnwindSets DEF EInv, load, irqs, units, users
<1> USE DEF LoadInv, ProbeInv, TypeOK, DevParts, Devres
<1>1. CASE pci_dev_init
  BY <1>1 DEF pci_dev_init
<1>2. CASE pci_dev_exit
  BY <1>2 DEF pci_dev_exit
<1>3. CASE ExitFree
  BY <1>3 DEF ExitFree
<1>4. CASE edu_probe
  BY <1>4 DEF edu_probe
<1>5. CASE ProbeStage
  BY <1>5 DEF ProbeStage, AfterStage
<1>6. CASE ProbeFails
  BY <1>6 DEF ProbeFails, Labels, Gone, Sleepers, Sleeping
<1>7. CASE edu_remove
  BY <1>7 DEF edu_remove, Gone, Sleepers, Sleeping
<1>8. CASE RemoveRest
  BY <1>8 DEF RemoveRest, Gone, Sleepers, Sleeping
<1>9. CASE edu_irq_handler
  BY <1>9 DEF edu_irq_handler
<1>10. CASE IrqWake
  BY <1>10 DEF IrqWake, Woken
<1>11. CASE IrqAck
  BY <1>11 DEF IrqAck
<1>12. CASE Compute
  BY <1>12 DEF Compute, Raise
<1>13. CASE Transfer
  BY <1>13 DEF Transfer, Raise, Coming
<1>14. CASE Fault
  BY <1>14 DEF Fault
<1>15. ASSUME NEW u \in Users, edu_open(u) PROVE ProbeInv'
  BY <1>15 DEF edu_open, Goto, Enter
<1>16. ASSUME NEW u \in Users, OpenRead(u) PROVE ProbeInv'
  BY <1>16 DEF OpenRead, Return, Goto
<1>17. ASSUME NEW u \in Users, edu_release(u) PROVE ProbeInv'
  BY <1>17 DEF edu_release
<1>18. ASSUME NEW u \in Users, edu_mmap(u) PROVE ProbeInv'
  BY <1>18 DEF edu_mmap
<1>19. ASSUME NEW u \in Users, ioctl_live_check(u) PROVE ProbeInv'
  BY <1>19 DEF ioctl_live_check, Calls, Goto, Enter
<1>20. ASSUME NEW u \in Users, LiveRead(u) PROVE ProbeInv'
  BY <1>20 DEF LiveRead, Return, Goto
<1>21. ASSUME NEW u \in Users, ioctl_raise_irq(u) PROVE ProbeInv'
  BY <1>21 DEF ioctl_raise_irq, Calls, Raise
<1>22. ASSUME NEW u \in Users, ioctl_factorial(u) PROVE ProbeInv'
  BY <1>22 DEF ioctl_factorial, Calls, Goto, Enter
<1>23. ASSUME NEW u \in Users, FactTest(u) PROVE ProbeInv'
  BY <1>23 DEF FactTest, Goto
<1>24. ASSUME NEW u \in Users, FactRequest(u) PROVE ProbeInv'
  BY <1>24 DEF FactRequest, Goto
<1>25. ASSUME NEW u \in Users, FactRead(u) PROVE ProbeInv'
  BY <1>25 DEF FactRead, Return, Goto
<1>26. ASSUME NEW u \in Users, dma_operation(u) PROVE ProbeInv'
  BY <1>26 DEF dma_operation, Calls, SetReg, LenOK, Goto, Enter
<1>27. ASSUME NEW u \in Users, DmaDst(u) PROVE ProbeInv'
  BY <1>27 DEF DmaDst, SetReg, Goto
<1>28. ASSUME NEW u \in Users, DmaSize(u) PROVE ProbeInv'
  BY <1>28 DEF DmaSize, SetReg, Goto
<1>29. ASSUME NEW u \in Users, DmaCmd(u) PROVE ProbeInv'
  BY <1>29 DEF DmaCmd, Goto
<1>30. ASSUME NEW u \in Users, DmaTest(u) PROVE ProbeInv'
  BY <1>30 DEF DmaTest, Return, Goto
<1>31. ASSUME NEW u \in Users, Signal(u) PROVE ProbeInv'
  BY <1>31 DEF Signal, Sleeping, Return, Goto
<1> QED
  BY <1>1, <1>2, <1>3, <1>4, <1>5, <1>6, <1>7, <1>8, <1>9, <1>10, <1>11, <1>12, <1>13,
     <1>14, <1>15, <1>16, <1>17, <1>18, <1>19, <1>20, <1>21, <1>22, <1>23, <1>24, <1>25, <1>26,
     <1>27, <1>28, <1>29, <1>30, <1>31
  DEF Next, Core, Handler, Device

LEMMA UserStep == ASSUME EInv, Next PROVE UserInv'
<1> USE UnwindSets DEF EInv, load, irqs, units, users
<1> USE DEF UserInv, LoadInv, ProbeInv, TypeOK, DevParts, Devres, Mapped
<1>1. CASE pci_dev_init
  BY <1>1 DEF pci_dev_init
<1>2. CASE pci_dev_exit
  BY <1>2 DEF pci_dev_exit
<1>3. CASE ExitFree
  BY <1>3 DEF ExitFree
<1>4. CASE edu_probe
  BY <1>4 DEF edu_probe
<1>5. CASE ProbeStage
  BY <1>5 DEF ProbeStage, AfterStage
<1>6. CASE ProbeFails
  BY <1>6 DEF ProbeFails, Labels, Gone, Sleepers, Sleeping
<1>7. CASE edu_remove
  BY <1>7 DEF edu_remove, Gone, Sleepers, Sleeping
<1>8. CASE RemoveRest
  BY <1>8 DEF RemoveRest, Gone, Sleepers, Sleeping
<1>9. CASE edu_irq_handler
  BY <1>9 DEF edu_irq_handler
<1>10. CASE IrqWake
  BY <1>10 DEF IrqWake, Woken
<1>11. CASE IrqAck
  BY <1>11 DEF IrqAck
<1>12. CASE Compute
  BY <1>12 DEF Compute, Raise
<1>13. CASE Transfer
  BY <1>13 DEF Transfer, Raise, Coming
<1>14. CASE Fault
  BY <1>14 DEF Fault
<1>15. ASSUME NEW u \in Users, edu_open(u) PROVE UserInv'
  BY <1>15 DEF edu_open, Goto, Enter
<1>16. ASSUME NEW u \in Users, OpenRead(u) PROVE UserInv'
  BY <1>16 DEF OpenRead, Return, Goto
<1>17. ASSUME NEW u \in Users, edu_release(u) PROVE UserInv'
  BY <1>17 DEF edu_release
<1>18. ASSUME NEW u \in Users, edu_mmap(u) PROVE UserInv'
  BY <1>18 DEF edu_mmap
<1>19. ASSUME NEW u \in Users, ioctl_live_check(u) PROVE UserInv'
  BY <1>19 DEF ioctl_live_check, Calls, Goto, Enter
<1>20. ASSUME NEW u \in Users, LiveRead(u) PROVE UserInv'
  BY <1>20 DEF LiveRead, Return, Goto
<1>21. ASSUME NEW u \in Users, ioctl_raise_irq(u) PROVE UserInv'
  BY <1>21 DEF ioctl_raise_irq, Calls, Raise
<1>22. ASSUME NEW u \in Users, ioctl_factorial(u) PROVE UserInv'
  BY <1>22 DEF ioctl_factorial, Calls, Goto, Enter
<1>23. ASSUME NEW u \in Users, FactTest(u) PROVE UserInv'
  BY <1>23 DEF FactTest, Goto
<1>24. ASSUME NEW u \in Users, FactRequest(u) PROVE UserInv'
  BY <1>24 DEF FactRequest, Goto
<1>25. ASSUME NEW u \in Users, FactRead(u) PROVE UserInv'
  BY <1>25 DEF FactRead, Return, Goto
<1>26. ASSUME NEW u \in Users, dma_operation(u) PROVE UserInv'
  BY <1>26 DEF dma_operation, Calls, SetReg, LenOK, Goto, Enter
<1>27. ASSUME NEW u \in Users, DmaDst(u) PROVE UserInv'
  BY <1>27 DEF DmaDst, SetReg, Goto
<1>28. ASSUME NEW u \in Users, DmaSize(u) PROVE UserInv'
  BY <1>28 DEF DmaSize, SetReg, Goto
<1>29. ASSUME NEW u \in Users, DmaCmd(u) PROVE UserInv'
  BY <1>29 DEF DmaCmd, Goto
<1>30. ASSUME NEW u \in Users, DmaTest(u) PROVE UserInv'
  BY <1>30 DEF DmaTest, Return, Goto
<1>31. ASSUME NEW u \in Users, Signal(u) PROVE UserInv'
  BY <1>31 DEF Signal, Sleeping, Return, Goto
<1> QED
  BY <1>1, <1>2, <1>3, <1>4, <1>5, <1>6, <1>7, <1>8, <1>9, <1>10, <1>11, <1>12, <1>13,
     <1>14, <1>15, <1>16, <1>17, <1>18, <1>19, <1>20, <1>21, <1>22, <1>23, <1>24, <1>25, <1>26,
     <1>27, <1>28, <1>29, <1>30, <1>31
  DEF Next, Core, Handler, Device

LEMMA LengthStep == ASSUME EInv, Next PROVE LengthInv'
<1> USE EduAssumption DEF EInv, load, irqs, units, users
<1> USE DEF LengthInv, TypeOK, LiveLabels, FactLabels, DmaLabels
<1>1. CASE pci_dev_init
  BY <1>1 DEF pci_dev_init
<1>2. CASE pci_dev_exit
  BY <1>2 DEF pci_dev_exit
<1>3. CASE ExitFree
  BY <1>3 DEF ExitFree
<1>4. CASE edu_probe
  BY <1>4 DEF edu_probe
<1>5. CASE ProbeStage
  BY <1>5 DEF ProbeStage, AfterStage
<1>6. CASE ProbeFails
  BY <1>6 DEF ProbeFails, Labels, Gone, Sleepers, Sleeping
<1>7. CASE edu_remove
  BY <1>7 DEF edu_remove, Gone, Sleepers, Sleeping
<1>8. CASE RemoveRest
  BY <1>8 DEF RemoveRest, Gone, Sleepers, Sleeping
<1>9. CASE edu_irq_handler
  BY <1>9 DEF edu_irq_handler
<1>10. CASE IrqWake
  BY <1>10 DEF IrqWake, Woken
<1>11. CASE IrqAck
  BY <1>11 DEF IrqAck
<1>12. CASE Compute
  BY <1>12 DEF Compute, Raise
<1>13. CASE Transfer
  BY <1>13 DEF Transfer, Raise, Coming
<1>14. CASE Fault
  BY <1>14 DEF Fault
<1>15. ASSUME NEW u \in Users, edu_open(u) PROVE LengthInv'
  BY <1>15 DEF edu_open, Goto, Enter
<1>16. ASSUME NEW u \in Users, OpenRead(u) PROVE LengthInv'
  BY <1>16 DEF OpenRead, Return, Goto
<1>17. ASSUME NEW u \in Users, edu_release(u) PROVE LengthInv'
  BY <1>17 DEF edu_release
<1>18. ASSUME NEW u \in Users, edu_mmap(u) PROVE LengthInv'
  BY <1>18 DEF edu_mmap
<1>19. ASSUME NEW u \in Users, ioctl_live_check(u) PROVE LengthInv'
  BY <1>19 DEF ioctl_live_check, Calls, Goto, Enter
<1>20. ASSUME NEW u \in Users, LiveRead(u) PROVE LengthInv'
  BY <1>20 DEF LiveRead, Return, Goto
<1>21. ASSUME NEW u \in Users, ioctl_raise_irq(u) PROVE LengthInv'
  BY <1>21 DEF ioctl_raise_irq, Calls, Raise
<1>22. ASSUME NEW u \in Users, ioctl_factorial(u) PROVE LengthInv'
  BY <1>22 DEF ioctl_factorial, Calls, Goto, Enter
<1>23. ASSUME NEW u \in Users, FactTest(u) PROVE LengthInv'
  BY <1>23 DEF FactTest, Goto
<1>24. ASSUME NEW u \in Users, FactRequest(u) PROVE LengthInv'
  BY <1>24 DEF FactRequest, Goto
<1>25. ASSUME NEW u \in Users, FactRead(u) PROVE LengthInv'
  BY <1>25 DEF FactRead, Return, Goto
<1>26. ASSUME NEW u \in Users, dma_operation(u) PROVE LengthInv'
  BY <1>26 DEF dma_operation, Calls, SetReg, LenOK, Goto, Enter
<1>27. ASSUME NEW u \in Users, DmaDst(u) PROVE LengthInv'
  BY <1>27 DEF DmaDst, SetReg, Goto
<1>28. ASSUME NEW u \in Users, DmaSize(u) PROVE LengthInv'
  BY <1>28 DEF DmaSize, SetReg, Goto
<1>29. ASSUME NEW u \in Users, DmaCmd(u) PROVE LengthInv'
  BY <1>29 DEF DmaCmd, Goto
<1>30. ASSUME NEW u \in Users, DmaTest(u) PROVE LengthInv'
  BY <1>30 DEF DmaTest, Return, Goto
<1>31. ASSUME NEW u \in Users, Signal(u) PROVE LengthInv'
  BY <1>31 DEF Signal, Sleeping, Return, Goto
<1> QED
  BY <1>1, <1>2, <1>3, <1>4, <1>5, <1>6, <1>7, <1>8, <1>9, <1>10, <1>11, <1>12, <1>13,
     <1>14, <1>15, <1>16, <1>17, <1>18, <1>19, <1>20, <1>21, <1>22, <1>23, <1>24, <1>25, <1>26,
     <1>27, <1>28, <1>29, <1>30, <1>31
  DEF Next, Core, Handler, Device

LEMMA TypeStep == ASSUME EInv, Next PROVE TypeOK'
<1> USE EduAssumption, FactorialType DEF EInv, load, irqs, units, users
<1> USE DEF TypeOK, LengthInv, Devres, Bits, LiveLabels, FactLabels, DmaLabels, OpenValue
<1>1. CASE pci_dev_init
  <2>1. PICK k \in DOMAIN Stages :
          \/ held' = held \cup {Stages[k]}
          \/ held' = held \ Unwinds(k)
          \/ held' = (held \cup {"region"}) \ Unwinds(2)
    BY <1>1 DEF pci_dev_init
  <2>2. held' \subseteq Unwinds(7) \cup Devres \cup {"enabled", "vectors", "irq"}
    BY <2>1, UnwindSets
  <2> QED BY <1>1, <2>2, UnwindSets DEF pci_dev_init
<1>2. CASE pci_dev_exit
  BY <1>2 DEF pci_dev_exit
<1>3. CASE ExitFree
  BY <1>3 DEF ExitFree
<1>4. CASE edu_probe
  BY <1>4, UnwindSets DEF edu_probe, AfterStage
<1>5. CASE ProbeStage
  <2>1. /\ probe \in {"iomap", "mask", "dmabuf", "vectors", "irq"}
        /\ probe' \in DOMAIN AfterStage \cup {"idle"}
    BY <1>5 DEF ProbeStage, AfterStage
  <2>2. held' \subseteq Unwinds(7) \cup Devres \cup {"enabled", "vectors", "irq"}
    BY <1>5, <2>1, UnwindSets DEF ProbeStage
  <2> QED BY <1>5, <2>1, <2>2, UnwindSets DEF ProbeStage
<1>6. CASE ProbeFails
  BY <1>6 DEF ProbeFails, Labels, Gone, Sleepers, Sleeping
<1>7. CASE edu_remove
  BY <1>7 DEF edu_remove, Gone, Sleepers, Sleeping
<1>8. CASE RemoveRest
  BY <1>8 DEF RemoveRest, Gone, Sleepers, Sleeping
<1>9. CASE edu_irq_handler
  BY <1>9 DEF edu_irq_handler
<1>10. CASE IrqWake
  BY <1>10 DEF IrqWake, Woken
<1>11. CASE IrqAck
  BY <1>11 DEF IrqAck
<1>12. CASE Compute
  BY <1>12 DEF Compute, Raise
<1>13. CASE Transfer
  BY <1>13 DEF Transfer, Raise, Coming
<1>14. CASE Fault
  BY <1>14 DEF Fault
<1>15. ASSUME NEW u \in Users, edu_open(u) PROVE TypeOK'
  BY <1>15 DEF edu_open, Goto, Enter
<1>16. ASSUME NEW u \in Users, OpenRead(u) PROVE TypeOK'
  BY <1>16 DEF OpenRead, Return, Goto
<1>17. ASSUME NEW u \in Users, edu_release(u) PROVE TypeOK'
  BY <1>17 DEF edu_release
<1>18. ASSUME NEW u \in Users, edu_mmap(u) PROVE TypeOK'
  BY <1>18 DEF edu_mmap
<1>19. ASSUME NEW u \in Users, ioctl_live_check(u) PROVE TypeOK'
  BY <1>19 DEF ioctl_live_check, Calls, Goto, Enter
<1>20. ASSUME NEW u \in Users, LiveRead(u) PROVE TypeOK'
  BY <1>20 DEF LiveRead, Return, Goto
<1>21. ASSUME NEW u \in Users, ioctl_raise_irq(u) PROVE TypeOK'
  BY <1>21 DEF ioctl_raise_irq, Calls, Raise
<1>22. ASSUME NEW u \in Users, ioctl_factorial(u) PROVE TypeOK'
  BY <1>22 DEF ioctl_factorial, Calls, Goto, Enter
<1>23. ASSUME NEW u \in Users, FactTest(u) PROVE TypeOK'
  BY <1>23 DEF FactTest, Goto
<1>24. ASSUME NEW u \in Users, FactRequest(u) PROVE TypeOK'
  BY <1>24 DEF FactRequest, Goto
<1>25. ASSUME NEW u \in Users, FactRead(u) PROVE TypeOK'
  BY <1>25 DEF FactRead, Return, Goto
<1>26. ASSUME NEW u \in Users, dma_operation(u) PROVE TypeOK'
  BY <1>26 DEF dma_operation, Calls, SetReg, LenOK, Goto, Enter
<1>27. ASSUME NEW u \in Users, DmaDst(u) PROVE TypeOK'
  BY <1>27 DEF DmaDst, SetReg, Goto
<1>28. ASSUME NEW u \in Users, DmaSize(u) PROVE TypeOK'
  BY <1>28 DEF DmaSize, SetReg, Goto
<1>29. ASSUME NEW u \in Users, DmaCmd(u) PROVE TypeOK'
  BY <1>29 DEF DmaCmd, Goto
<1>30. ASSUME NEW u \in Users, DmaTest(u) PROVE TypeOK'
  BY <1>30 DEF DmaTest, Return, Goto
<1>31. ASSUME NEW u \in Users, Signal(u) PROVE TypeOK'
  BY <1>31 DEF Signal, Sleeping, Return, Goto
<1> QED
  BY <1>1, <1>2, <1>3, <1>4, <1>5, <1>6, <1>7, <1>8, <1>9, <1>10, <1>11, <1>12, <1>13,
     <1>14, <1>15, <1>16, <1>17, <1>18, <1>19, <1>20, <1>21, <1>22, <1>23, <1>24, <1>25, <1>26,
     <1>27, <1>28, <1>29, <1>30, <1>31
  DEF Next, Core, Handler, Device

LEMMA WakerStep == ASSUME EInv, Next PROVE SleepersHaveWaker'
<1> USE DEF EInv, load, irqs, units, users
<1> USE DEF SleepersHaveWaker, Coming, ProbeInv, TypeOK, DevParts, Bits
<1>1. CASE pci_dev_init
  BY <1>1 DEF pci_dev_init
<1>2. CASE pci_dev_exit
  BY <1>2 DEF pci_dev_exit
<1>3. CASE ExitFree
  BY <1>3 DEF ExitFree
<1>4. CASE edu_probe
  BY <1>4 DEF edu_probe
<1>5. CASE ProbeStage
  BY <1>5 DEF ProbeStage, AfterStage
<1>6. CASE ProbeFails
  BY <1>6 DEF ProbeFails, Labels, Gone, Sleepers, Sleeping
<1>7. CASE edu_remove
  BY <1>7 DEF edu_remove, Gone, Sleepers, Sleeping
<1>8. CASE RemoveRest
  BY <1>8 DEF RemoveRest, Gone, Sleepers, Sleeping
<1>9. CASE edu_irq_handler
  BY <1>9 DEF edu_irq_handler
<1>10. CASE IrqWake
  BY <1>10 DEF IrqWake, Woken
<1>11. CASE IrqAck
  BY <1>11 DEF IrqAck
<1>12. CASE Compute
  BY <1>12 DEF Compute, Raise
<1>13. CASE Transfer
  BY <1>13 DEF Transfer, Raise, Coming
<1>14. CASE Fault
  BY <1>14 DEF Fault
<1>15. ASSUME NEW u \in Users, edu_open(u) PROVE SleepersHaveWaker'
  BY <1>15 DEF edu_open, Goto, Enter
<1>16. ASSUME NEW u \in Users, OpenRead(u) PROVE SleepersHaveWaker'
  BY <1>16 DEF OpenRead, Return, Goto
<1>17. ASSUME NEW u \in Users, edu_release(u) PROVE SleepersHaveWaker'
  BY <1>17 DEF edu_release
<1>18. ASSUME NEW u \in Users, edu_mmap(u) PROVE SleepersHaveWaker'
  BY <1>18 DEF edu_mmap
<1>19. ASSUME NEW u \in Users, ioctl_live_check(u) PROVE SleepersHaveWaker'
  BY <1>19 DEF ioctl_live_check, Calls, Goto, Enter
<1>20. ASSUME NEW u \in Users, LiveRead(u) PROVE SleepersHaveWaker'
  BY <1>20 DEF LiveRead, Return, Goto
<1>21. ASSUME NEW u \in Users, ioctl_raise_irq(u) PROVE SleepersHaveWaker'
  BY <1>21 DEF ioctl_raise_irq, Calls, Raise
<1>22. ASSUME NEW u \in Users, ioctl_factorial(u) PROVE SleepersHaveWaker'
  BY <1>22 DEF ioctl_factorial, Calls, Goto, Enter
<1>23. ASSUME NEW u \in Users, FactTest(u) PROVE SleepersHaveWaker'
  BY <1>23 DEF FactTest, Goto
<1>24. ASSUME NEW u \in Users, FactRequest(u) PROVE SleepersHaveWaker'
  BY <1>24 DEF FactRequest, Goto
<1>25. ASSUME NEW u \in Users, FactRead(u) PROVE SleepersHaveWaker'
  BY <1>25 DEF FactRead, Return, Goto
<1>26. ASSUME NEW u \in Users, dma_operation(u) PROVE SleepersHaveWaker'
  BY <1>26 DEF dma_operation, Calls, SetReg, LenOK, Goto, Enter
<1>27. ASSUME NEW u \in Users, DmaDst(u) PROVE SleepersHaveWaker'
  BY <1>27 DEF DmaDst, SetReg, Goto
<1>28. ASSUME NEW u \in Users, DmaSize(u) PROVE SleepersHaveWaker'
  BY <1>28 DEF DmaSize, SetReg, Goto
<1>29. ASSUME NEW u \in Users, DmaCmd(u) PROVE SleepersHaveWaker'
  BY <1>29 DEF DmaCmd, Goto
<1>30. ASSUME NEW u \in Users, DmaTest(u) PROVE SleepersHaveWaker'
  BY <1>30 DEF DmaTest, Return, Goto
<1>31. ASSUME NEW u \in Users, Signal(u) PROVE SleepersHaveWaker'
  BY <1>31 DEF Signal, Sleeping, Return, Goto
<1> QED
  BY <1>1, <1>2, <1>3, <1>4, <1>5, <1>6, <1>7, <1>8, <1>9, <1>10, <1>11, <1>12, <1>13,
     <1>14, <1>15, <1>16, <1>17, <1>18, <1>19, <1>20, <1>21, <1>22, <1>23, <1>24, <1>25, <1>26,
     <1>27, <1>28, <1>29, <1>30, <1>31
  DEF Next, Core, Handler, Device

LEMMA OwnStep == ASSUME EInv, Next PROVE OwnInv'
<1> USE DEF EInv, load, irqs, units, users
<1> USE DEF OwnInv, LiveOwn, FactOwn, DmaOwn, TypeOK, LiveLabels, FactLabels, DmaLabels
<1>1. CASE pci_dev_init
  BY <1>1 DEF pci_dev_init
<1>2. CASE pci_dev_exit
  BY <1>2 DEF pci_dev_exit
<1>3. CASE ExitFree
  BY <1>3 DEF ExitFree
<1>4. CASE edu_probe
  BY <1>4 DEF edu_probe
<1>5. CASE ProbeStage
  BY <1>5 DEF ProbeStage, AfterStage
<1>6. CASE ProbeFails
  BY <1>6 DEF ProbeFails, Labels, Gone, Sleepers, Sleeping
<1>7. CASE edu_remove
  BY <1>7 DEF edu_remove, Gone, Sleepers, Sleeping
<1>8. CASE RemoveRest
  BY <1>8 DEF RemoveRest, Gone, Sleepers, Sleeping
<1>9. CASE edu_irq_handler
  BY <1>9 DEF edu_irq_handler
<1>10. CASE IrqWake
  BY <1>10 DEF IrqWake, Woken
<1>11. CASE IrqAck
  BY <1>11 DEF IrqAck
<1>12. CASE Compute
  BY <1>12 DEF Compute, Raise
<1>13. CASE Transfer
  BY <1>13 DEF Transfer, Raise, Coming
<1>14. CASE Fault
  BY <1>14 DEF Fault
<1>15. ASSUME NEW u \in Users, edu_open(u) PROVE OwnInv'
  BY <1>15 DEF edu_open, Goto, Enter
<1>16. ASSUME NEW u \in Users, OpenRead(u) PROVE OwnInv'
  BY <1>16 DEF OpenRead, Return, Goto
<1>17. ASSUME NEW u \in Users, edu_release(u) PROVE OwnInv'
  BY <1>17 DEF edu_release
<1>18. ASSUME NEW u \in Users, edu_mmap(u) PROVE OwnInv'
  BY <1>18 DEF edu_mmap
<1>19. ASSUME NEW u \in Users, ioctl_live_check(u) PROVE OwnInv'
  BY <1>19 DEF ioctl_live_check, Calls, Goto, Enter
<1>20. ASSUME NEW u \in Users, LiveRead(u) PROVE OwnInv'
  BY <1>20 DEF LiveRead, Return, Goto
<1>21. ASSUME NEW u \in Users, ioctl_raise_irq(u) PROVE OwnInv'
  BY <1>21 DEF ioctl_raise_irq, Calls, Raise
<1>22. ASSUME NEW u \in Users, ioctl_factorial(u) PROVE OwnInv'
  BY <1>22 DEF ioctl_factorial, Calls, Goto, Enter
<1>23. ASSUME NEW u \in Users, FactTest(u) PROVE OwnInv'
  BY <1>23 DEF FactTest, Goto
<1>24. ASSUME NEW u \in Users, FactRequest(u) PROVE OwnInv'
  BY <1>24 DEF FactRequest, Goto
<1>25. ASSUME NEW u \in Users, FactRead(u) PROVE OwnInv'
  BY <1>25 DEF FactRead, Return, Goto
<1>26. ASSUME NEW u \in Users, dma_operation(u) PROVE OwnInv'
  BY <1>26 DEF dma_operation, Calls, SetReg, LenOK, Goto, Enter
<1>27. ASSUME NEW u \in Users, DmaDst(u) PROVE OwnInv'
  BY <1>27 DEF DmaDst, SetReg, Goto
<1>28. ASSUME NEW u \in Users, DmaSize(u) PROVE OwnInv'
  BY <1>28 DEF DmaSize, SetReg, Goto
<1>29. ASSUME NEW u \in Users, DmaCmd(u) PROVE OwnInv'
  <2>1. regs = [src |-> regs.src, dst |-> regs.dst, size |-> regs.size]
    OBVIOUS
  <2>2. u \notin clash => regs = [src |-> u, dst |-> u, size |-> val[u]]
    BY <1>29, <2>1 DEF DmaCmd
  <2>3. \A v \in Users \ clash : v # u => pc[v] \notin DmaLabels
    BY <1>29 DEF DmaCmd
  <2>4. \A v \in Users \ clash' : LiveOwn(v)' /\ FactOwn(v)'
    BY <1>29 DEF DmaCmd, Goto
  <2>5. u \notin clash' => DmaOwn(u)'
    BY <1>29, <2>2 DEF DmaCmd, Goto
  <2>6. \A v \in Users \ clash' : v # u => DmaOwn(v)'
    BY <1>29, <2>3 DEF DmaCmd, Goto
  <2> HIDE DEF LiveOwn, FactOwn, DmaOwn
  <2> QED BY <2>4, <2>5, <2>6
<1>30. ASSUME NEW u \in Users, DmaTest(u) PROVE OwnInv'
  BY <1>30 DEF DmaTest, Return, Goto
<1>31. ASSUME NEW u \in Users, Signal(u) PROVE OwnInv'
  BY <1>31 DEF Signal, Sleeping, Return, Goto
<1> QED
  BY <1>1, <1>2, <1>3, <1>4, <1>5, <1>6, <1>7, <1>8, <1>9, <1>10, <1>11, <1>12, <1>13,
     <1>14, <1>15, <1>16, <1>17, <1>18, <1>19, <1>20, <1>21, <1>22, <1>23, <1>24, <1>25, <1>26,
     <1>27, <1>28, <1>29, <1>30, <1>31
  DEF Next, Core, Handler, Device

LEMMA EInvInit == Init => EInv
<1> SUFFICES ASSUME Init PROVE EInv
  OBVIOUS
<1>1. regs \in [src : Users \cup {None}, dst : Users \cup {None}, size : 0 .. EDU_DMA_BUF_SIZE]
  BY EduAssumption DEF Init
<1>2. TypeOK
  BY <1>1, EduAssumption DEF Init, TypeOK
<1>3. LoadInv /\ ProbeInv /\ UserInv
  BY DEF Init, LoadInv, ProbeInv, UserInv, DevParts
<1>4. LengthInv /\ OwnInv
  BY DEF Init, LengthInv, OwnInv, LiveOwn, FactOwn, DmaOwn, DmaLabels
<1>5. SleepersHaveWaker
  BY DEF Init, SleepersHaveWaker
<1> QED BY <1>2, <1>3, <1>4, <1>5 DEF EInv

LEMMA EInvStep == EInv /\ [Next]_vars => EInv'
<1> SUFFICES ASSUME EInv, [Next]_vars PROVE EInv'
  OBVIOUS
<1>1. CASE Next
  BY <1>1, TypeStep, LoadStep, ProbeStep, UserStep, LengthStep, OwnStep,
     WakerStep
  DEF EInv
<1>2. CASE UNCHANGED vars
  <2> USE <1>2 DEF vars, load, irqs, units, users, EInv
  <2>1. TypeOK'
    BY DEF TypeOK
  <2>2. LoadInv' /\ ProbeInv' /\ UserInv'
    BY DEF LoadInv, ProbeInv, UserInv
  <2>3. LengthInv' /\ OwnInv'
    BY DEF LengthInv, OwnInv, LiveOwn, FactOwn, DmaOwn
  <2>4. SleepersHaveWaker'
    BY DEF SleepersHaveWaker, Coming
  <2> QED BY <2>1, <2>2, <2>3, <2>4
<1> QED BY <1>1, <1>2

LEMMA EInvAlways == Spec => []EInv
BY EInvInit, EInvStep, PTL DEF Spec

-----------------------------------------------------------------------------
(***************************************************************************)
(* The properties.                                                         *)
(***************************************************************************)

\* Every variable of edu_pci_driver.c keeps its type; no DMA transfer is empty or
\* longer than the buffer, whoever's registers it is made of.
THEOREM TypeCorrect == Spec => []TypeOK
<1>1. EInv => TypeOK
  BY DEF EInv
<1> QED BY <1>1, EInvAlways, PTL

\* The labels of pci_dev_init and edu_probe, pci_dev_exit and edu_remove give back
\* all that was acquired.
THEOREM UnwindIsClean == Spec => []UnloadedIsClean
<1>1. EInv => UnloadedIsClean
  BY DEF EInv, LoadInv, ProbeInv, DevParts, Devres, UnloadedIsClean
<1> QED BY <1>1, EInvAlways, PTL

\* edu_irq_handler runs only with its registers and edu_dev there, and edu_dev
\* outlives every open file, mapping and call.
THEOREM DeviceOutlivesHandler == Spec => []HandlerHasDevice
<1>1. EInv => HandlerHasDevice
  BY DEF EInv, ProbeInv, UserInv, DevParts, HandlerHasDevice
<1> QED BY <1>1, EInvAlways, PTL

\* Calls of edu_open, ioctl_live_check, ioctl_factorial and dma_operation whose
\* unit nobody else used get their own answer.
THEOREM AnswersOwn == Spec => []AnswersAreOwn
<1>1. EInv => AnswersAreOwn
  BY DEF EInv, OwnInv, LiveOwn, FactOwn, DmaOwn, AnswersAreOwn
<1> QED BY <1>1, EInvAlways, PTL

\* A caller asleep in dma_operation's wait_event_interruptible has a transfer at
\* work or an interrupt that edu_irq_handler will see on its way, but for the
\* windows that lost records.
THEOREM WakerForSleepers == Spec => []SleepersHaveWaker
<1>1. EInv => SleepersHaveWaker
  BY DEF EInv
<1> QED BY <1>1, EInvAlways, PTL
===============================================================================
