---------------------------------- MODULE Edu ---------------------------------
(***************************************************************************)
(* The driver of the QEMU EDU device, src/pci_device/edu_pci_driver.c: a   *)
(* load with five error labels, probe and remove, a character device whose *)
(* ioctls talk to registers that all callers share, two wait queues and    *)
(* the interrupt handler that wakes them.                                  *)
(*                                                                         *)
(* The device is external.  It behaves as src/pci_device/README.md and the *)
(* implementation linked there say: it inverts what is written to the live *)
(* check, computes one factorial and moves one DMA transfer at a time,     *)
(* ignores writes to a unit at work, and interrupts when asked to.  An     *)
(* interrupt is a message (MSI) or lasts while the status is not empty     *)
(* (INTx).  For a finished factorial the device sets bit 0x1 of the status *)
(* register, while edu_irq_handler looks for bit 0x80, which is the bit    *)
(* that asks for that interrupt; only a raise by hand sets 0x80 there.     *)
(*                                                                         *)
(* pci_dev_init goes on only if alloc_chrdev_region returns more than 0.   *)
(* REGION_OK is what that function returns when it succeeds: 0 in the      *)
(* kernel, and a positive number in this reading of it.                    *)
(*                                                                         *)
(* Every access to a register is a step.  An access to unmapped registers  *)
(* or to the freed edu_dev is undefined; the model stops there (oops).     *)
(* Contents of the DMA buffer, direction bit and device id are left out.   *)
(***************************************************************************)
EXTENDS Integers

CONSTANTS Users,             \* each opens one file
          REGION_OK,
          Args,              \* numbers passed to the live check and to factorial
          EDU_DMA_BUF_SIZE,
          MaxLen,            \* bound: the largest length a user asks for
          Workloads,         \* bound: sets of commands that one behaviour mixes
          None

Commands == {"live", "factorial", "raise", "dma", "mmap"}

ASSUME EduAssumption ==
  /\ REGION_OK \in Int /\ Args \subseteq Nat
  /\ EDU_DMA_BUF_SIZE \in Nat \ {0} /\ MaxLen \in Nat
  /\ \A w \in Workloads : w \subseteq Commands
  /\ None \notin Users

VARIABLES
  mod, held, probe,        \* life cycle; resources held; where probe or remove is
  vec, oops,               \* kind of interrupt: "none", "msi" or "intx"
  istat, pend,             \* interrupt status register; a message is on its way
  isr, irq_status,         \* the handler: where it is, its local
  live, fact, computing, reqirq,  \* live check, factorial, status register
  regs, running, last,     \* DMA registers, transfer bit, the last transfer made
  files, vmas,             \* users with an open file, with a mapping of the buffer
  pc, val,                 \* where a user is, what it passed
  work,                    \* the commands of this behaviour
  clash, lost              \* history, see Enter and Transfer

load == <<mod, held, probe, vec, oops>>
irqs == <<istat, pend, isr, irq_status>>
units == <<live, fact, computing, reqirq, regs, running, last>>
users == <<files, vmas, pc, val>>
vars == <<load, irqs, units, users, work, clash, lost>>

\* Bits of the interrupt status: the ones the handler tests, and the one that
\* the device sets for a factorial.
EDU_RAISE_IRQ_FACTORIAL == 128
EDU_DMA_IRQ_FLAG == 256
FACT_IRQ == 1
Bits == {EDU_RAISE_IRQ_FACTORIAL, EDU_DMA_IRQ_FLAG, FACT_IRQ}

Sleeping(u) == pc[u] \in {"fact_sleep", "dma_sleep"}
Sleepers == {u \in Users : Sleeping(u)}
Mapped == "iomap" \in held
Goto(u, label) == pc' = [pc EXCEPT ![u] = label]

-----------------------------------------------------------------------------
(***************************************************************************)
(* pci_dev_init and pci_dev_exit.                                          *)
(***************************************************************************)

Stages == <<"mem", "region", "cdev", "class", "device", "driver">>

\* Faulty variant: the label after unregister_chrdev.
UnwindsSkipping(k) == {Stages[i] : i \in 1 .. k - 2}

\* What the labels release when stage k fails: all that came before.
Unwinds(k) == {Stages[i] : i \in 1 .. k - 1}

\* A stage succeeds, and after the last one the module is live; or it fails.
\* The second stage also "fails" with the region registered, when ret_val is 0,
\* and then pci_dev_init returns that 0.
pci_dev_init ==
  /\ ~oops /\ mod \in {"unloaded", "loading"}
  /\ \E k \in DOMAIN Stages :
       /\ Stages[k] \notin held /\ Unwinds(k) \subseteq held
       /\ \/ /\ k = 2 => REGION_OK > 0
             /\ held' = held \cup {Stages[k]}
             /\ mod' = IF k = 6 THEN "live" ELSE "loading"
          \/ /\ held' = held \ Unwinds(k)
             /\ mod' = "unloaded"
          \/ /\ k = 2 /\ REGION_OK = 0
             /\ held' = (held \cup {"region"}) \ Unwinds(2)
             /\ mod' = "live"
  /\ UNCHANGED <<probe, vec, oops, irqs, units, users, work, clash, lost>>

\* char_ops.owner: rmmod waits until no file is open or being opened.
pci_dev_exit ==
  /\ ~oops /\ mod = "live"
  /\ files = {} /\ \A u \in Users : pc[u] = "user"
  /\ IF "mem" \in held
       THEN /\ held' = held \ {"device", "class", "cdev", "region"}
            /\ mod' = "going" /\ UNCHANGED oops
       ELSE oops' = TRUE /\ UNCHANGED <<mod, held>>
  /\ UNCHANGED <<probe, vec, irqs, units, users, work, clash, lost>>

\* pci_unregister_driver has removed the device; kfree.
ExitFree ==
  /\ ~oops /\ mod = "going" /\ probe = "idle" /\ "irq" \notin held
  /\ held' = held \ {"driver", "mem"}
  /\ mod' = "unloaded"
  /\ UNCHANGED <<probe, vec, oops, irqs, units, users, work, clash, lost>>

-----------------------------------------------------------------------------
(***************************************************************************)
(* edu_probe and edu_remove.  The driver's core calls them while the       *)
(* module loads or unloads and when the device is bound and unbound.       *)
(***************************************************************************)

\* Managed resources, which the core releases after a failed probe and after
\* remove.
Devres == {"iomap", "dmabuf"}

\* Each stage of the probe: the next one, and what its failure's label undoes.
AfterStage == [iomap |-> "mask", mask |-> "dmabuf", dmabuf |-> "vectors",
               vectors |-> "irq", irq |-> "idle"]
Labels == [iomap |-> {"enabled"}, mask |-> {"enabled"}, dmabuf |-> {"enabled"},
           vectors |-> {"vectors", "enabled"}, irq |-> {"vectors", "enabled"}]

\* The registers or the handler are gone: whoever sleeps is not woken.
Gone == vec' = "none" /\ pend' = FALSE /\ lost' = lost \cup Sleepers

edu_probe ==
  /\ ~oops /\ mod = "live" /\ "driver" \in held
  /\ probe = "idle" /\ "irq" \notin held
  /\ held' = held \cup {"enabled"} /\ probe' = "iomap"
  /\ UNCHANGED <<mod, vec, oops, irqs, units, users, work, clash, lost>>

\* After the vectors are there, writel(~0u) to INTR_RAISE sets every bit; no
\* handler is there for the message.
ProbeStage ==
  /\ ~oops /\ probe \in DOMAIN AfterStage
  /\ held' = held \cup ({probe} \ {"mask"})
  /\ probe' = AfterStage[probe]
  /\ IF probe = "vectors" THEN vec' \in {"msi", "intx"} /\ istat' = Bits
                          ELSE UNCHANGED <<vec, istat>>
  /\ UNCHANGED <<mod, oops, pend, isr, irq_status, units, users, work, clash, lost>>

\* Any stage may fail; the last one also when the line's number is EINVAL.
\* irq_free calls free_irq for a line that was not requested.
ProbeFails ==
  /\ ~oops /\ probe \in DOMAIN Labels
  /\ held' = held \ (Labels[probe] \cup Devres)
  /\ probe' = "idle"
  /\ Gone
  /\ UNCHANGED <<mod, oops, istat, isr, irq_status, units, users, work, clash>>

\* Faulty variant: the handler is not waited for.
edu_removeNoSync ==
  /\ ~oops /\ probe = "idle" /\ "irq" \in held
  /\ held' = held \ {"irq"} /\ probe' = "remove"
  /\ Gone
  /\ UNCHANGED <<mod, oops, istat, isr, irq_status, units, users, work, clash>>

\* free_irq waits for the handler.
edu_remove ==
  /\ ~oops /\ probe = "idle" /\ "irq" \in held
  /\ isr = "idle"
  /\ held' = held \ {"irq"} /\ probe' = "remove"
  /\ Gone
  /\ UNCHANGED <<mod, oops, istat, isr, irq_status, units, users, work, clash>>

RemoveRest ==
  /\ ~oops /\ probe = "remove"
  /\ held' = held \ ({"vectors", "enabled"} \cup Devres)
  /\ probe' = "idle"
  /\ Gone
  /\ UNCHANGED <<mod, oops, istat, isr, irq_status, units, users, work, clash>>

-----------------------------------------------------------------------------
(***************************************************************************)
(* Interrupts.                                                             *)
(***************************************************************************)

\* The device sets bits of its status and, if any is set and a handler there,
\* sends a message.
Raise(bits) ==
  /\ istat' = istat \cup bits
  /\ pend' = (pend \/ (vec = "msi" /\ "irq" \in held /\ istat' # {}))

\* The handler has seen the bit and is about to wake its sleepers, or will see
\* it: the bit is not one it is about to acknowledge unseen.
Coming(bit) ==
  \/ isr = "wake" /\ bit \in irq_status
  \/ /\ bit \in istat /\ (vec = "intx" \/ pend)
     /\ ~(isr = "ack" /\ bit \in irq_status)

edu_irq_handler ==
  /\ ~oops /\ isr = "idle" /\ "irq" \in held
  /\ IF vec = "msi" THEN pend ELSE istat # {}
  /\ irq_status' = istat
  /\ isr' = "wake" /\ pend' = FALSE
  /\ UNCHANGED <<load, istat, units, users, work, clash, lost>>

\* Faulty variant: else if, so a factorial bit hides the DMA bit.
WokenByFirstBit(label) ==
  \/ label = "fact_sleep" /\ EDU_RAISE_IRQ_FACTORIAL \in irq_status
  \/ /\ label = "dma_sleep" /\ EDU_DMA_IRQ_FLAG \in irq_status
     /\ EDU_RAISE_IRQ_FACTORIAL \notin irq_status

\* Which sleepers the bits of irq_status wake.
Woken(label) ==
  \/ label = "fact_sleep" /\ EDU_RAISE_IRQ_FACTORIAL \in irq_status
  \/ label = "dma_sleep" /\ EDU_DMA_IRQ_FLAG \in irq_status

\* wake_up_interruptible: the woken test their condition again.
IrqWake ==
  /\ ~oops /\ isr = "wake"
  /\ pc' = [u \in Users |-> IF ~Woken(pc[u]) THEN pc[u]
                            ELSE IF pc[u] = "dma_sleep" THEN "dma_test" ELSE "fact_test"]
  /\ lost' = {u \in lost : ~Woken(pc[u])}
  /\ isr' = "ack"
  /\ UNCHANGED <<load, istat, pend, irq_status, units, files, vmas, val, work, clash>>

\* Faulty variant: every bit is acknowledged.
IrqAckAll ==
  /\ ~oops /\ isr = "ack"
  /\ istat' = {}
  /\ isr' = "idle" /\ irq_status' = {}
  /\ UNCHANGED <<load, pend, units, users, work, clash, lost>>

\* writel(irq_status) to INTR_ACK.
IrqAck ==
  /\ ~oops /\ isr = "ack"
  /\ istat' = istat \ irq_status
  /\ isr' = "idle" /\ irq_status' = {}
  /\ UNCHANGED <<load, pend, units, users, work, clash, lost>>

-----------------------------------------------------------------------------
(***************************************************************************)
(* The device at work.                                                     *)
(***************************************************************************)

Factorial[n \in Nat] == IF n = 0 THEN 1 ELSE n * Factorial[n - 1]

Compute ==
  /\ ~oops /\ computing
  /\ fact' = Factorial[fact] /\ computing' = FALSE
  /\ IF reqirq THEN Raise({FACT_IRQ}) ELSE UNCHANGED <<istat, pend>>
  /\ UNCHANGED <<load, isr, irq_status, live, reqirq, regs, running, last, users, work, clash,
                 lost>>

\* Every transfer of this driver asks for an interrupt.  History: those who sleep
\* for a transfer whose interrupt the handler will not see.
Transfer ==
  /\ ~oops /\ running
  /\ running' = FALSE /\ last' = regs
  /\ Raise({EDU_DMA_IRQ_FLAG})
  /\ UNCHANGED <<load, isr, irq_status, live, fact, computing, reqirq, regs, users, work, clash>>
  /\ lost' = lost \cup {u \in Users : pc[u] = "dma_sleep" /\ ~Coming(EDU_DMA_IRQ_FLAG)'}

-----------------------------------------------------------------------------
(***************************************************************************)
(* The character device.                                                   *)
(***************************************************************************)

LiveLabels == {"open_read", "live_read"}
FactLabels == {"fact_test", "fact_sleep", "fact_req", "fact_read"}
DmaLabels == {"dma_dst", "dma_size", "dma_cmd", "dma_test", "dma_sleep"}

\* History: u writes to a unit that others use, or that an interrupted call has
\* left at work.  Nobody involved can trust the answer.
Enter(u, labels, busy) ==
  LET others == {d \in Users \ {u} : pc[d] \in labels}
  IN  clash' = clash \cup others \cup (IF others # {} \/ busy THEN {u} ELSE {})

Return(u) == Goto(u, "user") /\ clash' = clash \ {u} /\ val' = [val EXCEPT ![u] = 0]

\* The value that edu_open writes to the live check.
OpenValue == 17

\* The device is there from cdev_add on.
edu_open(u) ==
  /\ ~oops /\ Mapped /\ pc[u] = "user" /\ u \notin files
  /\ mod \in {"loading", "live"} /\ "cdev" \in held
  /\ live' = OpenValue
  /\ Goto(u, "open_read") /\ Enter(u, LiveLabels, FALSE)
  /\ UNCHANGED <<load, irqs, fact, computing, reqirq, regs, running, last, files, vmas, val,
                 work, lost>>

\* An answer to another value refuses the open.
OpenRead(u) ==
  /\ ~oops /\ Mapped /\ pc[u] = "open_read"
  /\ files' = IF live = OpenValue THEN files \cup {u} ELSE files
  /\ Return(u)
  /\ UNCHANGED <<load, irqs, units, vmas, work, lost>>

\* A mapping keeps its file.
edu_release(u) ==
  /\ ~oops /\ u \in files \ vmas /\ pc[u] = "user"
  /\ files' = files \ {u}
  /\ UNCHANGED <<load, irqs, units, vmas, pc, val, work, clash, lost>>

\* A size up to EDU_BUFFER_SIZE; more is refused.
edu_mmap(u) ==
  /\ ~oops /\ "mmap" \in work /\ u \in files /\ pc[u] = "user"
  /\ vmas' \in {vmas \cup {u}, vmas \ {u}}
  /\ UNCHANGED <<load, irqs, units, files, pc, val, work, clash, lost>>

Calls(u, command) == ~oops /\ Mapped /\ command \in work /\ u \in files /\ pc[u] = "user"

ioctl_live_check(u) ==
  /\ Calls(u, "live")
  /\ \E v \in Args : live' = v /\ val' = [val EXCEPT ![u] = v]
  /\ Goto(u, "live_read") /\ Enter(u, LiveLabels, FALSE)
  /\ UNCHANGED <<load, irqs, fact, computing, reqirq, regs, running, last, files, vmas, work, lost>>

LiveRead(u) ==
  /\ ~oops /\ Mapped /\ pc[u] = "live_read"
  /\ Return(u)
  /\ UNCHANGED <<load, irqs, units, files, vmas, work, lost>>

\* A number written while the device computes is ignored.
ioctl_factorial(u) ==
  /\ Calls(u, "factorial")
  /\ \E v \in Args :
       /\ fact' = IF computing THEN fact ELSE v
       /\ val' = [val EXCEPT ![u] = v]
  /\ computing' = TRUE
  /\ Goto(u, "fact_test") /\ Enter(u, FactLabels, computing)
  /\ UNCHANGED <<load, irqs, live, reqirq, regs, running, last, files, vmas, work, lost>>

\* Faulty variant: one look at the condition, no loop around it.
FactTestWakes(u) ==
  /\ ~oops /\ Mapped /\ pc[u] = "fact_test"
  /\ Goto(u, "fact_req")
  /\ UNCHANGED <<load, irqs, units, files, vmas, val, work, clash, lost>>

\* wait_event_interruptible enqueues the caller before it tests.
FactTest(u) ==
  /\ ~oops /\ Mapped /\ pc[u] = "fact_test"
  /\ Goto(u, IF computing THEN "fact_sleep" ELSE "fact_req")
  /\ UNCHANGED <<load, irqs, units, files, vmas, val, work, clash, lost>>

\* Only now is the interrupt asked for, and stays so.
FactRequest(u) ==
  /\ ~oops /\ Mapped /\ pc[u] = "fact_req"
  /\ reqirq' = TRUE
  /\ Goto(u, "fact_read")
  /\ UNCHANGED <<load, irqs, live, fact, computing, regs, running, last, files, vmas, val, work,
                 clash, lost>>

FactRead(u) ==
  /\ ~oops /\ Mapped /\ pc[u] = "fact_read"
  /\ Return(u)
  /\ UNCHANGED <<load, irqs, units, files, vmas, work, lost>>

\* Any mask, also an empty one.
ioctl_raise_irq(u) ==
  /\ Calls(u, "raise")
  /\ \E bits \in SUBSET Bits : Raise(bits)
  /\ UNCHANGED <<load, isr, irq_status, units, users, work, clash, lost>>

\* Faulty variant: the upper bound is off by one.
LenOKTooLarge(len) == len > 0 /\ len <= EDU_DMA_BUF_SIZE + 1

LenOK(len) == len > 0 /\ len <= EDU_DMA_BUF_SIZE

\* A DMA register keeps its value while a transfer runs.
SetReg(reg, v) == regs' = IF running THEN regs ELSE [regs EXCEPT ![reg] = v]

\* A length out of bounds is refused.  The caller's name stands for its
\* addresses.
dma_operation(u) ==
  /\ Calls(u, "dma")
  /\ \E len \in 0 .. MaxLen : LenOK(len) /\ val' = [val EXCEPT ![u] = len]
  /\ SetReg("src", u)
  /\ Goto(u, "dma_dst") /\ Enter(u, DmaLabels, running)
  /\ UNCHANGED <<load, irqs, live, fact, computing, reqirq, running, last, files, vmas, work, lost>>

DmaDst(u) ==
  /\ ~oops /\ Mapped /\ pc[u] = "dma_dst"
  /\ SetReg("dst", u)
  /\ Goto(u, "dma_size")
  /\ UNCHANGED <<load, irqs, live, fact, computing, reqirq, running, last, files, vmas, val, work,
                 clash, lost>>

DmaSize(u) ==
  /\ ~oops /\ Mapped /\ pc[u] = "dma_size"
  /\ SetReg("size", val[u])
  /\ Goto(u, "dma_cmd")
  /\ UNCHANGED <<load, irqs, live, fact, computing, reqirq, running, last, files, vmas, val, work,
                 clash, lost>>

DmaCmd(u) ==
  /\ ~oops /\ Mapped /\ pc[u] = "dma_cmd"
  /\ running' = TRUE
  /\ Goto(u, "dma_test")
  /\ UNCHANGED <<load, irqs, live, fact, computing, reqirq, regs, last, files, vmas, val, work,
                 clash, lost>>

DmaTest(u) ==
  /\ ~oops /\ Mapped /\ pc[u] = "dma_test"
  /\ IF running THEN Goto(u, "dma_sleep") /\ UNCHANGED <<clash, val>> ELSE Return(u)
  /\ UNCHANGED <<load, irqs, units, files, vmas, work, lost>>

\* A signal ends a wait with -ERESTARTSYS; the device goes on.
Signal(u) ==
  /\ ~oops /\ Sleeping(u)
  /\ Return(u) /\ lost' = lost \ {u}
  /\ UNCHANGED <<load, irqs, units, files, vmas, work>>

\* A register is accessed that is not mapped: before the probe, after a remove.
Fault ==
  /\ ~oops /\ ~Mapped
  /\ \E u \in Users : \/ pc[u] # "user" /\ ~Sleeping(u)
                      \/ u \in files /\ pc[u] = "user"
                      \/ mod \in {"loading", "live"} /\ "cdev" \in held
  /\ oops' = TRUE
  /\ UNCHANGED <<mod, held, probe, vec, irqs, units, users, work, clash, lost>>

-----------------------------------------------------------------------------
Init ==
  /\ mod = "unloaded" /\ held = {} /\ probe = "idle" /\ vec = "none" /\ oops = FALSE
  /\ istat = {} /\ pend = FALSE /\ isr = "idle" /\ irq_status = {}
  /\ live = 0 /\ fact = 0 /\ computing = FALSE /\ reqirq = FALSE
  /\ regs = [src |-> None, dst |-> None, size |-> 0] /\ running = FALSE /\ last = regs
  /\ files = {} /\ vmas = {} /\ pc = [u \in Users |-> "user"] /\ val = [u \in Users |-> 0]
  /\ work \in Workloads /\ clash = {} /\ lost = {}

Handler == edu_irq_handler \/ IrqWake \/ IrqAck
Device == Compute \/ Transfer
Core == ProbeStage \/ ProbeFails \/ RemoveRest \/ ExitFree \/ (mod = "going" /\ edu_remove)

Next ==
  \/ pci_dev_init \/ pci_dev_exit \/ edu_probe \/ edu_remove \/ Core
  \/ Handler \/ Device \/ Fault
  \/ \E u \in Users :
       \/ edu_open(u) \/ OpenRead(u) \/ edu_release(u) \/ edu_mmap(u)
       \/ ioctl_live_check(u) \/ LiveRead(u) \/ ioctl_raise_irq(u)
       \/ ioctl_factorial(u) \/ FactTest(u) \/ FactRequest(u) \/ FactRead(u)
       \/ dma_operation(u) \/ DmaDst(u) \/ DmaSize(u) \/ DmaCmd(u) \/ DmaTest(u) \/ Signal(u)

Spec == Init /\ [][Next]_vars

\* The handler runs, a probe, remove or unload goes on once begun, and the
\* device finishes what it computes and transfers.
FairSpec ==
  Spec /\ WF_vars(Handler) /\ WF_vars(Compute) /\ WF_vars(Transfer) /\ WF_vars(Core)

-----------------------------------------------------------------------------
\* Type correctness.  In particular no transfer is longer than the buffer or
\* empty, even one that was put together from the registers of two callers.
TypeOK ==
  /\ mod \in {"unloaded", "loading", "live", "going"}
  /\ held \subseteq {Stages[i] : i \in DOMAIN Stages} \cup Devres
                       \cup {"enabled", "vectors", "irq"}
  /\ probe \in DOMAIN AfterStage \cup {"idle", "remove"}
  /\ vec \in {"none", "msi", "intx"} /\ oops \in BOOLEAN
  /\ istat \subseteq Bits /\ pend \in BOOLEAN
  /\ isr \in {"idle", "wake", "ack"} /\ irq_status \subseteq Bits
  /\ live \in Nat /\ fact \in Nat /\ computing \in BOOLEAN /\ reqirq \in BOOLEAN
  /\ {regs, last} \subseteq
       [src : Users \cup {None}, dst : Users \cup {None}, size : 0 .. EDU_DMA_BUF_SIZE]
  /\ running \in BOOLEAN /\ (running => regs.size > 0)
  /\ files \subseteq Users /\ vmas \subseteq Users
  /\ pc \in [Users -> {"user"} \cup LiveLabels \cup FactLabels \cup DmaLabels]
  /\ val \in [Users -> Nat]
  /\ work \in Workloads /\ clash \subseteq Users /\ lost \subseteq Users

\* Whatever labels are taken, a failed or finished load leaves nothing, and a
\* failed probe or a remove leaves nothing of the device.
UnloadedIsClean ==
  /\ mod = "unloaded" => held = {}
  /\ probe = "idle" /\ "irq" \notin held => held \cap ({"enabled", "vectors"} \cup Devres) = {}

\* The handler never runs on released registers or a freed edu_dev, and edu_dev
\* outlives every open file, mapping and call.
HandlerHasDevice ==
  /\ isr # "idle" => {"mem", "iomap", "irq"} \subseteq held
  /\ (files \cup vmas # {} \/ \E u \in Users : pc[u] # "user") => "mem" \in held

\* An open, a live check and a factorial get the device's answer to their own
\* value, and a DMA call that finds its wait over has had its own transfer made;
\* unless another call used the unit meanwhile or an interrupted call had left it
\* at work.
AnswersAreOwn ==
  \A u \in Users \ clash :
    /\ pc[u] = "open_read" => live = OpenValue
    /\ pc[u] = "live_read" => live = val[u]
    /\ pc[u] = "fact_read" => ~computing /\ fact = Factorial[val[u]]
    /\ pc[u] = "dma_test" /\ ~running => last = [src |-> u, dst |-> u, size |-> val[u]]

\* A caller of dma_operation sleeps only while the device transfers or an
\* interrupt that will wake it is on its way.  The exceptions (lost) are: the
\* transfer finished with no handler there, or between the handler's wake-ups and
\* its acknowledgement (edu_pci_driver.c:105-111).  Nothing of the kind holds of a
\* factorial: the device's bit 0x1 is not the 0x80 that the handler tests.
SleepersHaveWaker ==
  \A u \in Users \ lost : pc[u] = "dma_sleep" => running \/ Coming(EDU_DMA_IRQ_FLAG)

\* Waits end.  Every DMA caller that sleeps is woken, or has missed its interrupt
\* in one of those windows; a caller that sleeps for a factorial is woken once bit
\* 0x80 is raised by hand and the handler is there to see it; and once begun, rmmod
\* ends: free_irq does not wait for ever for a handler that runs again and again.
WaitsEnd ==
  /\ \A u \in Users :
       (pc[u] = "dma_sleep" \/ (pc[u] = "fact_sleep" /\ Coming(EDU_RAISE_IRQ_FACTORIAL)))
         ~> (~Sleeping(u) \/ u \in lost \/ oops)
  /\ mod = "going" ~> mod = "unloaded"

\* The user program opens the device of the loaded module and calls it
\* (src/pci_device/edu_ioctl.c): a load that reports success has a driver.
LoadedHasDriver == mod = "live" => {"mem", "driver"} \subseteq held
===============================================================================
