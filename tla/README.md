# Specifications of the kernel modules

TLA+ specifications of the Linux kernel modules in this repository, with TLC
configurations that check them on small instances and TLAPS proofs for every
value of the constants. `PROJECT.json` lists the components, the runs, the
mutants, the source lines behind every definition, the hazards and the theorems.

Run a check with `tlc -config KbdSafety.cfg MCKbd`, a proof with
`tlapm KbdProofs.tla`.

## Inventory

The repository is a collection of loadable modules. They do not call each
other, with one exception (`list_test` uses symbols of `list_sync`), but four
of them claim the same character-device major number 42. What each keeps, what
can happen to it, and what makes it correct:

| Component | State | Operations and contexts | What is hard | What makes it correct |
|---|---|---|---|---|
| `keylogger/kbd.c` | ring of characters with two indices and a count, spinlock, five kernel resources | interrupt handler, open, read, write, release, load with four error labels, unload | handler against readers on several CPUs, same-CPU deadlock on the lock, full and empty ring, failure part way through the load, interrupt during unload | the log is first in first out, drops a key only when it is full, and is emptied only by a load or a write; the lock is never waited for by its own CPU; a failed load or an unload leaves nothing |
| `kernel_api/kernel_lists` | list of `task_info` under a spinlock | exported add, remove expired and print, called by other modules while they load and unload; load, unload | the lock is dropped between search and insertion; allocation failure with the lock taken; wrapping clock and counter | every entry is freed exactly once; a pid is listed twice only by callers that overlapped; nothing young expires |
| `deferred_work/deferred` | one timer with a purpose flag, list of monitored processes with task references, work item, spinlock | four ioctls, timer handler in softirq, work handler in a workqueue, load, unload | flag and deadline are written separately and without the lock; the handler re-arms the timer; references to dying processes; the order of the unload | references and entries are given back exactly once; nothing runs after unload; a dead process is reported once the timer is left alone; a delay is kept |
| `deferred_work/timer` | one timer, a counter | handler that re-arms itself, load, unload | deletion of a re-arming timer | nothing is pending after unload, the timer fires as long as the module is there |
| `pci_device/edu_pci_driver.c` | device registers, DMA buffer, two wait queues | load, probe and remove with error labels, open, mmap, ioctls for live check, factorial, DMA and interrupts, interrupt handler | lost wake-ups, an interrupt bit that is not the device's, callers sharing the device's registers, signals that abandon a transfer, error paths, load path that treats success as failure | each caller gets its own result; a sleeper is woken; every path gives back what it took, and not while it is in use |
| `device_drivers/lkt_char_dev/so2_cdev.c` | buffer, exclusive-open flag, wait queue flag | open, release, read, write, ioctls, load, unload | sleeping open, lost wake-up, a subtraction that wraps for offsets past the size, inverted test of the registration result | one opener; reads and writes at the file position stay in the buffer; a waiter is woken; it gives back only what it registered |
| `device_drivers/chardev` | message buffer, flag of the ioctls or of open, per-file value | open, release, read, write, ioctl | buffer rewritten byte by byte while it is read, no owner in the file operations, unchecked offset and index | a read that starts in the buffer stays there, a get returns the last message set, open files keep the module loaded |
| `networking/kernel/filter.c` | destination address, flag | ioctl, netfilter hook, load with an error label, unload | address and flag read by the hook while the ioctl writes them, the address octet by octet, a faulting copy, a load that fails with the device in use | every packet is judged by one filter, unless a copy is under way, overlapped another or failed; nothing stays registered |
| `kernel_api/kthread` | flag and a wait queue | thread, load, unload | thread that has left before it is stopped | the thread ends and unload returns |
| `kernel_pseudo_filesystem` | buffer and its size, one value | proc read and write, open and close | size shared without a lock, module reference taken where it should be dropped | a call that overlaps no other works with its own size; `procfs_3` limits its size, and is not unloaded under an open file |
| `kernel_api` (memory, list_proc, sched_spin, cmd_mod, multi_mod, oops_mod, error-mod, hello_world, test_mod) | none beyond the load | load and unload that print, or fail on purpose | none | not modelled: there is no state that a later call meets |

## Modules

### `KeyLog`, `Kbd`, `MCKbd`, `KbdProofs`: the keylogger

`KeyLog` is what the keylogger promises a reader: a bounded first-in first-out
log. A key that is pressed (`Press`) is logged unless the log is full, and only
then dropped (`Log`); a reader takes the oldest key (`Take`); the log is emptied by
a write that asked for it, once (`AskClear`, `Clear`), by a load (`Load`), and by
nothing else; `Unload` waits for presses and writes under way. `Kbd` is `kbd.c`,
step by step:

| Model | Code |
|---|---|
| `buf`, `put_idx`, `get_idx`, `count` | the fields of `struct kbd` |
| `lock`, `irqoff` | the spinlock and the local interrupt flag of each CPU |
| `pc`, `left`, `ch`, `cmd` | program counter and locals of the thread in `kbd_read` or `kbd_write` |
| `irqcpu`, `ipc`, `scancode` | the handler: CPU, program counter, `scaned_key` |
| `mod`, `held` | where `kbd_init` or `kbd_exit` is, and which resources are held |
| `Interrupt`, `IrqEntry`, `IrqLock`, `PutStore`, `PutCount`, `IrqUnlock` | `kbd_interrupt_handler` and `put_char` |
| `kbd_read`, `ReadNext`, `ReadLock`, `GetFetch`/`GetEmpty`, `GetCount`, `ReadUnlock`, `ReadPutUser`, `ReadReturn` | `kbd_read` and `get_char` |
| `kbd_write`, `WriteLock`, `reset_buffer`, `WriteUnlock` | `kbd_write` and `reset_buffer` |
| `InitRegion` ... `InitCdev`, `ExitCdev` ... `ExitRegions` | `kbd_init` with its labels, `kbd_exit` |

Inside a critical section the updates of the indices and of `count` are
separate steps, so a context that entered without the lock would be seen. The
handler runs on a CPU whose thread has local interrupts on, and that thread does
not move until the handler returns. The index arithmetic is kept modulo
`BUFFER_SIZE`; scancodes go through the real table of `get_ascii`.

`Contents` is the refinement mapping: the keys between the indices, where a
handler that has stored its key counts one more than `count` and a reader that
has fetched one counts one less. `Coming` is the key the handler has read and not
yet stored, `Clearing` the writes on their way to `reset_buffer`; through them a
key dropped with room left, or a reset that no write asked for, would be seen.

### `ListSync`, `MCListSync`, `ListSyncProofs`: the task list

`ListSync` is `list_sync.c` with any number of modules that behave like
`list_test.c`. Each critical section is one action, because every caller is a
process and takes the same lock; the search (`Refresh` or `Missing`), the
allocation (`task_info_alloc`) and the insertion (`Insert`) of one
`task_info_add_to_list` are three actions. The pids that one
`task_info_add_for_current` adds are arbitrary: the task list of the system can
change between them. An allocation may fail; `InsertNull` is the oops that
follows, after which the lock stays taken (`stuck`). The clock wraps at `Wrap`
and the counter at `IntMax`. An entry records who added it, when, and which other
callers were between their search for the same pid and their insertion meanwhile
(`by`, `born`, `rivals`), which the code does not, so that properties can speak
about it.

### `Deferred`, `MCDeferred`, `DeferredProofs`: the deferred-work device

`Deferred` is `deferred.c`. The flag and `mod_timer` of an ioctl are two steps
(`IoctlSet` or `IoctlAlloc`, then `IoctlArm`); `MY_IOCTL_TIMER_MON` is
`IoctlMon` (lookup), `MonGet` (allocation and reference), `MonBh`, `MonLock`,
`MonAdd`, `MonFlag`, `IoctlArm`. The handler is `Expire`, `HandlerSwitch`,
`HandlerLock`, one `HandlerScan` per entry, `HandlerUnlock`, `HandlerRearm`.
Time is counted in jiffies, `HZ` of them a second, the unit of every deadline in
the code: with `HZ` above 1 an ioctl can push a deadline before it is reached.
`Users` are the CPUs whose threads use the device; the handler runs on any of
`Cpus`. Timers, task
references, the workqueue and the death of processes are the kernel's and are
modelled from the way the code uses them: `mod_timer` ignores a timer without a
function, `timer_delete_sync` waits for the handler, the last
`put_task_struct` of a reaped process frees it, and what is read from a freed
task is arbitrary. The set of entries has no order: the loops visit all of them.

### `CharDevice`, `MCCharDevice`, `CharDeviceProofs`: the device with ioctls

`CharDevice` is `char_device.c`. A record `call[t]` holds where thread `t` is and
its locals; every byte that `device_read` or `device_write` copies is a step
(`ReadTest`, `ReadPut`, `WriteByte`), because neither takes a lock. The flag
`already_open` is taken (`Cmpxchg`) and given back (`ioctl_return`) by
`device_ioctl` only. `SetBytes` is what the counting loop of `IOCTL_SET_MSG`
passes on: the string with its NUL, cut at the buffer, and nothing for the empty
string, which leaves the earlier message in place. `device_pread` passes any offset
and `IOCTL_GET_NTH_BYTE` any index: neither is compared with the array, so a load
from outside it returns anything (`WildLoad`) or kills the thread in the middle of
its call (`Killed`), in the ioctl with the flag taken. The file operations name no
owner, so the kernel's lookup (`LookUp`) and
`device_open` are two steps with no reference in between, and a thread can leave
`device_release` after the reference is gone (`ReleaseReturn`). What happens in
an unloaded module is undefined: `FaultAfterUnload` stops the model.

### `CharDevExample`: the read-only device

`CharDevExample` is `char_dev_example.c`: the exclusive open, the message each
open formats (its number stands for the text) and reads of any length, by position
or by the offset of a `pread`.
`device_write` refuses every write and is left out.

### `So2Cdev`: the SO2 device

`So2Cdev` is `so2_cdev.c`. Files are named after the thread that opened them and
are used by all threads. The region of major 42 is shared with an environment
(`OtherLoads`, `OtherUnloads`) that stands for the other modules that claim it:
as coded, the device exists only when the registration failed. Read and write
compute the same and are one pair of actions (`so2_cdev_read`, `CopyReturn`), and
another for `pread` and `pwrite`, whose offset is not the file's (`so2_cdev_pread`,
`PcopyReturn`). Past the size the subtraction wraps and the request is not limited;
a copy that then leaves `buffer` (`Stray`) is undefined and stops the model (`oops`);
`wait_event_interruptible` is `DownTest`, `DownSignal` and the sleep between.
Arithmetic on `size_t` wraps at `WORD`.

### `Filter`, `MCFilter`, `FilterProofs`: the netfilter module

`Filter` is `filter.c`. `copy_from_user` promises no atomic store, so `IoctlCopy`
stores one octet of the address; after a fault (`IoctlFault`) the rest are zeros and
the ioctl fails (`IoctlFail`) with the flag as it was; otherwise it sets the flag
(`IoctlFlag`). The two loads of `test_daddr` are two actions of a CPU, the address
being loaded as one word. `whole`, `writer`, `disturbed` and `allowed` are history:
the address in force if it is one that an ioctl passed (else `Torn`), who alone has
stored it, whether two copies overlapped or one failed since the load, and for each
packet the filters in force since it came. Stores and loads take effect in program
order, as on x86; on a weaker machine `atomic_set` and `atomic_read` do not order
the address. `nf_unregister_net_hook` does not wait for packets in the hook; the
kernel does when it frees the module (`free_module`). A load that fails with an
ioctl in the device leaves that thread in freed code (`crashed`), where the model
stops.

### `Procfs2`, `Procfs3`: the buffered /proc files

`Procfs3` is `procfs_3.c`. Each access to the shared size is a step: test
(`procfs_read`), minimum (`ReadMin`), copy (`ReadCopy`), result (`ReadReturn`),
and likewise for writes. The buffer never receives anything, so its contents are
left out, and so are the positions: any call may pass any offset with `pread`, and a
read at one other than 0 returns 0.

`Procfs2` is `procfs_2.c`: the store of the size (`procfile_write`), its limit
(`WriteLimit`), the copy and the terminator are steps of any number of writers.
`overlap` is history: the calls during which another one was under way. Their
size may be anybody's, even one that is not limited yet; `WriteIsOwn` shows that
every other call works with its own.

### `IoctlTest`: one value per file

`IoctlTest` is `ioctl.c`. The sections under the read-write lock are single steps;
the bytes that a read copies after it dropped the lock are steps of their own.
`held` follows the load through its error label. The file operations name their
owner, as the code does on kernels from 6.4 on.

### `Kthread`: the kernel thread

`Kthread` is `kthread.c`. `wait_event_interruptible` is `my_thread_fn` (enqueue and
test) and the sleep that follows; the unload is `my_kthread_exit` (the flag),
`ExitWake`, `kthread_stop` and `StopReturn`. Nobody holds a reference on the task,
so once the flag has let the thread leave the kernel may free it (`TaskFreed`);
a `kthread_stop` after that is undefined and stops the model (`oops`).

### `KernelTimer`: the timer

`KernelTimer` is `timer.c`: `Expire` is the softirq that starts the handler,
`timer_handler` arms the timer again, `timer_exit` is `timer_delete_sync`, which
waits for the handler.

### `Edu`, `MCEdu`, `EduProofs`: the driver of the EDU device

| Model | Code |
|---|---|
| `mod`, `held`, `Stages`, `Unwinds` | where `pci_dev_init` or `pci_dev_exit` is; what is acquired; the order, and what the labels give back |
| `probe`, `AfterStage`, `Labels` | where `edu_probe` or `edu_remove` is; its stages and labels |
| `istat`, `pend`, `vec` | the interrupt status register, a message under way, MSI or INTx |
| `isr`, `irq_status`; `edu_irq_handler`, `IrqWake`, `IrqAck` | the handler: read of the status, wake-ups, acknowledgement |
| `live`; `edu_open`, `OpenRead`, `ioctl_live_check`, `LiveRead` | the live-check register and its two users |
| `fact`, `computing`, `reqirq`; `ioctl_factorial`, `FactTest`, `FactRequest`, `FactRead` | the factorial: write, wait, request of an interrupt, read |
| `regs`, `running`, `last`; `dma_operation`, `DmaDst`, `DmaSize`, `DmaCmd`, `DmaTest` | the four writes of a transfer and its wait |
| `Signal` | a signal ends either wait, and the device goes on |
| `Compute`, `Transfer`, `Raise` | the device (external) |
| `Fault` | an access to registers that are not mapped: an open before the probe or after an unbind, a call after an unbind; the model stops |
| `clash`, `lost` | history: callers whose unit somebody else used, DMA callers who missed their interrupt |

Every register access is a step of its own, because no lock protects them. The
device ignores writes to a unit at work, as its documentation says. Its interrupt
bits are those of the device that `src/pci_device/README.md:3` links: 0x100 for a
transfer and 0x1 (`FACT_IRQ`) for a factorial, whereas the handler tests 0x80
(`EDU_RAISE_IRQ_FACTORIAL`, the bit that requests the interrupt in the status
register), which only `ioctl_raise_irq` can raise. `Coming` says that the handler
has seen a bit, or will.

As coded, the load never gets past line 368 on a kernel whose
`alloc_chrdev_region` returns 0 for success; `REGION_OK` is that result. With
`REGION_OK = 0` the run `edu_load` shows what happens. Everything behind that line
is checked in the run `edu` with a positive `REGION_OK`, that is, for the driver
whose test accepts a success: without this, probe, handler and ioctls could not be
reached at all, and nothing about them would be checked.

### `Small`, `MCSmall`, `SmallProofs`: the small modules together

The modules `So2Cdev`, `CharDevExample`, `IoctlTest`, `Procfs2`, `Procfs3`,
`Kthread` and `KernelTimer` share no state. `Small` instantiates each with
variables of its own, the sizes of their buffers being constants that `Small.cfg`
chooses for TLC; `subject`, chosen in the initial state, says which of them a
behaviour exercises while the others stay unloaded. Every behaviour of each
module appears in this way, and no interleaving of two of them could be told
apart by a property of one. The calls of `ListSync` under fair scheduling are one
more subject, on an instance smaller than that of `list_sync`. `Stopped` lets a
behaviour that met undefined behaviour (or the lock that a dead caller keeps)
stand still, so that every other state without a successor is reported as a
deadlock.

## Runs

| Run | Instance | Shows |
|---|---|---|
| `kbd_safety` | 2 CPUs, 2 slots, two keys and a release, reads of up to 2 | type, ring consistency, no self-deadlock, clean unload, refinement of `KeyLog` (first in first out, drops only when full, cleared only on request) |
| `kbd_live` | 2 CPUs, 1 slot | reads and writes return, rmmod finishes |
| `kbd_clear` | 1 CPU | finding: a write that is not `clear` resets the buffer |
| `list_sync` | 2 users, 2 pids, 3 addresses, clock wrapping at 3 | type, duplicates only by overlapping searches, no leak, clean unload, no early expiry |
| `deferred_safety` | 2 CPUs with a user each, 2 processes, 2 entries, 2 jiffies to the second, delays of 0 and 1 | type, balanced references, no leak, no self-deadlock, clean unload |
| `deferred_live` | 2 CPUs, a user on one, 1 process, 3 entries, 2 jiffies to the second | dead processes reported once the timer is left alone, ioctls return, rmmod finishes |
| `deferred_alloc` | 1 CPU, delays up to 2 | finding: the work is scheduled before its delay has passed |
| `chardevice` | 2 threads that share a file, buffer of 2, messages up to 3 | type, reads that start in the array stay there, a get returns the last set that was not empty, open files pin the module, the flag of the ioctls is given back unless its holder was killed |
| `filter` | 1 CPU, 2 threads, addresses of 2 octets with 2 values | type, one filter per packet unless an address is torn, and when that can be, clean unload |
| `small_modules` | 3 threads on the SO2 device, 3 users, 2 files; 3 writers of `procfs_2`, 2 threads on `procfs_3` and `ioctl`; messages of 2, a buffer of 4, requests and offsets up to 3; 2 users of `list_sync` | types, copies of `so2_cdev` at the file position and the size of `procfs_3` within bounds, exclusive open, calls that work with their own data unless they overlap, clean unloads, no unload of `procfs_3` while a file is open, waits that end |
| `edu` | 2 users, numbers 0 and 3, DMA buffer of 1, lengths up to 2, MSI and INTx | type and bounds of transfers, clean unwinding, the handler never outlives the device, answers and transfers of calls that do not overlap are the caller's own, DMA sleepers have a waker and wake, factorial sleepers wake when 0x80 is raised, rmmod ends |
| `edu_load` | as `edu`, `REGION_OK` 0 | finding: a successful load leaves the module without device and driver |

Bounds. Two slots make the ring empty, partly full, full and wrapped; two CPUs
give a handler on the other CPU, a handler on the same CPU and two contending
threads. Two users beside `list_sync` are the least with which searches overlap;
a clock that wraps at 3 with an expiry of 1 has young, expired and wrapped ages,
and `MaxTime` lets it wrap once. Two entries let the same process be monitored
twice and two processes once each; with two jiffies to the second an ioctl can move a
deadline that is half over, again and again. One user is enough for the liveness of
`Deferred`, whose calls wait for the handler on the other CPU and for its lock; three
entries let that user add two while the handler drops a third. Addresses of two
octets are the least that can be torn, and one packet meets every order of stores:
packets do not meet each other. A buffer of two bytes with messages of up to
three gives empty, short, exactly full and cut messages, and a reader that a
second thread overtakes in the middle; every index outside the array is one case.
A message of two in a buffer of four lets an offset of three wrap the subtraction
with copies that stay in the buffer and copies that leave it. Two users of the EDU device are enough for
every pair of calls to meet in one unit; `Workloads` lets a behaviour mix the
calls of one unit with interrupts raised by hand, not those of all units at once,
which share only the interrupt. The factorials of 0 and 3 differ from each other
and from their arguments; lengths 0, 1 and 2 are empty, full and too long. Three threads on the SO2 device are two
that sleep and one that wakes them. In `Procfs3` references are never given back,
so their count may stop at `MaxRefs`; what matters is whether it is zero. In
`CharDevExample` the module is opened `MaxOpens` times per load. The proofs
remove these bounds from every safety property; they remain for liveness.
`ListSync` stops at `MaxTime` and after an oops, and `CharDevice`, `Filter` and
`Edu` stop after a fault in freed code or unmapped registers, so these runs do not
check for deadlock; the others do.

Fairness. The keylogger's run assumes that a CPU runs its handler and, between
interrupts, its thread, and that a spinlock is granted in turn (the kernel's
queued spinlocks are fair). `Deferred` assumes that time passes, expired timers
are run, workqueues make progress and threads are scheduled. `CharDevice` and
`So2Cdev` assume that a thread inside a call is scheduled and that the ten
seconds of `so2_cdev_open` pass; a sleeping thread is not, before it is woken or
gets a signal, and no signal is assumed. `ListSync` assumes that a call goes on and
that the spinlock is granted in turn. `Edu` assumes that the device finishes what it
computes or transfers, that a pending interrupt is delivered and its handler runs,
and that a probe, a remove or an unload goes on once begun; it assumes nothing of
users, not even that a woken caller runs, and no signal. `Kthread` assumes that the
thread and the unloading process are scheduled, `KernelTimer` that time passes.
In `CharDevice` a load from outside the array is not assumed to go well or to fault.
Nothing forces a user to call, a key to be pressed, a process to die or a module to be loaded.

Every property has a mutant: a variant of one definition with a plausible
mistake (named `Faulty variant` in the module), under which TLC finds the
property violated.

On two workers the longest runs are `chardevice` (2.5 million states, two and a half
minutes), `edu` (700 000, two minutes), `small_modules` (130 000 with liveness, two
minutes), `list_sync` (one minute) and `deferred_live` (125 000 with liveness, one
minute); `deferred_safety` (1.2 million), `kbd_safety` and `filter` (690 000) take
half a minute or less.

## Findings

* `kbd.c:180`: the test of `strcmp` is inverted. `clear` is refused and every
  other write resets the buffer, against `src/keylogger/README.md:15`.
* `deferred.c:137`: the purpose of the timer changes before its deadline does, so
  the timer of an earlier ioctl can schedule the allocation at once; and the
  handler's re-arm (line 100) overwrites a deadline set meanwhile. The user
  program announces "allocate memory after <seconds> seconds".

* `edu_pci_driver.c:368`: `ret_val <= 0` takes the 0 that `alloc_chrdev_region`
  returns for success as a failure. The load frees `edu_dev`, keeps the device
  numbers and returns 0, so the module stays loaded without device and driver, and
  its unload uses the freed `edu_dev`, against the driver that
  `src/pci_device/README.md:3` describes.

Other behaviour of the code that the models contain, where a comment or a document
says or suggests something else, and that no run singles out:

* `char_device.c:118`: the flag that should "prevent concurrent access into the
  same device" (line 3) is taken by ioctls only; reads and writes overlap freely.
* `char_device.c:80`, `:146`: neither the offset of a `pread` nor the index of
  `IOCTL_GET_NTH_BYTE` is compared with the message; the latter can kill its thread
  with the flag taken, after which every ioctl is answered `-EBUSY`.
* `char_device.c:128`: setting an empty message copies nothing, and a get returns the
  message before it.
* `char_dev_example.c:98`: the number that should count reads counts opens.
* `so2_cdev.c:169`: the result of `register_chrdev_region` is tested the wrong way
  round, so the module complains and stays without a device when it got its
  region; line 197 unregisters a region of another module. Line 128 answers an
  error when `MY_IOCTL_SET_BUFFER` succeeded. Lines 78 and 99 subtract in `size_t`,
  so a `pread` or `pwrite` past the size is not limited.
* `filter.c:77`: an ioctl that fails with `-EFAULT` has already overwritten the
  address, with the octets before the fault and zeros, and that is what packets are
  compared with until the next one succeeds; two ioctls that overlap can leave a
  mixture of their addresses.
* `deferred.c:151`: ioctls that monitor processes faster than one a second push the
  deadline for ever, and no dead process is reported meanwhile.
* `procfs_3.c:62`, `:38`, `:46`: close takes a reference instead of dropping one, so
  the module cannot be unloaded once it was used; a read returns the shared size
  after a write has changed it; a write copies in the wrong direction and fails.
* `char_device.c` can be unloaded under a thread that is just opening it, and
  `char_dev_example.c` at any time.
* `edu_pci_driver.c:111`: the handler acknowledges after it has woken the sleepers,
  so a transfer that finishes in between has its interrupt cleared and its caller
  sleeps on. `SleepersHaveWaker` shows that this and a transfer that ends without a
  handler are the only ways for a caller of `dma_operation`.
* `edu_pci_driver.c:97`: the handler tests 0x80 where the device raises 0x1 for a
  factorial, and line 276 asks for that interrupt only after the wait for it, against
  the comment of line 269: a factorial that takes long is waited for until a signal,
  or until somebody raises 0x80 by hand.
* `edu_pci_driver.c:161`: `writel(~0u)` to `INTR_RAISE` raises every bit where the
  comment of line 160 says "Clear pending IRQ state". Lines 155 and 165 jump to a label
  that frees a line that was never requested, and line 165 compares with `EINVAL`
  where the kernel returns `-EINVAL`. A device that is opened before the probe or
  after an unbind reads registers that are not mapped.
* `edu_pci_driver.c:297`: overlapping calls mix their DMA registers, and a signal
  leaves the transfer running for the next caller to meet.
* `kthread.c:48` returns `PTR_ERR(NULL)`, that is 0, when no thread could be started;
  `kthread.c:68` may stop a task that has been freed.
* `procfs_2.c:53`: overlapping writes can copy with a size that another call has
  stored and not limited yet.
* `get_proc` takes its reference after it left the RCU section (`deferred.c:65`),
  and `task_info_add_to_list` does not test its allocation (`list_sync.c:76`).

## Proofs

`KbdProofs` proves, for every `BUFFER_SIZE`, set of CPUs and set of scancodes
(assumption `KbdAssumption`), that `Spec` implies each safety invariant and the
refinement of `KeyLog`. The invariants are not inductive: whether the ring is
consistent when the lock is free depends on who may be inside a critical
section. `KInv` adds `LockInv` (the lock's owner is the one context in a
critical section, with interrupts off), `RingInv` (the indices agree with
`count` corrected for a half-done put or get) and `ModInv` (what is held and what
may run in each state of the life cycle). One lemma per part, one step per
action. The refinement uses `KInv`: a store is `Log` because `put_idx` is a free
slot (`PutSlotFree`), a drop is `Log` because `count` is the length of the log when
the handler has the lock, a fetch is `Take` because the slots shift (`ShiftSlot`).

`ListSyncProofs` proves the five properties of `ListSync` for any number of
users, pids, addresses and any clock width (assumption `ListAssumption`), and
that with one user every pid is listed once. `LInv` adds `PendingInv`: a caller
with an insertion pending for a pid has no entry of its own for that pid, and
whoever has one, or another insertion pending, is a different user that overlapped
with it, as the `rivals` of both record; this is what the dropped lock leaves of
uniqueness. `ExpiryCorrect` rests on `WrappedAge`: an age computed modulo the
clock width never exceeds the real age.

`FilterProofs` proves `TypeOK`, `JudgedByOneFilter` and `UnloadedIsClean` for any number of
CPUs and threads and any size of an address (assumption `FilterAssumption`). `FInv` adds
`MemoryInv` (the octets of a copy that nobody disturbed are in place, and an address
that counts as whole is the one stored), `TornInv` (until two copies overlap or one
fails, a thread in the middle of its copy is the only one, and a finished copy leaves
its address whole), `PacketInv` (the filter in force is one that every packet in the
hook may be judged by, and the flag never goes back once a packet has seen it set) and
`ModInv`. That the flag never goes back is why reading flag and address separately
does no harm; `SameOctets` is why the last octet of an undisturbed copy makes the
address the one that was passed.

`CharDeviceProofs` proves `TypeOK`, `OpenFilesPinModule` and `GetReturnsLastNonEmpty` for
every buffer length and any number of threads and files (assumption
`CharAssumption`). That a `msg_ptr` that starts inside the array stays there rests on `MessageInv`, the
spare byte after the buffer is NUL and out of reach of `device_write`, and on
`GoodCall`, a byte is copied only from before it. `LifeInv` says that the references
are as many as the files opened before rmmod began; it needs `OpenInv`, a file that
is being opened is used by nobody else, so that no file is counted twice.
`GetReturnsLastNonEmpty` needs a second invariant, `GInv`, on top of these: whoever is
inside `device_ioctl`, also one killed there, holds the flag and is alone; a set in progress has
copied a prefix of its message and a get a prefix of the last one (`Progress`); and
with nobody inside, the array holds the last message and its terminator (`Match`).
`SetBytesSource` is what the counting loop passes on, `CopiedMatches` why a message
that fills the buffer is terminated all the same, and `FirstNul` why a get stops at
the end of the message and not before.

`DeferredProofs` proves the six safety properties of `Deferred` for any finite set
of CPUs and any sets of processes and entries (assumption `DeferredAssumption`).
`DInv` adds `LockInv` (the lock's owner is the one context in a critical section,
and a thread there keeps the softirq off its CPU, which is why the handler never
waits for the thread below it), `HandlerInv` (what the handler has still to look at
is on the list), `ModInv` (what may be registered, pending or running in each state
of the life cycle: after `timer_delete_sync` no timer, after the flush no work) and
`OwnerInv` (no two ioctls hold the same entry). References are counted with
`Cardinality`: an entry and its reference come (`EntryTaken`), change hands
(`EntryListed`) and go (`EntryDropped`) together. `ListedStaysAllocated` is an action
property: the step that frees a task drops the last reference, and a listed process
has one more (`FreesUnlisted`).

`EduProofs` proves the five safety properties of `Edu` for any number of users, any
arguments, every length of the DMA buffer and whatever `alloc_chrdev_region` returns
(assumption `EduAssumption`). `LoadInv` and `ProbeInv` say which resources are held
at each stage of load and probe, which makes every error label undo exactly what was
done; `UserInv` keeps users to a loaded module; `LengthInv` bounds the lengths on
their way into the DMA registers, also when two callers mix theirs; `OwnInv` is what
an undisturbed caller finds in its unit at each line. `SleepersHaveWaker` is a part of
the invariant as it stands: every step that takes a bit away from those who sleep on
it, the acknowledgement above all, either follows their wake-up or has `lost` record
them when the transfer ends.
The device computes `Factorial`, a recursive function on the naturals. That it is
well-defined is proved without an induction theorem: a least counterexample exists
(`LeastNatural`, from the well-foundedness of `<`), tables of the first n factorials
exist and agree (`TableExists`, `TablesAgree`), so the equation that defines
`Factorial` has a solution (`FactorialEquation`), whose values are naturals.

`SmallProofs` proves the safety properties of the seven small modules for any sets
of threads and files and every size of message, buffer, byte and word (assumption
`SmallAssumption`). Each module has an invariant of its own, and `OneMoves` says that
a step of `Small` is a step of each module or leaves it alone. `So2Inv`: `dev_opend`
stands for the one opener, there is none without the module (so that the reset in
`so2_cdev_init` is right), and a file being opened is not open (so that the reset in
`so2_cdev_release` is); up to the size of the message the subtraction in `size_t` does
not wrap (`LimitedFits`), and the file position never goes past it.
`ExampleInv`: one user from open to release, and `msg` is that user's. `IoctlInv`: a
call's file is open, and a read has copied only the value it took. `Proc2Inv`: two
writers at a time are both marked as overlapping. `Proc3Inv`: an open file of a live
module means a reference. `KthInv`: nothing stops the thread before the unload, and a
null pointer means there never was a thread.

Only model-checked: liveness (`CallsReturn`, `UnloadFinishes`, `DeadAreReported`,
`FlagIsReleased`, `WaitsEnd`), which rests on fairness and `ENABLED` and is out of the
prover's reach. Every safety property of a passing run has a theorem.

## Not modelled, and the plan

What the proofs leave: the violated properties of `kbd_clear`, `deferred_alloc` and
`edu_load` hold in part, and the part can be stated and proved (a write that is `clear`
resets nothing; a delay is kept when no ioctl overlaps another and no timer is
pending); and the interference-free half of `OwnData` for `Procfs3`. No property speaks
of calls of the EDU driver or of `procfs_2` that overlap: they get each other's data.

Not modelled: `procfs_1.c` (its read returns a constant), `hello_sysfs.c` (one
integer, printed and parsed), the global word of `ioctl.c`, `ioctl_device_id`, and
the modules of `kernel_api` that allocate, print and return or fail on purpose
(`memory`, `list_proc`, `sched_spin`, `cmd_mod`, `multi_mod`, `oops_mod`,
`error-mod`, `hello_world`): no two of their steps share state that a later step
meets. The modules that claim major 42 appear as the environment of `So2Cdev`.

Left out for good: message texts and logging, the user programs (they are the
environment), the modules that only print, and failures of `class_create`, which
the code does not survive.
