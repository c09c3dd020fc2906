--------------------------------- MODULE Filter -------------------------------
(***************************************************************************)
(* The netfilter module, src/networking/kernel/filter.c: an ioctl stores a *)
(* destination address and then a flag; a hook that runs for every packet  *)
(* the machine sends reads the flag and then the address, on any CPU and   *)
(* without a lock, and logs TCP packets that open a connection.            *)
(*                                                                         *)
(* A packet is its destination and whether it opens a TCP connection; the  *)
(* hook lets every packet pass.  copy_from_user stores the address one     *)
(* octet after the other, and zeros from the octet that faults on; the     *)
(* hook loads it as one word.  cdev_add is taken to succeed.  The stores   *)
(* of the ioctl and the loads of the hook take effect in program order,    *)
(* as on x86.                                                              *)
(***************************************************************************)
EXTENDS Integers

CONSTANTS Cpus,      \* each runs the hook for one packet at a time
          Threads,   \* the threads that call the ioctl
          Size,      \* sizeof(ioctl_set_addr), 4 in the code
          Octets,    \* the values of an octet, 0 among them
          NoFilter,  \* every address is logged
          Torn,      \* what no ioctl has passed: a mixture of addresses
          NoThread

Addrs == [1 .. Size -> Octets]
Zero == [i \in 1 .. Size |-> 0]

ASSUME FilterAssumption ==
  /\ Size \in Nat \ {0} /\ 0 \in Octets
  /\ NoFilter \notin Addrs /\ Torn \notin Addrs \cup {NoFilter}
  /\ NoThread \notin Threads

VARIABLES
  ioctl_set, ioctl_set_addr,
  mod, held,     \* life cycle, and what the module has registered
  pc, arg, done, \* my_ioctl: where each thread is, the address it passes, and
                 \* the octets of it that are copied
  hook, daddr,   \* my_nf_hookfn: where each CPU is, its packet's destination
  whole,         \* history: the address, if it is one that an ioctl passed
  writer,        \* history: the thread that alone has stored since it began to
  disturbed,     \* history: two copies of this load overlapped, or one failed
  allowed        \* allowed[c]: the filters in force since the packet on c came

module == <<mod, held>>
ioctl == <<pc, arg, done>>
packet == <<hook, daddr>>
history == <<whole, writer, disturbed>>
vars == <<ioctl_set, ioctl_set_addr, mod, held, pc, arg, done, hook, daddr, whole,
          writer, disturbed, allowed>>

Filters == Addrs \cup {NoFilter, Torn}

\* The filter in force.
InForce == IF ioctl_set = 1 THEN whole ELSE NoFilter

\* f is in force from now on: every packet under way may be judged by it.
Allow(f) ==
  allowed' = [c \in Cpus |-> IF hook[c] = "none" THEN {} ELSE allowed[c] \cup {f}]

\* Thread t has stored a part of its address.
Copying(t) == pc[t] # "user" /\ done[t] \in 1 .. Size - 1

-----------------------------------------------------------------------------
(***************************************************************************)
(* Load and unload.                                                        *)
(***************************************************************************)

\* register_chrdev_region succeeds, and the filter is empty; the device is
\* usable from cdev_add on.
InitRegion ==
  /\ mod = "unloaded"
  /\ mod' = "init_hook" /\ held' = {"region", "cdev"}
  /\ ioctl_set' = 0 /\ ioctl_set_addr' = Zero
  /\ whole' = Torn /\ writer' = NoThread /\ disturbed' = FALSE
  /\ UNCHANGED <<ioctl, packet, allowed>>

\* Faulty variant: the label forgets the device.
outKeepsCdev == {"region"}

\* What the error label gives back.
out == {"cdev", "region"}

\* nf_register_net_hook, or the error label.  The kernel frees a module that
\* failed to load at once: an ioctl that the device already let in is left in
\* freed code, and the model stops ("crashed").
InitHook ==
  /\ mod = "init_hook"
  /\ \/ mod' = "live" /\ held' = held \cup {"hook"}
     \/ /\ mod' = IF \A t \in Threads : pc[t] = "user" THEN "unloaded" ELSE "crashed"
        /\ held' = held \ out
  /\ UNCHANGED <<ioctl_set, ioctl_set_addr, ioctl, packet, history, allowed>>

\* rmmod is refused while the device is in use (my_fops.owner).
Rmmod ==
  /\ mod = "live" /\ \A t \in Threads : pc[t] = "user"
  /\ mod' = "exit_hook"
  /\ UNCHANGED <<ioctl_set, ioctl_set_addr, held, ioctl, packet, history, allowed>>

\* No packet enters the hook any more; those inside are not waited for.
nf_unregister_net_hook ==
  /\ mod = "exit_hook"
  /\ mod' = "exit_cdev" /\ held' = held \ {"hook"}
  /\ UNCHANGED <<ioctl_set, ioctl_set_addr, ioctl, packet, history, allowed>>

\* cdev_del and unregister_chrdev_region.
my_hook_exit ==
  /\ mod = "exit_cdev"
  /\ mod' = "exit_free" /\ held' = held \ {"cdev", "region"}
  /\ UNCHANGED <<ioctl_set, ioctl_set_addr, ioctl, packet, history, allowed>>

\* The kernel frees the module after synchronize_rcu: the hook runs in an RCU
\* read section, so every packet that was in it has left.
free_module ==
  /\ mod = "exit_free" /\ \A c \in Cpus : hook[c] = "none"
  /\ mod' = "unloaded"
  /\ UNCHANGED <<ioctl_set, ioctl_set_addr, held, ioctl, packet, history, allowed>>

-----------------------------------------------------------------------------
(***************************************************************************)
(* MY_IOCTL_FILTER_ADDRESS.                                                *)
(***************************************************************************)

\* Faulty variant: the flag is set before the address.
my_ioctlFlagFirst(t) ==
  /\ mod \in {"init_hook", "live"} /\ "cdev" \in held /\ pc[t] = "user"
  /\ \E a \in Addrs : arg' = [arg EXCEPT ![t] = a]
  /\ pc' = [pc EXCEPT ![t] = "copy"]
  /\ ioctl_set' = 1
  /\ UNCHANGED <<done, ioctl_set_addr, module, packet, history, allowed>>

my_ioctl(t) ==
  /\ mod \in {"init_hook", "live"} /\ "cdev" \in held /\ pc[t] = "user"
  /\ \E a \in Addrs : arg' = [arg EXCEPT ![t] = a]
  /\ pc' = [pc EXCEPT ![t] = "copy"]
  /\ UNCHANGED <<done, ioctl_set, ioctl_set_addr, module, packet, history, allowed>>

\* copy_from_user stores the next octet, or a zero after a fault.  With the flag
\* already set, what is in ioctl_set_addr is in force at once.
IoctlCopy(t) ==
  LET n == done[t] + 1
      w == IF done[t] = 0 \/ writer = t THEN t ELSE NoThread
      f == IF n = Size /\ w = t /\ pc[t] = "copy" THEN arg[t] ELSE Torn
  IN /\ pc[t] # "user" /\ done[t] < Size /\ mod # "crashed"
     /\ ioctl_set_addr' = [ioctl_set_addr EXCEPT ![n] = arg[t][n]]
     /\ done' = [done EXCEPT ![t] = n]
     /\ writer' = w /\ whole' = f
     /\ disturbed' = (disturbed \/ \E u \in Threads \ {t} : Copying(u))
     /\ Allow(IF ioctl_set = 1 THEN f ELSE NoFilter)
     /\ UNCHANGED <<ioctl_set, module, pc, arg, packet>>

\* copy_from_user faults at the next octet: it stores zeros from there on.
IoctlFault(t) ==
  /\ pc[t] = "copy" /\ done[t] < Size /\ mod # "crashed"
  /\ pc' = [pc EXCEPT ![t] = "zero"]
  /\ arg' = [arg EXCEPT ![t] = [i \in 1 .. Size |-> IF i <= done[t] THEN arg[t][i] ELSE 0]]
  /\ disturbed' = TRUE
  /\ UNCHANGED <<done, ioctl_set, ioctl_set_addr, module, packet, whole, writer, allowed>>

Return(t) ==
  /\ pc' = [pc EXCEPT ![t] = "user"]
  /\ arg' = [arg EXCEPT ![t] = Zero]
  /\ done' = [done EXCEPT ![t] = 0]

\* -EFAULT.  The flag stays as it was: if it was set, the octets of the failed
\* copy remain in force.
IoctlFail(t) ==
  /\ pc[t] = "zero" /\ done[t] = Size /\ mod # "crashed"
  /\ Return(t)
  /\ UNCHANGED <<ioctl_set, ioctl_set_addr, module, packet, history, allowed>>

\* Faulty variant: the flag is counted up.
IoctlFlagInc(t) ==
  /\ pc[t] = "copy" /\ done[t] = Size /\ mod # "crashed"
  /\ ioctl_set' = ioctl_set + 1
  /\ Allow(whole)
  /\ Return(t)
  /\ UNCHANGED <<ioctl_set_addr, module, packet, history>>

\* atomic_set(&ioctl_set, 1).
IoctlFlag(t) ==
  /\ pc[t] = "copy" /\ done[t] = Size /\ mod # "crashed"
  /\ ioctl_set' = 1
  /\ Allow(whole)
  /\ Return(t)
  /\ UNCHANGED <<ioctl_set_addr, module, packet, history>>

-----------------------------------------------------------------------------
(***************************************************************************)
(* my_nf_hookfn and test_daddr.                                            *)
(***************************************************************************)

\* A packet that opens a TCP connection reaches the hook.  Other packets are
\* never logged, whatever test_daddr says, and leave no trace.
my_nf_hookfn(c) ==
  /\ "hook" \in held /\ hook[c] = "none"
  /\ \E d \in Addrs : daddr' = [daddr EXCEPT ![c] = d]
  /\ hook' = [hook EXCEPT ![c] = "test"]
  /\ allowed' = [allowed EXCEPT ![c] = {InForce}]
  /\ UNCHANGED <<ioctl_set, ioctl_set_addr, module, ioctl, history>>

\* atomic_read(&ioctl_set) == 1, else every address passes.
test_daddr(c) ==
  /\ hook[c] = "test"
  /\ hook' = [hook EXCEPT ![c] = IF ioctl_set = 1 THEN "compare" ELSE "logged"]
  /\ UNCHANGED <<ioctl_set, ioctl_set_addr, module, ioctl, daddr, history, allowed>>

TestCompare(c) ==
  /\ hook[c] = "compare"
  /\ hook' = [hook EXCEPT ![c] = IF ioctl_set_addr = daddr[c] THEN "logged" ELSE "ignored"]
  /\ UNCHANGED <<ioctl_set, ioctl_set_addr, module, ioctl, daddr, history, allowed>>

\* The message is printed or not, and the packet passes.
HookReturn(c) ==
  /\ hook[c] \in {"logged", "ignored"}
  /\ hook' = [hook EXCEPT ![c] = "none"] /\ daddr' = [daddr EXCEPT ![c] = Zero]
  /\ allowed' = [allowed EXCEPT ![c] = {}]
  /\ UNCHANGED <<ioctl_set, ioctl_set_addr, module, ioctl, history>>

-----------------------------------------------------------------------------
Init ==
  /\ ioctl_set = 0 /\ ioctl_set_addr = Zero
  /\ mod = "unloaded" /\ held = {}
  /\ pc = [t \in Threads |-> "user"] /\ arg = [t \in Threads |-> Zero]
  /\ done = [t \in Threads |-> 0]
  /\ hook = [c \in Cpus |-> "none"] /\ daddr = [c \in Cpus |-> Zero]
  /\ whole = Torn /\ writer = NoThread /\ disturbed = FALSE
  /\ allowed = [c \in Cpus |-> {}]

Next ==
  \/ InitRegion \/ InitHook \/ Rmmod \/ nf_unregister_net_hook \/ my_hook_exit \/ free_module
  \/ \E t \in Threads :
       my_ioctl(t) \/ IoctlCopy(t) \/ IoctlFault(t) \/ IoctlFail(t) \/ IoctlFlag(t)
  \/ \E c \in Cpus : my_nf_hookfn(c) \/ test_daddr(c) \/ TestCompare(c) \/ HookReturn(c)

Spec == Init /\ [][Next]_vars

-----------------------------------------------------------------------------
\* Type correctness.
TypeOK ==
  /\ ioctl_set \in {0, 1} /\ ioctl_set_addr \in Addrs
  /\ mod \in {"unloaded", "init_hook", "live", "exit_hook", "exit_cdev", "exit_free", "crashed"}
  /\ held \subseteq {"region", "cdev", "hook"}
  /\ pc \in [Threads -> {"user", "copy", "zero"}]
  /\ arg \in [Threads -> Addrs] /\ done \in [Threads -> 0 .. Size]
  /\ hook \in [Cpus -> {"none", "test", "compare", "logged", "ignored"}]
  /\ daddr \in [Cpus -> Addrs]
  /\ whole \in Addrs \cup {Torn} /\ writer \in Threads \cup {NoThread}
  /\ disturbed \in BOOLEAN
  /\ allowed \in [Cpus -> SUBSET Filters]

\* The packet on c was judged as some filter in force while it was in the hook
\* demands, or a torn one was in force meanwhile.
JudgedFairly(c) ==
  Torn \notin allowed[c] =>
    /\ hook[c] = "logged" => allowed[c] \cap {NoFilter, daddr[c]} # {}
    /\ hook[c] = "ignored" => allowed[c] \ {NoFilter, daddr[c]} # {}

\* test_daddr reads the flag and the address separately, while any number of
\* ioctls write them or fault.  Each packet is judged by one filter, an address
\* that an ioctl passed or none, in force at some moment while it was in the
\* hook, unless a torn address was in force meanwhile.  That is so only while
\* an ioctl is in the middle of its copy, and for good only after the copies of
\* two ioctls overlapped or one of them failed.
JudgedByOneFilter ==
  /\ \A c \in Cpus : JudgedFairly(c)
  /\ InForce = Torn => disturbed \/ \E t \in Threads : Copying(t)

\* After a failed load and after unload nothing is registered and the hook is
\* not running, nor an ioctl, unless it came in before the load failed.
UnloadedIsClean ==
  mod \in {"unloaded", "crashed"} =>
    /\ held = {}
    /\ \A t \in Threads : pc[t] = "user" \/ mod = "crashed"
    /\ \A c \in Cpus : hook[c] = "none"
=============================================================================
