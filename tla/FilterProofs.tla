----------------------------- MODULE FilterProofs -----------------------------
(***************************************************************************)
(* Proofs about Filter: for any number of CPUs and threads and any size    *)
(* of an address.                                                          *)
(***************************************************************************)
EXTENDS Filter, TLAPS

\* What may be registered and running in each state of the life cycle.
ModInv ==
  /\ mod \in {"unloaded", "crashed", "exit_free"} => held = {}
  /\ mod = "init_hook" => held = {"region", "cdev"}
  /\ mod = "live" => held = {"region", "cdev", "hook"}
  /\ mod = "exit_cdev" => "hook" \notin held
  /\ \A t \in Threads : pc[t] # "user" => mod \in {"init_hook", "live", "crashed"}
  /\ \A c \in Cpus : hook[c] # "none" => mod \in {"live", "exit_hook", "exit_cdev", "exit_free"}

\* A copy that nobody disturbed has left its octets, and what counts as whole is
\* what is stored.
MemoryInv ==
  /\ \A t \in Threads : pc[t] = "user" => done[t] = 0
  /\ \A t \in Threads : writer = t => \A i \in 1 .. done[t] : ioctl_set_addr[i] = arg[t][i]
  /\ whole # Torn => ioctl_set_addr = whole

\* Until two copies overlap or one fails, a thread in the middle of its copy is
\* the only one, and a finished copy leaves its address whole.
TornInv ==
  ~disturbed =>
    /\ \A t \in Threads : pc[t] # "zero"
    /\ \A t \in Threads : Copying(t) => writer = t
    /\ (ioctl_set = 1 \/ \E t \in Threads : pc[t] = "copy" /\ done[t] = Size) =>
         whole # Torn \/ \E t \in Threads : Copying(t)

\* A packet in the hook may be judged by the filter in force, and the flag does
\* not go back once the hook has seen it.
PacketInv ==
  \A c \in Cpus : /\ hook[c] # "none" => InForce \in allowed[c]
                  /\ hook[c] = "compare" => ioctl_set = 1
                  /\ JudgedFairly(c)

FInv == TypeOK /\ ModInv /\ MemoryInv /\ TornInv /\ PacketInv

LEMMA AddrFacts ==
  /\ Zero \in Addrs /\ NoFilter \notin Addrs /\ Torn \notin Addrs /\ Torn # NoFilter
  /\ Addrs \subseteq Filters /\ NoFilter \in Filters /\ Torn \in Filters
BY FilterAssumption DEF Addrs, Zero, Filters

LEMMA FInvInit == Init => FInv
<1> SUFFICES ASSUME Init PROVE FInv
  OBVIOUS
<1>1. TypeOK
  <2>1. 0 \in 0 .. Size
    BY FilterAssumption
  <2> QED BY <2>1, AddrFacts DEF Init, TypeOK
<1>2. ModInv /\ MemoryInv
  BY DEF Init, ModInv, MemoryInv
<1>3. TornInv
  BY DEF Init, TornInv, Copying
<1>4. PacketInv
  BY DEF Init, PacketInv, JudgedFairly
<1> QED BY <1>1, <1>2, <1>3, <1>4 DEF FInv

\* A step of an ioctl that leaves the hook alone: the packets under way may be
\* judged by the filter in force after it as well.
LEMMA AllowEffect ==
  ASSUME FInv, Allow(InForce'), InForce' \in Filters, UNCHANGED packet,
         ioctl_set = 1 => ioctl_set' = 1
  PROVE  PacketInv' /\ allowed' \in [Cpus -> SUBSET Filters]
<1>1. /\ hook' = hook /\ daddr' = daddr
      /\ \A c \in Cpus : hook[c] # "none" => allowed'[c] = allowed[c] \cup {InForce'}
      /\ allowed' \in [Cpus -> SUBSET Filters]
  BY DEF FInv, TypeOK, Allow, packet
<1>2. ASSUME NEW c \in Cpus
      PROVE  /\ hook'[c] # "none" => InForce' \in allowed'[c]
             /\ hook'[c] = "compare" => ioctl_set' = 1
             /\ JudgedFairly(c)'
  <2>1. hook'[c] # "none" => InForce' \in allowed'[c]
    BY <1>1
  <2>2. hook'[c] = "compare" => ioctl_set' = 1
    BY <1>1 DEF FInv, PacketInv
  <2>3. JudgedFairly(c)'
    BY <1>1 DEF FInv, PacketInv, JudgedFairly
  <2> QED BY <2>1, <2>2, <2>3
<1> QED BY <1>1, <1>2 DEF PacketInv

\* A step that leaves the stores, the flag and the hook alone.
LEMMA SamePackets ==
  ASSUME FInv, UNCHANGED <<ioctl_set, whole, packet, allowed>>
  PROVE  PacketInv'
BY DEF FInv, PacketInv, InForce, JudgedFairly, packet

\* A step that leaves the ioctls alone.
LEMMA SameMemory ==
  ASSUME FInv, UNCHANGED <<ioctl_set, ioctl_set_addr, ioctl, history>>
  PROVE  MemoryInv' /\ TornInv'
<1>1. MemoryInv'
  BY DEF FInv, MemoryInv, ioctl, history
<1>2. TornInv'
  BY DEF FInv, TornInv, Copying, ioctl, history
<1> QED BY <1>1, <1>2

-----------------------------------------------------------------------------
(***************************************************************************)
(* Load and unload.                                                        *)
(***************************************************************************)
LEMMA LifeSteps ==
  ASSUME FInv,
         \/ InitRegion \/ InitHook \/ Rmmod
         \/ nf_unregister_net_hook \/ my_hook_exit \/ free_module
  PROVE  FInv'
<1>1. CASE InitRegion
  <2>1. /\ \A t \in Threads : pc[t] = "user" /\ pc'[t] = "user" /\ done'[t] = 0
        /\ \A c \in Cpus : hook[c] = "none" /\ hook'[c] = "none"
    BY <1>1 DEF InitRegion, FInv, ModInv, MemoryInv, ioctl, packet
  <2>2. TypeOK'
    BY <1>1, AddrFacts DEF InitRegion, FInv, TypeOK, ioctl, packet
  <2>3. ModInv'
    BY <1>1, <2>1 DEF InitRegion, ModInv
  <2>4. MemoryInv'
    BY <1>1, <2>1 DEF InitRegion, MemoryInv
  <2>5. TornInv'
    BY <1>1, <2>1 DEF InitRegion, TornInv, Copying
  <2>6. PacketInv'
    BY <2>1 DEF PacketInv, JudgedFairly
  <2> QED BY <2>2, <2>3, <2>4, <2>5, <2>6 DEF FInv
<1>2. CASE InitHook \/ Rmmod \/ nf_unregister_net_hook \/ my_hook_exit \/ free_module
  <2>1. UNCHANGED <<ioctl_set, ioctl_set_addr, ioctl, packet, history, whole, allowed>>
    BY <1>2 DEF InitHook, Rmmod, nf_unregister_net_hook, my_hook_exit, free_module, history
  <2>2. mod' \in {"unloaded", "live", "exit_hook", "exit_cdev", "exit_free", "crashed"}
        /\ held' \subseteq {"region", "cdev", "hook"}
    BY <1>2 DEF InitHook, Rmmod, nf_unregister_net_hook, my_hook_exit, free_module,
                FInv, TypeOK
  <2>3. TypeOK'
    BY <2>1, <2>2 DEF FInv, TypeOK, ioctl, packet, history
  <2>4. ModInv'
    BY <1>2, <2>1
       DEF InitHook, Rmmod, nf_unregister_net_hook, my_hook_exit, free_module, out,
           FInv, TypeOK, ModInv, ioctl, packet
  <2> QED BY <2>1, <2>3, <2>4, SamePackets, SameMemory DEF FInv
<1> QED BY <1>1, <1>2

-----------------------------------------------------------------------------
(***************************************************************************)
(* The ioctl.                                                              *)
(***************************************************************************)
LEMMA CallSteps ==
  ASSUME FInv, NEW t \in Threads, my_ioctl(t) \/ IoctlFault(t) \/ IoctlFail(t)
  PROVE  FInv'
<1>1. UNCHANGED <<ioctl_set, ioctl_set_addr, module, packet, whole, writer, allowed>>
  BY DEF my_ioctl, IoctlFault, IoctlFail, history
<1>2. PacketInv'
  BY <1>1, SamePackets
<1>3. CASE my_ioctl(t)
  <2>1. PICK a \in Addrs : arg' = [arg EXCEPT ![t] = a]
    BY <1>3 DEF my_ioctl
  <2>2. /\ pc[t] = "user" /\ done[t] = 0 /\ done' = done /\ pc' = [pc EXCEPT ![t] = "copy"]
        /\ mod \in {"init_hook", "live"} /\ disturbed' = disturbed
    BY <1>3 DEF my_ioctl, FInv, MemoryInv, history
  <2>3. TypeOK'
    BY <1>1, <2>1, <2>2 DEF FInv, TypeOK, module, packet
  <2>4. ModInv'
    BY <1>1, <2>2 DEF FInv, TypeOK, ModInv, module, packet
  <2>5. MemoryInv'
    <3>1. \A u \in Threads : \A i \in 1 .. done'[u] : u # t /\ arg'[u] = arg[u]
      BY <2>1, <2>2 DEF FInv, TypeOK
    <3> QED BY <1>1, <2>2, <3>1 DEF FInv, TypeOK, MemoryInv
  <2>6. TornInv'
    <3>1. \A u \in Threads : Copying(u)' <=> Copying(u)
      BY <2>2 DEF FInv, TypeOK, Copying
    <3>2. \A u \in Threads : pc'[u] = "copy" /\ done'[u] = Size => pc[u] = "copy" /\ done[u] = Size
      BY <2>2, FilterAssumption DEF FInv, TypeOK
    <3>3. \A u \in Threads : pc'[u] = "zero" => pc[u] = "zero"
      BY <2>2 DEF FInv, TypeOK
    <3> QED BY <1>1, <2>2, <3>1, <3>2, <3>3 DEF FInv, TornInv
  <2> QED BY <1>2, <2>3, <2>4, <2>5, <2>6 DEF FInv
<1>4. CASE IoctlFault(t)
  <2> DEFINE a == [i \in 1 .. Size |-> IF i <= done[t] THEN arg[t][i] ELSE 0]
  <2>1. /\ pc[t] = "copy" /\ done[t] < Size /\ done' = done /\ pc' = [pc EXCEPT ![t] = "zero"]
        /\ arg' = [arg EXCEPT ![t] = a] /\ disturbed' = TRUE
    BY <1>4 DEF IoctlFault
  <2>2. a \in Addrs /\ \A i \in 1 .. done[t] : a[i] = arg[t][i]
    BY <2>1, FilterAssumption DEF FInv, TypeOK, Addrs
  <2> HIDE DEF a
  <2>3. TypeOK'
    BY <1>1, <2>1, <2>2 DEF FInv, TypeOK, module, packet
  <2>4. ModInv'
    BY <1>1, <2>1 DEF FInv, TypeOK, ModInv, module, packet
  <2>5. MemoryInv'
    BY <1>1, <2>1, <2>2 DEF FInv, TypeOK, MemoryInv
  <2>6. TornInv'
    BY <2>1 DEF TornInv
  <2> QED BY <1>2, <2>3, <2>4, <2>5, <2>6 DEF FInv
<1>5. CASE IoctlFail(t)
  <2>1. /\ pc[t] = "zero" /\ disturbed' = disturbed
        /\ pc' = [pc EXCEPT ![t] = "user"] /\ arg' = [arg EXCEPT ![t] = Zero]
        /\ done' = [done EXCEPT ![t] = 0]
    BY <1>5 DEF IoctlFail, Return, history
  <2>2. disturbed
    BY <2>1 DEF FInv, TornInv
  <2>3. 0 \in 0 .. Size
    BY FilterAssumption
  <2>4. TypeOK'
    BY <1>1, <2>1, <2>3, AddrFacts DEF FInv, TypeOK, module, packet
  <2>5. ModInv'
    BY <1>1, <2>1 DEF FInv, TypeOK, ModInv, module, packet
  <2>6. MemoryInv'
    <3>1. \A u \in Threads : \A i \in 1 .. done'[u] : u # t /\ arg'[u] = arg[u] /\ done'[u] = done[u]
      BY <2>1 DEF FInv, TypeOK
    <3> QED BY <1>1, <2>1, <3>1 DEF FInv, TypeOK, MemoryInv
  <2>7. TornInv'
    BY <2>1, <2>2 DEF TornInv
  <2> QED BY <1>2, <2>4, <2>5, <2>6, <2>7 DEF FInv
<1> QED BY <1>3, <1>4, <1>5

\* Two addresses with the same octets are the same.
LEMMA SameOctets ==
  ASSUME NEW a \in Addrs, NEW b \in Addrs, \A i \in 1 .. Size : a[i] = b[i]
  PROVE  a = b
<1>1. a = [i \in 1 .. Size |-> a[i]] /\ b = [i \in 1 .. Size |-> b[i]]
  BY DEF Addrs
<1>2. [i \in 1 .. Size |-> a[i]] = [i \in 1 .. Size |-> b[i]]
  OBVIOUS
<1> QED BY <1>1, <1>2, Zenon

\* An octet is stored.
LEMMA CopyStep ==
  ASSUME FInv, NEW t \in Threads, IoctlCopy(t)
  PROVE  FInv'
<1> DEFINE n == done[t] + 1
           w == IF done[t] = 0 \/ writer = t THEN t ELSE NoThread
           f == IF n = Size /\ w = t /\ pc[t] = "copy" THEN arg[t] ELSE Torn
<1>1. /\ pc[t] # "user" /\ done[t] < Size /\ mod # "crashed"
      /\ ioctl_set_addr' = [ioctl_set_addr EXCEPT ![n] = arg[t][n]]
      /\ done' = [done EXCEPT ![t] = n]
      /\ writer' = w /\ whole' = f
      /\ disturbed' = (disturbed \/ \E u \in Threads \ {t} : Copying(u))
      /\ Allow(IF ioctl_set = 1 THEN f ELSE NoFilter)
      /\ UNCHANGED <<ioctl_set, module, pc, arg, packet>>
  BY DEF IoctlCopy
<1>2. /\ n \in 1 .. Size /\ done \in [Threads -> 0 .. Size] /\ Size \in Nat \ {0}
      /\ arg \in [Threads -> Addrs] /\ ioctl_set_addr \in Addrs
      /\ w \in {t, NoThread} /\ f \in {arg[t], Torn} /\ NoThread # t
  BY <1>1, FilterAssumption DEF FInv, TypeOK
<1>3. /\ done'[t] = n /\ \A u \in Threads \ {t} : done'[u] = done[u]
      /\ \A i \in 1 .. Size : ioctl_set_addr'[i] = IF i = n THEN arg[t][n] ELSE ioctl_set_addr[i]
      /\ ioctl_set_addr' \in Addrs /\ done' \in [Threads -> 0 .. Size]
  BY <1>1, <1>2 DEF Addrs
<1>4. InForce' = IF ioctl_set = 1 THEN f ELSE NoFilter
  BY <1>1 DEF InForce
<1>5. InForce' \in Filters /\ f \in Addrs \cup {Torn}
  BY <1>2, <1>4, AddrFacts
<1>6. PacketInv' /\ allowed' \in [Cpus -> SUBSET Filters]
  BY <1>1, <1>4, <1>5, AllowEffect
<1>7. TypeOK'
  BY <1>1, <1>2, <1>3, <1>5, <1>6 DEF FInv, TypeOK, module, packet
<1>8. ModInv'
  BY <1>1 DEF FInv, ModInv, module, packet
<1>9. writer' = t => \A i \in 1 .. n : ioctl_set_addr'[i] = arg[t][i]
  <2> SUFFICES ASSUME writer' = t, NEW i \in 1 .. n PROVE ioctl_set_addr'[i] = arg[t][i]
    OBVIOUS
  <2>1. i \in 1 .. Size
    BY <1>2
  <2>2. CASE i = n
    BY <1>3, <2>1, <2>2
  <2>3. CASE i # n
    <3>1. i \in 1 .. done[t] /\ writer = t
      BY <1>1, <1>2, <2>3
    <3>2. ioctl_set_addr[i] = arg[t][i]
      BY <3>1 DEF FInv, MemoryInv
    <3> QED BY <1>3, <2>1, <2>3, <3>2
  <2> QED BY <2>2, <2>3
<1>10. MemoryInv'
  <2>1. \A u \in Threads : pc'[u] = "user" => done'[u] = 0
    BY <1>1, <1>3 DEF FInv, MemoryInv
  <2>2. ASSUME NEW u \in Threads, writer' = u, NEW i \in 1 .. done'[u]
        PROVE  ioctl_set_addr'[i] = arg'[u][i]
    BY <1>1, <1>2, <1>3, <1>9, <2>2, FilterAssumption
  <2>3. ASSUME whole' # Torn PROVE ioctl_set_addr' = whole'
    <3>1. n = Size /\ writer' = t /\ whole' = arg[t]
      BY <1>1, <2>3
    <3>2. \A i \in 1 .. Size : ioctl_set_addr'[i] = arg[t][i]
      BY <1>9, <3>1
    <3>3. ioctl_set_addr' \in Addrs /\ arg[t] \in Addrs
      BY <1>2, <1>3
    <3>4. ioctl_set_addr' = arg[t]
      BY <3>2, <3>3, SameOctets
    <3> QED BY <3>1, <3>4
  <2> QED BY <2>1, <2>2, <2>3 DEF MemoryInv
<1>11. TornInv'
  <2> SUFFICES ASSUME ~disturbed'
               PROVE  /\ \A u \in Threads : pc'[u] # "zero"
                      /\ \A u \in Threads : Copying(u)' => writer' = u
                      /\ whole' # Torn \/ \E u \in Threads : Copying(u)'
    BY DEF TornInv
  <2>1. ~disturbed /\ \A u \in Threads \ {t} : ~Copying(u)
    BY <1>1
  <2>2. \A u \in Threads : pc[u] # "zero" /\ pc'[u] = pc[u]
    BY <1>1, <2>1 DEF FInv, TornInv
  <2>3. \A u \in Threads \ {t} : ~Copying(u)'
    BY <1>1, <1>3, <2>1 DEF Copying
  <2>4. writer' = t
    <3>1. CASE done[t] = 0
      BY <1>1, <3>1
    <3>2. CASE done[t] # 0
      <4>1. Copying(t)
        BY <1>1, <1>2, <3>2 DEF Copying
      <4>2. writer = t
        BY <2>1, <4>1 DEF FInv, TornInv
      <4> QED BY <1>1, <4>2
    <3> QED BY <3>1, <3>2
  <2>5. whole' # Torn \/ Copying(t)'
    <3>1. CASE n = Size
      <4>1. pc[t] = "copy"
        BY <1>1, <2>2 DEF FInv, TypeOK
      <4>2. whole' = arg[t] /\ arg[t] \in Addrs
        BY <1>1, <1>2, <2>4, <3>1, <4>1
      <4> QED BY <4>2, AddrFacts
    <3>2. CASE n # Size
      BY <1>1, <1>2, <1>3, <3>2 DEF Copying
    <3> QED BY <3>1, <3>2
  <2> QED BY <2>2, <2>3, <2>4, <2>5
<1> HIDE DEF n, w, f
<1> QED BY <1>6, <1>7, <1>8, <1>10, <1>11 DEF FInv

\* The flag is set.
LEMMA FlagStep ==
  ASSUME FInv, NEW t \in Threads, IoctlFlag(t)
  PROVE  FInv'
<1>1. /\ pc[t] = "copy" /\ done[t] = Size /\ ioctl_set' = 1 /\ Allow(whole)
      /\ pc' = [pc EXCEPT ![t] = "user"] /\ arg' = [arg EXCEPT ![t] = Zero]
      /\ done' = [done EXCEPT ![t] = 0]
      /\ UNCHANGED <<ioctl_set_addr, module, packet, whole, writer, disturbed>>
  BY DEF IoctlFlag, Return, history
<1>2. InForce' = whole /\ whole \in Filters
  BY <1>1, AddrFacts DEF InForce, FInv, TypeOK
<1>3. PacketInv' /\ allowed' \in [Cpus -> SUBSET Filters]
  BY <1>1, <1>2, AllowEffect
<1>4. 0 \in 0 .. Size /\ Size > 0
  BY FilterAssumption
<1>5. TypeOK'
  BY <1>1, <1>3, <1>4, AddrFacts DEF FInv, TypeOK, module, packet
<1>6. ModInv'
  BY <1>1 DEF FInv, TypeOK, ModInv, module, packet
<1>7. MemoryInv'
  <2>1. \A u \in Threads : \A i \in 1 .. done'[u] : u # t /\ arg'[u] = arg[u] /\ done'[u] = done[u]
    BY <1>1 DEF FInv, TypeOK
  <2> QED BY <1>1, <2>1 DEF FInv, TypeOK, MemoryInv
<1>8. TornInv'
  <2>1. \A u \in Threads : Copying(u)' <=> Copying(u)
    BY <1>1, <1>4, FilterAssumption DEF FInv, TypeOK, Copying
  <2>2. \A u \in Threads : pc'[u] = "zero" => pc[u] = "zero"
    BY <1>1 DEF FInv, TypeOK
  <2>3. ~disturbed => whole # Torn \/ \E u \in Threads : Copying(u)
    BY <1>1 DEF FInv, TornInv
  <2> QED BY <1>1, <2>1, <2>2, <2>3 DEF FInv, TornInv
<1> QED BY <1>3, <1>5, <1>6, <1>7, <1>8 DEF FInv

-----------------------------------------------------------------------------
(***************************************************************************)
(* The hook.                                                               *)
(***************************************************************************)
LEMMA HookSteps ==
  ASSUME FInv, NEW c \in Cpus,
         my_nf_hookfn(c) \/ test_daddr(c) \/ TestCompare(c) \/ HookReturn(c)
  PROVE  FInv'
<1>1. UNCHANGED <<ioctl_set, ioctl_set_addr, module, ioctl, history, whole>>
  BY DEF my_nf_hookfn, test_daddr, TestCompare, HookReturn, history
<1>2. MemoryInv' /\ TornInv'
  BY <1>1, SameMemory
<1>3. InForce' = InForce /\ InForce \in Filters
  BY <1>1, AddrFacts DEF InForce, FInv, TypeOK
<1>4. TypeOK'
  <2>1. /\ hook' \in [Cpus -> {"none", "test", "compare", "logged", "ignored"}]
        /\ daddr' \in [Cpus -> Addrs] /\ allowed' \in [Cpus -> SUBSET Filters]
    BY <1>3, AddrFacts DEF my_nf_hookfn, test_daddr, TestCompare, HookReturn, FInv, TypeOK
  <2> QED BY <1>1, <2>1 DEF FInv, TypeOK, module, ioctl, history
<1>5. ModInv'
  BY <1>1 DEF my_nf_hookfn, test_daddr, TestCompare, HookReturn, FInv, TypeOK, ModInv,
              module, ioctl
<1>6. PacketInv'
  <2> SUFFICES ASSUME NEW d \in Cpus
               PROVE  /\ hook'[d] # "none" => InForce \in allowed'[d]
                      /\ hook'[d] = "compare" => ioctl_set = 1
                      /\ JudgedFairly(d)'
    BY <1>1, <1>3 DEF PacketInv
  <2>1. CASE d # c
    <3>1. hook'[d] = hook[d] /\ daddr'[d] = daddr[d] /\ allowed'[d] = allowed[d]
      BY <2>1 DEF my_nf_hookfn, test_daddr, TestCompare, HookReturn, FInv, TypeOK
    <3> QED BY <3>1 DEF FInv, PacketInv, JudgedFairly
  <2>2. CASE d = c /\ my_nf_hookfn(c)
    BY <2>2 DEF my_nf_hookfn, FInv, TypeOK, JudgedFairly
  <2>3. CASE d = c /\ test_daddr(c)
    <3>1. /\ hook[c] = "test" /\ allowed' = allowed /\ daddr' = daddr
          /\ hook'[c] = IF ioctl_set = 1 THEN "compare" ELSE "logged"
      BY <2>3 DEF test_daddr, FInv, TypeOK
    <3>2. InForce \in allowed[c]
      BY <3>1 DEF FInv, PacketInv
    <3> QED BY <2>3, <3>1, <3>2 DEF InForce, JudgedFairly
  <2>4. CASE d = c /\ TestCompare(c)
    <3>1. /\ hook[c] = "compare" /\ allowed' = allowed /\ daddr' = daddr
          /\ hook'[c] = IF ioctl_set_addr = daddr[c] THEN "logged" ELSE "ignored"
      BY <2>4 DEF TestCompare, FInv, TypeOK
    <3>2. ioctl_set = 1 /\ InForce = whole /\ whole \in allowed[c]
      BY <3>1 DEF FInv, PacketInv, InForce
    <3>3. whole # Torn => ioctl_set_addr = whole /\ whole # NoFilter
      BY AddrFacts DEF FInv, TypeOK, MemoryInv
    <3> QED BY <2>4, <3>1, <3>2, <3>3 DEF JudgedFairly
  <2>5. CASE d = c /\ HookReturn(c)
    BY <2>5 DEF HookReturn, FInv, TypeOK, JudgedFairly
  <2> QED BY <2>1, <2>2, <2>3, <2>4, <2>5
<1> QED BY <1>2, <1>4, <1>5, <1>6 DEF FInv

LEMMA FInvStep == FInv /\ [Next]_vars => FInv'
<1> SUFFICES ASSUME FInv, [Next]_vars PROVE FInv'
  OBVIOUS
<1>1. CASE Next
  BY <1>1, LifeSteps, CallSteps, CopyStep, FlagStep, HookSteps DEF Next
<1>2. CASE UNCHANGED vars
  <2>1. TypeOK' /\ ModInv'
    BY <1>2 DEF vars, FInv, TypeOK, ModInv
  <2> QED BY <1>2, <2>1, SamePackets, SameMemory DEF vars, FInv, packet, ioctl, history
<1> QED BY <1>1, <1>2

LEMMA FInvHolds == Spec => []FInv
BY FInvInit, FInvStep, PTL DEF Spec

-----------------------------------------------------------------------------
(***************************************************************************)
(* The theorems.                                                           *)
(***************************************************************************)

\* The flag of filter.c stays 0 or 1, every octet of the address is written, and
\* every packet's set of filters is one of filters.
THEOREM TypeCorrect == Spec => []TypeOK
<1>1. FInv => TypeOK
  BY DEF FInv
<1> QED BY <1>1, FInvHolds, PTL

\* A packet in the hook of filter.c is judged by one filter that was in force
\* while it was there, or meets a torn one; a torn one is in force only while a
\* copy_from_user is under way or after two overlapped or one failed, although
\* test_daddr reads flag and address separately and my_ioctl writes them octet
\* by octet without a lock.
THEOREM OneFilter == Spec => []JudgedByOneFilter
<1>1. ASSUME FInv PROVE JudgedByOneFilter
  <2>1. \A c \in Cpus : JudgedFairly(c)
    BY <1>1 DEF FInv, PacketInv
  <2>2. InForce = Torn => disturbed \/ \E t \in Threads : Copying(t)
    BY <1>1, AddrFacts DEF FInv, TypeOK, TornInv, InForce
  <2> QED BY <2>1, <2>2 DEF JudgedByOneFilter
<1> QED BY <1>1, FInvHolds, PTL

\* After my_hook_exit, and after the error label of my_hook_init, nothing of the
\* module is registered or running.
THEOREM CleanUnload == Spec => []UnloadedIsClean
<1>1. FInv => UnloadedIsClean
  BY DEF FInv, ModInv, UnloadedIsClean
<1> QED BY <1>1, FInvHolds, PTL
=============================================================================
