\* The handler may run on the CPU of the thread that uses the device, or on the
\* other one, where that thread waits for it and for its lock.
SPECIFICATION FairSpec
CONSTANTS
  Cpus = {c1, c2}
  Users = {c1}
  Tasks = {t1}
  Addrs = {a1, a2, a3}
  HZ = 2
  MaxDelay = 1
  None = None
  Softirq = Softirq
PROPERTIES DeadAreReported CallsReturn UnloadFinishes
