\* Two CPUs whose ioctls race with each other and with the timer.
SPECIFICATION Spec
CONSTANTS
  Cpus = {c1, c2}
  Users = {c1, c2}
  Tasks = {t1, t2}
  Addrs = {a1, a2}
  HZ = 2
  MaxDelay = 1
  None = None
  Softirq = Softirq
SYMMETRY Symmetry
INVARIANTS TypeOK RefsBalanced NoLeakNoDangling NoSelfDeadlock UnloadedIsClean
PROPERTY ListedNotFreed
