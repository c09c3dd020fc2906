SPECIFICATION Spec
CONSTANTS
  Cpus = {c1}
  Users = {c1}
  Tasks = {t1}
  Addrs = {a1}
  HZ = 1
  MaxDelay = 2
  None = None
  Softirq = Softirq
PROPERTY AllocNotEarly
