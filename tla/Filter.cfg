\* A packet in the hook, two ioctls, addresses of two octets.
SPECIFICATION Spec
CONSTANTS
  Cpus = {c1}
  Threads = {t1, t2}
  Size = 2
  Octets = {0, 1}
  NoFilter = NoFilter
  Torn = Torn
  NoThread = NoThread
SYMMETRY Symmetry
INVARIANTS TypeOK JudgedByOneFilter UnloadedIsClean
CHECK_DEADLOCK FALSE
