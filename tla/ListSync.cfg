\* Two users beside list_sync, so that searches overlap; the clock wraps once.
SPECIFICATION Spec
CONSTANTS
  Users = {u1, u2}
  Self = Self
  Pids = {p1, p2}
  Addrs = {a1, a2, a3}
  Null = Null
  Adds = 2
  Expiry = 1
  KeepCount = 1
  Wrap = 3
  MaxTime = 4
  IntMax = 1
SYMMETRY Symmetry
INVARIANTS TypeOK DuplicatesNeedOverlap NoLeakNoDangling UnloadedIsClean
PROPERTY OnlyExpiredRemoved
CHECK_DEADLOCK FALSE
