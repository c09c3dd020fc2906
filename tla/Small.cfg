SPECIFICATION FairSpec
CONSTANTS
  Two = {t1, t2}
  Three = {t1, t2, t3}
  Files = {f1, f2}
  SIZE = 2
  BUFSIZ = 4
  WORD = 16
  MaxReq = 3
  MaxPos = 3
  TextLen = 2
  MaxOpens = 3
  BYTE = 2
  Vals = {0, 3}
  MaxRead = 2
  PROCFS_MAX_SIZE = 2
  MaxLen = 3
  MaxRefs = 3
  None = None
INVARIANTS TypeOK ExclusiveOpen OwnData UnloadedIsClean
PROPERTIES NoUnloadInUse WaitsEnd
