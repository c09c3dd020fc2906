\* Two threads that share a file, a buffer shorter than the longest message.
SPECIFICATION FairSpec
CONSTANTS
  BUF_LEN = 2
  Bytes = {a, b}
  NUL = NUL
  Threads = {t1, t2}
  Files = {f1}
  NoFile = NoFile
  MaxLen = 3
INVARIANTS TypeOK GetReturnsLastNonEmpty OpenFilesPinModule
PROPERTY FlagIsReleased
CHECK_DEADLOCK FALSE
