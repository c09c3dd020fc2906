\* Two users of a driver that is bound, unbound and reloaded; one unit at a time.
SPECIFICATION FairSpec
CONSTANTS
  Users = {u1, u2}
  REGION_OK = 1
  Args = {0, 3}
  EDU_DMA_BUF_SIZE = 1
  MaxLen = 2
  Workloads <- MCWorkloads
  None = None
INVARIANTS TypeOK UnloadedIsClean HandlerHasDevice AnswersAreOwn SleepersHaveWaker
PROPERTY WaitsEnd
CHECK_DEADLOCK FALSE
