\* One user; alloc_chrdev_region returns 0.
SPECIFICATION Spec
CONSTANTS
  Users = {u1}
  REGION_OK = 0
  Args = {3}
  EDU_DMA_BUF_SIZE = 1
  MaxLen = 1
  Workloads <- MCWorkloads
  None = None
INVARIANT LoadedHasDriver
CHECK_DEADLOCK FALSE
