SPECIFICATION Spec
CONSTANTS
  VMs = {v1, v2}
  Threads = {t1, t2}
  MAX_VMS = 2
  MAX_LOCKED_PAGES = 100
  PageCntSize = 1024
  Percents = {0, 50}
  Limits = {2, 5}
  Nonpaged = {0, 1}
  MainMemSize = 2
  PerVMOverhead = 1
  Batches = {2}
  Retries = 2
  MaxPages = 2
  None = None
SYMMETRY Symmetry
INVARIANTS TypeOK LockedExact MinAllocationsCurrent
PROPERTIES AdmissionFits LimitNotLowered
CHECK_DEADLOCK FALSE
