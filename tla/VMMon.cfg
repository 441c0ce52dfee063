SPECIFICATION MCSpec
CONSTANTS
  Files = {f1, f2, f3}
  Threads = {t1, t2}
  VMs = {1, 2, 3}
  MAX_VMS = 2
  MAX_INT32 = 2
  Rates = {0, 2}
  MIN_RATE = 1
  NULL = NULL
  VPNs = {t1, t2}
  MaxMPN = 4
  MEMTRACK_HT_SIZE = 2
  MaxTracked = 2
  MaxContig = 3
  MaxNumPages = 2
  PHYSTRACK_L1_ENTRIES = 2
  PHYSTRACK_L2_ENTRIES = 2
  PHYSTRACK_L3_ENTRIES = 2
  VCPUs = {t1, t2}
  ModuleCalls = {"none", "cosched", "semawait", "semasignal", "forcewakeup", "usercall"}
  MaxSignals = 1
  Booted = {0, 1}
  LoadedTables <- MLTables
  SharedPages <- MLShared
  PAGE_SIZE = 2
  BlobSize = 4
  L1Pages = 4
  MaxPage = 5
  Areas = {"pervm", "pervcpu"}
  MultiVCPU = {"pervcpu"}
  NumPages = 2
  MaxArrays = 3
  MayOverlap = FALSE
  Parts = {"life", "pages", "track", "wait", "load", "area", "stat"}
INVARIANTS TypesOK MachinesExact PagesExact YieldersWake MonitorLoaded
SYMMETRY Symmetry
CHECK_DEADLOCK FALSE
