SPECIFICATION MCSpec
CONSTANTS
  TimedVCPUs = {v1, v2}
  Hz = 2
  LargeDelta = 8
  Word = 32
  MaxTSC = 2
  MaxUptime = 1
  Skews = {0, 1}
  UptimeReaders = {t1}
  Timer = timer
  UPTIME_FREQ = 1
  MaxJiffies = 2
  MaxWarps = 1
  Warps = {1, 40}
  Delay = 2
  AllCPUs = {c1, c2, c3}
  Capacities = {2, 4}
  Members = {"ArchCap", "Join", "Fixed0", "Fixed1", "Ctls", "Basic", "Misc", "Enum"}
  MaxField = 2
  Caller = c1
  TSCs = {1, 2}
  Rounds = 1
  VCPUs = {w1, w2}
  CPUs = {p1, p2}
  Hosts <- MCHosts
  MaxEvents = 2
  Pages = {1, 2, 3}
  Second = w2
  Layouts <- MCLayouts
  Radix = 2
  NumVCPUs = 2
  Strays = {{}, {4}, {12}}
  Losses <- MCLosses
  Parts = {"ptsc", "uptime", "msr", "sync", "switch", "tables"}
INVARIANTS TypesOK GuestClocksTrue AllAnswered ResultsTrue HostUnaware TurnedBackUnseen
SYMMETRY Symmetry
CHECK_DEADLOCK FALSE
