SPECIFICATION MCSpec
CONSTANTS
  Filps = {f1, f2}
  Ports = {p1, p2, p3}
  HubMem = {h1, h2}
  HubNums = {n1, n2}
  IfNames = {eth0}
  PlugKinds = {"bridge", "netif", "listener"}
  JackIds <- MCJackIds
  MayRunShort = TRUE
  None = None
SYMMETRY Symmetry
INVARIANTS TypeOK PeerSymmetric Exclusive NoUseAfterFree OneHubPerNumber NoDuplicateInterface ConnectedCounted ListMatchesFiles
PROPERTY ImplementsPanel
CHECK_DEADLOCK FALSE
