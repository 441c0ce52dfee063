SPECIFICATION SendSpec
CONSTANTS
  Filps = {f1, f2}
  Ports = {p1, p2, p3}
  HubMem = {h1, h2}
  HubNums = {n1, n2}
  IfNames = {eth0}
  PlugKinds = {"bridge"}
  Senders = {s1}
  JackIds <- MCJackIds
  MayRunShort = FALSE
  None = None
PROPERTY NoReleaseWhileHeld
CHECK_DEADLOCK FALSE
