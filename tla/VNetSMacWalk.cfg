SPECIFICATION MCSpec
CONSTANTS
  MaxNets = 2
  MaxPorts = 2
  MaxPromisc = 2
  MayFail = TRUE
  Senders = {t1, t2}
  IPs = {ip1, ip2, ip3}
  Guests = {m1, m2}
  HostMac = hostMac
  Peer = peer
  Group = group
  None = None
  MaxEntries = 2
  Period = 3
  MaxClock = 4
  W = 4
  HeaderLens = {0, 31}
  Frames <- MCFrames
  Addresses <- MCAddresses
  MaxPackets = 4
  VNET_BRIDGE_HISTORY = 2
  Parts = {"rewrite"}
INVARIANT PduFound
SYMMETRY Symmetry
CHECK_DEADLOCK FALSE
