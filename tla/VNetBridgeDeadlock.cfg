SPECIFICATION Spec
CONSTANTS
  MaxNets = 2
  MaxPorts = 2
  MaxPromisc = 2
  MayFail = FALSE
PROPERTY Reacts
CHECK_DEADLOCK FALSE
