SPECIFICATION Spec
CONSTANTS
  Senders = {s1, s2}
  Listeners = {l1, l2}
  Hub = hub
  MaxEvents = 2
  MayRunShort = TRUE
  None = None
INVARIANTS TypeOK KeptWhileReferred EventsExact
PROPERTY EventuallyFreed
CHECK_DEADLOCK FALSE
