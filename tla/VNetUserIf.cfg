SPECIFICATION Spec
CONSTANTS
  Deliveries = {d1, d2}
  Readers = {r1, r2}
  MaxQlen = 2
INVARIANTS TypeOK QueueBounded Announced NoLostWakeup
PROPERTY SleeperWakes
