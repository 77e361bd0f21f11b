\* Two deliveries of one event; two managers who save each other.
SPECIFICATION FairSpec
CONSTANTS
  People = {p1, p2}
  Saves = {s1, s2}
  None = None
  MaxMemberVersion = 2
  Sender = p2
  Deliveries = {d1, d2}
  Events = {e1}
  Bodies = {b1, b2}
  PoolSize = 2
  DirectorySize = 1
INVARIANTS
  ManagerRemains
  OneEffectPerEvent
  RefusedForGood
PROPERTIES
  DeliveriesSettle
CHECK_DEADLOCK FALSE
