SPECIFICATION Spec
CONSTANTS
  b1 = b1
  b2 = b2
  b3 = b3
  Brokers = {b1, b2, b3}
  RingOrder <- RingB
  ReplicasPerTopic = 2
  NoBroker = NoBroker
  NoTopic = NoTopic
  Tasks = {t1, t2}
  IsrLists <- Lists
  MaxOps = 6
  MaxFailovers = 1
SYMMETRY Symmetry
INVARIANTS RingAgrees ReplicasRegistered
PROPERTIES WritesSuccessive
CHECK_DEADLOCK FALSE
