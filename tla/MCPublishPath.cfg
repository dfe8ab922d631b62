SPECIFICATION FairSpec
CONSTANTS
  Clients = {c1, c2}
  Workers = {t1, t2}
  MaxBatchSize = 2
  MaxRequests = 3
  MaxFaults = 1
INVARIANTS Conserved OffsetIsOwn OneThreadKeepsOrder ClosedLeavesNone
PROPERTIES Answered CloseEnds
CHECK_DEADLOCK FALSE
