SPECIFICATION FairSpec
CONSTANTS
  Controllers = {k1, k2, k3}
  Absent = Absent
  Orphan = Orphan
  MaxStarts = 5
  MaxFaults = 3
INVARIANT LeaderHoldsNode
PROPERTY TakesOver
CHECK_DEADLOCK FALSE
