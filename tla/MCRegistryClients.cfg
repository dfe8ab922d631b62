SPECIFICATION ClientsSpec
CONSTANTS
  NoTopic = NoTopic
  NoCopy = NoCopy
  Clients = {c1, c2}
  Lengths = {1}
  MaxOffset = 3
  MaxSegments = 4
SYMMETRY ClientSymmetry
INVARIANTS BasesIncreasing SearchAgrees
PROPERTY NoLostUpdate
CHECK_DEADLOCK FALSE
