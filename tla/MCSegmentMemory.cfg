SPECIFICATION Spec
CONSTANTS
  NoEntry = NoEntry
  Users = {u1, u2}
  Evictors = {x1}
  Segments <- TwoSegments
  Entries = {e1, e2, e3}
  Capacity = 1
  InitSize = 4
  SizeInc = 1
  Lengths = {3}
  MaxSize = 6
  MaxLeaks = 1
SYMMETRY ObjectSymmetry
INVARIANTS NoUseAfterRelease FileCoversCommitted MapsCommitted NoLeak
CHECK_DEADLOCK FALSE
