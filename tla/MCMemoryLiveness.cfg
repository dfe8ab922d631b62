SPECIFICATION FairSpec
CONSTANTS
  NoEntry = NoEntry
  Users = {u1, u2}
  Evictors = {x1}
  Segments <- TwoSegments
  Entries = {e1, e2, e3}
  Capacity = 1
  InitSize = 4
  SizeInc = 2
  Lengths = {}
  MaxSize = 0
  MaxLeaks = 0
PROPERTY EvictedIsClosed
CHECK_DEADLOCK FALSE
