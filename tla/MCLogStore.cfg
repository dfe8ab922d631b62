SPECIFICATION FairSpec
CONSTANTS
  NoTopic = NoTopic
  NoWriter = NoWriter
  Writers = {w1, w2}
  Readers = {r1}
  Payloads = {"small", "large"}
  PayloadLen <- MCPayloadLen
  ReadSizes = {6, 10}
  MapLengths = {8, 16}
  MaxSegmentSize = 10
  RolloverAge = 0
  MaxBatch = 2
  MaxAppends = 3
  MaxTime = 1
  MaxFaults = 1
  MaxRestarts = 1
INVARIANTS SegmentChain FramesTile SegmentBounded AckedReadable ReadsExact
PROPERTIES Refinement BatchEnds
CHECK_DEADLOCK FALSE
