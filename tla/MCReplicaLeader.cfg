SPECIFICATION Spec
CONSTANTS
  Leader = l
  f1 = f1
  f2 = f2
  Followers <- TwoFollowers
  ListIndex <- MCListIndex
  Publishers = {p1}
  MinIsrCount = 2
  MaxIsrLag = 1
  InitialLEO = 1
  Lengths = {1, 2}
  PullSizes = {1, 3}
  StartTime = 2
  MaxLEO = 3
  MaxTime = 4
INVARIANTS HWBelowLEO AcceptedPullIsReadable
PROPERTIES HWMonotone IsrWellChosen
CHECK_DEADLOCK FALSE
