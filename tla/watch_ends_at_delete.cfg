CONSTANTS
  n1 = n1
  n2 = n2
  w1 = w1
  w2 = w2
  Nothing = Nothing
  Names = {n1, n2}
  Watches = {w1}
  Readers = {w1}
  Requests <- AllRequest
  Cap = 1
  MaxSeq = 3
SPECIFICATION FairSpec
CHECK_DEADLOCK FALSE
PROPERTIES
  LatestUpdateForEveryKey
