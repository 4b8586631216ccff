CONSTANTS
  n1 = n1
  n2 = n2
  w1 = w1
  w2 = w2
  Nothing = Nothing
  Names = {n1, n2}
  Watches = {w1}
  Readers = {w1}
  Requests <- AnyRequest
  Cap = 2
  MaxSeq = 4
SPECIFICATION FairSpec
CHECK_DEADLOCK FALSE
INVARIANTS
  TypeOK
  InOrder
  EndsOnlyAtDeletion
  QuietIsUpToDate
PROPERTIES
  CatchesUp
  HungUpTaskEnds
