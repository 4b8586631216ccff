CONSTANTS
  Nothing = Nothing
  Instances = {i1, i2}
  Messages = {m1, m2}
  Short = {m2}
  MaxDeliver = 3
  MaxFaults = 3
SPECIFICATION FairSpec
CHECK_DEADLOCK FALSE
INVARIANTS
  TypeOK
  OneHandler
  RedeliveryHasCause
PROPERTIES
  MessagesSettle
