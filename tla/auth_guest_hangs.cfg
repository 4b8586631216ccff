CONSTANTS
  Nothing = Nothing
  Ids = {i1, i2}
  Shapes <- AllShapes
SPECIFICATION FairSpec
CHECK_DEADLOCK FALSE
PROPERTIES
  EveryRequestHandled
