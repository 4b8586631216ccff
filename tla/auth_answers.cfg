CONSTANTS
  Nothing = Nothing
  Ids = {i1, i2, i3}
  Shapes <- AllShapes
SPECIFICATION FairGuestSpec
CHECK_DEADLOCK FALSE
INVARIANTS
  TypeOK
  AllowedOnlyByVerdict
  OneAnswer
  SilenceHasCause
PROPERTIES
  EveryRequestHandled
