CONSTANTS
  n1 = n1
  n2 = n2
  cv = cv
  Nothing = Nothing
  NoName = NoName
  Names = {n1}
  Ops = {o1, o2, o3}
  ClientVersions = {cv}
  HasComponent = FALSE
  Requests <- SeparateUpdates
SPECIFICATION Spec
PROPERTIES
  UpdateKeepsOtherFields
