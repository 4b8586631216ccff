CONSTANTS
  n1 = n1
  n2 = n2
  cv = cv
  Nothing = Nothing
  NoName = NoName
  Names = {n1, n2}
  Ops = {o1, o2}
  ClientVersions = {cv}
  HasComponent = FALSE
  Requests <- OddRequests
  Reads = {r1}
  GetRequests <- BothNames
SPECIFICATION ReadsFairSpec
INVARIANTS
  GetIsCausal
PROPERTIES
  EveryCallEnds
  ListIsAccurate
