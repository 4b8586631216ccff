CONSTANTS
  w1 = w1
  a1 = a1
  a2 = a2
  Nothing = Nothing
  Instances = {i1, i2}
  Configs <- SomeConfigs
  Calls = {w1, a1, a2}
  Function <- WatchAndAdds
  Slots = 1
SPECIFICATION FairSpec
CHECK_DEADLOCK FALSE
INVARIANTS
  TypeOK
  NeverWithoutComponent
PROPERTIES
  FollowsCalls
  StartsOrStops
  EndedTaskStops
  AnsweredUnlessBlocked
