CONSTANT MaxRuns = 3
SPECIFICATION Spec
CHECK_DEADLOCK FALSE
INVARIANTS
  TypeOK
  DoneVerifies
  CtlReadsForward
