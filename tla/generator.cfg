CONSTANTS
  Nothing = Nothing
  c1 = c1
  c2 = c2
  c3 = c3
  x1 = x1
  x2 = x2
  a1 = a1
  a2 = a2
  XKeys = {x1, x2}
  ServiceKey = x1
  HasSysClient = {a1}
  Ctls = {c1, c2, c3}
  CtlKey <- TwoKeys
  Creations = {a1, a2}
SPECIFICATION Spec
CHECK_DEADLOCK FALSE
INVARIANTS
  TypeOK
  BootstrapLeavesSecrets
  OrphanHasCause
  ScopeKeysSign
