SPECIFICATION FairSpec
CONSTANTS
  t1 = t1
  t2 = t2
  a1 = a1
  None = None
  Callers = {t1, t2, a1}
  InTransaction = {t1, t2}
  Asks <- MCAsks
  RATES <- MCRATES
  Scale = 1000
  Lock = 2
  Slip = 1
  MaxTime = 3
CHECK_DEADLOCK FALSE
INVARIANTS
  FxTypeOK
  GivenOnce
  RefusalsAreTrue
  ConsumedInWindow
  TargetIsNearest
PROPERTIES
  CallsEnd
