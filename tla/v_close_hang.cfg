CONSTANTS
  Files = {f1}
  Tasks = {t1}
  Callers = {c1}
  Kinds = {exec}
  KindsOf <- AllKinds
  None = None
  MaxSteps = 2
  DocumentedUse = TRUE
SPECIFICATION FairSpec
PROPERTY CloseWakesTarget
CHECK_DEADLOCK FALSE
