CONSTANTS
  Files = {f1, f2}
  Tasks = {t1, t2}
  Callers = {c1}
  Kinds = {exec}
  KindsOf <- AllKinds
  None = None
  MaxSteps = 2
  DocumentedUse = FALSE
SPECIFICATION Spec
SYMMETRY Symmetry
INVARIANTS TypeOK StopBelongs RefBalance
CHECK_DEADLOCK FALSE
