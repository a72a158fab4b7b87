CONSTANTS
  Files = {f1}
  Tasks = {t1}
  Callers = {c1, c2}
  Kinds = {exec}
  KindsOf <- AllKinds
  None = None
  MaxSteps = 3
  DocumentedUse = FALSE
SPECIFICATION FairSpec
INVARIANTS StoppedSound PollSound SigtrapOnlyAfterClose
PROPERTIES ResumeCompletes
CHECK_DEADLOCK FALSE
