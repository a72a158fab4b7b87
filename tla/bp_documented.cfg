CONSTANTS
  Files = {f1, f2}
  Tasks = {t1}
  Callers = {c1, c2}
  Kinds = {exec, data}
  KindsOf <- MixedKinds
  None = None
  MaxSteps = 2
  DocumentedUse = TRUE
SPECIFICATION FairSpec
INVARIANTS NoStaleContinue RegAccessWhileStopped
PROPERTIES StepStopsAgain HandlePromise
CHECK_DEADLOCK FALSE
