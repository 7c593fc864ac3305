CONSTANTS
  Run = {r1, r2}
  Mig = {1}
  NoRun = NoRun
  NoMig = NoMig
  EntityOf <- OneEntity
  Faults = {"finalizeAny"}
  Operator = FALSE
  Preloaded = FALSE
SPECIFICATION Spec
INVARIANT FinalizesAppliedOnly
CHECK_DEADLOCK FALSE
