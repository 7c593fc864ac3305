CONSTANTS
  Run = {r1, r2}
  Mig = {1}
  NoRun = NoRun
  NoMig = NoMig
  EntityOf <- OneEntity
  Faults = {}
  Operator = FALSE
  Preloaded = TRUE
SPECIFICATION Spec
INVARIANT Case1Lossless
CHECK_DEADLOCK FALSE
