CONSTANTS
  Run = {r1, r2, r3}
  Mig = {1, 2}
  NoRun = NoRun
  NoMig = NoMig
  EntityOf <- OneEntity
  Faults = {"crash"}
  Operator = FALSE
  Preloaded = TRUE
SPECIFICATION Spec
SYMMETRY AnyRun
INVARIANT SingleWriter
INVARIANT WritersGated
INVARIANT ReleaseMeansSettled
CHECK_DEADLOCK FALSE
