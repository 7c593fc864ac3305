CONSTANTS
  Run = {r1, r2}
  Mig = {1}
  NoRun = NoRun
  NoMig = NoMig
  EntityOf <- OneEntity
  Faults = {"crash", "error", "lostReply", "conflict", "pause", "hbLoss", "slow", "unlockLive", "finalizeAny"}
  Operator = TRUE
  Preloaded = TRUE
SPECIFICATION Spec
SYMMETRY AnyRun
INVARIANT TypeOK
INVARIANT LockAndRunAgree
PROPERTY LeaseRefined
CHECK_DEADLOCK FALSE
