CONSTANTS
  Run = {r1, r2}
  Mig = {1, 2}
  NoRun = NoRun
  NoMig = NoMig
  EntityOf <- OneEntity
  Faults = {"crash", "error", "lostReply", "pause"}
  Operator = TRUE
  Preloaded = TRUE
SPECIFICATION FairSpec
INVARIANT WorkingIsInFlight
INVARIANT OwnerAgrees
INVARIANT SuccessIsRecorded
PROPERTY CommandReturns
PROPERTY EventuallyFree
PROPERTY CrashedLockExpires
CHECK_DEADLOCK FALSE
