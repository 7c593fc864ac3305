CONSTANTS
  Key = {1, 2, 3}
  DomainKey <- OwnPartition
  Content = {x, y}
  Gone = Gone
  Upless = {3}
  Downless = {2}
  HasDown = TRUE
  MaxAttempts = 1
  Interrupts = {"apply", "finalize", "projected", "fill-only", "snapshot", "custom"}
  Unlockable = {"apply", "failed"}
SPECIFICATION Spec
SYMMETRY AnyContent
INVARIANT TypeOK
INVARIANT AppReadsItsWrites
INVARIANT RollbackPromise
INVARIANT AuditBalances
CHECK_DEADLOCK FALSE
