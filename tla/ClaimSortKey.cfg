CONSTANTS
  Key = {1, 2}
  DomainKey <- OnePartition
  Content = {x, y}
  Gone = Gone
  Upless = {}
  Downless = {}
  HasDown = TRUE
  MaxAttempts = 1
  Interrupts = {}
  Unlockable = {}
SPECIFICATION Spec
INVARIANT RollbackPromise
CHECK_DEADLOCK FALSE
