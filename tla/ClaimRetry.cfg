CONSTANTS
  Key = {1, 2}
  DomainKey <- OwnPartition
  Content = {x, y}
  Gone = Gone
  Upless = {}
  Downless = {}
  HasDown = TRUE
  MaxAttempts = 1
  Interrupts = {"case-1"}
  Unlockable = {}
SPECIFICATION Spec
INVARIANT PreReleaseLossless
CHECK_DEADLOCK FALSE
