CONSTANTS
  Proc = {"p1"}
  Req = {1, 2, 3}
  Home <- OneHome
  Reads = {3}
  WritesOnly = TRUE
  CacheTtl = 1
  AcquireWait = 3
  ReplyTime = 1
  SendTime = 1
  MaxTime = 4
SPECIFICATION FairSpec
INVARIANT TypeOK
INVARIANT NoTrafficWhileWriting
INVARIANT GuardCatchesUp
PROPERTY CallersAnswered
CHECK_DEADLOCK FALSE
