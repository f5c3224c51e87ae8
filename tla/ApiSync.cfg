SPECIFICATION Spec
CONSTANTS
  Requests = {r1, r2, r3}
  Timers = {u1, u2, u3, u4}
  NoTimer = NoTimer
  None = None
  MaxHeight = 1
  MaxCalls = 2
  MaxChanges = 2
  MaxInputs = 5
  MaxFailures = 1
  MaxPolls = 1
  MaxNotices = 1
  Overlap = 1
  EarlyRefresh = FALSE
CHECK_DEADLOCK FALSE
INVARIANTS
  TypeOK
  ReadyPolls
  SyncingHasWork
