SPECIFICATION RefreshedSpec
CONSTANTS
  Requests = {r1, r2}
  Timers = {u1, u2, u3}
  NoTimer = NoTimer
  None = None
  MaxHeight = 0
  MaxCalls = 1
  MaxChanges = 1
  MaxInputs = 1
  MaxFailures = 1
  MaxPolls = 1
  MaxNotices = 0
  Overlap = 2
  EarlyRefresh = TRUE
CHECK_DEADLOCK FALSE
PROPERTIES
  RefreshRecovers
