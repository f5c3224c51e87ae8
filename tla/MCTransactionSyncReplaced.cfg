SPECIFICATION RecurringSpec
CONSTANTS
  t1 = t1
  t2 = t2
  Txs <- MCTwo
  NonceOf <- MCSameNonce
  Incoming = {}
  Runs = {a, b}
  PendingRuns = {p}
  NoRun = NoRun
  NoTx = NoTx
  BatchSize = 2
  NodeLags = FALSE
  MaxCrashes = 0
  MaxFailures = 1
  MaxFaults = 1
CHECK_DEADLOCK FALSE
PROPERTIES
  ReplacedDoNotStayPending
