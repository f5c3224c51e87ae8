SPECIFICATION LaggingSpec
CONSTANTS
  t1 = t1
  t2 = t2
  Txs <- MCOne
  NonceOf <- MCApart
  Incoming = {}
  Runs = {a, b}
  PendingRuns = {p}
  NoRun = NoRun
  NoTx = NoTx
  BatchSize = 2
  NodeLags = TRUE
  MaxCrashes = 1
  MaxFailures = 1
  MaxFaults = 1
CHECK_DEADLOCK FALSE
PROPERTIES
  AcceptedSettles
