SPECIFICATION FairSpec
CONSTANTS
  t1 = t1
  t2 = t2
  Txs <- MCTwo
  NonceOf <- MCApart
  Incoming = {t1, t2}
  Runs = {a, b}
  PendingRuns = {}
  NoRun = NoRun
  NoTx = NoTx
  BatchSize = 2
  NodeLags = FALSE
  MaxCrashes = 0
  MaxFailures = 0
  MaxFaults = 0
CHECK_DEADLOCK FALSE
PROPERTIES
  NewHashesAreSynced
