SPECIFICATION Spec
CONSTANTS
  t1 = t1
  t2 = t2
  Txs <- MCTwo
  NonceOf <- MCSameNonce
  Incoming = {}
  Runs = {a, b}
  PendingRuns = {p}
  NoRun = NoRun
  NoTx = NoTx
  BatchSize = 2
  NodeLags = FALSE
  MaxCrashes = 1
  MaxFailures = 1
  MaxFaults = 2
CHECK_DEADLOCK FALSE
INVARIANTS
  TypeOK
  NothingLost
  MinedNeverDropped
  DropsAreJustified
  
