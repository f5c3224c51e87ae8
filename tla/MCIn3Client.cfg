SPECIFICATION FairSpec
CONSTANTS
  n1 = n1
  n2 = n2
  n3 = n3
  None = None
  Nodes <- MCNodes
  Eligible <- MCNodes
  Fresh = {}
  Registry <- MCRegistry
  WhiteLists <- MCWhiteLists
  Headers <- MCHeaders
  Faults <- MCFaults
  MaxAttempts = 2
  MaxRetries = 10
  RequestCount = 1
  ReplaceLatest = 1
  MaxAux = 1
  MaxTime = 1
  MaxRequests = 2
  MaxCrashes = 1
CHECK_DEADLOCK FALSE
INVARIANTS
  TypeOK
  AskedNodesAreUsable
  SuccessIsVerified
PROPERTIES
  UpdatesAreSettled
  RequestsEnd
