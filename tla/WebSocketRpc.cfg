SPECIFICATION FairSpec
CONSTANTS
  Requests = {r1}
  Subscriptions = {s1}
  NoCall = NoCall
  MaxStarts = 1
  MaxEvents = 3
CHECK_DEADLOCK FALSE
INVARIANTS
  TypeOK
  OnlyLateCallsOrphaned
PROPERTIES
  ImplementsRpcCalls
  TimelyCallsEnd
  
