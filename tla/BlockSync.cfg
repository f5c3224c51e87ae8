SPECIFICATION AnnouncedSpec
CONSTANTS
  Branches = {a, b}
  None = None
  Limit = 2
  MaxHeight = 3
  MaxReorgs = 2
  MaxRestarts = 1
  MaxBreaks = 2
CHECK_DEADLOCK FALSE
INVARIANTS
  TypeOK
  HeadersLinked
  SyncingHasRequest
  AccountIsLastSynced
PROPERTIES
  HeadIsStored
