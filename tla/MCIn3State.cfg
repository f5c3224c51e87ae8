SPECIFICATION Spec
CONSTANTS
  None = None
  Header <- MCHeader
  Signers = {"s1", "s2"}
  Signatures <- MCSignatures
  Askable <- MCAskable
  MaxHashes = 2
  Finality = 60
  SpecStates <- MCSpec
  TrueStates <- MCTrue
  LoggedLists <- MCLogged
  SignedHeads = {"g0", "a1", "a2", "b1"}
  HeaderAnswers <- MCHeaderAnswers
  ValidatorAnswers <- MCValidatorAnswers
  LastChanges = {0, 1}
  Froms = {None, 0}
  MaxLag = 1
  MaxHead = 4
  MaxFilters = 2
  MaxPolls = 2
  GivenNonces = {None, 0, 1}
  GivenPrices = {None, 1}
  Prices = {1, 2}
  MaxNonce = 2
  MaxAttempts = 3
  Requests = {1, 2}
  Registries = {"r1", "r2"}
  MainRegistry = "r1"
  Chains = {"main", "other"}
  Resolvers = {"s1", "s2"}
  Owners = {"o"}
  Accounts = {"a"}
  MaxChanges = 1
  Pieces <- MCPieces
  CurlSends <- MCCurlSends
  HttpSends <- MCHttpSends
  MaxParallel = 2
  Devices = {1, 2}
  Users = {"u"}
  Horizon = 3
  MaxLog = 2
  Full = 6
  Timeouts = {500, 1000}
  Defaults <- MCDefaults
  ChainIds = {"main", "local", "new"}
  Local = "local"
  Configs <- MCConfigs
  Addresses = {"x", "y"}
  NodeUrls = {"u1", "u2"}
  Contracts = {"c1"}
  LimitSizes <- MCLimitSizes
  DefaultDepth = 6
  FirstMax = 2
  Heights = {5}
  MaxNodes = 2
  MaxCalls = 3
INVARIANTS
  ClientStaysUsable
  
  PaysOnceAsSigned
  NamesAreResolved
  
  UrlsGetTheirAnswers
PROPERTIES
  
  CallsAreAtomic
  LoopsEnd
CHECK_DEADLOCK FALSE
