SPECIFICATION Spec
CONSTANTS
  Bits = 3
  Width = 5
  Long = 3
  StackLimit = 12
  MemLimit = 1000
  GasWrap = 1073741824
  None = None
  Calls <- MCCalls
  Accounts <- MCAccounts
  Header <- MCHeader
  OpOfByte <- MCOpOfByte
  Sha3 <- MCSha3
  NewAddress <- MCNewAddress
  Recovered <- MCRecovered
PROPERTY
  FailureWritesZero
