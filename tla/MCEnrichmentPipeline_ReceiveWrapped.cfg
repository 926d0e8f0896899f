CONSTANTS
  ZeroAddress <- MCZeroAddress
  KnownTokens <- MCKnownTokens
  CryptoAssets <- MCCryptoAssets
  Decimals <- MCDecimals
  MaxDecimals = 1
  TokenProtocol <- MCTokenProtocol
  PICKLE_JAR_PROTOCOL = "pickle_jar"
  TxFrom = "user"
  Tracked <- MCTracked
  Emitters <- MCEmitters
  TopicAddresses <- MCTopicAddresses
  Pads = {0}
  TopicCounts = {3}
  DataValues <- MCDataValues
  EventAssets <- MCEventAssets
  GitcoinContracts <- MCGitcoinContracts
  NumLogs = 1
  NumEvents = 2
  MaxPasses = 2
SPECIFICATION Spec
CHECK_DEADLOCK FALSE
INVARIANT ReceiveWrappedOnlyOnDeposit
