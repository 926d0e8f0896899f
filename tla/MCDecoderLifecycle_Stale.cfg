CONSTANTS
  ZeroAddress = "zero"
  KnownTokens <- MCKnownTokens
  CryptoAssets <- MCCryptoAssets
  Decimals <- MCDecimals
  MaxDecimals = 1
  TokenProtocol <- MCTokenProtocol
  PICKLE_JAR_PROTOCOL = "pickle_jar"
  Protocols <- MCProtocols
  TxFrom = "user"
  Tracked <- MCTracked
  Emitters <- MCEmitters
  TopicAddresses <- MCTopicAddresses
  Pads = {0}
  TopicCounts = {3}
  DataValues <- MCDataValues
  EventAssets <- MCEventAssets
  GitcoinContracts <- MCGitcoinContracts
  NumLogs = 1
  NumEvents = 2
  MaxUpdates = 3
  MaxDecodes = 2
SPECIFICATION Spec
INVARIANT DecodingIsDeterministic
