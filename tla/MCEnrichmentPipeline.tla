------------------------- MODULE MCEnrichmentPipeline -------------------------
(***************************************************************************)
(* Model-checking instance of EnrichmentPipeline.  Addresses and assets    *)
(* are short strings:                                                      *)
(*   user   the transaction's sender, a tracked account                    *)
(*   friend another tracked account                                        *)
(*   jar    a Pickle jar token (protocol pickle_jar, 0 decimals)           *)
(*   tok    an ordinary ERC20 token (1 decimal)                            *)
(*   unk    a contract the global DB does not know as a token              *)
(*   gtc    a gitcoin contract                                             *)
(*   zero   the zero address                                               *)
(*   unlisted  an asset identifier the global DB no longer resolves        *)
(***************************************************************************)
EXTENDS EnrichmentPipeline

MCZeroAddress == "zero"
MCKnownTokens == {"jar", "tok"}
MCCryptoAssets == {"jar", "tok", "ETH"}
MCDecimals == [a \in MCCryptoAssets |-> IF a = "jar" THEN 0 ELSE 1]
MCTokenProtocol == [t \in MCKnownTokens |-> IF t = "jar" THEN "pickle_jar" ELSE "none"]
MCTracked == {"user", "friend"}
MCEmitters == {"jar", "tok", "unk"}
MCTopicAddresses == {"user", "friend", "jar", "zero", "gtc"}
MCDataValues == {<<1>>}
MCEventAssets == {"jar", "tok", "unlisted"}
MCGitcoinContracts == {"gtc"}

=============================================================================
