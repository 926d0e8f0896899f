-------------------------- MODULE MCDecoderLifecycle --------------------------
(***************************************************************************)
(* Model-checking instance of DecoderLifecycle, with the addresses of      *)
(* MCEnrichmentPipeline: user (the sender), jar (tagged pickle_jar at      *)
(* start), tok (an ordinary token the DB may retag as a jar), zero, gtc.   *)
(***************************************************************************)
EXTENDS DecoderLifecycle

MCKnownTokens == {"jar", "tok"}
MCCryptoAssets == {"jar", "tok", "ETH"}
MCDecimals == [a \in MCCryptoAssets |-> IF a = "jar" THEN 0 ELSE 1]
MCTokenProtocol == [t \in MCKnownTokens |-> IF t = "jar" THEN "pickle_jar" ELSE "none"]
MCProtocols == {"pickle_jar", "none"}
MCTracked == {"user"}
MCEmitters == {"jar", "tok"}
MCTopicAddresses == {"user", "jar", "tok", "zero", "gtc"}
MCDataValues == {<<1>>}
MCEventAssets == {"jar", "tok"}
MCGitcoinContracts == {"gtc"}

=============================================================================
