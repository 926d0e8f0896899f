---------------------------- MODULE PickleDecoder ----------------------------
(***************************************************************************)
(* The Pickle Finance jar decoder of                                       *)
(* src/rotkehlchen/chain/ethereum/modules/pickle_finance/decoder.py.       *)
(*                                                                         *)
(* The decoder's only state is the set of jar contracts it captures from   *)
(* the global DB when it is constructed.  Its one enricher rule,           *)
(* _maybe_enrich_pickle_transfers, is a function of (jars, transaction,    *)
(* log, event) that either returns a boolean or raises; it mutates the     *)
(* event in place, so its result is modelled as a record                   *)
(*     [ret \in {"True", "False", "Raise"}, ev |-> the event afterwards]   *)
(* and the pipeline that calls it (EnrichmentPipeline) applies ev whatever *)
(* ret is, exactly as an in-place mutation persists through an exception.  *)
(*                                                                         *)
(* Data is abstracted: addresses and assets are model values, a token      *)
(* asset is identified with its contract address, an amount is an integer  *)
(* counted in units of 10^-MaxDecimals, the human-readable notes are left  *)
(* out (no property is about wording).                                     *)
(***************************************************************************)
EXTENDS Integers, Sequences, FiniteSets, SequencesExt

CONSTANTS
  ZeroAddress,      \* rotkehlchen.chain.evm.constants.ZERO_ADDRESS
  KnownTokens,      \* contract addresses the global DB knows as EVM tokens
  CryptoAssets,     \* assets for which resolve_to_crypto_asset() succeeds
  Decimals,         \* [CryptoAssets -> Nat]: asset decimals in the global DB
  MaxDecimals,      \* amounts are integers in units of 10^-MaxDecimals
  TokenProtocol,    \* [KnownTokens -> protocols]: the token's protocol tag
  PICKLE_JAR_PROTOCOL

ASSUME Decimals \in [CryptoAssets -> 0..MaxDecimals]
ASSUME KnownTokens \subseteq CryptoAssets

CPT_PICKLE == "pickle"

(***************************************************************************)
(* Decoder construction (__init__): the jar set is read once from the      *)
(* global DB and never refreshed for the decoder's lifetime.               *)
(***************************************************************************)
PickleContracts ==
  {t \in KnownTokens : TokenProtocol[t] = PICKLE_JAR_PROTOCOL}

(***************************************************************************)
(* Conversions the rule relies on (rotkehlchen.utils.misc and              *)
(* rotkehlchen.chain.ethereum.utils).  A topic is a 32-byte word, modelled *)
(* as its 12 high bytes and its low 20 bytes; hex_or_bytes_to_address      *)
(* keeps the low 20 bytes.  Log data is a byte sequence read big-endian by *)
(* hex_or_bytes_to_int.  asset_normalized_value divides by 10^decimals.    *)
(***************************************************************************)
AddressFromTopic(word) == word.low

BytesToInt(data) == FoldLeft(LAMBDA acc, b : acc * 256 + b, 0, data)

Normalize(raw, asset) == raw * 10^(MaxDecimals - Decimals[asset])

\* tx_log.topics[k] of the Python code is log.topics[k+1] here.
Topic(log, k) == AddressFromTopic(log.topics[k + 1])

(***************************************************************************)
(* Results of the rule.                                                    *)
(***************************************************************************)
Return(b, ev) == [ret |-> IF b THEN "True" ELSE "False", ev |-> ev]

Raise(ev) == [ret |-> "Raise", ev |-> ev]

Reclassify(ev, type, subtype) ==
  [ev EXCEPT !.type = type, !.subtype = subtype, !.counterparty = CPT_PICKLE]

\* Mutant: the raw log amount compared without scaling by the decimals.
AmountMatchesUnscaled(log, ev) == ev.amount = BytesToInt(log.data)

\* event.balance.amount == asset_normalized_value(hex_or_bytes_to_int(data), event.asset)
AmountMatches(log, ev) == ev.amount = Normalize(BytesToInt(log.data), ev.asset)

(***************************************************************************)
(* The fast-reject gate: the log must touch a jar as receiver, sender or   *)
(* emitting contract.  event.asset is resolved before the gate, so an      *)
(* unresolvable event asset raises even for logs that are not Pickle's.    *)
(* The gate's first operand indexes tx_log.topics[2], so a log with fewer  *)
(* than three topics raises IndexError before any address is compared.     *)
(***************************************************************************)
GateIndexes(log) == Len(log.topics) >= 3

TouchesJar(jars, log) ==
  \/ Topic(log, 2) \in jars
  \/ Topic(log, 1) \in jars
  \/ log.address \in jars

(***************************************************************************)
(* The guards of the four if/elif branches, in the code's order.  The      *)
(* withdraw-send test `topics[1] in transaction.from_address` is a         *)
(* substring test on two checksummed 42-character strings, i.e. equality.  *)
(***************************************************************************)
IsDepositGive(jars, tx, log, ev) ==
  /\ ev.type = "SPEND" /\ ev.subtype = "NONE"
  /\ ev.label = tx.from
  /\ Topic(log, 2) \in jars

\* Mutant: the deposit-receive branch without its subtype == NONE test.
IsDepositReceiveWrappedAnySubtype(jars, log, ev) ==
  /\ ev.type = "RECEIVE"
  /\ log.address \in jars

IsDepositReceiveWrapped(jars, log, ev) ==
  /\ ev.type = "RECEIVE" /\ ev.subtype = "NONE"
  /\ log.address \in jars

IsWithdrawSendWrapped(tx, log, ev) ==
  /\ ev.type = "SPEND" /\ ev.subtype = "NONE"
  /\ ev.label = tx.from
  /\ Topic(log, 2) = ZeroAddress
  /\ Topic(log, 1) = tx.from

IsWithdrawReceiveAsset(jars, tx, log, ev) ==
  /\ ev.type = "RECEIVE" /\ ev.subtype = "NONE"
  /\ ev.label = tx.from
  /\ Topic(log, 2) = tx.from
  /\ Topic(log, 1) \in jars

(***************************************************************************)
(* A branch that first checks that the log's contract is the event's       *)
(* asset: EvmToken(ethaddress_to_identifier(tx_log.address)) raises for an *)
(* address the DB does not know as a token, a different asset claims the   *)
(* log untouched; otherwise the amount decides whether to reclassify, and  *)
(* the rule claims the log in either case (the trailing `return True`).    *)
(***************************************************************************)
\* Mutant: the event is reclassified before the log's token is looked up.
AssetGuardedBranchLookupAfterWrite(log, ev, type, subtype) ==
  IF log.address \notin KnownTokens THEN Raise(Reclassify(ev, type, subtype))
  ELSE IF log.address # ev.asset THEN Return(TRUE, ev)
  ELSE IF AmountMatches(log, ev) THEN Return(TRUE, Reclassify(ev, type, subtype))
  ELSE Return(TRUE, ev)

AssetGuardedBranch(log, ev, type, subtype) ==
  IF log.address \notin KnownTokens THEN Raise(ev)
  ELSE IF log.address # ev.asset THEN Return(TRUE, ev)
  ELSE IF AmountMatches(log, ev) THEN Return(TRUE, Reclassify(ev, type, subtype))
  ELSE Return(TRUE, ev)

\* The deposit-receive branch has no asset guard.
UnguardedBranch(log, ev, type, subtype) ==
  IF AmountMatches(log, ev) THEN Return(TRUE, Reclassify(ev, type, subtype))
  ELSE Return(TRUE, ev)

(***************************************************************************)
(* _maybe_enrich_pickle_transfers(token, tx_log, transaction, event, ...)  *)
(***************************************************************************)
EnrichPickleTransfers(jars, tx, log, ev) ==
  IF ev.asset \notin CryptoAssets THEN Raise(ev)
  ELSE IF ~GateIndexes(log) THEN Raise(ev)
  ELSE IF ~TouchesJar(jars, log) THEN Return(FALSE, ev)
  ELSE IF IsDepositGive(jars, tx, log, ev)
       THEN AssetGuardedBranch(log, ev, "DEPOSIT", "DEPOSIT_ASSET")
  ELSE IF IsDepositReceiveWrapped(jars, log, ev)
       THEN UnguardedBranch(log, ev, "RECEIVE", "RECEIVE_WRAPPED")
  ELSE IF IsWithdrawSendWrapped(tx, log, ev)
       THEN AssetGuardedBranch(log, ev, "SPEND", "RETURN_WRAPPED")
  ELSE IF IsWithdrawReceiveAsset(jars, tx, log, ev)
       THEN AssetGuardedBranch(log, ev, "WITHDRAWAL", "REMOVE_ASSET")
  ELSE Return(TRUE, ev)

(***************************************************************************)
(* DecoderInterface methods: one enricher rule, one counterparty.          *)
(***************************************************************************)
EnricherRules == <<"maybe_enrich_pickle_transfers">>

Counterparties == {CPT_PICKLE}

=============================================================================
