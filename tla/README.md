# TLA+ models of rotki's transaction-log enrichment

This directory holds TLA+ models of the log decoding and enrichment code in
`src/`. The models are checked with TLC. The repository snapshot has three
source files:

- `src/rotkehlchen/chain/ethereum/modules/pickle_finance/decoder.py`: the
  Pickle Finance jar decoder. It is the only implementation file.
- `src/rotkehlchen/tests/unit/decoders/test_gitcoin_v2.py`: tests that fix the
  events the gitcoin v2 decoder must produce. The decoder itself is not in the
  snapshot.
- `src/rotkehlchen/tests/external_apis/test_coingecko.py`: tests of the
  Coingecko price/icon client. They use network cassettes.

`spec.md` describes the enrichment engine around these files.

## 1. Inventory

### Components

| Component | Where | State | Operations |
|---|---|---|---|
| Pickle jar decoder | decoder.py | `pickle_contracts`: the jar addresses, read once from the global DB in `__init__` | `_maybe_enrich_pickle_transfers` (the one enricher rule), `enricher_rules`, `counterparties` |
| Enrichment pipeline and decoder registry | not in src (spec.md 4.3) | the transaction's event list, the current event, the registry order, pending action items | for each event backed by a log, invoke the rules in registry order until one returns True; a raise is reported and the pass moves on |
| Raw value codec | not in src (spec.md 4.1) | none | `hex_or_bytes_to_address` (low 20 bytes of a topic), `hex_or_bytes_to_int` (big-endian data), `asset_normalized_value` (divide by 10^decimals) |
| Provisional event builder | external | none | builds a SPEND for a tracked sender and a RECEIVE for a tracked receiver of each Transfer log; builds a gas event with no log |
| Gitcoin v2 decoder | tests only | jar-like contract sets | its tests fix outcomes such as RECEIVE/DONATE for receipts from gitcoin contracts |
| Global DB (address/asset registry) | external | tokens, their decimals and protocol tags | `get_evm_tokens(protocol=...)`, `EvmToken(...)` lookup, `resolve_to_crypto_asset` |
| Coingecko client, icon manager | tests only | HTTP cache, icon files | network queries; not part of decoding |

### How they interact

The pipeline owns a transaction's events. It calls each registered decoder's
rule on an event, the event's log and the transaction. The rule mutates the
event in place. Returning True stops the search for that event. Pickle's rule
reads only its own jar set and the global DB. It ignores action items and the
other logs. So decoders interact only through the shared event and through
registry priority: a rule that returns True hides the event from every
decoder after it.

### What is hard

- **Claim semantics and priority.** Pickle returns True for every log that
  touches a jar (line 138), whether or not it reclassified the event.
- **In-place mutation and exceptions.** The lookups at lines 58, 72, 106 and
  125 can raise. A raise after a mutation would leave a half-classified event.
- **Re-running over already-enriched events.** Only the `subtype == NONE`
  tests prevent a second classification (spec.md 8, scenario 4).
- **Numeric scaling.** The raw log amount is scaled by the *event's* asset
  decimals (lines 74-79).
- **Branch order.** The if/elif chain is ordered (deposit-give,
  deposit-receive, withdraw-send, withdraw-receive). The deposit-receive
  branch has no asset, origin or mint check.

Nothing in this code runs concurrently within a transaction (spec.md 5). The
hazards are orders of guards and of decoders, not of threads.

### What makes each component correct

- Pickle decoder: every reclassified event is one of the four jar flows and
  is backed by its own log. The amount equals the log amount and the
  direction matches the log's topics. The asset-guarded flows carry the log's
  token. A raise mutates nothing.
- Pipeline: each event is classified at most once. A raise does not stop the
  pass.
- Decoder lifetime: two decodes of one transaction under the same DB state
  give the same outcome.

## 2. Modules

| Module | Models | State / actions |
|---|---|---|
| `PickleDecoder` | decoder.py, whole file | Constant-level. `PickleContracts` is the construction. `EnrichPickleTransfers(jars, tx, log, ev)` is the rule: an if/elif chain of `TouchesJar`, `IsDepositGive`, `IsDepositReceiveWrapped`, `IsWithdrawSendWrapped`, `IsWithdrawReceiveAsset`, `AssetGuardedBranch` and `UnguardedBranch`. It also holds the codec operators `AddressFromTopic`, `BytesToInt` and `Normalize`, which have no property of their own. It returns `[ret, ev]`, where `ret` is "True", "False" or "Raise" and `ev` is the event after the in-place mutation. |
| `EnrichmentPipeline` | spec.md 4.3 and 7, the gitcoin tests | Variables `logs`, `order`, `events`, `pos`, `dec`, `pass`, `claimedBy` and `raised`. Actions `SkipUnbacked` (gas event), `InvokeRule` (one rule call, with the mutation applied whatever the rule returns), `NoRuleClaims` and `Reenrich`. It composes `PickleDecoder` through `INSTANCE` and registers a gitcoin decoder, `EnrichGitcoin`, whose outcome is fixed by `test_optimism_donation_received`; its trigger (a receipt from a gitcoin contract) is a stand-in, since the decoder's code is not in the repository. `FirstClaim(jars, ds, log, ev)` states one event's dispatch as a RECURSIVE operator: the rules in registry order, each seeing the event as the previous one left it, stopping at the first result that is not False. |
| `DecoderLifecycle` | decoder.py `__init__` (lines 32-41) against global-DB edits | Variables `dbProtocol` (the DB's protocol tag of each token, now), `jars` (the decoder's `pickle_contracts`), `updates` and `decoded` (a history of every decode with the DB state it ran under). Actions `UpdateTokenProtocol`, `ConstructDecoder` (re-reads the tagged tokens) and `DecodeTransaction`. A decode is one step that computes `FirstClaim` for every event backed by a log. Rules see only their event and its log, so the events of a decode are independent and the loop may be taken whole. |
| `MCDecoderLifecycle` | model values | The tokens `jar` (tagged pickle_jar at start) and `tok` (untagged, may be retagged), the sender `user`, and `zero` and `gtc`. |
| `MCEnrichmentPipeline` | model values | Addresses `user` (the transaction sender), `friend`, `jar` (a Pickle jar token, 0 decimals), `tok` (1 decimal), `unk` (not a token), `gtc` (a gitcoin contract) and `zero`. Event asset `unlisted`: an asset the global DB no longer resolves. |

How the model corresponds to the code:

- Python's `tx_log.topics[k]` is `log.topics[k+1]`, read through
  `Topic(log, k)`.
- A topic is `[high, low]`. `AddressFromTopic` keeps `low`.
- A log has a number of topics from `TopicCounts`. The rule's gate indexes
  `topics[2]` first (`GateIndexes`), so a log with fewer than three topics
  makes the rule raise.
- Data is a byte sequence read big-endian by `BytesToInt`.
- Amounts are integers in units of 10^-MaxDecimals, so
  `Normalize(raw, a) = raw * 10^(MaxDecimals - Decimals[a])` is exact.
- A token asset is identified with its contract address. So
  `EvmToken(ethaddress_to_identifier(addr)) != event.asset` becomes
  `log.address # ev.asset`, and it raises when `addr` is not a known token.
- The notes strings are left out.

## 3. Runs

| Run | cfg | Expect | Checks |
|---|---|---|---|
| `pipeline` | `MCEnrichmentPipeline.cfg` | pass | `TypeOK`; `PickleClassificationMatchesLog`; `ClassificationIsFinal` (action property); `RaiseLeavesEventUntouched` (action property) |
| `pickle_claims_on_mismatch` | `MCEnrichmentPipeline_ClaimOnMismatch.cfg` | violation | `PickleClaimsOnlyWhatItClassifies` |
| `receive_wrapped_not_deposit` | `MCEnrichmentPipeline_ReceiveWrapped.cfg` | violation | `ReceiveWrappedOnlyOnDeposit` |
| `pickle_raises_before_gate` | `MCEnrichmentPipeline_GateFirst.cfg` | violation | `PickleGateComesFirst` |
| `short_topics_raise` | `MCEnrichmentPipeline_ShortTopics.cfg` | violation | `PickleRaisesOnlyAsDocumented` |
| `stale_jar_snapshot` | `MCDecoderLifecycle_Stale.cfg` | violation | `DecodingIsDeterministic` |

### Bounds

The model has one log and up to two transfer events, plus the gas event.
Both events can share the log when it is a transfer between two tracked
accounts (spec.md 8, scenario 5). Init covers:

- every emitter in {jar, tok, unk};
- every sender and receiver topic in {user, friend, jar, zero, gtc};
- every event asset in {jar, tok, unlisted}. `unlisted` does not resolve to
  a crypto asset, so the rule raises at line 58;
- both amounts the data can normalise to: 10 for jar, 1 for tok. Either
  amount can be a match or a mismatch;
- both registry orders;
- two passes.

This reaches every branch of the rule:

- the gate rejects;
- each of the four flows reclassifies;
- the asset guard claims without reclassifying;
- the amount check fails;
- the lookup raises;
- no branch matches.

It also reaches gitcoin classifying before Pickle and Pickle classifying
before gitcoin. Pickle ignores the other logs, so more logs add no case to
the rule.

`DecoderLifecycle` uses one log, up to two events, three DB edits and two
decodes. The stale snapshot needs two decodes and one construction between
them; the other edits let them be interleaved in more ways.

### Fairness

No run checks a liveness property, and the specifications assume no fairness.
`CHECK_DEADLOCK FALSE` in the pipeline runs because the last pass really ends.
DB edits and decoder constructions happen when a user or the application
chooses, and nothing in the code forces either one.

### Findings

- `pickle_claims_on_mismatch`: once a log touches a jar, the rule returns
  True whether or not any branch matched and whether or not the amount
  matched. spec.md 4.2 says those cases return False. The decoder after
  Pickle never sees such events.
- `receive_wrapped_not_deposit`: any jar-token receipt becomes
  RECEIVE/RECEIVE_WRAPPED "after depositing". This includes a plain
  transfer, a self-transfer and a receipt by a tracked account that did not
  send the transaction.
- `pickle_raises_before_gate`: the rule calls `resolve_to_crypto_asset()` on
  the event's asset at line 58, before its address gate. So an event whose
  asset the DB does not resolve raises in Pickle even when its log touches
  no jar. The event is then reported as an error, and no decoder after
  Pickle sees it. spec.md 4.2 puts the gate first.
- `short_topics_raise`: the gate's first operand is `tx_log.topics[2]`. A
  log with two topics therefore raises IndexError (line 60), even when its
  contract is a jar. The docstring lists only UnknownAsset and
  WrongAssetType, and spec.md 7 wants a malformed log reported for its event
  alone.
- `stale_jar_snapshot`: after the DB untags a jar, the old decoder still
  claims that jar's logs. A decoder built after the edit does not. Two
  decodes under the same DB state therefore differ, against spec.md 8's
  determinism.

## 4. Not modelled, and why

- Coingecko client and icon manager: network and disk I/O, and only tests of
  them are present.
- Notes and description strings: no property is about wording.
- Action items (spec.md 4.3): Pickle ignores its `action_items` argument
  (line 49), and the only other decoder, gitcoin, has no code in the
  repository. A model of them would come from the spec alone and could not be
  checked against any code here.
- Several transactions decoded by concurrent workers (spec.md 5): there is no
  worker code in the repository. The decoder's only state shared between
  transactions is `pickle_contracts`. `DecoderLifecycle` models how it
  relates to DB edits.
- Rejecting topics shorter than 32 bytes (spec.md 4.1): `hex_or_bytes_to_address`
  is not in the repository. A topic is a whole word in the model.
- Why the remaining components are only `partly` modelled: the pipeline, the
  codec, the provisional event builder, the gitcoin decoder and the global DB
  are not under `src/`. Each is modelled as far as the Pickle decoder uses it
  and spec.md or the tests describe it. Their other operations have no code
  here to translate.
- The codec's own behaviour: `BytesToInt`, `Normalize` and `AddressFromTopic`
  are not under `src/`, so a property of them would compare the model with
  itself. `Normalize` is total on the model's crypto assets; spec.md 4.1's
  failure for an asset of unknown precision is not modelled, because the
  rule's lookup at line 58 raises first for an asset the DB does not
  resolve.
- Adding or deleting tokens in the global DB. `DecoderLifecycle` edits only
  protocol tags. The live lookups at lines 58 and 72 read a fixed token set.

## 5. Plan

1. Done: `PickleDecoder` and `EnrichmentPipeline` with one log and two
   passes. This covers the rule's branches, the claim semantics, exceptions
   and re-enrichment.
2. Done: the line-58 hazard (`unlisted` and `pickle_raises_before_gate`), the
   line-60 hazard (`short_topics_raise`) and the line-41 snapshot
   (`DecoderLifecycle`).
3. Action items and concurrent workers: not modelled, for the reasons given in
   section 4. Nothing more of `src/` is left to model. The unmapped lines of
   decoder.py are imports and the class header.
