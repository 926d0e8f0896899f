-------------------------- MODULE EnrichmentPipeline --------------------------
(***************************************************************************)
(* The enrichment pass over one transaction (spec.md 4.3): events are      *)
(* visited in order; for each event backed by a log the registered         *)
(* decoders' enricher rules are invoked in registry order until one        *)
(* returns True; an event no rule claims keeps its provisional class.  A   *)
(* rule that raises leaves the event to the caller's error report and the  *)
(* pass goes on with the next event (spec.md 7).  After a pass the same    *)
(* events may be enriched again (spec.md 8, scenario 4), up to MaxPasses.  *)
(*                                                                         *)
(* Two decoders are registered: the Pickle jar decoder (PickleDecoder,     *)
(* from the source) and the gitcoin decoder, whose code is not in this     *)
(* repository and whose observable outcome is the one its tests fix        *)
(* (a tracked account receiving from a gitcoin contract gets               *)
(* RECEIVE/DONATE with counterparty gitcoin).  Registry order is the       *)
(* order the decoders were loaded in, which the code does not fix, so Init *)
(* takes every order.                                                      *)
(***************************************************************************)
EXTENDS Integers, Sequences, FiniteSets, SequencesExt

CONSTANTS
  ZeroAddress, KnownTokens, CryptoAssets, Decimals, MaxDecimals,
  TokenProtocol, PICKLE_JAR_PROTOCOL,
  TxFrom,            \* transaction.from_address
  Tracked,           \* the user's tracked accounts (location labels)
  Emitters,          \* contracts that may emit a Transfer log
  TopicAddresses,    \* addresses that may appear as indexed arguments
  Pads,              \* possible high 12 bytes of an address topic
  TopicCounts,       \* possible numbers of topics of a log
  DataValues,        \* possible log data byte strings
  EventAssets,       \* assets a provisional event may carry
  GitcoinContracts,  \* addresses of the gitcoin contracts
  NumLogs,           \* logs in the transaction
  NumEvents,         \* most provisional transfer events (besides the gas one)
  MaxPasses          \* how many times the same events are enriched

ASSUME TxFrom \in Tracked
ASSUME NumLogs >= 1 /\ NumEvents >= 1 /\ MaxPasses >= 1

VARIABLES
  logs,       \* the transaction's receipt logs, immutable
  order,      \* the decoder registry's order, fixed at start
  events,     \* the transaction's events, mutated in place by the rules
  pos,        \* index of the event being enriched
  dec,        \* index in order of the next decoder to invoke on events[pos]
  pass,       \* number of the current enrichment pass
  claimedBy,  \* decoder whose rule returned True for each event, this pass
  raised      \* events whose enrichment raised, this pass

vars == <<logs, order, events, pos, dec, pass, claimedBy, raised>>

Pickle == INSTANCE PickleDecoder

PICKLE == "pickle"
GITCOIN == "gitcoin"
NoDecoder == "none"
CPT_GITCOIN == "gitcoin"
CPT_GAS == "gas"
NoCounterparty == "none"

Tx == [from |-> TxFrom]

(***************************************************************************)
(* Inputs: receipt logs (ERC20 Transfer: topics = signature, from, to;    *)
(* a log of another event may carry fewer indexed arguments) and           *)
(* the provisional events the transfer decoder builds from them: a SPEND   *)
(* for a tracked sender, a RECEIVE for a tracked receiver, so a transfer   *)
(* between two tracked accounts yields two events on one log.  The input   *)
(* contract lets the event's asset and amount differ from the log's.       *)
(***************************************************************************)
TopicWords == [high : Pads, low : TopicAddresses]

\* topic[0] is the event signature, the rest are indexed arguments.
TopicSeqs ==
  {<<[high |-> 0, low |-> "Transfer"]>> \o ws :
     ws \in UNION {[1..n - 1 -> TopicWords] : n \in TopicCounts}}

LogDomain == [address : Emitters, topics : TopicSeqs, data : DataValues]

Amounts ==
  {Pickle!Normalize(Pickle!BytesToInt(d), a) :
     d \in DataValues, a \in EventAssets \cap CryptoAssets}

ProvisionalEvent(l, i) ==
  [type : {"SPEND", "RECEIVE"}, subtype : {"NONE"}, asset : EventAssets,
   amount : Amounts, label : Tracked, counterparty : {NoCounterparty},
   log : {i}]

\* The builder reads the sender from topic 1 and the receiver from topic 2,
\* each when the log has it.
BuiltFrom(l, ev) ==
  \/ ev.type = "SPEND" /\ Len(l.topics) >= 2 /\ ev.label = Pickle!Topic(l, 1)
  \/ ev.type = "RECEIVE" /\ Len(l.topics) >= 3 /\ ev.label = Pickle!Topic(l, 2)

GasEvent ==
  [type |-> "SPEND", subtype |-> "FEE", asset |-> "ETH", amount |-> 1,
   label |-> TxFrom, counterparty |-> CPT_GAS, log |-> 0]

\* The events built from log i: none, a SPEND, a RECEIVE, or both in that
\* order (a transfer between two tracked accounts).
EventsOfLog(ls, i) ==
  LET C(t) == {ev \in ProvisionalEvent(ls[i], i) : ev.type = t /\ BuiltFrom(ls[i], ev)}
  IN {<<>>} \cup {<<ev>> : ev \in C("SPEND") \cup C("RECEIVE")}
            \cup {<<s, r>> : s \in C("SPEND"), r \in C("RECEIVE")}

\* Transfer events in log order: the concatenation of each log's events.
RECURSIVE TransferEvents(_, _)
TransferEvents(ls, i) ==
  IF i > NumLogs THEN {<<>>}
  ELSE {h \o t : h \in EventsOfLog(ls, i), t \in TransferEvents(ls, i + 1)}

(***************************************************************************)
(* The gitcoin decoder's rule, as its tests observe it: a RECEIVE by a     *)
(* tracked account from a gitcoin contract is a donation.                  *)
(***************************************************************************)
EnrichGitcoin(log, ev) ==
  IF /\ Pickle!Topic(log, 1) \in GitcoinContracts
     /\ ev.type = "RECEIVE" /\ ev.subtype = "NONE"
  THEN Pickle!Return(TRUE, [ev EXCEPT !.subtype = "DONATE",
                                      !.counterparty = CPT_GITCOIN])
  ELSE Pickle!Return(FALSE, ev)

\* Invocation of one decoder's enricher rule on an event and its log, the
\* Pickle decoder holding the jar set jars.
DecoderRule(jars, d, log, ev) ==
  IF d = PICKLE
  THEN Pickle!EnrichPickleTransfers(jars, Tx, log, ev)
  ELSE EnrichGitcoin(log, ev)

\* The Pickle decoder built at start-up holds the registry's jar set.
Jars == Pickle!PickleContracts

RuleOutcome(d, log, ev) == DecoderRule(Jars, d, log, ev)

(***************************************************************************)
(* The registry's first claim on an event, Pickle holding the jar set     *)
(* jars: invoke the rules of the decoders ds in order, each on the event   *)
(* as the previous rule left it, and stop at the first result that is not  *)
(* False (spec.md 4.3).                                                    *)
(***************************************************************************)
RECURSIVE FirstClaim(_, _, _, _)
FirstClaim(jars, ds, log, ev) ==
  IF ds = <<>> THEN Pickle!Return(FALSE, ev)
  ELSE LET r == DecoderRule(jars, Head(ds), log, ev)
       IN IF r.ret = "False" THEN FirstClaim(jars, Tail(ds), log, r.ev) ELSE r

(***************************************************************************)
(* The pass.                                                               *)
(***************************************************************************)
Init ==
  /\ logs \in [1..NumLogs -> LogDomain]
  /\ order \in {o \in [1..2 -> {PICKLE, GITCOIN}] : o[1] # o[2]}
  /\ \E es \in TransferEvents(logs, 1) :
       /\ Len(es) \in 1..NumEvents
       /\ events = <<GasEvent>> \o es
  /\ pos = 1
  /\ dec = 1
  /\ pass = 1
  /\ claimedBy = [i \in DOMAIN events |-> NoDecoder]
  /\ raised = {}

\* An event synthesised without a log (the gas fee) is not enriched.
SkipUnbacked ==
  /\ pos <= Len(events)
  /\ events[pos].log = 0
  /\ pos' = pos + 1
  /\ UNCHANGED <<logs, order, events, dec, pass, claimedBy, raised>>

\* Invoke the next decoder's rule on events[pos]; the rule's in-place
\* mutation persists whatever it returns.
InvokeRule ==
  /\ pos <= Len(events)
  /\ events[pos].log # 0
  /\ dec <= Len(order)
  /\ LET r == RuleOutcome(order[dec], logs[events[pos].log], events[pos])
     IN /\ events' = [events EXCEPT ![pos] = r.ev]
        /\ IF r.ret = "False"
           THEN /\ dec' = dec + 1
                /\ UNCHANGED <<pos, claimedBy, raised>>
           ELSE /\ pos' = pos + 1
                /\ dec' = 1
                /\ IF r.ret = "True"
                   THEN /\ claimedBy' = [claimedBy EXCEPT ![pos] = order[dec]]
                        /\ UNCHANGED raised
                   ELSE /\ raised' = raised \cup {pos}
                        /\ UNCHANGED claimedBy
  /\ UNCHANGED <<logs, order, pass>>

\* Mutant: the decoder cursor keeps advancing instead of being reset.
NoRuleClaimsNoReset ==
  /\ pos <= Len(events)
  /\ events[pos].log # 0
  /\ dec > Len(order)
  /\ pos' = pos + 1
  /\ dec' = dec + 1
  /\ UNCHANGED <<logs, order, events, pass, claimedBy, raised>>

\* No rule claimed the event: it keeps its provisional classification.
NoRuleClaims ==
  /\ pos <= Len(events)
  /\ events[pos].log # 0
  /\ dec > Len(order)
  /\ pos' = pos + 1
  /\ dec' = 1
  /\ UNCHANGED <<logs, order, events, pass, claimedBy, raised>>

\* Run the enrichment again over the events the last pass produced.
Reenrich ==
  /\ pos > Len(events)
  /\ pass < MaxPasses
  /\ pass' = pass + 1
  /\ pos' = 1
  /\ claimedBy' = [i \in DOMAIN events |-> NoDecoder]
  /\ raised' = {}
  /\ UNCHANGED <<logs, order, events, dec>>

Next ==
  \/ SkipUnbacked
  \/ InvokeRule
  \/ NoRuleClaims
  \/ Reenrich

Spec == Init /\ [][Next]_vars

(***************************************************************************)
(* Properties.                                                             *)
(***************************************************************************)
EventRecords ==
  [type : {"SPEND", "RECEIVE", "DEPOSIT", "WITHDRAWAL"},
   subtype : {"NONE", "FEE", "DEPOSIT_ASSET", "RECEIVE_WRAPPED",
              "RETURN_WRAPPED", "REMOVE_ASSET", "DONATE"},
   asset : EventAssets \cup {"ETH"}, amount : Nat, label : Tracked,
   counterparty : {NoCounterparty, CPT_GAS, CPT_GITCOIN, Pickle!CPT_PICKLE},
   log : 0..NumLogs]

TypeOK ==
  /\ logs \in [1..NumLogs -> LogDomain]
  /\ Len(events) \in 2..NumEvents + 1
  /\ events \in [1..Len(events) -> EventRecords]
  /\ pos \in 1..Len(events) + 1
  /\ dec \in 1..Len(order) + 1
  /\ pass \in 1..MaxPasses
  /\ claimedBy \in [DOMAIN events -> {PICKLE, GITCOIN, NoDecoder}]
  /\ raised \subseteq DOMAIN events

LogOf(i) == logs[events[i].log]

\* The amount the rule compares against: the log's data, scaled by the
\* event's asset.
AmountOfLog(i) ==
  Pickle!Normalize(Pickle!BytesToInt(LogOf(i).data), events[i].asset)

(***************************************************************************)
(* Every event the Pickle rule reclassified is one of the four jar flows   *)
(* and is backed by its own log: the amount is the log's amount in the     *)
(* event's asset, the flow's direction matches the log's indexed           *)
(* addresses, and the asset-guarded flows carry the log's token.  This     *)
(* must hold whichever decoder ran first and after repeated passes.        *)
(***************************************************************************)
PickleClassificationMatchesLog ==
  \A i \in DOMAIN events :
    LET ev == events[i]
        l == LogOf(i)
        t1 == Pickle!Topic(l, 1)
        t2 == Pickle!Topic(l, 2)
    IN ev.counterparty = Pickle!CPT_PICKLE =>
         /\ ev.amount = AmountOfLog(i)
         /\ \/ /\ <<ev.type, ev.subtype>> = <<"DEPOSIT", "DEPOSIT_ASSET">>
               /\ ev.label = TxFrom /\ t2 \in Jars /\ ev.asset = l.address
            \/ /\ <<ev.type, ev.subtype>> = <<"RECEIVE", "RECEIVE_WRAPPED">>
               /\ l.address \in Jars
            \/ /\ <<ev.type, ev.subtype>> = <<"SPEND", "RETURN_WRAPPED">>
               /\ ev.label = TxFrom /\ t1 = TxFrom /\ t2 = ZeroAddress
               /\ ev.asset = l.address
            \/ /\ <<ev.type, ev.subtype>> = <<"WITHDRAWAL", "REMOVE_ASSET">>
               /\ ev.label = TxFrom /\ t2 = TxFrom /\ t1 \in Jars
               /\ ev.asset = l.address

(***************************************************************************)
(* An event is reclassified at most once: once a decoder has given it a    *)
(* counterparty, no later rule invocation, in this pass or a re-run,       *)
(* changes it (spec.md 3, HistoryEvent lifecycle; spec.md 8, scenario 4).  *)
(***************************************************************************)
ClassificationIsFinal ==
  [][\A i \in DOMAIN events :
       events[i].counterparty # NoCounterparty => events'[i] = events[i]]_vars

(***************************************************************************)
(* A rule that raises leaves no half-done reclassification behind: the     *)
(* event whose enrichment raised is exactly what it was before the call    *)
(* (spec.md 7: the offending event is left unclassified).                  *)
(***************************************************************************)
RaiseLeavesEventUntouched ==
  [][\A i \in raised' \ raised : events'[i] = events[i]]_vars

(***************************************************************************)
(* spec.md 4.2: a rule returns False immediately when the log touches none *)
(* of the decoder's addresses, the gate every implementation applies       *)
(* first; so a log that touches no jar never makes the Pickle rule raise   *)
(* and always reaches the decoders registered after it.                    *)
(***************************************************************************)
PickleGateComesFirst ==
  \A i \in raised : Pickle!TouchesJar(Jars, LogOf(i))

(***************************************************************************)
(* The rule's docstring says it may raise UnknownAsset or WrongAssetType:  *)
(* the event's asset does not resolve (line 58) or the log's contract is   *)
(* not a known token (lines 72, 106, 125).  So every event whose Pickle    *)
(* enrichment raised has one of those causes, which the pipeline's caller  *)
(* catches and reports for that event alone (spec.md 7).                   *)
(***************************************************************************)
PickleRaisesOnlyAsDocumented ==
  \A i \in raised :
    events[i].asset \notin CryptoAssets \/ LogOf(i).address \notin KnownTokens

(***************************************************************************)
(* spec.md 4.2: the rule returns True without reclassifying only when the  *)
(* event's asset is not the log's token; on an amount mismatch, or when no *)
(* case matches, it must return False so other decoders still see the log. *)
(***************************************************************************)
PickleClaimsOnlyWhatItClassifies ==
  \A i \in DOMAIN events :
    /\ claimedBy[i] = PICKLE
    /\ events[i].counterparty = NoCounterparty
    => events[i].asset # LogOf(i).address

(***************************************************************************)
(* The deposit-receive branch ("Deposit receive wrapped", notes "Receive   *)
(* ... after depositing in pickle contract") should only classify jar      *)
(* tokens minted to the transaction's sender by a deposit.                 *)
(***************************************************************************)
ReceiveWrappedOnlyOnDeposit ==
  \A i \in DOMAIN events :
    events[i].subtype = "RECEIVE_WRAPPED" =>
      /\ Pickle!Topic(LogOf(i), 1) = ZeroAddress
      /\ events[i].label = TxFrom

=============================================================================
