--------------------------- MODULE DecoderLifecycle ---------------------------
(***************************************************************************)
(* The Pickle decoder's jar set against the global DB it is read from.     *)
(* PickleFinanceDecoder.__init__ (decoder.py lines 32-41) reads the tokens *)
(* tagged with the pickle_jar protocol once and keeps them as              *)
(* pickle_contracts for the decoder's lifetime; the global DB can be       *)
(* edited afterwards (a token's protocol tag changed), and the decoder     *)
(* only sees the edit when it is constructed again.                        *)
(*                                                                         *)
(* One transaction's provisional events are decoded from scratch any      *)
(* number of times, interleaved with DB edits and decoder constructions.   *)
(* A decode is taken as one step that gives each event backed by a log    *)
(* the registry's first claim on it (EnrichmentPipeline's FirstClaim); a   *)
(* rule sees only its event and that event's log, so the events are        *)
(* independent.  The history of decodes is kept in decoded, with the DB    *)
(* state each ran under, so that a property can compare two runs.          *)
(***************************************************************************)
EXTENDS Integers, Sequences, FiniteSets

CONSTANTS
  ZeroAddress, KnownTokens, CryptoAssets, Decimals, MaxDecimals,
  TokenProtocol, PICKLE_JAR_PROTOCOL,
  TxFrom, Tracked, Emitters, TopicAddresses, Pads, TopicCounts, DataValues,
  EventAssets, GitcoinContracts, NumLogs, NumEvents,
  Protocols,    \* protocol tags a token may carry in the global DB
  MaxUpdates,   \* most DB edits in a behaviour
  MaxDecodes    \* most decodes of the transaction in a behaviour

ASSUME TokenProtocol \in [KnownTokens -> Protocols]
ASSUME PICKLE_JAR_PROTOCOL \in Protocols

VARIABLES
  logs,        \* the transaction's receipt logs
  order,       \* the decoder registry's order
  events,      \* the provisional events every decode starts from
  dbProtocol,  \* the global DB's protocol tag of each token, now
  jars,        \* the decoder's pickle_contracts
  updates,     \* DB edits so far
  decoded      \* history: [db, out] of every decode so far

lvars == <<logs, order, events, dbProtocol, jars, updates, decoded>>

\* The pipeline's inputs and rules, on these inputs.
P == INSTANCE EnrichmentPipeline
       WITH MaxPasses <- 1, pos <- 1, dec <- 1, pass <- 1,
            claimedBy <- [i \in DOMAIN events |-> "none"], raised <- {}

\* The global DB as it is now, as the decoder's constructor reads it.
Live == INSTANCE PickleDecoder WITH TokenProtocol <- dbProtocol

\* The outcome ([ret, ev]) of every event in one decode of the transaction
\* by a decoder holding the jar set j.
DecodeOutput(j) ==
  [i \in DOMAIN events |->
     IF events[i].log = 0 THEN P!Pickle!Return(FALSE, events[i])
     ELSE P!FirstClaim(j, order, logs[events[i].log], events[i])]

Init ==
  /\ P!Init
  /\ dbProtocol = TokenProtocol
  /\ jars = P!Jars
  /\ updates = 0
  /\ decoded = {}

\* An edit of a token's protocol tag in the global DB.
UpdateTokenProtocol(t, p) ==
  /\ updates < MaxUpdates
  /\ dbProtocol[t] # p
  /\ dbProtocol' = [dbProtocol EXCEPT ![t] = p]
  /\ updates' = updates + 1
  /\ UNCHANGED <<logs, order, events, jars, decoded>>

\* PickleFinanceDecoder.__init__: read the jar set from the DB as it is now.
ConstructDecoder ==
  /\ jars' = Live!PickleContracts
  /\ UNCHANGED <<logs, order, events, dbProtocol, updates, decoded>>

\* Decode the transaction's provisional events from scratch.
DecodeTransaction ==
  /\ Cardinality(decoded) < MaxDecodes
  /\ \E j \in SUBSET KnownTokens :
       /\ j = jars
       /\ decoded' = decoded \cup
                       {[db |-> dbProtocol, out |-> DecodeOutput(j)]}
  /\ UNCHANGED <<logs, order, events, dbProtocol, jars, updates>>

Next ==
  \/ \E t \in KnownTokens, p \in Protocols : UpdateTokenProtocol(t, p)
  \/ ConstructDecoder
  \/ DecodeTransaction

Spec == Init /\ [][Next]_lvars

(***************************************************************************)
(* spec.md 8, determinism: for a fixed transaction and the same registry   *)
(* state, decoding twice gives the same events and outcomes.               *)
(***************************************************************************)
DecodingIsDeterministic ==
  \A r, s \in decoded : r.db = s.db => r.out = s.out

=============================================================================
