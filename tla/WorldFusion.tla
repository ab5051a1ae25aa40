----------------------------- MODULE WorldFusion -----------------------------
(***************************************************************************)
(* How an observation becomes facts of the world model: the candidates a   *)
(* source's reader makes of it, the confidence gate, and the precedence    *)
(* between sources.                                                        *)
(* (packages/world-model/src/fusion: reducer.ts, precedence.ts,            *)
(* confidence.ts, read-gsi.ts, read-log.ts, read-cv.ts)                    *)
(*                                                                         *)
(* A fact is told apart by who said it, when, and how sure: its value is   *)
(* whatever that observation said.  Three fields stand for their classes.  *)
(***************************************************************************)
EXTENDS Integers

CONSTANTS
    ShadowWindow,       \* gsiShadowWindowMs
    ConfidenceWindow,   \* confidenceWindowMs
    Admission           \* the confidence threshold of the detectors

ASSUME FusionAssumption ==
    /\ ShadowWindow \in Nat
    /\ ConfidenceWindow \in Nat
    /\ Admission \in Nat

Sources == {"gsi", "log", "cv"}

\* What every payload says of the match, and alive and position of one enemy.
Fields == {"meta", "alive", "position"}

ClassOf ==
    [meta |-> "meta", alive |-> "enemy_liveness", position |-> "enemy_position"]

\* Rank 0 never writes.
RANKS ==
    [meta           |-> [gsi |-> 3, log |-> 0, cv |-> 0],
     enemy_liveness |-> [gsi |-> 0, log |-> 3, cv |-> 2],
     enemy_position |-> [gsi |-> 0, log |-> 0, cv |-> 3]]

RankFor(field, source) == RANKS[ClassOf[field]][source]

NoFact == [source |-> "none", observedAt |-> 0, confidence |-> 0]

Certain == 9    \* the confidence of a source that is exact

Fact == [source : Sources, observedAt : Nat, confidence : Nat]

Facts == [Fields -> Fact \cup {NoFact}]

EmptyState == [f \in Fields |-> NoFact]

\* Mutant: a weaker source waits for nobody.
CanWriteAtOnce(field, incoming, existing, now) ==
    /\ RankFor(field, incoming.source) # 0
    /\ existing # NoFact => incoming.observedAt >= existing.observedAt

\* PrecedencePolicy.canWrite: rank, shadow, recency, confidence, in this order.
CanWrite(field, incoming, existing, now) ==
    LET rank == RankFor(field, incoming.source)
        quiet(window) == now - existing.observedAt >= window
    IN  /\ rank # 0
        /\ \/ existing = NoFact
           \/ /\ rank < RankFor(field, existing.source)
              /\ quiet(ShadowWindow)
           \/ /\ rank >= RankFor(field, existing.source)
              /\ incoming.observedAt >= existing.observedAt
              /\ \/ incoming.source # existing.source
                 \/ incoming.confidence >= existing.confidence
                 \/ quiet(ConfidenceWindow)

\* What an observation is: a payload, a kill of the hero, or a detection of the hero,
\* sampled at or before it was received.
Observation ==
    [source : Sources, field : Fields, observedAt : Nat,
     confidence : Nat]

\* A kill of a hero the model has never heard of is nobody's.
Known(facts) == \E field \in {"alive", "position"} : facts[field] # NoFact

\* Does the source's reader make a candidate of it?
IsCandidate(facts, o) ==
    CASE o.source = "gsi" -> TRUE
      [] o.source = "log" -> Known(facts)
      [] o.source = "cv"  -> o.confidence >= Admission

CandidateOf(o) ==
    [source |-> o.source, observedAt |-> o.observedAt, confidence |-> o.confidence]

\* `fuse': the facts after one observation, applied at `now'.
Fuse(facts, o, now) ==
    IF /\ IsCandidate(facts, o)
       /\ CanWrite(o.field, CandidateOf(o), facts[o.field], now)
    THEN [facts EXCEPT ![o.field] = CandidateOf(o)]
    ELSE facts
=============================================================================
