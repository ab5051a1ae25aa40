---------------------------- MODULE ObservationBus ----------------------------
(***************************************************************************)
(* The bus between the sources and the world model: one queue, drained by  *)
(* whoever publishes first, to every subscriber in turn; detections are    *)
(* shed at the bound, and a subscriber that throws empties the queue.      *)
(* (apps/desktop/src/main/state/bus.ts)                                    *)
(***************************************************************************)
EXTENDS Integers, Sequences, FiniteSets

CONSTANTS
    Bound,          \* DEFAULT_BOUND
    MaxObserved,    \* bound: observations published
    Throws          \* may a subscriber throw?

ASSUME BusAssumption ==
    /\ Bound \in Nat \ {0}
    /\ MaxObserved \in Nat
    /\ Throws \in BOOLEAN

VARIABLES
    queue,      \* what waits
    draining,   \* is a publisher in its drain loop?
    counts,     \* dropped, per kind; gaps; the last number of the source
    delivered,  \* what the subscribers got
    sent,       \* observer: the observations published so far, each once
    lost        \* observer: what was in the queue when a subscriber threw

busVars == <<queue, draining, counts, delivered, sent, lost>>

Sheddable(o) == o.kind = "cv"

\* A gap or a step back is counted, once per observation, and nothing more.
NoteSeq(c, number) ==
    [c EXCEPT !.last = number, !.gaps = IF c.last # 0 /\ number # c.last + 1 THEN @ + 1 ELSE @]

Without(q, i) == SubSeq(q, 1, i - 1) \o SubSeq(q, i + 1, Len(q))

\* Mutant: whatever is oldest is shed.
OldestOfAll(q) == IF q = <<>> THEN 0 ELSE 1

\* The oldest one that may be shed; 0 if there is none.
OldestSheddable(q) ==
    IF \E i \in DOMAIN q : Sheddable(q[i])
    THEN CHOOSE i \in DOMAIN q : Sheddable(q[i]) /\ \A j \in 1..(i - 1) : ~Sheddable(q[j])
    ELSE 0

Full(o) == Len(queue) >= Bound /\ Sheddable(o)

\* What publish drops for o: the detection it shed, o itself, or nothing.
Dropped(o) ==
    LET i == OldestSheddable(queue)
    IN  IF ~Full(o) THEN {} ELSE IF i = 0 THEN {o} ELSE {queue[i]}

\* publish, from outside or from inside a subscriber of the drain under way. A
\* number skipped is an observation lost before the bus.
Publish ==
    /\ sent < MaxObserved
    /\ \E kind \in {"gsi", "cv"}, number \in {counts.last + 1, counts.last + 2} :
        LET o == [kind |-> kind, seq |-> sent + 1]
        IN  /\ queue' = IF o \in Dropped(o) THEN queue
                        ELSE Append(IF Full(o) THEN Without(queue, OldestSheddable(queue)) ELSE queue, o)
            /\ counts' = [NoteSeq(counts, number) EXCEPT
                             !.dropped = [k \in {"gsi", "cv"} |->
                                @[k] + Cardinality({d \in Dropped(o) : d.kind = k})]]
    /\ sent' = sent + 1
    /\ draining' = TRUE
    /\ UNCHANGED <<delivered, lost>>

\* One turn of the drain loop.
Deliver ==
    /\ draining
    /\ queue # <<>>
    /\ queue' = Tail(queue)
    /\ delivered' = Append(delivered, Head(queue))
    /\ UNCHANGED <<draining, counts, sent, lost>>

Drained ==
    /\ draining
    /\ queue = <<>>
    /\ draining' = FALSE
    /\ UNCHANGED <<queue, counts, delivered, sent, lost>>

\* A subscriber throws at the head of the queue: the rest is gone too.
Throw ==
    /\ Throws
    /\ draining
    /\ queue # <<>>
    /\ draining' = FALSE
    /\ lost' = lost \cup {queue[i].seq : i \in DOMAIN queue}
    /\ queue' = <<>>
    /\ UNCHANGED <<counts, delivered, sent>>

BusInit ==
    /\ queue = <<>>
    /\ draining = FALSE
    /\ counts = [last |-> 0, gaps |-> 0, dropped |-> [k \in {"gsi", "cv"} |-> 0]]
    /\ delivered = <<>>
    /\ sent = 0
    /\ lost = {}

BusNext == Publish \/ Deliver \/ Drained \/ Throw

-----------------------------------------------------------------------------
(* Properties *)

Seqs(observations) == {observations[i].seq : i \in DOMAIN observations}

\* Nothing is delivered twice or out of the order of publication, re-entrant
\* or not; nothing is lost that is not counted as dropped, unless a subscriber
\* threw; and only detections are dropped. (publish, drop)
InOrderOrCounted ==
    /\ \A i, j \in DOMAIN delivered : i < j => delivered[i].seq < delivered[j].seq
    /\ Cardinality(Seqs(delivered) \cup Seqs(queue) \cup lost) + counts.dropped["cv"] = sent
    /\ counts.dropped["gsi"] = 0
===============================================================================
