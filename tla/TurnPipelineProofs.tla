-------------------------- MODULE TurnPipelineProofs --------------------------
(***************************************************************************)
(* Proofs about TurnPipeline, for any number of turns and any bounds on    *)
(* the channels: the gate of the voice window follows the chip, and a      *)
(* released turn is the one the window has open.                           *)
(*                                                                         *)
(* The machine's side of the argument is Tame: no reduction calls the      *)
(* session off while the capture it was made in goes on, or on the way     *)
(* into Processing.  The channel's side is Matched: each queued end finds  *)
(* open the turn it names, or none.                                        *)
(***************************************************************************)
EXTENDS TurnPipeline, SequenceTheorems, TLAPS

-----------------------------------------------------------------------------
(* What a reduction may do.                                                *)

Fields == {"phase", "muted", "latched", "pending", "reported", "env", "fx"}

Shape(d) == DOMAIN d = Fields

Tame(s, r) ==
    "abort" \in r.fx => /\ Capturing(r.phase) => ~Capturing(s.phase)
                        /\ r.phase.kind # "processing"

\* r is a draft like d, except that it is in phase p.
Moved(d, r, p) ==
    Shape(r) /\ r.phase = p /\ ("abort" \in r.fx <=> "abort" \in d.fx)

LEMMA EmitMoves ==
    ASSUME NEW d, Shape(d), NEW effects, "abort" \notin effects
    PROVE  Moved(d, Emit(d, effects), d.phase)
  BY DEF Emit, Shape, Moved, Fields

LEMMA EmitAborts ==
    ASSUME NEW d, Shape(d), NEW effects
    PROVE  /\ Shape(Emit(d, effects))
           /\ Emit(d, effects).phase = d.phase
           /\ Emit(d, effects).muted = d.muted
  BY DEF Emit, Shape, Fields

LEMMA EnterMoves ==
    ASSUME NEW d, Shape(d), NEW p, NEW keep
    PROVE  Moved(d, Enter(d, p, keep), p)
  BY DEF Enter, Shape, Moved, Fields

LEMMA ScheduleMoves ==
    ASSUME NEW d, Shape(d), NEW id, NEW delay
    PROVE  Moved(d, Schedule(d, id, delay), d.phase)
  BY DEF Schedule, Shape, Moved, Fields

LEMMA FieldMoves ==
    ASSUME NEW d, Shape(d), NEW x
    PROVE  /\ Moved(d, [d EXCEPT !.latched = x], d.phase)
           /\ Moved(d, [d EXCEPT !.reported = x], d.phase)
           /\ Moved(d, [d EXCEPT !.muted = x], d.phase)
  BY DEF Shape, Moved, Fields

LEMMA OpenCaptureMoves ==
    ASSUME NEW d, Shape(d), NEW p
    PROVE  Moved(d, OpenCapture(d, p), p)
  <1> DEFINE e == Enter(d, p, {})
             l == [e EXCEPT !.latched = p.gesture = "latch"]
             t == Schedule(l, "listen-timeout", d.env.listenTimeout)
  <1>1. Moved(d, e, p)
    BY EnterMoves
  <1> HIDE DEF e
  <1>2. Moved(d, l, p)
    BY <1>1 DEF Moved, Shape, Fields, l
  <1> HIDE DEF l
  <1>3. Moved(l, t, l.phase)
    BY <1>2, ScheduleMoves DEF Moved
  <1> HIDE DEF t
  <1>4. Moved(t, Emit(t, {"show", "levels-input", "capture-start", "project"}), t.phase)
    BY <1>3, EmitMoves DEF Moved
  <1>5. OpenCapture(d, p) = Emit(t, {"show", "levels-input", "capture-start", "project"})
    BY DEF OpenCapture, t, l, e
  <1>6. QED
    BY <1>2, <1>3, <1>4, <1>5 DEF Moved

LEMMA ToProcessingMoves ==
    ASSUME NEW d, Shape(d)
    PROVE  Moved(d, ToProcessing(d), Processing(0))
  <1> DEFINE e == Enter(d, Processing(0), {})
             u == Schedule(e, "elapsed-hint", ElapsedHint)
             t == Schedule(u, "cancel-hint", CancelHint)
  <1>1. Moved(d, e, Processing(0))
    BY EnterMoves
  <1> HIDE DEF e
  <1>2. Moved(e, u, e.phase)
    BY <1>1, ScheduleMoves DEF Moved
  <1> HIDE DEF u
  <1>3. Moved(u, t, u.phase)
    BY <1>2, ScheduleMoves DEF Moved
  <1> HIDE DEF t
  <1>4. Moved(t, Emit(t, {"levels-off", "project"}), t.phase)
    BY <1>3, EmitMoves DEF Moved
  <1>5. ToProcessing(d) = Emit(t, {"levels-off", "project"})
    BY DEF ToProcessing, t, u, e
  <1>6. QED
    BY <1>1, <1>2, <1>3, <1>4, <1>5 DEF Moved

LEMMA ToIdleMoves ==
    ASSUME NEW d, Shape(d)
    PROVE  Moved(d, ToIdle(d), Idle)
  <1> DEFINE e == Enter(d, Idle, {})
             l == [e EXCEPT !.latched = FALSE]
             fx == {"levels-off", IF d.muted THEN "show" ELSE "hide", "project"}
  <1>1. Moved(d, e, Idle)
    BY EnterMoves
  <1> HIDE DEF e
  <1>2. Moved(d, l, Idle)
    BY <1>1 DEF Moved, Shape, Fields, l
  <1>3. "abort" \notin fx
    OBVIOUS
  <1>4. ToIdle(d) = Emit(l, fx)
    BY DEF ToIdle, l, e
  <1> HIDE DEF l, fx
  <1>5. Moved(l, Emit(l, fx), l.phase)
    BY <1>2, <1>3, EmitMoves DEF Moved
  <1>6. QED
    BY <1>2, <1>4, <1>5 DEF Moved

\* A draft that has called nothing off yet.
Fresh(d) == Shape(d) /\ "abort" \notin d.fx

LEMMA DraftFresh ==
    ASSUME NEW s
    PROVE  Fresh(DraftOf(s)) /\ DraftOf(s).phase = s.phase
  BY DEF DraftOf, Fresh, Shape, Fields

\* A fault ends in Error, in Idle, or where nothing was under way.
LEMMA RaiseFaultTame ==
    ASSUME NEW d, Fresh(d), NEW f
    PROVE  Tame(d, RaiseFault(d, f))
  <1> DEFINE a == Emit(d, IF IsActive(d.phase) THEN {"abort"} ELSE {})
             b == [a EXCEPT !.reported = IF f.persistent THEN @ \cup {f.kind} ELSE @]
             e == Enter(b, Error(f), {})
             n == [e EXCEPT !.latched = FALSE]
             t == IF f.persistent THEN n ELSE Schedule(n, "error-dismiss", ErrorDismiss)
             r == RaiseFault(d, f)
  <1>1. CASE f.persistent /\ f.kind \in d.reported
    <2>1. r = IF IsActive(d.phase) THEN ToIdle(d) ELSE d
      BY <1>1 DEF RaiseFault
    <2>2. Moved(d, ToIdle(d), Idle)
      BY ToIdleMoves DEF Fresh
    <2>3. "abort" \notin r.fx
      BY <2>1, <2>2 DEF Moved, Fresh
    <2>4. QED
      BY <2>3 DEF Tame
  <1>2. CASE ~(f.persistent /\ f.kind \in d.reported)
    <2>1. r = Emit(t, {"levels-off", "error-cue", "show", "project"})
      BY <1>2 DEF RaiseFault
    <2>2. Shape(a)
      BY EmitAborts DEF Fresh
    <2> HIDE DEF a
    <2>3. Shape(b)
      BY <2>2, FieldMoves DEF Moved, b
    <2> HIDE DEF b
    <2>9. Shape(e) /\ e.phase = Error(f)
      BY <2>3, EnterMoves DEF Moved, e
    <2> HIDE DEF e
    <2>4. Shape(n) /\ n.phase = Error(f)
      BY <2>9, FieldMoves DEF Moved, n
    <2> HIDE DEF n
    <2>5. Shape(t) /\ t.phase = Error(f)
      BY <2>4, ScheduleMoves DEF Moved
    <2> HIDE DEF t
    <2>6. r.phase = Error(f)
      BY <2>1, <2>5, EmitMoves DEF Moved
    <2>7. ~Capturing(r.phase) /\ r.phase.kind # "processing"
      BY <2>6 DEF Capturing, Error
    <2> HIDE DEF r
    <2>8. Tame(d, r)
      BY <2>7 DEF Tame
    <2>10. QED
      BY <2>8 DEF r
  <1>3. QED
    BY <1>1, <1>2

\* A key starts a capture where none was, or ends one, or is ignored.
LEMMA TriggerTame ==
    ASSUME NEW d, Fresh(d), NEW event
    PROVE  Tame(d, OnTrigger(d, event))
  <1> DEFINE starts == event \in {"down", "tap"}
             gesture == IF event = "tap" THEN "latch" ELSE "push"
             aborted == Emit(d, {"abort"})
             closed == Emit(d, {"capture-end"})
             stopped == Emit(d, {"interrupt"})
             r == OnTrigger(d, event)
  <1>1. Shape(d) /\ "abort" \notin d.fx
    BY DEF Fresh
  <1>2. Shape(aborted) /\ aborted.phase = d.phase
    BY <1>1, EmitAborts
  <1>3. /\ Moved(d, closed, d.phase)
        /\ Moved(d, stopped, d.phase)
    BY <1>1, EmitMoves
  <1> HIDE DEF aborted, closed, stopped
  <1>4. Moved(aborted, ToIdle(aborted), Idle)
    BY <1>2, ToIdleMoves
  <1>5. /\ Moved(d, ToIdle(closed), Idle)
        /\ Moved(d, ToProcessing(closed), Processing(0))
    BY <1>3, ToIdleMoves, ToProcessingMoves DEF Moved
  <1>6. /\ Moved(d, BeginCapture(d, gesture), Armed(gesture))
        /\ Moved(aborted, BeginCapture(aborted, gesture), Armed(gesture))
        /\ Moved(d, BargeIn(d, gesture), Listening(gesture, NotSilent))
    BY <1>1, <1>2, <1>3, OpenCaptureMoves
       DEF BeginCapture, BargeIn, ToListening, Moved, stopped
  <1> HIDE DEF starts, gesture
  <1>7. \/ r = d
        \/ r = ToIdle(aborted)
        \/ r = BeginCapture(d, gesture)
        \/ d.phase.kind = "processing" /\ r = BeginCapture(aborted, gesture)
        \/ r = BargeIn(d, gesture)
        \/ r = ToIdle(closed)
        \/ r = ToProcessing(closed)
    BY DEF OnTrigger, CancelInteraction, starts, gesture, aborted, closed
  <1> HIDE DEF r
  <1>8. ASSUME r = ToIdle(aborted) PROVE Tame(d, r)
    BY <1>4, <1>8 DEF Moved, Tame, Capturing, Idle
  <1>9. ASSUME d.phase.kind = "processing", r = BeginCapture(aborted, gesture)
        PROVE  Tame(d, r)
    BY <1>6, <1>9 DEF Moved, Tame, Capturing, Armed
  <1>10. ASSUME r # ToIdle(aborted),
                ~(d.phase.kind = "processing" /\ r = BeginCapture(aborted, gesture))
         PROVE  Tame(d, r)
    <2>1. "abort" \notin r.fx
      BY <1>1, <1>5, <1>6, <1>7, <1>10 DEF Moved
    <2>2. QED
      BY <2>1 DEF Tame
  <1>11. Tame(d, r)
    BY <1>8, <1>9, <1>10
  <1>12. QED
    BY <1>11 DEF r

LEMMA CaptureTame ==
    ASSUME NEW d, Fresh(d), NEW event
    PROVE  "abort" \notin OnCapture(d, event).fx
  <1> DEFINE c == [d EXCEPT !.reported = {}]
             p == Listening(d.phase.gesture, NotSilent)
             e == Enter(c, p, {"listen-timeout"})
             closed == Emit(d, {"capture-end"})
             r == OnCapture(d, event)
  <1>1. Shape(d) /\ "abort" \notin d.fx
    BY DEF Fresh
  <1>2. Moved(d, c, d.phase)
    BY <1>1, FieldMoves
  <1> HIDE DEF c, p
  <1>3. Moved(d, e, p)
    BY <1>2, EnterMoves DEF Moved
  <1> HIDE DEF e
  <1>4. Moved(d, Emit(e, {"project"}), p)
    BY <1>3, EmitMoves DEF Moved
  <1>5. Moved(d, closed, d.phase)
    BY <1>1, EmitMoves
  <1> HIDE DEF closed
  <1>6. Moved(d, ToIdle(closed), Idle)
    BY <1>5, ToIdleMoves DEF Moved
  <1>7. r = d \/ r = Emit(e, {"project"}) \/ r = ToIdle(closed)
    BY DEF OnCapture, e, c, p, closed
  <1> HIDE DEF r
  <1>8. "abort" \notin r.fx
    BY <1>1, <1>4, <1>6, <1>7 DEF Moved
  <1>9. QED
    BY <1>8 DEF r

LEMMA TurnTame ==
    ASSUME NEW d, Fresh(d), NEW event
    PROVE  "abort" \notin OnTurn(d, event).fx
  <1> DEFINE c == [d EXCEPT !.reported = {}]
             e == Enter(c, Speaking, {})
             fx == {"show", "levels-output", "project"}
             r == OnTurn(d, event)
  <1>1. Shape(d) /\ "abort" \notin d.fx
    BY DEF Fresh
  <1>2. Moved(d, c, d.phase)
    BY <1>1, FieldMoves
  <1> HIDE DEF c
  <1>3. Moved(d, e, Speaking)
    BY <1>2, EnterMoves DEF Moved
  <1> HIDE DEF e
  <1>4. Moved(d, Emit(e, fx), Speaking)
    BY <1>3, EmitMoves DEF Moved
  <1>5. /\ Moved(d, ToProcessing(d), Processing(0))
        /\ Moved(d, ToIdle(d), Idle)
        /\ Moved(d, ToListening(d, "latch"), Listening("latch", NotSilent))
    BY <1>1, ToProcessingMoves, ToIdleMoves, OpenCaptureMoves DEF ToListening
  <1>6. \/ r = d \/ r = ToProcessing(d) \/ r = Emit(e, fx)
        \/ r = ToListening(d, "latch") \/ r = ToIdle(d)
    BY DEF OnTurn, e, c
  <1> HIDE DEF r, fx
  <1>7. "abort" \notin r.fx
    BY <1>1, <1>4, <1>5, <1>6 DEF Moved
  <1>8. QED
    BY <1>7 DEF r

LEMMA MuteTame ==
    ASSUME NEW d, Fresh(d), NEW muted \in BOOLEAN
    PROVE  Tame(d, OnMute(d, muted))
  <1> DEFINE c == [d EXCEPT !.muted = muted]
             a == Emit(c, IF d.phase.kind = "idle" THEN {} ELSE {"abort"})
             s == Emit(c, IF d.phase.kind = "idle" THEN {"project", "hide"} ELSE {})
             r == OnMute(d, muted)
  <1>1. Shape(d) /\ "abort" \notin d.fx
    BY DEF Fresh
  <1>2. Moved(d, c, d.phase)
    BY <1>1, FieldMoves
  <1>3. r = d \/ r = ToIdle(a) \/ r = s
    BY DEF OnMute
  <1> HIDE DEF c
  <1>4. Shape(a)
    BY <1>2, EmitAborts DEF Moved
  <1>5. Moved(d, s, d.phase)
    BY <1>2, EmitMoves DEF Moved
  <1> HIDE DEF a, s
  <1>6. Moved(a, ToIdle(a), Idle)
    BY <1>4, ToIdleMoves
  <1> HIDE DEF r
  <1>7. ASSUME r = ToIdle(a) PROVE Tame(d, r)
    BY <1>6, <1>7 DEF Moved, Tame, Capturing, Idle
  <1>8. ASSUME r = d \/ r = s PROVE Tame(d, r)
    <2>1. "abort" \notin r.fx
      BY <1>1, <1>5, <1>8 DEF Moved
    <2>2. QED
      BY <2>1 DEF Tame
  <1>9. Tame(d, r)
    BY <1>3, <1>7, <1>8
  <1>10. QED
    BY <1>9 DEF r

\* Only two timers start an interaction's end here; the others project.
LEMMA TimerTame ==
    ASSUME NEW d, Fresh(d), NEW id \in {"listen-timeout", "error-dismiss"}
    PROVE  Tame(d, OnTimer(d, id))
  <1> DEFINE f == Cancel(d, id)
             r == OnTimer(d, id)
  <1>1. Shape(f) /\ f.phase = d.phase /\ "abort" \notin f.fx
    BY DEF Cancel, Fresh, Shape, Fields
  <1>2. r = RaiseFault(f, NoSpeech) \/ r = ToIdle(f) \/ r = f
    BY DEF OnTimer
  <1> HIDE DEF f
  <1>3. Tame(f, RaiseFault(f, NoSpeech))
    BY <1>1, RaiseFaultTame DEF Fresh
  <1>4. Moved(f, ToIdle(f), Idle)
    BY <1>1, ToIdleMoves
  <1> HIDE DEF r
  <1>5. ASSUME r = RaiseFault(f, NoSpeech) PROVE Tame(d, r)
    BY <1>1, <1>3, <1>5 DEF Tame
  <1>6. ASSUME r = ToIdle(f) \/ r = f PROVE Tame(d, r)
    <2>1. "abort" \notin r.fx
      BY <1>1, <1>4, <1>6 DEF Moved
    <2>2. QED
      BY <2>1 DEF Tame
  <1>7. Tame(d, r)
    BY <1>2, <1>5, <1>6
  <1>8. QED
    BY <1>7 DEF r
-----------------------------------------------------------------------------
(* The queue of directives, as a function of the turn that is open.        *)

\* The last parameter n of what follows: the session may have been replaced,
\* and with it the turn the window had open.

\* The turn that is open once x is handled, when the session stands.
Opens(x) == IF x.kind = "begin" THEN x.turn ELSE NoTurn

\* t is the turn that was meant, unless a renewal has taken it away.
Agrees(t, meant, n) == t \in {meant, NoTurn} /\ (~n => t = meant)

ToBe(q, a) == IF q = <<>> THEN a ELSE Opens(q[Len(q)])

Before(q, a, i) == IF i = 1 THEN a ELSE Opens(q[i - 1])

\* An end finds its turn or none, and a release its turn.
Follows(x, t, n) ==
    x.kind = "end" => /\ t \in {x.turn, NoTurn}
                      /\ ~n /\ x.reason = "release" => t = x.turn

Matched(q, a, n) == \A i \in 1 .. Len(q) : Follows(q[i], Before(q, a, i), n)

LEMMA AppendMatched ==
    ASSUME NEW n, NEW q \in Seq(TurnDirective), NEW x \in TurnDirective, NEW a,
           Matched(q, a, n), Follows(x, ToBe(q, a), n)
    PROVE  /\ Append(q, x) \in Seq(TurnDirective)
           /\ Matched(Append(q, x), a, n)
           /\ ToBe(Append(q, x), a) = Opens(x)
  <1> DEFINE s == Append(q, x)
  <1>1. /\ s \in Seq(TurnDirective) /\ s # <<>>
        /\ Len(s) = Len(q) + 1 /\ Len(q) \in Nat
        /\ \A i \in 1 .. Len(q) : s[i] = q[i]
        /\ s[Len(q) + 1] = x
    BY AppendProperties
  <1>2. q = <<>> <=> Len(q) = 0
    BY EmptySeq
  <1> HIDE DEF s
  <1>3. ASSUME NEW i \in 1 .. Len(s) PROVE Follows(s[i], Before(s, a, i), n)
    <2>1. CASE i = Len(q) + 1
      <3>1. Before(s, a, i) = ToBe(q, a)
        BY <1>1, <1>2, <2>1 DEF Before, ToBe
      <3>2. QED
        BY <1>1, <2>1, <3>1
    <2>2. CASE i \in 1 .. Len(q)
      <3>1. Before(s, a, i) = Before(q, a, i) /\ s[i] = q[i]
        BY <1>1, <2>2 DEF Before
      <3>2. QED
        BY <2>2, <3>1 DEF Matched
    <2>3. QED
      BY <1>1, <2>1, <2>2
  <1>4. Matched(s, a, n)
    BY <1>3 DEF Matched
  <1>5. ToBe(s, a) = Opens(x)
    BY <1>1 DEF ToBe
  <1>6. QED
    BY <1>1, <1>4, <1>5 DEF s

LEMMA TailMatched ==
    ASSUME NEW n, NEW q \in Seq(TurnDirective), q # <<>>, NEW a, NEW b,
           Matched(q, a, n), Agrees(b, Opens(Head(q)), n)
    PROVE  /\ Tail(q) \in Seq(TurnDirective)
           /\ Matched(Tail(q), b, n)
           /\ Agrees(ToBe(Tail(q), b), ToBe(q, a), n)
  <1> DEFINE s == Tail(q)
  <1>1. /\ s \in Seq(TurnDirective)
        /\ Len(s) = Len(q) - 1 /\ Len(q) \in Nat /\ Len(q) > 0
        /\ \A i \in 1 .. Len(s) : s[i] = q[i + 1]
        /\ Head(q) = q[1]
    BY HeadTailProperties, EmptySeq
  <1>2. s = <<>> <=> Len(s) = 0
    BY <1>1, EmptySeq
  <1> HIDE DEF s
  <1>3. ASSUME NEW i \in 1 .. Len(s) PROVE Follows(s[i], Before(s, b, i), n)
    <2>1. Follows(q[i + 1], Before(q, a, i + 1), n) /\ s[i] = q[i + 1]
      BY <1>1 DEF Matched
    <2>2. Agrees(Before(s, b, i), Before(q, a, i + 1), n)
      BY <1>1 DEF Before, Agrees
    <2>3. QED
      BY <2>1, <2>2 DEF Follows, Agrees
  <1>4. Matched(s, b, n)
    BY <1>3 DEF Matched
  <1>5. Agrees(ToBe(s, b), ToBe(q, a), n)
    BY <1>1, <1>2 DEF ToBe, Agrees
  <1>6. QED
    BY <1>1, <1>4, <1>5 DEF s
-----------------------------------------------------------------------------
(* The inductive invariant.                                                *)

HostFields == {"live", "gate", "sawAudio", "active", "ending", "cancelled", "buffered"}

\* The controller: its gate is open for its active turn.
HostSound(c, n) ==
    /\ DOMAIN c = HostFields
    /\ c.active \in TurnOrNone
    /\ c.gate = (c.active # NoTurn)
    /\ ~c.live => c.active = NoTurn
    /\ ~n => c.live

\* The channel: what is queued leaves open the turn main captures.
QueueSound(q, a, c, n) ==
    /\ q \in Seq(TurnDirective)
    /\ Matched(q, a, n)
    /\ Agrees(ToBe(q, a), c, n)
    /\ ~n => \A i \in 1 .. Len(q) : q[i].kind # "open"

\* Main: a turn is captured in the capture phases.
CapturingSound ==
    /\ capturing \in TurnOrNone
    /\ capturing # NoTurn <=> Capturing(m.phase)

IInv ==
    /\ HostSound(host, renewed)
    /\ CapturingSound
    /\ QueueSound(toHost, host.active, capturing, renewed)

LEMMA InitInvariant == Init => IInv
  <1> SUFFICES ASSUME Init PROVE IInv
    OBVIOUS
  <1>1. HostSound(host, renewed)
    BY DEF Init, FreshController, HostSound, HostFields, TurnOrNone, NoTurn
  <1>2. CapturingSound
    <2>1. m.phase = Idle
      BY DEF Init, InitialState
    <2>2. QED
      BY <2>1 DEF Init, CapturingSound, Capturing, Idle, TurnOrNone
  <1>3. QueueSound(toHost, host.active, capturing, renewed)
    BY EmptySeq DEF Init, QueueSound, Matched, ToBe, Agrees, FreshController
  <1>4. QED
    BY <1>1, <1>2, <1>3 DEF IInv

LEMMA DirectiveTypes ==
    /\ \A t \in Turns : BeginDirective(t) \in TurnDirective
    /\ \A t \in Turns, r \in Reasons : EndDirective(t, r) \in TurnDirective
    /\ AbortDirective \in TurnDirective
    /\ ReopenDirective \in TurnDirective
  BY DEF TurnDirective

LEMMA DirectiveShape ==
    ASSUME NEW x \in TurnDirective
    PROVE  /\ x.kind \in {"begin", "end", "abort", "open"}
           /\ x.kind = "begin" => x.turn \in Turns
           /\ x.kind = "end" => x.turn \in Turns /\ x.reason \in Reasons
           /\ x.reason = "release" => x.kind = "end"
  BY DEF TurnDirective, BeginDirective, EndDirective, AbortDirective, ReopenDirective

LEMMA NextTurnIdType == NextTurnId \in Turns
  BY TurnAssumption DEF NextTurnId, Turns

\* Sending one directive.
LEMMA SendSound ==
    ASSUME NEW n, NEW q, NEW a, NEW c, QueueSound(q, a, c, n),
           NEW x \in TurnDirective, Follows(x, ToBe(q, a), n),
           n \/ x.kind # "open"
    PROVE  /\ QueueSound(q \o <<x>>, a, Opens(x), n)
           /\ ToBe(q \o <<x>>, a) = Opens(x)
  <1> DEFINE s == Append(q, x)
  <1>1. q \in Seq(TurnDirective) /\ Matched(q, a, n)
    BY DEF QueueSound
  <1>2. /\ s \in Seq(TurnDirective)
        /\ Matched(s, a, n)
        /\ ToBe(s, a) = Opens(x)
    BY <1>1, AppendMatched
  <1>3. q \o <<x>> = s
    BY <1>1, AppendIsConcat
  <1>4. /\ Len(s) = Len(q) + 1 /\ Len(q) \in Nat
        /\ \A i \in 1 .. Len(q) : s[i] = q[i]
        /\ s[Len(q) + 1] = x
    BY <1>1, AppendProperties
  <1> HIDE DEF s
  <1>5. ~n => \A i \in 1 .. Len(s) : s[i].kind # "open"
    BY <1>4 DEF QueueSound
  <1>6. QED
    BY <1>2, <1>3, <1>5 DEF QueueSound, Agrees
\* Main's step: whatever the reduction, if it is tame.
LEMMA DispatchKeeps ==
    ASSUME IInv, NEW d, Tame(m, d), Dispatch(d), UNCHANGED <<host, renewed>>
    PROVE  IInv'
  <1> DEFINE told == Subscriber(m.phase.kind, d.phase.kind)
             q == toHost \o Commanded(d)
             a == host.active
             aborts == "abort" \in d.fx
  <1>1. /\ m'.phase = d.phase
        /\ capturing' = told.turn
        /\ toHost' = q \o told.sent
        /\ host' = host /\ renewed' = renewed
    BY DEF Dispatch, Committed
  <1>2. /\ toHost \in Seq(TurnDirective)
        /\ QueueSound(toHost, a, capturing, renewed)
        /\ CapturingSound
    BY DEF IInv, QueueSound
  <1>3. aborts => QueueSound(q, a, NoTurn, renewed) /\ ToBe(q, a) = NoTurn
    <2> SUFFICES ASSUME aborts PROVE QueueSound(q, a, NoTurn, renewed) /\ ToBe(q, a) = NoTurn
      OBVIOUS
    <2>1. q = toHost \o <<AbortDirective>>
      BY DEF Commanded
    <2>2. /\ AbortDirective \in TurnDirective
          /\ AbortDirective.kind = "abort"
          /\ Opens(AbortDirective) = NoTurn
      BY DirectiveTypes DEF AbortDirective, Opens
    <2>3. Follows(AbortDirective, ToBe(toHost, a), renewed)
      BY <2>2 DEF Follows
    <2>4. QED
      BY <1>2, <2>1, <2>2, <2>3, SendSound
  <1>4. ~aborts => q = toHost
    BY <1>2 DEF Commanded
  <1>5. q \in Seq(TurnDirective) /\ (\E c \in {capturing, NoTurn} : QueueSound(q, a, c, renewed))
    BY <1>2, <1>3, <1>4 DEF QueueSound
  <1> HIDE DEF q, told
  <1>6. CASE ~Capturing(m.phase) /\ Capturing(d.phase)
    <2>1. told.turn = NextTurnId /\ told.sent = <<BeginDirective(NextTurnId)>>
      BY <1>6 DEF told, Subscriber, Capturing
    <2>2. /\ NextTurnId \in Turns
          /\ BeginDirective(NextTurnId) \in TurnDirective
          /\ BeginDirective(NextTurnId).kind = "begin"
          /\ Opens(BeginDirective(NextTurnId)) = NextTurnId
      BY NextTurnIdType, DirectiveTypes DEF BeginDirective, Opens
    <2>3. Follows(BeginDirective(NextTurnId), ToBe(q, a), renewed)
      BY <2>2 DEF Follows
    <2>4. QueueSound(toHost', a, capturing', renewed)
      BY <1>1, <1>5, <2>1, <2>2, <2>3, SendSound
    <2>5. capturing' \in TurnOrNone /\ capturing' # NoTurn
      BY <1>1, <2>1, <2>2 DEF TurnOrNone, NoTurn, Turns
    <2>6. QED
      BY <1>1, <1>6, <2>4, <2>5 DEF IInv, CapturingSound, Capturing, HostSound
  <1>7. CASE Capturing(m.phase) /\ ~Capturing(d.phase)
    <2> DEFINE reason == IF d.phase.kind = "processing" THEN "release" ELSE "cancel"
               x == EndDirective(capturing, reason)
    <2>1. capturing \in Turns
      BY <1>2, <1>7 DEF CapturingSound, TurnOrNone
    <2>2. told.turn = NoTurn /\ told.sent = <<x>>
      BY <1>2, <1>7 DEF told, Subscriber, Capturing, CapturingSound
    <2>3. /\ x \in TurnDirective
          /\ x.kind = "end" /\ x.turn = capturing /\ x.reason = reason
          /\ Opens(x) = NoTurn
      BY <2>1, DirectiveTypes DEF EndDirective, Opens, Reasons
    <2>4. reason = "release" => ~aborts
      BY DEF Tame
    <2> HIDE DEF x, reason
    <2>5. Follows(x, ToBe(q, a), renewed)
      <3>1. CASE aborts
        BY <1>3, <2>3, <2>4, <3>1 DEF Follows
      <3>2. CASE ~aborts
        BY <1>2, <1>4, <2>3, <3>2 DEF Follows, QueueSound, Agrees
      <3>3. QED
        BY <3>1, <3>2
    <2>6. QueueSound(toHost', a, capturing', renewed)
      BY <1>1, <1>5, <2>2, <2>3, <2>5, SendSound
    <2>7. capturing' = NoTurn
      BY <1>1, <2>2
    <2>8. QED
      BY <1>1, <1>7, <2>6, <2>7 DEF IInv, CapturingSound, Capturing, HostSound, TurnOrNone
  <1>8. CASE Capturing(m.phase) <=> Capturing(d.phase)
    <2>1. told.turn = capturing /\ told.sent = <<>>
      BY <1>8 DEF told, Subscriber, Capturing
    <2>2. toHost' = q
      BY <1>1, <1>5, <2>1
    <2>3. QueueSound(q, a, capturing, renewed)
      <3>1. CASE aborts
        <4>1. ~Capturing(m.phase)
          BY <1>8, <3>1 DEF Tame
        <4>2. capturing = NoTurn
          BY <1>2, <4>1 DEF CapturingSound
        <4>3. QED
          BY <1>3, <3>1, <4>2
      <3>2. CASE ~aborts
        BY <1>2, <1>4, <3>2
      <3>3. QED
        BY <3>1, <3>2
    <2>4. QED
      BY <1>1, <1>2, <1>8, <2>1, <2>2, <2>3 DEF IInv, CapturingSound, Capturing, HostSound
  <1>9. QED
    BY <1>6, <1>7, <1>8

-----------------------------------------------------------------------------
(* The controller's side.                                                  *)

LEMMA BeginTurnSound ==
    ASSUME NEW n, NEW c, HostSound(c, n), c.live, NEW t \in Turns
    PROVE  HostSound(BeginTurn(c, t).c, n) /\ BeginTurn(c, t).c.active = t
  <1>1. t # NoTurn /\ t \in TurnOrNone
    BY DEF Turns, NoTurn, TurnOrNone
  <1> DEFINE r == BeginTurn(c, t).c
  <1>2. r = [c EXCEPT !.active = t, !.gate = TRUE, !.sawAudio = FALSE]
    BY DEF BeginTurn, Call
  <1>3. DOMAIN r = HostFields
    BY <1>2 DEF HostSound
  <1>4. r.active = t /\ r.gate = TRUE
    BY <1>2 DEF HostSound, HostFields
  <1>5. r.live = c.live
    BY <1>2 DEF HostSound, HostFields
  <1> HIDE DEF r
  <1>6. HostSound(r, n)
    BY <1>1, <1>3, <1>4, <1>5 DEF HostSound
  <1>7. QED
    BY <1>4, <1>6 DEF r

LEMMA EndTurnSound ==
    ASSUME NEW n, NEW c, HostSound(c, n), NEW t, NEW r, c.active \in {t, NoTurn}
    PROVE  HostSound(EndTurn(c, t, r).c, n) /\ EndTurn(c, t, r).c.active = NoTurn
  BY DEF HostSound, HostFields, EndTurn, CloseGate, SendEvent, Call, TurnOrNone, NoTurn

LEMMA AbortSound ==
    ASSUME NEW n, NEW c, HostSound(c, n)
    PROVE  HostSound(Abort(c).c, n) /\ Abort(c).c.active = NoTurn
  BY DEF HostSound, HostFields, Abort, CloseGate, SendEvent, Call, TurnOrNone, NoTurn

\* What leaves the gate and the turn as they are.
Stays(c, d, n) == HostSound(d, n) /\ d.active = c.active

LEMMA CallSound ==
    ASSUME NEW n, NEW c, HostSound(c, n)
    PROVE  /\ Stays(c, Call(c).c, n)
           /\ Stays(c, Submit(c).c, n)
           /\ Stays(c, SubmitToolOutput(c).c, n)
           /\ Stays(c, FirstAudio(c).c, n)
  BY DEF Stays, HostSound, HostFields, Submit, SubmitToolOutput, FirstAudio,
         SendEvent, Call
\* The controller handles the directive at the head of the queue.
LEMMA HandledSound ==
    ASSUME NEW q, q # <<>>, NEW c, QueueSound(q, host.active, c, renewed), HostSound(host, renewed),
           Head(q).kind # "open"
    PROVE  /\ HostSound(Handled(Head(q)).c, renewed)
           /\ Agrees(Handled(Head(q)).c.active, Opens(Head(q)), renewed)
  <1> DEFINE x == Head(q)
             a == host.active
  <1>1. q \in Seq(TurnDirective) /\ Matched(q, a, renewed)
    BY DEF QueueSound
  <1>2. /\ x \in TurnDirective /\ x = q[1]
        /\ 1 \in 1 .. Len(q)
    BY <1>1, HeadTailProperties, EmptySeq
  <1>3. Follows(x, a, renewed)
    BY <1>1, <1>2 DEF Matched, Before
  <1>4. /\ x.kind \in {"begin", "end", "abort"}
        /\ x.kind = "begin" => x.turn \in Turns
    BY <1>2, DirectiveShape
  <1> HIDE DEF x
  <1>5. CASE ~host.live
    <2>1. Handled(x) = Call(host)
      BY <1>5 DEF Handled
    <2>2. HostSound(Call(host).c, renewed) /\ Call(host).c.active = a
      BY CallSound DEF Stays
    <2>3. a = NoTurn /\ renewed
      BY <1>5 DEF HostSound
    <2>4. QED
      BY <2>1, <2>2, <2>3 DEF Agrees, x
  <1>6. CASE host.live /\ x.kind = "begin"
    <2>1. Handled(x) = BeginTurn(host, x.turn)
      BY <1>6 DEF Handled
    <2>2. HostSound(BeginTurn(host, x.turn).c, renewed) /\ BeginTurn(host, x.turn).c.active = x.turn
      BY <1>4, <1>6, BeginTurnSound
    <2>3. QED
      BY <1>6, <2>1, <2>2 DEF Agrees, Opens, x
  <1>7. CASE host.live /\ x.kind = "end"
    <2>1. Handled(x) = EndTurn(host, x.turn, x.reason)
      BY <1>7 DEF Handled
    <2>2. host.active \in {x.turn, NoTurn}
      BY <1>3, <1>7 DEF Follows
    <2>3. /\ HostSound(EndTurn(host, x.turn, x.reason).c, renewed)
          /\ EndTurn(host, x.turn, x.reason).c.active = NoTurn
      BY <2>2, EndTurnSound
    <2>4. QED
      BY <1>7, <2>1, <2>3 DEF Agrees, Opens, x
  <1>8. CASE host.live /\ x.kind = "abort"
    <2>1. Handled(x) = Abort(host)
      BY <1>8 DEF Handled
    <2>2. HostSound(Abort(host).c, renewed) /\ Abort(host).c.active = NoTurn
      BY AbortSound
    <2>3. QED
      BY <1>8, <2>1, <2>2 DEF Agrees, Opens, x
  <1>9. QED
    BY <1>4, <1>5, <1>6, <1>7, <1>8

\* The queue gives up its head, whose turn b is then open.
LEMMA TailSound ==
    ASSUME NEW n, NEW q, q # <<>>, NEW a, NEW b, NEW c, QueueSound(q, a, c, n),
           Agrees(b, Opens(Head(q)), n)
    PROVE  QueueSound(Tail(q), b, c, n)
  <1>1. q \in Seq(TurnDirective) /\ Matched(q, a, n) /\ Agrees(ToBe(q, a), c, n)
    BY DEF QueueSound
  <1>2. /\ Tail(q) \in Seq(TurnDirective)
        /\ Matched(Tail(q), b, n)
        /\ Agrees(ToBe(Tail(q), b), ToBe(q, a), n)
    BY <1>1, TailMatched
  <1>3. /\ Len(Tail(q)) = Len(q) - 1 /\ Len(q) \in Nat
        /\ \A i \in 1 .. Len(Tail(q)) : Tail(q)[i] = q[i + 1]
    BY <1>1, HeadTailProperties
  <1>4. ~n => \A i \in 1 .. Len(Tail(q)) : Tail(q)[i].kind # "open"
    BY <1>3 DEF QueueSound
  <1>5. QED
    BY <1>1, <1>2, <1>4 DEF QueueSound, Agrees

\* What holds of a session holds of one that may have been replaced.
LEMMA RenewalWeakens ==
    ASSUME NEW n
    PROVE  /\ \A c : HostSound(c, n) => HostSound(c, TRUE)
           /\ \A q, a, c : QueueSound(q, a, c, n) => QueueSound(q, a, c, TRUE)
  BY DEF HostSound, QueueSound, Matched, Follows, Agrees

\* A step of the controller that handles no directive.
LEMMA StaysKeeps ==
    ASSUME IInv, Stays(host, host', renewed), UNCHANGED <<m, capturing, toHost, renewed>>
    PROVE  IInv'
  BY DEF IInv, Stays, CapturingSound, Capturing

LEMMA DispatchesAreTame ==
    ASSUME NEW d, DraftOf(m) = d
    PROVE  /\ \A event : Tame(m, OnTrigger(d, event))
           /\ \A muted \in BOOLEAN : Tame(m, OnMute(d, muted))
           /\ \A id \in {"listen-timeout", "error-dismiss"} : Tame(m, OnTimer(d, id))
           /\ \A event : Tame(m, OnCapture(d, event))
           /\ \A event : Tame(m, OnTurn(d, event))
           /\ \A f : Tame(m, RaiseFault(d, f))
  <1>1. Fresh(d) /\ d.phase = m.phase
    BY DraftFresh
  <1>2. \A r : Tame(d, r) => Tame(m, r)
    BY <1>1 DEF Tame
  <1>3. \A r : "abort" \notin r.fx => Tame(m, r)
    BY DEF Tame
  <1>4. QED
    BY <1>1, <1>2, <1>3, TriggerTame, MuteTame, TimerTame, CaptureTame, TurnTame,
       RaiseFaultTame

LEMMA NextInvariant == IInv /\ [Next]_vars => IInv'
  <1> SUFFICES ASSUME IInv, [Next]_vars PROVE IInv'
    OBVIOUS
  <1>1. ASSUME NEW event \in KeyEvents, Trigger(event) PROVE IInv'
    BY <1>1, DispatchesAreTame, DispatchKeeps DEF Trigger
  <1>2. ASSUME NEW muted \in Mutes, Mute(muted) PROVE IInv'
    BY <1>2, PipelineAssumption, DispatchesAreTame, DispatchKeeps DEF Mute
  <1>3. ASSUME NEW id \in {"listen-timeout", "error-dismiss"}, TimerFires(id) PROVE IInv'
    BY <1>3, DispatchesAreTame, DispatchKeeps DEF TimerFires
  <1>4. CASE Speak
    BY <1>4, CallSound, StaysKeeps DEF Speak, Performed, IInv
  <1>5. CASE Renew
    <2>1. toHost' = toHost \o <<ReopenDirective>>
      BY <1>5, AppendIsConcat DEF Renew, IInv, QueueSound, TurnDirective
    <2>2. /\ ReopenDirective \in TurnDirective
          /\ ReopenDirective.kind = "open"
          /\ Opens(ReopenDirective) = NoTurn
      BY DirectiveTypes DEF ReopenDirective, Opens
    <2>3. Follows(ReopenDirective, ToBe(toHost, host.active), TRUE)
      BY <2>2 DEF Follows
    <2>4. QueueSound(toHost, host.active, capturing, TRUE) /\ HostSound(host, TRUE)
      BY RenewalWeakens DEF IInv
    <2>5. /\ QueueSound(toHost', host.active, NoTurn, TRUE)
          /\ ToBe(toHost', host.active) = NoTurn
      <3> DEFINE x == ReopenDirective
      <3>1. /\ QueueSound(toHost \o <<x>>, host.active, Opens(x), TRUE)
            /\ ToBe(toHost \o <<x>>, host.active) = Opens(x)
        <4>1. x \in TurnDirective
          BY <2>2
        <4> HIDE DEF x
        <4>2. Follows(x, ToBe(toHost, host.active), TRUE)
          BY <2>3 DEF x
        <4>3. QED
          BY <4>1, <4>2, <2>4, SendSound, ZenonT(60)
      <3>2. QED
        BY <2>1, <2>2, <3>1
    <2>6. QueueSound(toHost', host.active, capturing, TRUE)
      BY <2>5 DEF QueueSound, Agrees
    <2>7. UNCHANGED <<m, capturing, host>> /\ renewed' = TRUE
      BY <1>5 DEF Renew
    <2>8. QED
      BY <2>4, <2>6, <2>7 DEF IInv, CapturingSound, Capturing
  <1>6. CASE SessionFault \/ ResponseEnds \/ ToolCalled \/ ResponseStarts
             \/ ResponseCancelled \/ BufferCleared \/ UNCHANGED vars
    <2>1. UNCHANGED <<m, capturing, toHost, host, renewed>>
      BY <1>6 DEF SessionFault, ResponseEnds, ToolCalled, ResponseStarts,
                  ResponseCancelled, BufferCleared, vars
    <2>2. QED
      BY <2>1 DEF IInv, CapturingSound, Capturing, HostSound
  <1>7. CASE Deliver
    <2>1. PICK d \in InputOf(Head(toMain)) : Dispatch(d)
      BY <1>7 DEF Deliver
    <2>2. Tame(m, d)
      BY <2>1, DispatchesAreTame DEF InputOf
    <2>3. QED
      BY <1>7, <2>1, <2>2, DispatchKeeps DEF Deliver
  <1>8. CASE HandleTurn
    <2>1. /\ toHost # <<>> /\ Head(toHost).kind # "open"
          /\ host' = Handled(Head(toHost)).c
          /\ toHost' = Tail(toHost)
          /\ UNCHANGED <<m, capturing, renewed>>
      BY <1>8 DEF HandleTurn, Performed
    <2>2. HostSound(host', renewed) /\ Agrees(host'.active, Opens(Head(toHost)), renewed)
      BY <2>1, HandledSound DEF IInv
    <2>3. QueueSound(toHost', host'.active, capturing', renewed)
      BY <2>1, <2>2, TailSound DEF IInv
    <2>4. QED
      BY <2>1, <2>2, <2>3 DEF IInv, CapturingSound, Capturing, HostSound
  <1>9. CASE HandleOpen
    <2>1. PICK opened \in BOOLEAN : host' = [FreshController EXCEPT !.live = opened]
      BY <1>9 DEF HandleOpen
    <2>2. /\ toHost # <<>> /\ Head(toHost).kind = "open"
          /\ toHost' = Tail(toHost)
          /\ UNCHANGED <<m, capturing, renewed>>
      BY <1>9 DEF HandleOpen
    <2>3. renewed
      <3>1. toHost \in Seq(TurnDirective) /\ 1 \in 1 .. Len(toHost)
            /\ Head(toHost) = toHost[1]
        BY <2>2, HeadTailProperties, EmptySeq DEF IInv, QueueSound
      <3>2. QED
        BY <2>2, <3>1 DEF IInv, QueueSound
    <2>4. HostSound(host', renewed) /\ host'.active = NoTurn
      BY <2>1, <2>3 DEF HostSound, HostFields, FreshController, TurnOrNone, NoTurn
    <2>5. Agrees(host'.active, Opens(Head(toHost)), renewed)
      BY <2>3, <2>4 DEF Agrees
    <2>6. QueueSound(toHost', host'.active, capturing', renewed)
      BY <2>2, <2>5, TailSound DEF IInv
    <2>7. QED
      BY <2>2, <2>4, <2>6 DEF IInv, CapturingSound, Capturing, HostSound
  <1>10. CASE GraceOver
    BY <1>10, CallSound, StaysKeeps DEF GraceOver, Performed, IInv
  <1>11. CASE ToolAnswers
    BY <1>11, CallSound, StaysKeeps DEF ToolAnswers, Performed, IInv
  <1>12. QED
    BY <1>1, <1>2, <1>3, <1>4, <1>5, <1>6, <1>7, <1>8, <1>9, <1>10, <1>11
       DEF Next, System
-----------------------------------------------------------------------------
(* The theorems.                                                           *)

\* The invariant holds in every reachable state.
THEOREM InvariantHolds == Spec => []IInv
  BY InitInvariant, NextInvariant, PTL DEF Spec

LEMMA GateToBeIsTurnToBe ==
    ASSUME IInv
    PROVE  /\ TurnToBe = ToBe(toHost, host.active)
           /\ GateToBe = (TurnToBe # NoTurn)
  <1>1. CASE toHost = <<>>
    BY <1>1 DEF IInv, HostSound, TurnToBe, GateToBe, ToBe
  <1>2. CASE toHost # <<>>
    <2>1. Last(toHost) = toHost[Len(toHost)] /\ Last(toHost) \in TurnDirective
      BY <1>2, EmptySeq DEF Last, IInv, QueueSound
    <2>2. Last(toHost).kind = "begin" => Last(toHost).turn # NoTurn
      BY <2>1, DirectiveShape DEF Turns, NoTurn
    <2>3. TurnToBe = Opens(Last(toHost)) /\ GateToBe = (Last(toHost).kind = "begin")
      BY <1>2 DEF TurnToBe, GateToBe, Opens
    <2>4. QED
      BY <1>2, <2>1, <2>2, <2>3 DEF ToBe, Opens
  <1>3. QED
    BY <1>1, <1>2

\* The microphone is open only behind a chip that shows it and, until the
\* session is replaced, for the very turn the shell is capturing.
THEOREM GateHolds == Spec => []GateFollowsChip
  <1>1. IInv => GateFollowsChip
    <2> SUFFICES ASSUME IInv PROVE GateFollowsChip
      OBVIOUS
    <2>1. /\ TurnToBe = ToBe(toHost, host.active)
          /\ GateToBe = (TurnToBe # NoTurn)
      BY GateToBeIsTurnToBe
    <2>2. Agrees(TurnToBe, capturing, renewed)
      BY <2>1 DEF IInv, QueueSound
    <2>3. (capturing # NoTurn) = Capturing(m.phase)
      BY DEF IInv, CapturingSound, Capturing
    <2>4. host.gate = (host.active # NoTurn)
      BY DEF IInv, HostSound
    <2>5. QED
      BY <2>1, <2>2, <2>3, <2>4 DEF GateFollowsChip, Agrees
  <1>2. QED
    BY <1>1, InvariantHolds, PTL

\* Until the session is replaced, a released turn finds the window
\* capturing that turn, so `endTurn' goes on to ask the question.
THEOREM QuestionHolds == Spec => []QuestionReachesTheModel
  <1>1. IInv => QuestionReachesTheModel
    <2> SUFFICES ASSUME IInv, ~renewed,
                        NEW i \in DOMAIN toHost, toHost[i].reason = "release"
                 PROVE  toHost[i].turn = TurnBefore(i)
      BY DEF QuestionReachesTheModel
    <2>1. i \in 1 .. Len(toHost) /\ toHost[i] \in TurnDirective
      BY DEF IInv, QueueSound
    <2>2. toHost[i].kind = "end"
      BY <2>1, DirectiveShape
    <2>3. Follows(toHost[i], Before(toHost, host.active, i), renewed)
      BY <2>1 DEF IInv, QueueSound, Matched
    <2>4. TurnBefore(i) = Before(toHost, host.active, i)
      BY DEF TurnBefore, Before, Opens
    <2>5. QED
      BY <2>2, <2>3, <2>4 DEF Follows
  <1>2. QED
    BY <1>1, InvariantHolds, PTL
=============================================================================
