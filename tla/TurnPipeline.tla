----------------------------- MODULE TurnPipeline -----------------------------
(***************************************************************************)
(* A question from the key press to the spoken answer: the interaction     *)
(* machine, the shell's subscriber that turns its phases into directives,  *)
(* the voice window's serial queue and turn controller, the Realtime       *)
(* server, and the events on their way back.                               *)
(* (main/shell/index.ts, main/adapters/voice.ts, renderer/voice/host.ts)   *)
(*                                                                         *)
(* Three channels, each in order and none lost: directives to the window,  *)
(* client events to the server, voice events to main.  A voice event       *)
(* carries no turn: adapters/voice.ts drops the id it was sent with.       *)
(***************************************************************************)
EXTENDS InteractionMachine, TurnController, SequencesExt

CONSTANTS
    KeyEvents,          \* the trigger events the bound key can produce
    Mutes,              \* the mute commands that may be given
    Tools,              \* BOOLEAN: does the model have tools to call?
    Renewals,           \* BOOLEAN: may the session be replaced?
    MaxDirectives,      \* nothing new starts while more directives are queued,
    MaxEvents,          \* more voice events are in flight
    MaxWire             \* or more client events are

ASSUME PipelineAssumption ==
    /\ KeyEvents \subseteq {"down", "up", "tap", "cancel"}
    /\ Mutes \subseteq BOOLEAN
    /\ Tools \in BOOLEAN
    /\ Renewals \in BOOLEAN
    /\ MaxDirectives \in Nat /\ MaxEvents \in Nat /\ MaxWire \in Nat

VARIABLES
    m,          \* MachineState, as SessionRuntime keeps it
    capturing,  \* the shell's: the turn whose capture is under way
    toHost,     \* directives the voice window has not handled
    host,       \* the turn controller
    wire,       \* client events the server has not seen
    answering,  \* the server: a response is in progress
    calling,    \* a tool call of a response has not been answered
    toMain,     \* voice events main has not seen
    renewed     \* observer: the session has been replaced

vars == <<m, capturing, toHost, host, wire, answering, calling, toMain, renewed>>

Capturing(phase) == phase.kind \in {"armed", "listening"}

Init ==
    /\ m \in {InitialState(e) : e \in Environments}
    /\ capturing = NoTurn
    /\ toHost = <<>>
    /\ host = FreshController
    /\ wire = <<>>
    /\ answering = FALSE
    /\ calling = FALSE
    /\ toMain = <<>>
    /\ renewed = FALSE

(***************************************************************************)
(* Main: one dispatch, and the directives it causes.  The machine's own    *)
(* commands are sent while its effects are performed, and the subscriber   *)
(* runs after them.  Of the commands the shell forwards only `abort'.      *)
(***************************************************************************)
\* A new id: one that nothing holds, as long as MaxTurns leaves one.
NextTurnId ==
    LET held == {capturing, host.active, host.ending}
                \cup {toHost[i].turn : i \in DOMAIN toHost}
    IN IF Turns \subseteq held THEN MaxTurns ELSE CHOOSE t \in Turns : t \notin held

Commanded(d) == IF "abort" \in d.fx THEN <<AbortDirective>> ELSE <<>>

\* Entering a capture phase from outside begins a turn, leaving ends it.
Subscriber(was, is) ==
    LET captures == {"armed", "listening"}
    IN CASE was \notin captures /\ is \in captures ->
                [turn |-> NextTurnId, sent |-> <<BeginDirective(NextTurnId)>>]
         [] was \in captures /\ is \notin captures /\ capturing # NoTurn ->
                [turn |-> NoTurn,
                 sent |-> <<EndDirective(capturing, IF is = "processing"
                                                    THEN "release" ELSE "cancel")>>]
         [] OTHER -> [turn |-> capturing, sent |-> <<>>]

\* Mutant: the subscriber runs before the effects are performed.
DispatchSubscriberFirst(d) ==
    LET told == Subscriber(m.phase.kind, d.phase.kind)
    IN /\ m' = Committed(d)
       /\ capturing' = told.turn
       /\ toHost' = toHost \o told.sent \o Commanded(d)

Dispatch(d) ==
    LET told == Subscriber(m.phase.kind, d.phase.kind)
    IN /\ m' = Committed(d)
       /\ capturing' = told.turn
       /\ toHost' = toHost \o Commanded(d) \o told.sent

\* What starts something waits while the channels hold more than their bounds;
\* what the program does about it never waits.
Settled ==
    /\ Len(toHost) <= MaxDirectives
    /\ Len(toMain) <= MaxEvents
    /\ Len(wire) <= MaxWire

Trigger(event) ==
    /\ Settled
    /\ Dispatch(OnTrigger(DraftOf(m), event))
    /\ UNCHANGED <<host, wire, answering, calling, toMain, renewed>>

Mute(muted) ==
    /\ Settled
    /\ Dispatch(OnMute(DraftOf(m), muted))
    /\ UNCHANGED <<host, wire, answering, calling, toMain, renewed>>

\* Any of these may run out at any moment the timer is pending.
TimerFires(id) ==
    /\ m.pending[id] # Off
    /\ Dispatch(OnTimer(DraftOf(m), id))
    /\ UNCHANGED <<host, wire, answering, calling, toMain, renewed>>

InputOf(event) ==
    CASE event \in {"firstAudio", "closed"} -> {OnCapture(DraftOf(m), event)}
      [] event = "fault" -> {RaiseFault(DraftOf(m), f) : f \in Faults}
      [] OTHER -> {OnTurn(DraftOf(m), event)}

Deliver ==
    /\ toMain # <<>>
    /\ \E d \in InputOf(Head(toMain)) : Dispatch(d)
    /\ toMain' = Tail(toMain)
    /\ UNCHANGED <<host, wire, answering, calling, renewed>>

\* Main renews the session by sending `voice.session.open' again.
Renew ==
    /\ Renewals /\ Settled
    /\ ReopenDirective \notin Range(toHost)
    /\ renewed' = TRUE
    /\ toHost' = Append(toHost, ReopenDirective)
    /\ UNCHANGED <<m, capturing, host, wire, answering, calling, toMain>>

(***************************************************************************)
(* The voice window.                                                       *)
(***************************************************************************)
Performed(d) ==
    /\ host' = d.c
    /\ wire' = wire \o d.sent
    /\ toMain' = toMain \o d.emitted

Handled(directive) ==
    IF ~host.live THEN Call(host)
    ELSE CASE directive.kind = "begin" -> BeginTurn(host, directive.turn)
           [] directive.kind = "end" -> EndTurn(host, directive.turn, directive.reason)
           [] directive.kind = "abort" -> Abort(host)

\* One directive at a time: none is taken while an endTurn is awaited.
HandleTurn ==
    /\ host.ending = NoTurn /\ toHost # <<>>
    /\ Head(toHost).kind # "open"
    /\ Performed(Handled(Head(toHost)))
    /\ toHost' = Tail(toHost)
    /\ UNCHANGED <<m, capturing, answering, calling, renewed>>

\* The old session goes with its gate, its turn and its calls, and says nothing
\* of them; opening the new one may fail, which leaves none.
HandleOpen ==
    /\ host.ending = NoTurn /\ toHost # <<>> /\ Head(toHost).kind = "open"
    /\ \E opened \in BOOLEAN : host' = [FreshController EXCEPT !.live = opened]
    /\ toHost' = Tail(toHost)
    /\ wire' = <<>> /\ answering' = FALSE /\ calling' = FALSE
    /\ UNCHANGED <<m, capturing, toMain, renewed>>

GraceOver ==
    /\ host.ending # NoTurn
    /\ Performed(Submit(host))
    /\ UNCHANGED <<m, capturing, toHost, answering, calling, renewed>>

Speak ==
    /\ host.gate /\ ~host.sawAudio
    /\ Performed(FirstAudio(host))
    /\ UNCHANGED <<m, capturing, toHost, answering, calling, renewed>>

ToolAnswers ==
    /\ calling
    /\ calling' = FALSE
    /\ Performed(SubmitToolOutput(host))
    /\ UNCHANGED <<m, capturing, toHost, answering, renewed>>

SessionFault ==
    /\ Settled /\ host.live /\ Faults # {}
    /\ toMain' = Append(toMain, "fault")
    /\ UNCHANGED <<m, capturing, toHost, host, wire, answering, calling, renewed>>

(***************************************************************************)
(* The Realtime server, which is outside the program: it handles client    *)
(* events in order and has one response in progress at a time.  What it    *)
(* says of a response the session reports on as it arrives.                *)
(***************************************************************************)
ResponseStarts ==
    /\ wire # <<>> /\ Head(wire) = "create" /\ ~answering
    /\ answering' = TRUE
    /\ wire' = Tail(wire)
    /\ toMain' = Append(toMain, "responseStarted")
    /\ UNCHANGED <<m, capturing, toHost, host, calling, renewed>>

\* The answer is complete, or speech has interrupted it.
ResponseEnds ==
    /\ answering
    /\ answering' = FALSE
    /\ toMain' = Append(toMain, "responseEnded")
    /\ UNCHANGED <<m, capturing, toHost, host, wire, calling, renewed>>

ResponseCancelled ==
    /\ wire # <<>> /\ Head(wire) = "cancel"
    /\ wire' = Tail(wire)
    /\ answering' = FALSE
    /\ toMain' = IF answering THEN Append(toMain, "responseEnded") ELSE toMain
    /\ UNCHANGED <<m, capturing, toHost, host, calling, renewed>>

BufferCleared ==
    /\ wire # <<>> /\ Head(wire) = "clear"
    /\ wire' = Tail(wire)
    /\ UNCHANGED <<m, capturing, toHost, host, answering, calling, toMain, renewed>>

ToolCalled ==
    /\ Tools /\ Settled /\ answering /\ ~calling
    /\ calling' = TRUE
    /\ UNCHANGED <<m, capturing, toHost, host, wire, answering, toMain, renewed>>

System ==
    \/ Deliver
    \/ HandleTurn
    \/ HandleOpen
    \/ GraceOver
    \/ ToolAnswers
    \/ ResponseStarts
    \/ ResponseCancelled
    \/ BufferCleared

Next ==
    \/ \E event \in KeyEvents : Trigger(event)
    \/ \E muted \in Mutes : Mute(muted)
    \/ \E id \in {"listen-timeout", "error-dismiss"} : TimerFires(id)
    \/ Speak
    \/ Renew
    \/ SessionFault
    \/ ResponseEnds
    \/ ToolCalled
    \/ System

Spec == Init /\ [][Next]_vars

\* Messages arrive, the grace runs out, answers end, and a timer that stays
\* pending fires; the player and the model owe nothing.
Fairness ==
    /\ WF_vars(Deliver)
    /\ WF_vars(HandleTurn)
    /\ WF_vars(HandleOpen)
    /\ WF_vars(GraceOver)
    /\ WF_vars(ResponseStarts)
    /\ WF_vars(ResponseCancelled)
    /\ WF_vars(BufferCleared)
    /\ WF_vars(ResponseEnds)
    /\ WF_vars(ToolAnswers)
    /\ WF_vars(TimerFires("listen-timeout"))

FairSpec == Spec /\ Fairness

-----------------------------------------------------------------------------

\* The turn the window will have open once it has handled what is queued.
TurnToBe ==
    IF toHost = <<>> THEN host.active
    ELSE IF Last(toHost).kind = "begin" THEN Last(toHost).turn ELSE NoTurn

GateToBe == IF toHost = <<>> THEN host.gate ELSE Last(toHost).kind = "begin"

\* The microphone is never left open behind a chip that does not show it, and
\* until the session is replaced a chip that shows it is believed: whatever is still
\* queued, the window ends up open exactly for the turn the machine captures.
GateFollowsChip ==
    /\ GateToBe => Capturing(m.phase)
    /\ ~renewed => /\ GateToBe = Capturing(m.phase)
                    /\ TurnToBe = capturing
                    /\ host.gate = (host.active # NoTurn)

\* The turn the window will have open when it comes to the i-th directive.
TurnBefore(i) ==
    IF i = 1 THEN host.active
    ELSE IF toHost[i - 1].kind = "begin" THEN toHost[i - 1].turn ELSE NoTurn

\* A turn that is released is the one the window has open when the release is
\* handled, so `endTurn' never returns early on a question: nothing that ends a
\* capture overtakes the release, and no second press slips in between.
QuestionReachesTheModel ==
    ~renewed => \A i \in DOMAIN toHost :
        toHost[i].reason = "release" => toHost[i].turn = TurnBefore(i)

\* Nothing is on its way anywhere.
Quiet ==
    /\ toHost = <<>> /\ wire = <<>> /\ toMain = <<>>
    /\ host.ending = NoTurn

\* Processing is left: the question reaches the model and the answer begins, or
\* the interaction is called off.  The machine sets no bound of its own on it.
ProcessingEnds ==
    \/ <>renewed
    \/ m.phase.kind = "processing" ~> m.phase.kind # "processing"

\* An open gate is shut in the end, whatever the player does or forgets to do.
MicCloses == host.gate ~> ~host.gate

\* A cancelled gesture is forgotten: with the gate shut and nothing queued, no
\* speech is left in the session that it was neither asked about nor told to
\* drop (agent/index.ts).
CancelledIsForgotten ==
    toHost = <<>> /\ host.ending = NoTurn /\ ~host.gate => ~host.buffered
=============================================================================
