---------------------------- MODULE TurnController ----------------------------
(***************************************************************************)
(* The turn controller of the voice window: the microphone's gate, the     *)
(* turn it is open for, and when the model is asked to answer.             *)
(* (packages/realtime/src/turn.ts, renderer/voice/host.ts)                 *)
(*                                                                         *)
(* Operators take the controller's state and return it changed.  `sent'    *)
(* collects the client events one call puts on the wire and `emitted' the  *)
(* voice events it reports, in order.                                      *)
(***************************************************************************)
EXTENDS Integers, Sequences

CONSTANT MaxTurns       \* turn ids; an id is used again once nothing holds it

ASSUME TurnAssumption == MaxTurns \in Nat \ {0}

Turns == 1 .. MaxTurns

NoTurn == 0

TurnOrNone == Turns \cup {NoTurn}

\* TurnEndReason, less `timeout' and `latch-tap', which nothing sends.
Reasons == {"release", "cancel"}

BeginDirective(turn) == [kind |-> "begin", turn |-> turn, reason |-> "none"]
EndDirective(turn, reason) == [kind |-> "end", turn |-> turn, reason |-> reason]
AbortDirective == [kind |-> "abort", turn |-> NoTurn, reason |-> "none"]
ReopenDirective == [kind |-> "open", turn |-> NoTurn, reason |-> "none"]

TurnDirective ==
    {BeginDirective(t) : t \in Turns}
    \cup {EndDirective(t, r) : t \in Turns, r \in Reasons}
    \cup {AbortDirective, ReopenDirective}

\* What the session is sent: the snapshot item travels with its `create'.
ClientEvents == {"create", "cancel", "clear"}

VoiceEvents == {"firstAudio", "closed", "submitted",
                "responseStarted", "responseEnded", "fault"}

FreshController ==
    [live      |-> TRUE,        \* is there a session to act on?
     gate      |-> FALSE,       \* CaptureGraph.isOpen
     sawAudio  |-> FALSE,       \* the first frame of this gesture was reported
     active    |-> NoTurn,      \* the turn the gate was opened for
     ending    |-> NoTurn,      \* the turn whose endTurn awaits speech_stopped
     cancelled |-> FALSE,       \* the response in flight has been called off
     buffered  |-> FALSE]       \* speech the model was neither asked about nor told to drop

ControllerState ==
    [live : BOOLEAN, gate : BOOLEAN, sawAudio : BOOLEAN, active : TurnOrNone,
     ending : TurnOrNone, cancelled : BOOLEAN, buffered : BOOLEAN]

Call(c) == [c |-> c, sent |-> <<>>, emitted |-> <<>>]

\* The gate's wrapper reports a close whether or not the gate was open.
CloseGate(d) == [d EXCEPT !.c.gate = FALSE,
                          !.emitted = Append(@, "closed")]

SendEvent(d, event) ==
    [d EXCEPT !.sent = Append(@, event),
              !.c.buffered = @ /\ event \notin {"create", "clear"}]

\* `opened' is reported too; the machine ignores it, and it is left out.
BeginTurn(c, turn) ==
    Call([c EXCEPT !.active = turn, !.gate = TRUE, !.sawAudio = FALSE])

\* Mutant: the gate is left to the turn it was opened for.
EndTurnKeepingGate(c, turn, reason) ==
    LET over == [Call(c) EXCEPT !.c.active = NoTurn]
    IN IF c.active # turn THEN Call(c)
       ELSE IF reason = "cancel"
       THEN SendEvent([over EXCEPT !.c.cancelled = TRUE], "clear")
       ELSE [over EXCEPT !.c.ending = turn]

\* The gate closes first; a turn that is not the active one goes no further.
EndTurn(c, turn, reason) ==
    LET shut == CloseGate(Call(c))
        over == [shut EXCEPT !.c.active = NoTurn]
    IN IF c.active # turn THEN shut
       ELSE IF reason = "cancel"
       THEN SendEvent([over EXCEPT !.c.cancelled = TRUE], "clear")
       ELSE [over EXCEPT !.c.ending = turn]

\* Mutant: the answer is never asked for.
SubmitSilently(c) ==
    LET asked == Call([c EXCEPT !.cancelled = FALSE, !.ending = NoTurn])
    IN [asked EXCEPT !.emitted = Append(@, "submitted")]

\* endTurn resumes: speech_stopped came, or the commit grace ran out.
Submit(c) ==
    LET asked == SendEvent(Call([c EXCEPT !.cancelled = FALSE, !.ending = NoTurn]),
                           "create")
    IN [asked EXCEPT !.emitted = Append(@, "submitted")]

Abort(c) ==
    LET off == SendEvent(Call([c EXCEPT !.cancelled = TRUE, !.active = NoTurn]), "cancel")
    IN IF c.gate THEN CloseGate(off) ELSE off

\* The output is sent either way; only the continuation is suppressed.
SubmitToolOutput(c) == IF c.cancelled THEN Call(c) ELSE SendEvent(Call(c), "create")

\* The first non-silent frame after the gate opened.
FirstAudio(c) ==
    [Call([c EXCEPT !.sawAudio = TRUE, !.buffered = TRUE]) EXCEPT
        !.emitted = Append(@, "firstAudio")]
=============================================================================
