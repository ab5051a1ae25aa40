-------------------------- MODULE InteractionMachine --------------------------
(***************************************************************************)
(* The interaction machine of Riki's main process: the pure reducer that   *)
(* decides what the overlay chip, the microphone and the speaker do next.  *)
(* (apps/desktop/src/main/session/machine.ts)                              *)
(*                                                                         *)
(* Every operator takes a draft, as the functions of the source do, and    *)
(* returns it changed.  A draft is a machine state plus `fx', the set of   *)
(* effects emitted so far.  A set is enough: no transition emits the same  *)
(* effect twice, and the one order the code imposes -- `commit' moves the  *)
(* window's show in front -- is the order SessionRuntime performs them in. *)
(*                                                                         *)
(* Time is kept as the program can observe it: a pending timer holds the   *)
(* delay it has left, and a timestamp (`silentSince', `startedAt') the     *)
(* time that has passed since, up to Horizon.                              *)
(***************************************************************************)
EXTENDS Integers

CONSTANTS
    Environments,   \* the settings snapshots that may be in force
    Faults,         \* the faults that sessions and devices report
    ElapsedHint,    \* Processing: delay before the elapsed counter
    CancelHint,     \* Processing: delay before the `Esc' hint
    ErrorDismiss,   \* Error: how long a transient fault stays up
    Horizon         \* ages are told apart up to here

FaultKinds == {"mic-denied", "no-input-device", "offline", "auth",
               "session-lost", "no-speech-detected"}

Fault == [kind : FaultKinds, persistent : BOOLEAN]

NoSpeech == [kind |-> "no-speech-detected", persistent |-> FALSE]

Delay == Nat \ {0}

ASSUME DelayAssumption ==
    /\ ElapsedHint \in Delay
    /\ CancelHint \in Delay
    /\ ErrorDismiss \in Delay
    /\ Horizon \in Delay

ASSUME InputAssumption ==
    /\ Environments # {}
    /\ Environments \subseteq [silenceNudge : Delay, listenTimeout : Delay]
    /\ Faults \subseteq Fault

ASSUME HorizonAssumption ==
    /\ Horizon >= ElapsedHint
    /\ Horizon >= CancelHint
    /\ \A e \in Environments : Horizon >= e.silenceNudge

(***************************************************************************)
(* The state.                                                              *)
(***************************************************************************)
Gestures == {"push", "latch"}

NotSilent == -1     \* silentSince === null
Off == -1           \* a timer that is not pending

Idle == [kind |-> "idle"]
Armed(gesture) == [kind |-> "armed", gesture |-> gesture]
Listening(gesture, silent) ==
    [kind |-> "listening", gesture |-> gesture, silent |-> silent]
Processing(running) == [kind |-> "processing", running |-> running]
Speaking == [kind |-> "speaking"]
Error(fault) == [kind |-> "error", fault |-> fault]

Age == 0 .. Horizon

Phases ==
    {Idle, Speaking}
    \cup {Armed(g) : g \in Gestures}
    \cup {Listening(g, a) : g \in Gestures, a \in Age \cup {NotSilent}}
    \cup {Processing(a) : a \in Age}
    \cup {Error(f) : f \in Faults \cup {NoSpeech}}

\* `hide-hold' belongs to the window controller; the machine ignores it.
TimerIds == {"silence-nudge", "listen-timeout", "elapsed-hint",
             "cancel-hint", "error-dismiss"}

Effects == {"show", "hide", "project", "levels-input", "levels-output",
            "levels-off", "capture-start", "capture-end", "error-cue",
            "duck-on", "duck-off", "interrupt", "abort"}

InitialState(env) ==
    [phase    |-> Idle,
     muted    |-> FALSE,
     latched  |-> FALSE,
     pending  |-> [t \in TimerIds |-> Off],
     reported |-> {},
     env      |-> env]

DraftOf(state) ==
    [phase    |-> state.phase,
     muted    |-> state.muted,
     latched  |-> state.latched,
     pending  |-> state.pending,
     reported |-> state.reported,
     env      |-> state.env,
     fx       |-> {}]

Committed(d) ==
    [phase    |-> d.phase,
     muted    |-> d.muted,
     latched  |-> d.latched,
     pending  |-> d.pending,
     reported |-> d.reported,
     env      |-> d.env]

(***************************************************************************)
(* Emitters and composite transitions.                                     *)
(***************************************************************************)
Emit(d, effects) == [d EXCEPT !.fx = @ \cup effects]

Schedule(d, id, delay) == [d EXCEPT !.pending[id] = delay]

Cancel(d, id) == [d EXCEPT !.pending[id] = Off]

\* Mutant: entering a phase leaves the timers of the last one running.
EnterKeepingTimers(d, next, keep) ==
    LET was == d.phase.kind = "speaking"
        is  == next.kind = "speaking"
    IN [d EXCEPT !.phase = next,
                 !.fx = @ \cup (IF was /\ ~is THEN {"duck-off"} ELSE {})
                          \cup (IF is /\ ~was THEN {"duck-on"} ELSE {})]

\* Entering a phase cancels every timer it does not keep; ducking follows
\* Speaking and nothing else.
Enter(d, next, keep) ==
    LET was == d.phase.kind = "speaking"
        is  == next.kind = "speaking"
    IN [d EXCEPT !.phase = next,
                 !.pending = [t \in TimerIds |-> IF t \in keep THEN d.pending[t]
                                                               ELSE Off],
                 !.fx = @ \cup (IF was /\ ~is THEN {"duck-off"} ELSE {})
                          \cup (IF is /\ ~was THEN {"duck-on"} ELSE {})]

\* Mutant: a capture that nothing bounds.
OpenCaptureUntimed(d, phase) ==
    Emit([Enter(d, phase, {}) EXCEPT !.latched = phase.gesture = "latch"],
         {"show", "levels-input", "capture-start", "project"})

\* Armed and Listening are entered alike: the microphone opens, and one
\* timer bounds how long it may stay open.
OpenCapture(d, phase) ==
    LET entered == [Enter(d, phase, {}) EXCEPT !.latched = phase.gesture = "latch"]
        timed == Schedule(entered, "listen-timeout", d.env.listenTimeout)
    IN Emit(timed, {"show", "levels-input", "capture-start", "project"})

BeginCapture(d, gesture) == OpenCapture(d, Armed(gesture))

ToListening(d, gesture) == OpenCapture(d, Listening(gesture, NotSilent))

ToProcessing(d) ==
    LET timed == Schedule(Schedule(Enter(d, Processing(0), {}),
                                   "elapsed-hint", ElapsedHint),
                          "cancel-hint", CancelHint)
    IN Emit(timed, {"levels-off", "project"})

\* Mutant: the muted dot is forgotten.
ToIdleHiding(d) ==
    Emit([Enter(d, Idle, {}) EXCEPT !.latched = FALSE],
         {"levels-off", "hide", "project"})

\* Muted leaves a static dot up: no pixel at all would look like a crash.
ToIdle(d) ==
    Emit([Enter(d, Idle, {}) EXCEPT !.latched = FALSE],
         {"levels-off", IF d.muted THEN "show" ELSE "hide", "project"})

BargeIn(d, gesture) == ToListening(Emit(d, {"interrupt"}), gesture)

IsActive(phase) == phase.kind \notin {"idle", "error"}

\* Persistent faults announce themselves once; a transient one every time.
RaiseFault(d, fault) ==
    LET announced ==
            [Emit(d, IF IsActive(d.phase) THEN {"abort"} ELSE {}) EXCEPT
                !.reported = IF fault.persistent THEN @ \cup {fault.kind} ELSE @]
        entered == [Enter(announced, Error(fault), {}) EXCEPT !.latched = FALSE]
        timed == IF fault.persistent
                 THEN entered
                 ELSE Schedule(entered, "error-dismiss", ErrorDismiss)
    IN IF fault.persistent /\ fault.kind \in d.reported
       THEN IF IsActive(d.phase) THEN ToIdle(d) ELSE d
       ELSE Emit(timed, {"levels-off", "error-cue", "show", "project"})

\* Mutant: Esc clears the chip and leaves the answer talking.
CancelInteractionQuietly(d) == IF d.phase.kind = "idle" THEN d ELSE ToIdle(d)

CancelInteraction(d) ==
    IF d.phase.kind = "idle" THEN d ELSE ToIdle(Emit(d, {"abort"}))

(***************************************************************************)
(* The reducer: one operator per kind of input.                            *)
(***************************************************************************)
EndsGesture(gesture, event) ==
    event = IF gesture = "push" THEN "up" ELSE "tap"

\* Muted suppresses every gesture that starts something; Esc ends things.
Suppressed(d, event) == d.muted /\ event # "cancel"

OnTrigger(d, event) ==
    LET starts == event \in {"down", "tap"}
        gesture == IF event = "tap" THEN "latch" ELSE "push"
    IN CASE Suppressed(d, event) -> d
         [] ~Suppressed(d, event) /\ event = "cancel" -> CancelInteraction(d)
         [] ~Suppressed(d, event) /\ event # "cancel" ->
              CASE d.phase.kind \in {"idle", "error"} /\ starts ->
                       BeginCapture(d, gesture)
                [] d.phase.kind = "processing" /\ starts ->
                       BeginCapture(Emit(d, {"abort"}), gesture)
                [] d.phase.kind = "speaking" /\ starts ->
                       BargeIn(d, gesture)
                [] d.phase.kind = "armed" /\ EndsGesture(d.phase.gesture, event) ->
                       ToIdle(Emit(d, {"capture-end"}))
                [] d.phase.kind = "listening" /\ EndsGesture(d.phase.gesture, event) ->
                       ToProcessing(Emit(d, {"capture-end"}))
                [] OTHER -> d

\* The listen timeout spans Armed and Listening: first audio keeps it.
OnCapture(d, event) ==
    CASE event = "firstAudio" /\ d.phase.kind = "armed" ->
             Emit(Enter([d EXCEPT !.reported = {}],
                        Listening(d.phase.gesture, NotSilent), {"listen-timeout"}),
                  {"project"})
      [] event = "closed" /\ d.phase.kind \in {"armed", "listening"} ->
             ToIdle(Emit(d, {"capture-end"}))
      [] OTHER -> d

\* Mutant: the end of a silence is not projected.
OnSpeechUnprojected(d, event) ==
    CASE event = "silence" /\ d.phase.kind = "listening"
                           /\ d.phase.silent = NotSilent ->
             Schedule([d EXCEPT !.phase.silent = 0],
                      "silence-nudge", d.env.silenceNudge)
      [] event = "resumed" /\ d.phase.kind = "listening" ->
             Cancel([d EXCEPT !.phase.silent = NotSilent], "silence-nudge")
      [] OTHER -> d

OnSpeech(d, event) ==
    CASE event = "silence" /\ d.phase.kind = "listening"
                           /\ d.phase.silent = NotSilent ->
             Schedule([d EXCEPT !.phase.silent = 0],
                      "silence-nudge", d.env.silenceNudge)
      [] event = "resumed" /\ d.phase.kind = "listening"
                           /\ d.phase.silent # NotSilent ->
             Emit(Cancel([d EXCEPT !.phase.silent = NotSilent], "silence-nudge"),
                  {"project"})
      [] OTHER -> d

OnTurn(d, event) ==
    CASE event = "submitted" /\ d.phase.kind = "listening" -> ToProcessing(d)
      [] event = "responseStarted" /\ d.phase.kind \notin {"idle", "speaking"} ->
             Emit(Enter([d EXCEPT !.reported = {}], Speaking, {}),
                  {"show", "levels-output", "project"})
      [] event = "responseEnded" /\ d.phase.kind = "speaking" ->
             IF d.latched /\ ~d.muted THEN ToListening(d, "latch") ELSE ToIdle(d)
      [] OTHER -> d

OnMute(d, muted) ==
    LET changed == [d EXCEPT !.muted = muted]
    IN CASE muted = d.muted -> d
         [] muted # d.muted /\ muted ->
              ToIdle(Emit(changed, IF d.phase.kind = "idle" THEN {} ELSE {"abort"}))
         [] muted # d.muted /\ ~muted ->
              Emit(changed, IF d.phase.kind = "idle" THEN {"project", "hide"} ELSE {})

OnSettings(d, env) == Emit([d EXCEPT !.env = env], {"project"})

\* Mutant: the error chip is dismissed when it should stay, and the reverse.
OnTimerInverted(d, id) ==
    LET fired == Cancel(d, id)
    IN CASE id = "listen-timeout" /\ d.phase.kind \in {"armed", "listening"} ->
                RaiseFault(fired, NoSpeech)
         [] id = "error-dismiss" /\ d.phase.kind = "error"
                                 /\ d.phase.fault.persistent ->
                ToIdle(fired)
         [] OTHER -> fired

\* The timer has fired: `forget' drops it from the list before anything else.
OnTimer(d, id) ==
    LET fired == Cancel(d, id)
    IN CASE id = "silence-nudge" /\ d.phase.kind = "listening"
                                 /\ d.phase.silent # NotSilent ->
                Emit(fired, {"project"})
         [] id = "listen-timeout" /\ d.phase.kind \in {"armed", "listening"} ->
                RaiseFault(fired, NoSpeech)
         [] id \in {"elapsed-hint", "cancel-hint"} /\ d.phase.kind = "processing" ->
                Emit(fired, {"project"})
         [] id = "error-dismiss" /\ d.phase.kind = "error"
                                 /\ ~d.phase.fault.persistent ->
                ToIdle(fired)
         [] OTHER -> fired

(***************************************************************************)
(* The projections.                                                        *)
(***************************************************************************)
ChipStateOf(s) ==
    IF s.phase.kind # "idle" THEN s.phase.kind
    ELSE IF s.muted THEN "muted" ELSE "hidden"

IsDimmed(s) ==
    /\ s.phase.kind = "listening"
    /\ s.phase.silent # NotSilent
    /\ s.phase.silent >= s.env.silenceNudge

RunningFor(s, delay) ==
    s.phase.kind = "processing" /\ s.phase.running >= delay

\* The view model, less what the tables of the source look up by chip state.
ProjectChip(s) ==
    [state   |-> ChipStateOf(s),
     latched |-> s.latched,
     dimmed  |-> IsDimmed(s),
     elapsed |-> RunningFor(s, ElapsedHint),
     cancel  |-> RunningFor(s, CancelHint)]

ProjectTray(s) ==
    CASE s.reported # {} -> "attention"
      [] s.reported = {} /\ s.muted -> "muted"
      [] s.reported = {} /\ ~s.muted ->
             IF s.phase.kind = "idle" THEN "idle" ELSE "active"
=============================================================================
