---------------------------- MODULE SessionRuntime ----------------------------
(***************************************************************************)
(* The session runtime: the one holder of the interaction machine's state, *)
(* its timers, and the sinks the reducer's effects leave through.          *)
(* (apps/desktop/src/main/session/runtime.ts)                              *)
(*                                                                         *)
(* A dispatch is one step: it reduces the input and performs every effect  *)
(* before it returns, and an input dispatched meanwhile waits in the queue *)
(* for its own step.  Inputs arrive from the key recogniser, the voice     *)
(* renderer, the tray and the clock in any order and at any moment: an     *)
(* event of an earlier turn may still be on its way when the next begins.  *)
(***************************************************************************)
EXTENDS InteractionMachine

VARIABLES
    m,          \* MachineState
    window,     \* the last call of OverlayWindowController.setVisible
    chip,       \* the last view model the overlay was sent
    tray,       \* the last glyph the tray was set to
    levels,     \* what the level pump was last told to forward
    ducked,     \* is the game's audio ducked
    cue,        \* the last capture earcon: has the player heard the mic close?
    voice       \* the commands the last dispatch sent to the voice session

sinks == <<window, chip, tray, levels, ducked, cue, voice>>
vars == <<m, sinks>>

Capturing(phase) == phase.kind \in {"armed", "listening"}

Init ==
    /\ m \in {InitialState(e) : e \in Environments}
    /\ window = "hidden"
    /\ chip = ProjectChip(m)
    /\ tray = ProjectTray(m)
    /\ levels = "off"
    /\ ducked = FALSE
    /\ cue = "closed"
    /\ voice = {}

(***************************************************************************)
(* One dispatch.  A hide is performed after a show, and a model is         *)
(* projected from the state the reduction ended in.                        *)
(***************************************************************************)
Dispatch(d) ==
    /\ m' = Committed(d)
    /\ window' = IF "hide" \in d.fx THEN "hidden"
                 ELSE IF "show" \in d.fx THEN "visible" ELSE window
    /\ chip' = IF "project" \in d.fx THEN ProjectChip(m') ELSE chip
    /\ tray' = IF "project" \in d.fx THEN ProjectTray(m') ELSE tray
    /\ levels' = IF "levels-off" \in d.fx THEN "off"
                 ELSE IF "levels-input" \in d.fx THEN "input"
                 ELSE IF "levels-output" \in d.fx THEN "output" ELSE levels
    /\ ducked' = IF "duck-on" \in d.fx THEN TRUE
                 ELSE IF "duck-off" \in d.fx THEN FALSE ELSE ducked
    /\ cue' = IF "capture-start" \in d.fx THEN "open"
              ELSE IF "capture-end" \in d.fx THEN "closed" ELSE cue
    /\ voice' = d.fx \cap {"interrupt", "abort"}

Trigger(event) == Dispatch(OnTrigger(DraftOf(m), event))

Capture(event) == Dispatch(OnCapture(DraftOf(m), event))

Speech(event) == Dispatch(OnSpeech(DraftOf(m), event))

Turn(event) == Dispatch(OnTurn(DraftOf(m), event))

RaisedFault(fault) == Dispatch(RaiseFault(DraftOf(m), fault))

Mute(muted) == Dispatch(OnMute(DraftOf(m), muted))

Settings(env) == Dispatch(OnSettings(DraftOf(m), env))

\* The clock never fires early; a busy event loop may make it fire late.
Fire(id) ==
    /\ m.pending[id] = 0
    /\ Dispatch(OnTimer(DraftOf(m), id))

Older(age) == IF age < Horizon THEN age + 1 ELSE age

Elapse(phase) ==
    CASE phase.kind = "listening" /\ phase.silent # NotSilent ->
             Listening(phase.gesture, Older(phase.silent))
      [] phase.kind = "processing" -> Processing(Older(phase.running))
      [] OTHER -> phase

Tick ==
    /\ m' = [m EXCEPT !.phase = Elapse(m.phase),
                      !.pending = [t \in TimerIds |->
                          IF m.pending[t] > 0 THEN m.pending[t] - 1
                                              ELSE m.pending[t]]]
    /\ UNCHANGED <<window, chip, tray, levels, ducked, cue>>
    /\ voice' = {}

Next ==
    \/ \E event \in {"down", "up", "tap", "cancel"} : Trigger(event)
    \/ \E event \in {"opened", "firstAudio", "closed"} : Capture(event)
    \/ \E event \in {"silence", "resumed"} : Speech(event)
    \/ \E event \in {"submitted", "responseStarted", "responseEnded"} : Turn(event)
    \/ \E fault \in Faults : RaisedFault(fault)
    \/ \E muted \in BOOLEAN : Mute(muted)
    \/ \E env \in Environments : Settings(env)
    \/ \E id \in TimerIds : Fire(id)
    \/ Tick

Spec == Init /\ [][Next]_vars

\* Time passes, and a timer that is due and stays due fires.
FairSpec ==
    /\ Spec
    /\ WF_vars(Tick)
    /\ \A id \in TimerIds : WF_vars(Fire(id))

-----------------------------------------------------------------------------
\* Every variable holds a value of its type.
TypeOK ==
    /\ m \in [phase    : Phases,
              muted    : BOOLEAN,
              latched  : BOOLEAN,
              pending  : [TimerIds -> Nat \cup {Off}],
              reported : SUBSET FaultKinds,
              env      : Environments]
    /\ window \in {"visible", "hidden"}
    /\ chip \in [state   : {"hidden", "muted", "armed", "listening",
                            "processing", "speaking", "error"},
                 latched : BOOLEAN,
                 dimmed  : BOOLEAN,
                 elapsed : BOOLEAN,
                 cancel  : BOOLEAN]
    /\ tray \in {"attention", "muted", "idle", "active"}
    /\ levels \in {"off", "input", "output"}
    /\ ducked \in BOOLEAN
    /\ cue \in {"open", "closed"}
    /\ voice \subseteq {"interrupt", "abort"}

Pending(id) == m.pending[id] # Off

TransientError == m.phase.kind = "error" /\ ~m.phase.fault.persistent

\* The timers that run are the timers of the phase: an open microphone and a
\* transient error always have the timer that ends them, and no timer of a
\* phase outlives it (`enter' cancels what it does not keep).
TimersMatchPhase ==
    /\ Pending("listen-timeout") <=> Capturing(m.phase)
    /\ Pending("error-dismiss") <=> TransientError
    /\ Pending("silence-nudge") => m.phase.kind = "listening" /\ m.phase.silent # NotSilent
    /\ Pending("elapsed-hint") \/ Pending("cancel-hint") => m.phase.kind = "processing"

\* The overlay window, the level pump and the ducking agree with the phase
\* whatever route led to it: pixels exactly when the chip is not hidden, levels
\* from the microphone or the speaker exactly while one of them is live, and
\* the game ducked exactly while Riki speaks.
SurfacesMatchPhase ==
    /\ window = "visible" <=> ChipStateOf(m) # "hidden"
    /\ levels = CASE Capturing(m.phase) -> "input"
                  [] m.phase = Speaking -> "output"
                  [] OTHER -> "off"
    /\ ducked <=> m.phase = Speaking

\* A fault that was reported and not disproved by audio or an answer leaves
\* the machine at rest, in Error, or in the retry that Armed is: nowhere else
\* may the deduplication of raiseFault drop a turn without aborting it.
ReportedOnlyAtRest ==
    m.reported # {} => m.phase.kind \in {"idle", "error", "armed"}

\* The chip on screen is the chip of the current state; what only time changes
\* is on screen once its timer has fired.
ChipIsCurrent ==
    /\ chip.state = ChipStateOf(m)
    /\ chip.latched = m.latched
    /\ chip.dimmed => IsDimmed(m)
    /\ IsDimmed(m) /\ ~Pending("silence-nudge") => chip.dimmed
    /\ RunningFor(m, ElapsedHint) /\ ~Pending("elapsed-hint") => chip.elapsed
    /\ RunningFor(m, CancelHint) /\ ~Pending("cancel-hint") => chip.cancel

\* A muted Riki does not open the microphone, nor keep it open, nor work on
\* what it heard ("you cannot be muted and listening").
MutedNeverCaptures ==
    m.muted => m.phase.kind \notin {"armed", "listening", "processing"}

\* A latch outlives phases but never the interaction, and a capture is latched
\* exactly when its gesture is.
LatchMatchesGesture ==
    /\ Capturing(m.phase) => (m.latched <=> m.phase.gesture = "latch")
    /\ m.phase.kind \in {"idle", "error"} => ~m.latched

\* Whatever is kept beside the phase agrees with it: the surfaces, the latch, the
\* mute and the faults that were reported. (machine.ts, runtime.ts)
PhaseIsKept ==
    /\ TypeOK
    /\ SurfacesMatchPhase
    /\ ReportedOnlyAtRest
    /\ MutedNeverCaptures
    /\ LatchMatchesGesture

\* No turn is left behind: an answer being worked on or spoken is abandoned
\* only with an abort or an interrupt to the voice session, unless it ended.
NoTurnLeftBehind ==
    [][(/\ m.phase.kind \in {"processing", "speaking"}
        /\ m'.phase.kind \notin {"processing", "speaking"})
       => voice' # {} \/ Turn("responseEnded")]_vars

\* The microphone never stays open: every capture ends, even if no event of
\* any turn ever arrives again.
CaptureEnds == Capturing(m.phase) ~> ~Capturing(m.phase)

\* A transient error clears itself, unless faults never cease to be raised.
TransientErrorClears ==
    \/ []<><<\E fault \in Faults : RaisedFault(fault)>>_vars
    \/ TransientError ~> ~TransientError
=============================================================================
