--------------------------------- MODULE Desk ---------------------------------
(***************************************************************************)
(* The surfaces of the desktop: the overlay window that main warms, shows  *)
(* and hides after a hold, the presenter that sends it models, the         *)
(* renderer that draws them and reports their paint, and the tray.  What   *)
(* the interaction machine does is reduced to the window, project and tray *)
(* effects of its steps (SessionRuntime has the rest).                     *)
(* (apps/desktop/src: main/overlay/, main/tray/, renderer/overlay/)        *)
(***************************************************************************)
EXTENDS Integers, Sequences, FiniteSets

CONSTANTS
    MaxRevision,    \* bound: models projected
    MutesBySpeech   \* does the player say "mute"?

ASSUME DeskAssumption ==
    /\ MaxRevision \in Nat
    /\ MutesBySpeech \in BOOLEAN

VARIABLES
    machine,    \* phase, muted, revision: what projectChip and projectTray read
    win,        \* "loading" or "ready"
    shown,      \* is the window mapped?
    wanted,     \* observer: the last window effect asked for it to be visible
    hold,       \* is a hide held back?
    lost,       \* observer: a show was undone by the end of the load
    awaited,    \* the presenter's shownAt: a paint is being timed
    cached,     \* the presenter's model
    toView,     \* commands on their way to the renderer
    toMain,     \* intents on their way to main
    view,       \* the renderer: mounted, the state and revision drawn
    paints,     \* revisions whose paint is two frames away
    tray        \* what the tray shows: its glyph and its mute checkbox

deskVars == <<machine, win, shown, wanted, hold, lost, awaited, cached, toView, toMain, view, paints, tray>>

Ready == [kind |-> "ready"]

None == [state |-> "none", revision |-> 0]

-----------------------------------------------------------------------------
(* Projections of the machine *)

ChipOf(m) ==
    IF m.phase # "idle" THEN m.phase ELSE IF m.muted THEN "muted" ELSE "hidden"

ModelOf(m) == [state |-> ChipOf(m), revision |-> m.revision]

GlyphOf(m) ==
    IF m.muted THEN "muted" ELSE IF m.phase = "idle" THEN "idle" ELSE "active"

-----------------------------------------------------------------------------
(* The window and the presenter *)

\* A message to a window that has no document yet is dropped.
Delivered(queue, command) == IF view.mounted THEN Append(queue, command) ELSE queue

\* project: the model is cached, whether or not anybody receives it.
Project(m) ==
    /\ cached' = ModelOf(m)
    /\ toView' = Delivered(toView, ModelOf(m))

\* Mutant: the hold of an earlier hide goes on.
KeepsHold ==
    /\ wanted' = TRUE
    /\ awaited' = (awaited \/ ~shown)
    /\ shown' = TRUE
    /\ lost' = FALSE
    /\ UNCHANGED hold

\* setVisible(true), showFast
Show ==
    /\ wanted' = TRUE
    /\ hold' = FALSE
    /\ lost' = FALSE
    /\ awaited' = (awaited \/ ~shown)
    /\ shown' = TRUE

\* setVisible(false, HIDE_HOLD_MS)
Hide ==
    /\ wanted' = FALSE
    /\ hold' = TRUE
    /\ lost' = FALSE
    /\ awaited' = FALSE
    /\ UNCHANGED shown

\* set, setMuted: the tray is drawn again from its model.
Tell(glyph, muted) == tray' = [glyph |-> glyph, muted |-> muted]

HoldExpires ==
    /\ hold
    /\ hold' = FALSE
    /\ shown' = FALSE
    /\ UNCHANGED <<machine, win, wanted, lost, awaited, cached, toView, toMain, view, paints, tray>>

\* The load of warm resolves, and the window is hidden whatever was asked of it:
\* showWhenWarm remembers a show that found no window, and there is one from
\* the first moment of the load on. A hide that is held back stays so.
Warmed ==
    /\ win = "loading"
    /\ view.mounted
    /\ win' = "ready"
    /\ shown' = FALSE
    /\ lost' = wanted
    /\ UNCHANGED <<machine, wanted, hold, awaited, cached, toView, toMain, view, paints, tray>>

-----------------------------------------------------------------------------
(* The steps of the machine that the surfaces see *)

\* The effects of a step: at most one of show and hide, then a model, then the tray.
Performs(m) ==
    LET next == [m EXCEPT !.revision = @ + 1]
    IN  /\ machine' = next
        /\ Project(next)
        /\ Tell(GlyphOf(next), tray.muted)

\* The trigger is only started when the window is warm.
Interactive == win = "ready" /\ machine.revision < MaxRevision

Begins ==
    /\ Interactive
    /\ ~machine.muted
    /\ machine.phase # "listening"
    /\ Show
    /\ Performs([machine EXCEPT !.phase = "listening"])
    /\ UNCHANGED <<win, toMain, view, paints>>

Faults ==
    /\ Interactive
    /\ machine.phase # "error"
    /\ Show
    /\ Performs([machine EXCEPT !.phase = "error"])
    /\ UNCHANGED <<win, toMain, view, paints>>

\* A second model of the same state: a hint, a nudge.
Updates ==
    /\ Interactive
    /\ machine.phase # "idle"
    /\ Performs(machine)
    /\ UNCHANGED <<win, shown, wanted, hold, lost, awaited, toMain, view, paints>>

Rests ==
    /\ Interactive
    /\ machine.phase # "idle"
    /\ IF machine.muted THEN Show ELSE Hide
    /\ Performs([machine EXCEPT !.phase = "idle"])
    /\ UNCHANGED <<win, toMain, view, paints>>

\* applyMute; checked is what the tray is told of it.
Mute(muted, checked) ==
    LET visible == muted \/ machine.phase = "idle"
        next == [phase |-> IF muted THEN "idle" ELSE machine.phase,
                 muted |-> muted,
                 revision |-> IF visible THEN machine.revision + 1 ELSE machine.revision]
    IN  /\ machine.muted # muted
        /\ machine.revision < MaxRevision
        /\ machine' = next
        /\ IF muted THEN Show
           ELSE IF visible THEN Hide
           ELSE UNCHANGED <<wanted, hold, lost, awaited, shown>>
        /\ IF visible THEN Project(next) ELSE UNCHANGED <<cached, toView>>
        /\ Tell(IF visible THEN GlyphOf(next) ELSE tray.glyph, checked)
        /\ UNCHANGED <<win, toMain, view, paints>>

\* The row of the menu toggles what the machine says, and is told what it is
\* now. The tray is there before the window is loaded.
ToggleMute == Mute(~machine.muted, ~machine.muted)

\* "mute" as a local command: the machine is told, the tray is not.
SpokenMute == MutesBySpeech /\ win = "ready" /\ Mute(TRUE, tray.muted)

-----------------------------------------------------------------------------
(* The intents of the renderer, as main handles them *)

\* Mutant: a renderer that announces itself is told nothing.
ReadyUnanswered ==
    /\ toMain # <<>>
    /\ Head(toMain).kind = "ready"
    /\ toMain' = Tail(toMain)
    /\ UNCHANGED <<machine, win, shown, wanted, hold, lost, awaited, cached, toView, view, paints, tray>>

\* The cached model, then the shell's own projection.
HandleReady ==
    /\ toMain # <<>>
    /\ Head(toMain).kind = "ready"
    /\ toMain' = Tail(toMain)
    /\ cached' = ModelOf(machine)
    /\ toView' = toView \o <<cached, ModelOf(machine)>>
    /\ UNCHANGED <<machine, win, shown, wanted, hold, lost, awaited, view, paints, tray>>

\* Mutant: only the paint of a later model counts.
PaintTooOld ==
    /\ toMain # <<>>
    /\ Head(toMain).kind = "paint"
    /\ toMain' = Tail(toMain)
    /\ awaited' = (awaited /\ ~(Head(toMain).revision > cached.revision))
    /\ UNCHANGED <<machine, win, shown, wanted, hold, lost, cached, toView, view, paints, tray>>

HandlePaint ==
    /\ toMain # <<>>
    /\ Head(toMain).kind = "paint"
    /\ toMain' = Tail(toMain)
    /\ awaited' = (awaited /\ ~(Head(toMain).revision >= cached.revision))
    /\ UNCHANGED <<machine, win, shown, wanted, hold, lost, cached, toView, view, paints, tray>>

-----------------------------------------------------------------------------
(* The renderer *)

\* The bridge is up and the app mounted.
Mounts ==
    /\ ~view.mounted
    /\ view' = [view EXCEPT !.mounted = TRUE]
    /\ toMain' = Append(toMain, Ready)
    /\ UNCHANGED <<machine, win, shown, wanted, hold, lost, awaited, cached, toView, paints, tray>>

\* render: the model is drawn, and its paint is to be reported.
HandleModel ==
    /\ toView # <<>>
    /\ toView' = Tail(toView)
    /\ view' = [view EXCEPT !.drawn = Head(toView)]
    /\ paints' = paints \cup {Head(toView).revision}
    /\ UNCHANGED <<machine, win, shown, wanted, hold, lost, awaited, cached, toMain, tray>>

\* Two nested frames later: the model has been painted.
ReportPaint ==
    /\ \E revision \in paints :
        /\ paints' = paints \ {revision}
        /\ toMain' = Append(toMain, [kind |-> "paint", revision |-> revision])
    /\ UNCHANGED <<machine, win, shown, wanted, hold, lost, awaited, cached, toView, view, tray>>

-----------------------------------------------------------------------------

FirstMachine == [phase |-> "idle", muted |-> FALSE, revision |-> 0]

\* The runtime projects once before anything happens.
Init ==
    /\ machine = FirstMachine
    /\ win = "loading"
    /\ shown = FALSE
    /\ wanted = FALSE
    /\ hold = FALSE
    /\ lost = FALSE
    /\ awaited = FALSE
    /\ cached = ModelOf(FirstMachine)
    /\ toView = <<>>
    /\ toMain = <<>>
    /\ view = [mounted |-> FALSE, drawn |-> None]
    /\ paints = {}
    /\ tray = [glyph |-> "idle", muted |-> FALSE]

Next ==
    \/ Warmed \/ HoldExpires
    \/ Begins \/ Faults \/ Updates \/ Rests \/ ToggleMute \/ SpokenMute
    \/ HandleReady \/ HandlePaint
    \/ Mounts \/ HandleModel \/ ReportPaint

\* The page loads, messages arrive, timers fire and frames are drawn.
Fairness ==
    /\ WF_deskVars(Mounts)
    /\ WF_deskVars(Warmed)
    /\ WF_deskVars(HoldExpires)
    /\ WF_deskVars(HandleReady)
    /\ WF_deskVars(HandlePaint)
    /\ WF_deskVars(HandleModel)
    /\ WF_deskVars(ReportPaint)

Spec == Init /\ [][Next]_deskVars /\ Fairness

-----------------------------------------------------------------------------
(* Properties *)

\* Once nothing is on its way, the chip that is drawn is the one the machine
\* is in, whatever was sent before there was anybody to draw it. (project, ready)
ChipIsDrawn ==
    view.mounted /\ toView = <<>> /\ (\A i \in DOMAIN toMain : toMain[i].kind # "ready") =>
        /\ view.drawn = cached
        /\ view.drawn.state = ChipOf(machine)

\* A window that was warmed is mapped when a chip is asked for and unmapped when
\* none is and the hold is over, whatever was shown and hidden while it loaded.
\* The exception is the show that the end of the load undid (`lost`), for as long
\* as nothing else is asked of the window. (warm, showFast, hide)
ShownAsAsked == win = "ready" /\ ~hold /\ ~lost => (shown <=> wanted)

\* Every show that is timed is answered by a paint, or taken back. (setVisible, reportPaint)
ShowIsPainted == awaited ~> ~awaited
===============================================================================
