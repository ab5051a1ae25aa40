------------------------------- MODULE DebugWindow -------------------------------
(***************************************************************************)
(* The inspector's window: opened, closed and remounted at any time, fed   *)
(* by a pump that re-arms itself, frozen by its reader, and with two       *)
(* scenarios it can start, one of which drives the app's own GSI server.   *)
(* (apps/desktop/src: main/debug/index.ts, actions.ts, scenarios.ts,       *)
(* electron-window.ts, renderer/debug/app.ts)                              *)
(***************************************************************************)
EXTENDS Integers, FiniteSets

CONSTANTS
    MaxRevision,    \* bound: the frames made
    WalkFrom,       \* WALK_FROM_SECONDS
    WalkTo,         \* WALK_TO_SECONDS
    StackTarget     \* TARGET_STACK_SECONDS

\* The walk starts before the horn and meets it; it steps over the stack.
ASSUME DebugWindowAssumption ==
    /\ MaxRevision \in Nat /\ WalkFrom \in Int /\ WalkTo \in Int /\ StackTarget \in Nat
    /\ \E k \in 0 .. -WalkFrom : WalkFrom = -2 - 2 * k
    /\ \E k \in 0 .. StackTarget : StackTarget = 5 + 2 * k

VARIABLES
    window,     \* the BrowserWindow: "none", "loading" or "shown"
    opening,    \* is an open() waiting for the window's document
    pump,       \* is the timer of the next frame armed; was the surface disposed; revision
    view,       \* the renderer: the latest frame, the one drawn, frozen, torn down
    scenario,   \* the scenarios in flight, the clock of the match one; the trace's run mark
    noted       \* the notes of the match scenario's script so far
windowVars == <<window, opening, pump, view, scenario, noted>>

Mounted == [latest |-> 0, drawn |-> 0, frozen |-> FALSE, torn |-> FALSE]
Rows == {"match", "speak"}

WindowInit ==
    /\ window = "none" /\ opening = FALSE
    /\ pump = [armed |-> FALSE, disposed |-> FALSE, revision |-> 0]
    /\ view = Mounted
    /\ scenario = [running |-> {}, clock |-> WalkFrom, mark |-> FALSE]
    /\ noted = {}

IsOpen == window # "none"

-----------------------------------------------------------------------------
(* Frames *)

\* apply: a frame that is not newer than the latest is dropped, and a frozen view keeps
\* what it shows.
Applied(v, revision) ==
    IF v.torn \/ revision <= v.latest THEN v
    ELSE [v EXCEPT !.latest = revision, !.drawn = IF v.frozen THEN @ ELSE revision]

\* sendFrame: to a document that is not there yet it is lost.
Sent(armed) ==
    /\ pump.revision < MaxRevision
    /\ pump' = [pump EXCEPT !.armed = armed, !.revision = IF IsOpen THEN @ + 1 ELSE @]
    /\ view' = IF window = "shown" THEN Applied(view, pump.revision + 1) ELSE view

\* The pump's timer fires, and is armed again.
Pumps ==
    /\ pump.armed
    /\ Sent(TRUE)
    /\ UNCHANGED <<window, opening, scenario, noted>>

-----------------------------------------------------------------------------
(* The window *)

\* Mutant: the window's end leaves the pump to itself.
PumpGoesOn == pump' = pump

\* onClosed: stopPump
PumpStops == pump' = [pump EXCEPT !.armed = FALSE]

\* open: of a window that is there already it only takes the focus, and the pump, which
\* the open before it may still be waiting to arm, is armed at once.
OpenInspector ==
    /\ ~pump.disposed
    /\ IF IsOpen
       THEN Sent(TRUE) /\ ~pump.armed /\ UNCHANGED <<window, opening>>
       ELSE /\ window' = "loading" /\ opening' = TRUE
            /\ view' = Mounted /\ UNCHANGED pump
    /\ UNCHANGED <<scenario, noted>>

\* The document has loaded, and the renderer in it says it is ready.
Loaded ==
    /\ window = "loading" /\ opening
    /\ window' = "shown" /\ opening' = FALSE
    /\ pump.revision < MaxRevision
    /\ pump' = [pump EXCEPT !.armed = TRUE, !.revision = @ + 1]
    /\ view' = Applied(Mounted, pump.revision + 1)
    /\ UNCHANGED <<scenario, noted>>

\* The reader closes it, during the load too: that open() rejects.
WindowCloses ==
    /\ IsOpen
    /\ window' = "none" /\ opening' = FALSE
    /\ PumpStops
    /\ UNCHANGED <<view, scenario, noted>>

\* The renderer crashes and mounts again, and is answered without waiting for the pump.
Remounts ==
    /\ window = "shown" /\ ~pump.disposed
    /\ pump.revision < MaxRevision
    /\ pump' = [pump EXCEPT !.revision = @ + 1]
    /\ view' = Applied(Mounted, pump.revision + 1)
    /\ UNCHANGED <<window, opening, scenario, noted>>

\* The Freeze button: draw shows the latest frame, also at the moment of freezing.
Freezes ==
    /\ window = "shown" /\ ~view.torn
    /\ view' = [view EXCEPT !.frozen = ~@, !.drawn = view.latest]
    /\ UNCHANGED <<window, opening, pump, scenario, noted>>

\* dispose: teardown is sent, and the window destroyed.
Dispose ==
    /\ ~pump.disposed
    /\ pump' = [pump EXCEPT !.armed = FALSE, !.disposed = TRUE]
    /\ view' = [view EXCEPT !.torn = window = "shown"]
    /\ window' = "none" /\ opening' = FALSE
    /\ UNCHANGED <<scenario, noted>>

-----------------------------------------------------------------------------
(* Scenarios *)

\* run: one at a time of each row; a seam that is unavailable refuses.
RunAction(id) ==
    /\ window = "shown" /\ id \notin scenario.running
    /\ \E available \in BOOLEAN :
          IF available
          THEN /\ scenario' = [scenario EXCEPT !.running = @ \cup {id}, !.mark = TRUE,
                                               !.clock = IF id = "match" THEN WalkFrom ELSE @]
               /\ noted' = IF id = "match" THEN {} ELSE noted
          ELSE UNCHANGED <<scenario, noted>>
    /\ UNCHANGED <<window, opening, pump, view>>

\* The notes of the frame at a clock: crossings, as an odd target is never met by even
\* steps, and one note to a frame.
Until(clock) == StackTarget - clock
NoteAt(clock) ==
    IF clock = WalkFrom THEN {"opens"}
    ELSE IF clock = 0 THEN {"horn"}
    ELSE IF "lead" \notin noted THEN IF Until(clock) \in 1 .. 12 THEN {"lead"} ELSE {}
    ELSE IF "threshold" \notin noted /\ Until(clock) \in 1 .. 5 THEN {"threshold"} ELSE {}

Ended(id) == [scenario EXCEPT !.running = @ \ {id}, !.mark = FALSE]

\* runMatchScenario: the next frame is posted, and anything but a 200 ends the run.
FramePosted ==
    /\ "match" \in scenario.running
    /\ \E ok \in BOOLEAN :
          IF ok /\ scenario.clock <= WalkTo
          THEN /\ scenario' = [scenario EXCEPT !.clock = @ + 2]
               /\ noted' = noted \cup NoteAt(scenario.clock)
          ELSE scenario' = Ended("match") /\ UNCHANGED noted
    /\ UNCHANGED <<window, opening, pump, view>>

\* speakNow has been handed over, or has failed.
Spoke ==
    /\ "speak" \in scenario.running
    /\ scenario' = Ended("speak")
    /\ UNCHANGED <<window, opening, pump, view, noted>>

WindowNext ==
    \/ Pumps \/ OpenInspector \/ Loaded \/ WindowCloses \/ Remounts \/ Freezes \/ Dispose
    \/ \E id \in Rows : RunAction(id)
    \/ FramePosted \/ Spoke

-----------------------------------------------------------------------------
\* A window that is shown is fed, none is fed that is not there, and what it shows is
\* never newer than what it got nor what main made; a trace is marked as a run's only while
\* one is in flight; and a match scenario that walked past the stack has noted all four of
\* its moments. (open, onClosed, apply, createDebugActions, stackWindowScript)
InspectorIsFed ==
    /\ pump.armed => IsOpen /\ ~pump.disposed
    /\ window = "shown" => pump.armed
    /\ view.drawn <= view.latest /\ view.latest <= pump.revision
    /\ scenario.running = {} => ~scenario.mark
    /\ "match" \in scenario.running /\ scenario.clock > StackTarget
          => noted = {"opens", "horn", "lead", "threshold"}
===============================================================================
