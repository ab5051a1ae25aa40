-------------------------------- MODULE Vision --------------------------------
(***************************************************************************)
(* The vision sidecar: a handshake before any command, a loop that answers *)
(* lines and captures on a timer, a diagnosis drawn from runs of failed or *)
(* black passes, and the macOS backend, whose frames are cropped on a      *)
(* dispatch queue while the loop reads them.                               *)
(* (crates: riki-ipc, riki-vision, riki-capture)                           *)
(***************************************************************************)
EXTENDS Integers

CONSTANTS
    BlackStreak,    \* BLACK_STREAK_THRESHOLD
    MissingStreak,  \* MISSING_STREAK_THRESHOLD
    RegionLists     \* the region lists the app configures

ASSUME VisionAssumption ==
    /\ BlackStreak \in Nat \ {0}
    /\ MissingStreak \in Nat \ {0}
    /\ "none" \notin RegionLists

VARIABLES
    session,    \* established, config, capturing, acquired, and whether the process is up
    health,     \* CaptureHealth, and its news: the diagnosis of the last call
    backend,    \* is there a stream; the shared slot: regions, generation, latest, stopped
    flight,     \* the frame the delegate is cropping: the plan it took, or none
    stray,      \* a stream that a stop gave up on: does it deliver still, and its frame
    said        \* the last step's events: a reply, a problem, crops; the list asked for; and
                \* were the crops planned for a slot that has been reset since

visionVars == <<session, health, backend, flight, stray, said>>

Quiet == [reply |-> "none", problem |-> "none", crops |-> "none", asked |-> "none", late |-> FALSE]

Says(event) == said' = event

-----------------------------------------------------------------------------
(* Health *)

\* Once per streak: the outstanding kind is no news.
Report(h, kind) ==
    IF h.reported = kind THEN [h EXCEPT !.news = "none"]
    ELSE [h EXCEPT !.reported = kind, !.news = kind]

Acquired(h) == [h EXCEPT !.ever = TRUE, !.missing = 0, !.reported = "none", !.news = "none"]

\* A streak is not told apart beyond its threshold.
Longer(streak, threshold) == IF streak < threshold THEN streak + 1 ELSE streak

ObservePass(h, light) ==
    LET b == [h EXCEPT !.missing = 0, !.news = "none", !.black = Longer(@, BlackStreak)]
    IN  IF light THEN [h EXCEPT !.missing = 0, !.black = 0, !.reported = "none", !.news = "none"]
        ELSE IF b.black < BlackStreak THEN b ELSE Report(b, "PermissionDenied")

ObserveError(h, error) ==
    LET m == [h EXCEPT !.black = 0, !.missing = Longer(@, MissingStreak), !.news = "none"]
    IN  IF error # "WindowNotFound" THEN Report(h, error)
        ELSE IF m.missing < MissingStreak THEN m
        ELSE Report(m, IF m.ever THEN "ExclusiveFullscreen" ELSE "WindowNotFound")

-----------------------------------------------------------------------------
(* The macOS backend *)

NoFrame == [generation |-> -1, cut |-> "none", outlived |-> FALSE]

NoStream == [stream |-> FALSE, regions |-> "none", generation |-> 0, latest |-> NoFrame, stopped |-> "no"]

NoStray == [on |-> FALSE, frame |-> NoFrame]

\* The slot a frame was planned for is reset under it.
Outlives(frame) == IF frame = NoFrame THEN NoFrame ELSE [frame EXCEPT !.outlived = TRUE]

\* stop waits for the stream to have stopped, when no frame of it is under way, but not
\* for long: the slot is reset all the same, and a stream that did not answer delivers
\* into it still. Bound: one such stream at a time.
BackendStop(running) ==
    /\ flight' = NoFrame
    /\ \/ stray' = [stray EXCEPT !.frame = Outlives(@)]
       \/ /\ running
          /\ stray = NoStray
          /\ stray' = [on |-> TRUE, frame |-> Outlives(flight)]

\* acquire: the first frame is cropped for the empty list of a new slot.
FreshStream == [NoStream EXCEPT !.stream = TRUE, !.latest = [NoFrame EXCEPT !.generation = 0]]

\* crop_plan, on the dispatch queue.
Plan == [generation |-> backend.generation, cut |-> backend.regions, outlived |-> FALSE]

FrameArrives ==
    /\ session.up
    /\ backend.stream
    /\ flight = NoFrame
    /\ flight' = Plan
    /\ UNCHANGED <<session, health, backend, stray, said>>

\* publish, later.
FramePublished ==
    /\ flight # NoFrame
    /\ backend' = [backend EXCEPT !.latest = flight]
    /\ flight' = NoFrame
    /\ UNCHANGED <<session, health, stray, said>>

\* The delegate of a stream nobody holds any more, on its own queue.
StrayFrame ==
    /\ session.up
    /\ stray.on
    /\ stray.frame = NoFrame
    /\ stray' = [stray EXCEPT !.frame = Plan]
    /\ UNCHANGED <<session, health, backend, flight, said>>

StrayPublished ==
    /\ session.up
    /\ stray.frame # NoFrame
    /\ backend' = [backend EXCEPT !.latest = stray.frame]
    /\ stray' = [stray EXCEPT !.frame = NoFrame]
    /\ UNCHANGED <<session, health, flight, said>>

\* It stops at last, and may say so in a slot that is another's.
StrayStops ==
    /\ session.up
    /\ stray.on
    /\ \E why \in {backend.stopped, "WindowNotFound", "CaptureFailed"} :
          backend' = [backend EXCEPT !.stopped = why]
    /\ stray' = [stray EXCEPT !.on = FALSE]
    /\ UNCHANGED <<session, health, flight, said>>

\* didStopWithError, or a pixel format nobody asked for.
StreamStops ==
    /\ backend.stream
    /\ backend.stopped = "no"
    /\ \E why \in {"WindowNotFound", "CaptureFailed"} : backend' = [backend EXCEPT !.stopped = why]
    /\ UNCHANGED <<session, health, flight, stray, said>>

\* The slot after capture has compared the list with the one it crops for.
Planned(b, list) ==
    IF b.regions = list THEN b
    ELSE [b EXCEPT !.regions = list, !.generation = @ + 1, !.latest = NoFrame]

\* capture: crops for the current list, or an empty pass.
Crops(b) ==
    IF b.latest.generation = b.generation THEN b.latest.cut ELSE "none"

-----------------------------------------------------------------------------
(* The loop *)

\* What an attempt to acquire leaves of the streaks; what a pass does.
Sought(acquisition) ==
    IF acquisition = "ok" THEN Acquired(health) ELSE ObserveError(health, acquisition)
Passed(h, crops, light) ==
    IF crops = "none" THEN [h EXCEPT !.news = "none"] ELSE ObservePass(h, light)

\* A tick that captures: acquire if need be, then one pass.
Capture(acquisition, light, s) ==
    LET seeking == ~s.acquired
        found   == ~seeking \/ acquisition = "ok"
        b       == IF seeking THEN (IF found THEN FreshStream ELSE NoStream) ELSE backend
        h       == IF seeking THEN Sought(acquisition) ELSE health
        planned == Planned(b, s.config)
    IN  CASE ~found ->
                /\ backend' = b
                /\ health' = h
                /\ session' = s
                /\ BackendStop(TRUE)
                /\ Says([Quiet EXCEPT !.problem = h.news])
          [] found /\ b.stopped # "no" ->
                /\ backend' = NoStream
                /\ health' = ObserveError(h, b.stopped)
                /\ session' = [s EXCEPT !.acquired = FALSE]
                /\ BackendStop(TRUE)
                /\ Says([Quiet EXCEPT !.problem = health'.news])
          [] OTHER ->
                /\ backend' = planned
                /\ health' = Passed(h, Crops(planned), light)
                /\ session' = [s EXCEPT !.acquired = TRUE]
                /\ IF seeking THEN BackendStop(backend.stream) ELSE UNCHANGED <<flight, stray>>
                /\ Says([Quiet EXCEPT !.problem = health'.news, !.crops = Crops(planned),
                                      !.asked = s.config, !.late = planned.latest.outlived])

Acquisitions == {"ok", "WindowNotFound", "PermissionDenied", "CaptureFailed"}

\* The interval has passed: recv_timeout.
CaptureTick ==
    /\ session.up
    /\ session.capturing
    /\ \E acquisition \in Acquisitions, light \in BOOLEAN : Capture(acquisition, light, session)

\* A line that is not ours to execute: the process goes on.
Replies(reply) ==
    /\ Says([Quiet EXCEPT !.reply = reply])
    /\ UNCHANGED <<health, backend, flight, stray>>

\* Malformed
Garbage ==
    /\ session.up
    /\ Replies("MalformedMessage")
    /\ UNCHANGED session

Hello ==
    /\ session.up
    /\ Replies("ready")
    /\ session' = [session EXCEPT !.established = TRUE]

\* Mutant: a command is executed whoever sends it.
AnyExecute == session.up

Executes == session.up /\ session.established

\* HandshakeRequired
TooEarly ==
    /\ session.up
    /\ ~session.established
    /\ Replies("HandshakeRequired")
    /\ UNCHANGED session

\* The session with the platform is given up.
Released(s) ==
    /\ session' = s
    /\ backend' = NoStream
    /\ BackendStop(backend.stream)
    /\ UNCHANGED health
    /\ Says(Quiet)

Configure ==
    /\ Executes
    /\ \E list \in RegionLists :
        IF session.capturing THEN Released([session EXCEPT !.config = list, !.acquired = FALSE])
        ELSE /\ session' = [session EXCEPT !.config = list]
             /\ Replies("none")

\* StartCapture: without a configuration, a problem; with one, a pass at once.
StartCapture ==
    /\ Executes
    /\ IF session.config = "none"
       THEN Replies("CaptureFailed") /\ UNCHANGED session
       ELSE \E acquisition \in Acquisitions, light \in BOOLEAN :
                Capture(acquisition, light, [session EXCEPT !.capturing = TRUE, !.acquired = FALSE])

CaptureStop ==
    /\ Executes
    /\ Released([session EXCEPT !.capturing = FALSE, !.acquired = FALSE])

Exited == [session EXCEPT !.capturing = FALSE, !.acquired = FALSE, !.up = FALSE]

\* Shutdown, a version that is not ours, a closed stdin or a broken stdout.
Ends ==
    /\ session.up
    /\ Released(Exited)

-----------------------------------------------------------------------------

VisionInit ==
    /\ session = [up |-> TRUE, established |-> FALSE, config |-> "none", capturing |-> FALSE,
                  acquired |-> FALSE]
    /\ health = [black |-> 0, missing |-> 0, ever |-> FALSE, reported |-> "none", news |-> "none"]
    /\ backend = NoStream
    /\ flight = NoFrame
    /\ stray = NoStray
    /\ said = Quiet

VisionNext ==
    \/ FrameArrives \/ FramePublished \/ StreamStops
    \/ StrayFrame \/ StrayPublished \/ StrayStops \/ CaptureTick
    \/ Garbage \/ Hello \/ TooEarly \/ Configure \/ StartCapture \/ CaptureStop \/ Ends

-----------------------------------------------------------------------------
(* Properties *)

\* Nothing is captured for an app that did not introduce itself, nor by a process that
\* has left or was told to stop, but for a stream whose stop did not answer in time and
\* was given up on. (admit, execute, shutdown)
CapturesOnlyAsTold ==
    /\ session.capturing => session.established /\ session.config # "none" /\ session.up
    /\ backend.stream => session.capturing

\* Crops are reported under the region list they were cut for, however a frame is delayed
\* on its queue; only a frame that a stop did not wait for, and that was planned before
\* that stop reset the slot and its generation, may pass for another list's.
\* (crop_plan, publish, capture, stop)
CropsFitTheirRegions == said.crops # "none" => said.crops = said.asked \/ said.late
===============================================================================
