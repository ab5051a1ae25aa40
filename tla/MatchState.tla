------------------------------ MODULE MatchState ------------------------------
(***************************************************************************)
(* A match as Riki knows it: Dota 2 posts snapshots, the state subsystem   *)
(* turns their edges into resets and recordings before the observation     *)
(* itself is fused, and the shell follows the same edges.                  *)
(* (apps/desktop/src/main: state/index.ts, shell/index.ts;                 *)
(* packages/gsi/src/server.ts)                                             *)
(***************************************************************************)
EXTENDS MatchRecord

CONSTANTS
    Pausing,        \* does the player pause the game?
    Drops,          \* does the client lose its connection to the game?
    Detected,       \* the fields that detections are of
    Confidences,    \* confidences of detections
    MaxSightings,   \* bound: kills and detections
    MaxAge,         \* bound: how old a detection is when it arrives
    MaxTime,        \* bound: the clock of the process
    MaxRestarts     \* bound: how often the process dies or is started again

ASSUME StateAssumption ==
    /\ Pausing \in BOOLEAN
    /\ Drops \in BOOLEAN
    /\ Detected \subseteq {"alive", "position"}
    /\ Confidences \subseteq Nat
    /\ MaxSightings \in Nat
    /\ MaxAge \in Nat
    /\ MaxTime \in Nat
    /\ MaxRestarts \in Nat

VARIABLES
    game,       \* what Dota 2 would post
    unposted,   \* has the game or the time moved since it last did?
    now,        \* performance.now(), which a restart sets back
    phase,      \* of the state subsystem: "running" or "stopped"
    restarts,   \* how often the process was started again
    sightings,  \* how many kills and detections there were
    tracker,    \* the session tracker of the GSI listener
    d,          \* the state subsystem, its recorder and the shell's matchId
    posted,     \* observer: what the last snapshot said of the game
    dropped,    \* observer: a disconnection was posted since this match started
    killed      \* observer: when the model last took a kill, since its reset

gameVars == <<game, unposted>>
clockVars == <<now, restarts>>
procVars == <<now, phase, restarts>>
seenVars == <<posted, dropped, killed>>
matchVars == <<game, unposted, now, phase, restarts, sightings, tracker, d, posted, dropped, killed>>

NoGame == [match |-> NoMatch, state |-> "init", clock |-> 0, pause |-> "none"]

NothingPosted == [match |-> NoMatch, state |-> "init", paused |-> FALSE]

NoKill == -1

\* Everything but the file outlives no process.
FreshSubsystem(fileOf, lines, lived, torn, disk) ==
    [matchId |-> NoMatch, shell |-> NoMatch, facts |-> EmptyState, paused |-> FALSE,
     recording |-> NoMatch, startedAt |-> 0, lastKeyframeAt |-> 0,
     failed |-> {}, died |-> FALSE, fileOf |-> fileOf, lines |-> lines, lived |-> lived,
     torn |-> torn, disk |-> disk]

Init ==
    /\ game = NoGame
    /\ unposted = TRUE
    /\ now = 0
    /\ phase = "running"
    /\ restarts = 0
    /\ sightings = 0
    /\ tracker = FreshTracker
    /\ \E disk \in Disks : d = FreshSubsystem(NoMatch, <<>>, <<>>, FALSE, disk)
    /\ posted = NothingPosted
    /\ dropped = FALSE
    /\ killed = NoKill

-----------------------------------------------------------------------------
(* The state subsystem *)

ResetWorld(s) == [s EXCEPT !.facts = EmptyState]

\* match_started, and the shell's listener after it.
Started(s, id, at, refused) ==
    LET reset == ResetWorld([s EXCEPT !.matchId = id])
    IN  [OpenRecording(reset, id, at, refused) EXCEPT !.shell = id]

\* Mutant: the recorder is not told of the end of a match.
EndedUnrecorded(s, at) == [s EXCEPT !.matchId = NoMatch, !.shell = NoMatch]

\* match_ended, and the shell's closeMatch after it.
Ended(s, at) ==
    LET ended == [s EXCEPT !.matchId = NoMatch]
    IN  [CloseRecording(ended, at, "match_ended") EXCEPT !.shell = NoMatch]

Turned(s, edge) ==
    IF edge = "none" THEN s ELSE [s EXCEPT !.paused = (edge = "paused")]

Resync(s, at) == Keyframe(ResetWorld(s), at, "clock_discontinuity")

\* onLifecycleEvents: the edges of one snapshot, in their order.
OnLifecycle(s, e, at, refused) ==
    LET s1 == IF e.superseded THEN Ended(s, at) ELSE s
        s2 == IF e.started # NoMatch THEN Started(s1, e.started, at, refused) ELSE s1
        s3 == IF e.over THEN Ended(s2, at) ELSE s2
        s4 == Turned(s3, e.turned)
    IN  IF e.jumped THEN Resync(s4, at) ELSE s4

\* The subscriber of the bus: the model first, then the recorder.
OnObservation(s, o, at) == Record([s EXCEPT !.facts = Fuse(@, o, at)], o, at)

-----------------------------------------------------------------------------
(* Sources *)

Payload ==
    [source |-> "gsi", field |-> "meta", observedAt |-> now,
     confidence |-> Certain]

Kill ==
    [source |-> "log", field |-> "alive", observedAt |-> now,
     confidence |-> Certain]

Detection(field, age, confidence) ==
    [source |-> "cv", field |-> field, observedAt |-> now - age,
     confidence |-> confidence]

\* A process that dies in a write has done what it did.
LivesOn == phase' = IF d'.died THEN "stopped" ELSE phase

\* The listener accepts a POST: the lifecycle listeners hear of its edges before
\* the observation is published.
PostSnapshot ==
    /\ phase = "running"
    /\ game.match # NoMatch
    /\ unposted
    /\ unposted' = FALSE
    /\ \E refused \in BOOLEAN :
           LET map == [match |-> game.match, state |-> game.state, paused |-> game.pause = "now",
                       clocked |-> game.state # "hero_selection", clock |-> game.clock]
               edges == EdgesOf(tracker, map, now)
           IN  /\ refused => edges.started # NoMatch
               /\ tracker' = Tracked(tracker, map, now)
               /\ d' = OnObservation(OnLifecycle(d, edges, now, refused), Payload, now)
               /\ posted' = [match |-> game.match, state |-> game.state,
                              paused |-> game.pause = "now"]
               /\ dropped' = (game.state = "disconnect"
                              \/ (dropped /\ edges.started = NoMatch))
               /\ killed' = IF edges.started # NoMatch \/ edges.jumped THEN NoKill ELSE killed
    /\ LivesOn
    /\ UNCHANGED <<game, clockVars, sightings>>

LogEvent ==
    /\ phase = "running"
    /\ game.state = "in_progress"
    /\ sightings < MaxSightings
    /\ sightings' = sightings + 1
    /\ d' = OnObservation(d, Kill, now)
    /\ killed' = IF Known(d.facts) THEN now ELSE killed
    /\ LivesOn
    /\ UNCHANGED <<gameVars, clockVars, tracker, posted, dropped>>

Detections ==
    /\ phase = "running"
    /\ game.state = "in_progress"
    /\ sightings < MaxSightings
    /\ sightings' = sightings + 1
    /\ \E field \in Detected, age \in 0 .. MaxAge, confidence \in Confidences :
           /\ age <= now
           /\ d' = OnObservation(d, Detection(field, age, confidence), now)
    /\ LivesOn
    /\ UNCHANGED <<gameVars, clockVars, tracker, seenVars>>

-----------------------------------------------------------------------------
(* The process *)

\* The shell closes its match, the subsystem unsubscribes, awaits its sources, and
\* closes the recording before it resets the model.
Stop ==
    /\ phase = "running"
    /\ phase' = "stopped"
    /\ d' = ResetWorld(CloseRecording([d EXCEPT !.shell = NoMatch], now, "shutdown"))
    /\ UNCHANGED <<gameVars, now, restarts, sightings, tracker, seenVars>>

\* The process dies, or is started again after a quit or a death in a write; its clock
\* starts at zero.
Restart ==
    /\ restarts < MaxRestarts
    /\ game.state \in {"hero_selection", "in_progress"}
    /\ restarts' = restarts + 1
    /\ phase' = "running"
    /\ now' = 0
    /\ tracker' = FreshTracker
    /\ d' = FreshSubsystem(d.fileOf, d.lines, d.lived, d.torn, d.disk)
    /\ posted' = NothingPosted
    /\ dropped' = FALSE
    /\ killed' = NoKill
    /\ unposted' = TRUE
    /\ UNCHANGED <<game, sightings>>

Tick ==
    /\ phase = "running"
    /\ now + restarts < MaxTime
    /\ now' = now + 1
    /\ game' = [game EXCEPT !.clock = IF game.match = NoMatch \/ game.pause = "now" THEN @ ELSE @ + 1]
    /\ unposted' = TRUE
    /\ UNCHANGED <<phase, restarts, sightings, tracker, d, seenVars>>

-----------------------------------------------------------------------------
(* Dota 2 *)

\* A change of the game is posted, to who listens, before the next: the client posts
\* changes within a tenth of a second, and without one it posts every 30 s.
ChangeIsPosted ==
    game.match # NoMatch =>
        posted = [match |-> game.match, state |-> game.state, paused |-> game.pause = "now"]

NextMatch ==
    /\ game.match < MaxMatch
    /\ game.state # "hero_selection"
    /\ game' = [match |-> game.match + 1, state |-> "hero_selection",
                clock |-> 0, pause |-> "none"]

\* A pause ends with the connection; a match that was left never ends.
Proceeds ==
    \E next \in GameStates :
        /\ \/ game.state = "hero_selection" /\ next = "in_progress"
           \/ game.state = "in_progress" /\ next = "post_game"
           \/ Drops /\ game.state = "in_progress" /\ next = "disconnect"
           \/ Drops /\ game.state = "disconnect" /\ next = "in_progress"
        /\ game' = [game EXCEPT !.state = next, !.pause = IF @ = "now" THEN "over" ELSE @]

\* Bound: once per match.
Pauses ==
    /\ Pausing
    /\ game.state = "in_progress" /\ game.pause = "none"
    /\ game' = [game EXCEPT !.pause = "now"]

Resumes ==
    /\ game.state = "in_progress" /\ game.pause = "now"
    /\ game' = [game EXCEPT !.pause = "over"]

\* What the game does while Riki does not run is not seen, and may be done after it.
GameStep ==
    /\ phase = "running"
    /\ ChangeIsPosted
    /\ NextMatch \/ Proceeds \/ Pauses \/ Resumes
    /\ unposted' = TRUE
    /\ UNCHANGED <<procVars, sightings, tracker, d, seenVars>>

Next ==
    \/ PostSnapshot \/ LogEvent \/ Detections
    \/ Stop \/ Restart \/ Tick
    \/ GameStep

Spec == Init /\ [][Next]_matchVars
-----------------------------------------------------------------------------
(* Properties *)

\* The subsystem, the shell and the recorder speak of one match: the shell's session
\* is of the match whose facts are read, and the recording, unless it failed, too.
\* (state/index.ts:172-219, shell/index.ts:704-717)
MatchIdsAgree ==
    phase = "running" =>
        /\ d.shell = d.matchId
        /\ d.recording \in {d.matchId, NoMatch}

\* What the last snapshot said is played is the current match, and nothing is once it
\* said the game is over; not after a disconnection, which ends the match for good.
\* (session.ts:61-82, state/index.ts:172-219)
TracksTheMatch ==
    phase = "running" /\ posted.match # NoMatch /\ ~dropped =>
        d.matchId = IF posted.state = "post_game" THEN NoMatch ELSE posted.match

\* A current match is recorded, or the failure of its recording was reported, wherever
\* in the opening, a line or a keyframe the disk refused and whatever it left of it.
\* (recorder.ts:119-142)
RecordedOrReported ==
    phase = "running" /\ d.matchId # NoMatch =>
        d.recording = d.matchId \/ d.matchId \in d.failed

\* A moment that can be asked about: neither a header nor half a line.
Moment(line) == line.kind \in {"observation", "keyframe"}

\* One opening wrote the first n lines, and none of them broke.
Sole(lines, n) ==
    \A i \in 1 .. n : IF i = 1 THEN Is("header", lines[i]) ELSE Moment(lines[i])

\* Replaying the file to any line of its first opening gives the model as it was when
\* the line was written, if the model was not reset on the way.
\* (reader.ts:277-309, keyframe.ts, recorder.ts:208-230)
ReplayedFaithfully ==
    \A i \in 1 .. Len(d.lines) :
        /\ Sole(d.lines, i)
        /\ \A k \in AnchorOf(d.lines, i) + 1 .. i : d.lines[k].reason # "clock_discontinuity"
        => Reconstruct(d.lines, i) = d.lived[i]

\* The recording in progress is in the file of its match, and every moment in the file,
\* whoever wrote it and whatever broke off before it, leads back from line to line to an
\* opening keyframe of the empty model, which follows the header, or the half line that
\* swallowed the header: the first seconds can be read back, and nothing of another
\* match is in them.  (recorder.ts:174-206, file-sink.ts:62-68)
RecordIsAnchored ==
    /\ d.recording # NoMatch => d.fileOf = d.recording /\ d.lines # <<>>
    /\ \A i \in 1 .. Len(d.lines) :
           IF d.lines[i].reason = "open"
           THEN /\ d.lines[i].facts = EmptyState
                /\ i > 1 /\ d.lines[i - 1].kind \in {"header", "malformed"}
           ELSE Moment(d.lines[i]) => i > 1 /\ Moment(d.lines[i - 1])

\* What the kill feed said of a hero stands against detections of the same hero for
\* the length of the shadow window, however many arrive, late or sure of themselves.
\* (precedence.ts:103-106, :181-187)
KillFeedIsTrusted ==
    phase = "running" /\ killed # NoKill /\ now - killed < ShadowWindow =>
        d.facts["alive"].source = "log"

\* Within a match the model only forgets when the clock of the game jumped: a pause
\* and its end discard nothing.  (store.ts:183-197; the game of this module never
\* moves its clock within a match)
PauseKeepsFacts ==
    [][d'.matchId = d.matchId /\ phase' = "running" /\ restarts' = restarts =>
           \A f \in Fields : d.facts[f] # NoFact => d'.facts[f] # NoFact]_matchVars
=============================================================================
