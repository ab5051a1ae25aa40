-------------------------------- MODULE Sources --------------------------------
(***************************************************************************)
(* The sources of observations over the life of the app: the supervisor    *)
(* that starts, restarts and stops them, the child process behind the      *)
(* vision source, the health the shell polls, and the degradation level    *)
(* and status line that follow from it.                                    *)
(* (apps/desktop/src/main: state/supervisor.ts, state/degradation.ts,      *)
(* state/index.ts, sidecar/, shell/index.ts, index.ts)                     *)
(***************************************************************************)
EXTENDS Integers, FiniteSets

CONSTANTS
    Registered,     \* the sources there are: "log" and "sidecar" may be off
    MaxRestarts,    \* SIDECAR_RESTART.maxAttempts
    Hysteresis,     \* RECOVERY_HYSTERESIS_MS, in polls
    Quiet,          \* SIDECAR_QUIET_MS, in polls
    Miss            \* the heartbeats of GSI that make it down, in polls

ASSUME SourcesAssumption ==
    /\ "gsi" \in Registered
    /\ Registered \subseteq {"gsi", "log", "sidecar"}
    /\ MaxRestarts \in Nat \ {0}
    /\ Hysteresis \in Nat \ {0}
    /\ Quiet \in Nat \ {0}
    /\ Miss \in Nat \ {0}

VARIABLES
    app,        \* "warming", "starting", "polling", "leaving", "stopping" or "gone"
    quit,       \* observer: told to quit not at all ("none"), before anything was launched
                \* ("cold"), afterwards ("once"), or again while it was stopping ("twice")
    running,    \* of the supervisor
    entry,      \* per source: restarts, gaveUp, is a restart pending, is it watched
    launching,  \* the sources whose start() is awaited
    child,      \* of the sidecar source: is it held, its age, the age of what it said
    proc,       \* the process: "none", "running" or "dying"
    posted,     \* the age of the last accepted POST of Dota 2
    degr,       \* the degradation controller: its level, recoveringSince as an age
    poll,       \* the poll timer: "none", "armed", "due" or "off"
    status,     \* the status line of the tray
    sawDown     \* observer: the age of the last evaluation that saw vision down

sourceVars == <<app, quit, running, entry, launching, child, proc, posted, degr, poll, status, sawDown>>

Never == -1

\* An age is not told apart beyond what the code compares it with.
Older(age, cap) == IF age = Never \/ age >= cap THEN age ELSE age + 1

Restartable(id) == id = "sidecar"

HasVision == "sidecar" \in Registered

-----------------------------------------------------------------------------
(* The supervisor *)

FreshEntry == [restarts |-> 0, gaveUp |-> FALSE, pending |-> FALSE, watched |-> FALSE]

Detach(e) == [e EXCEPT !.watched = FALSE, !.pending = FALSE]

\* Mutant: the timer of a restart is forgotten.
NeverArms(e, id, on) ==
    IF ~on \/ e.gaveUp THEN e
    ELSE IF ~Restartable(id) \/ e.restarts >= MaxRestarts THEN [e EXCEPT !.gaveUp = TRUE]
    ELSE [e EXCEPT !.restarts = @ + 1]

ScheduleRestart(e, id, on) ==
    IF ~on \/ e.gaveUp THEN e
    ELSE IF ~Restartable(id) \/ e.restarts >= MaxRestarts THEN [e EXCEPT !.gaveUp = TRUE]
    ELSE [e EXCEPT !.restarts = @ + 1, !.pending = TRUE]

\* The part of launch that runs before start() settles.
Watch(e) == [Detach(e) EXCEPT !.watched = TRUE]

\* The catch of launch: a start that throws is an exit.
StartThrows(e, id, on) == ScheduleRestart(Detach(e), id, on)

-----------------------------------------------------------------------------
(* The sidecar source and its process *)

NoChild == [held |-> FALSE, born |-> Never, heard |-> Never]

Teardown(c) == [c EXCEPT !.held = FALSE]

\* spawnChild: what the last child said last is still remembered.
SpawnChild(c) == IF c.held THEN c ELSE [c EXCEPT !.held = TRUE, !.born = 0]

SidecarHealth ==
    CASE ~child.held -> "down"
      [] child.held /\ child.heard = Never -> IF child.born < Quiet THEN "starting" ELSE "degraded"
      [] OTHER -> IF child.heard < Quiet THEN "live" ELSE "degraded"

GsiHealth ==
    CASE posted = Never -> "starting"
      [] posted > Miss -> "down"
      [] OTHER -> "live"

\* status of the supervisor
Health(id) ==
    IF entry[id].gaveUp THEN "down"
    ELSE IF id = "sidecar" THEN SidecarHealth ELSE GsiHealth

-----------------------------------------------------------------------------
(* Degradation, and what the shell shows of it *)

VisionDown == HasVision => Health("sidecar") = "down"

ImpliedLevel == IF VisionDown THEN "gsi_only" ELSE "full"

\* Mutant: a failure during a recovery does not reset it.
ForgivesFailure ==
    IF ImpliedLevel = "gsi_only"
    THEN [degr EXCEPT !.level = "gsi_only"]
    ELSE IF degr.level = "full" THEN [degr EXCEPT !.since = Never]
    ELSE IF degr.since >= Hysteresis THEN [level |-> "full", since |-> Never]
    ELSE [degr EXCEPT !.since = IF @ = Never THEN 0 ELSE @]

\* Mutant: every poll restarts the recovery.
RecoveryRestarts ==
    IF ImpliedLevel = "gsi_only"
    THEN [level |-> "gsi_only", since |-> Never]
    ELSE IF degr.level = "full" THEN [degr EXCEPT !.since = Never]
    ELSE [degr EXCEPT !.since = 0]

\* evaluate: down at once, up after Hysteresis.
Evaluate ==
    IF ImpliedLevel = "gsi_only"
    THEN [level |-> "gsi_only", since |-> Never]
    ELSE IF degr.level = "full" THEN [degr EXCEPT !.since = Never]
    ELSE IF degr.since >= Hysteresis THEN [level |-> "full", since |-> Never]
    ELSE [degr EXCEPT !.since = IF @ = Never THEN 0 ELSE @]

Summarise(level) ==
    CASE Health("gsi") = "down" -> "no game data"
      [] Health("gsi") = "starting" -> "waiting for Dota 2"
      [] OTHER -> level

\* health of the state subsystem.
ReadHealth ==
    /\ degr' = Evaluate
    /\ sawDown' = IF VisionDown THEN 0 ELSE sawDown

-----------------------------------------------------------------------------
(* The life of the app *)

Init ==
    /\ app = "warming"
    /\ quit = "none"
    /\ running = FALSE
    /\ entry = [id \in Registered |-> FreshEntry]
    /\ launching = {}
    /\ child = NoChild
    /\ proc = "none"
    /\ posted = Never
    /\ degr = [level |-> "full", since |-> Never]
    /\ poll = "none"
    /\ status = "starting"
    /\ sawDown = Never

\* The window is warm: every source is launched; spawn alone settles at once.
\* start() does not learn of a stop() that came while it waited for the window.
Launch ==
    /\ app \in {"warming", "leaving"}
    /\ ~running
    /\ app' = IF app = "warming" THEN "starting" ELSE app
    /\ running' = TRUE
    /\ launching' = Registered \ {"sidecar"}
    /\ \E spawns \in BOOLEAN :
        /\ entry' = [id \in Registered |->
                        IF id = "sidecar" /\ ~spawns
                        THEN StartThrows(Watch(entry[id]), id, TRUE) ELSE Watch(entry[id])]
        /\ IF HasVision /\ spawns
           THEN child' = SpawnChild(child) /\ proc' = "running"
           ELSE UNCHANGED <<child, proc>>
    /\ UNCHANGED <<quit, posted, degr, poll, status, sawDown>>

\* The load of the window fails, or stop() destroyed the window: fail ends the app.
WarmFails ==
    /\ app \in {"warming", "leaving"}
    /\ ~running
    /\ app' = "gone"
    /\ UNCHANGED <<quit, running, entry, launching, child, proc, posted, degr, poll, status, sawDown>>

\* start() of the listener or the tailer settles; a port in use rejects it.
StartSettles(id) ==
    /\ app # "gone"
    /\ id \in launching
    /\ launching' = launching \ {id}
    /\ \/ UNCHANGED entry
       \/ /\ id = "gsi"
          /\ entry' = [entry EXCEPT ![id] = StartThrows(@, id, running)]
    /\ UNCHANGED <<app, quit, running, child, proc, posted, degr, poll, status, sawDown>>

\* state.start() resolves, even while stop() is under way, and polling begins.
StateStarted ==
    /\ \/ app \in {"starting", "stopping"}
       \/ app = "leaving" /\ running
    /\ launching = {}
    /\ poll = "none"
    /\ app' = IF app = "starting" THEN "polling" ELSE app
    /\ poll' = "armed"
    /\ ReadHealth
    /\ status' = IF app = "starting" THEN Summarise(degr'.level) ELSE status
    /\ UNCHANGED <<quit, running, entry, launching, child, proc, posted>>

\* Mutant: the source is launched again while the last start has not been undone.
RelaunchUnwatched ==
    /\ app # "gone"
    /\ HasVision
    /\ entry["sidecar"].pending
    /\ entry' = [entry EXCEPT !["sidecar"] = Detach(@)]
    /\ child' = SpawnChild(child)
    /\ proc' = "running"
    /\ UNCHANGED <<app, quit, running, launching, posted, degr, poll, status, sawDown>>

\* The timer of a restart: a spawn that throws is one more failure.
Relaunch ==
    /\ app # "gone"
    /\ HasVision
    /\ entry["sidecar"].pending
    /\ \E spawns \in BOOLEAN :
        /\ entry' = [entry EXCEPT !["sidecar"] =
                        IF spawns THEN Watch(@) ELSE StartThrows(Watch(@), "sidecar", running)]
        /\ IF spawns
           THEN child' = SpawnChild(child) /\ proc' = "running"
           ELSE UNCHANGED <<child, proc>>
    /\ UNCHANGED <<app, quit, running, launching, posted, degr, poll, status, sawDown>>

\* The sidecar crashes, or was never there: an event the supervisor watches.
ChildExits ==
    /\ app # "gone"
    /\ proc = "running"
    /\ proc' = "none"
    /\ child' = Teardown(child)
    /\ entry' = IF entry["sidecar"].watched
                THEN [entry EXCEPT !["sidecar"] = ScheduleRestart(@, "sidecar", running)]
                ELSE entry
    /\ UNCHANGED <<app, quit, running, launching, posted, degr, poll, status, sawDown>>

ChildSpeaks ==
    /\ app # "gone"
    /\ proc = "running"
    /\ child.held
    /\ child' = [child EXCEPT !.heard = 0]
    /\ UNCHANGED <<app, quit, running, entry, launching, proc, posted, degr, poll, status, sawDown>>

DotaPosts ==
    /\ app # "gone"
    /\ running
    /\ "gsi" \notin launching
    /\ ~entry["gsi"].gaveUp
    /\ posted' = 0
    /\ UNCHANGED <<app, quit, running, entry, launching, child, proc, degr, poll, status, sawDown>>

Poll ==
    /\ app # "gone"
    /\ poll = "due"
    /\ poll' = "armed"
    /\ ReadHealth
    /\ status' = IF app = "polling" THEN Summarise(degr'.level) ELSE status
    /\ UNCHANGED <<app, quit, running, entry, launching, child, proc, posted>>

\* A frame of the inspector reads the same health, between the polls.
Inspect ==
    /\ app \in {"starting", "polling"}
    /\ ReadHealth
    /\ UNCHANGED <<app, quit, running, entry, launching, child, proc, posted, poll, status>>

Tick ==
    /\ app # "gone"
    /\ child' = [child EXCEPT !.born = Older(@, Quiet), !.heard = Older(@, Quiet)]
    /\ posted' = Older(posted, Miss + 1)
    /\ degr' = [degr EXCEPT !.since = Older(@, Hysteresis)]
    /\ poll' = IF poll = "armed" THEN "due" ELSE poll
    /\ sawDown' = Older(sawDown, Hysteresis)
    /\ UNCHANGED <<app, quit, running, entry, launching, proc, status>>

\* Mutant: the sidecar is let go of and never killed.
LetGo ==
    /\ app \in {"starting", "polling"}
    /\ app' = "stopping"
    /\ quit' = "once"
    /\ poll' = IF poll = "none" THEN poll ELSE "off"
    /\ running' = FALSE
    /\ entry' = [id \in Registered |-> Detach(entry[id])]
    /\ child' = [Teardown(child) EXCEPT !.born = Never]
    /\ UNCHANGED <<launching, proc, posted, degr, status, sawDown>>

\* before-quit: the shell stops, detaching every source before any is stopped.
Quit ==
    /\ app \in {"starting", "polling"}
    /\ app' = "stopping"
    /\ quit' = "once"
    /\ poll' = IF poll = "none" THEN poll ELSE "off"
    /\ running' = FALSE
    /\ entry' = [id \in Registered |-> Detach(entry[id])]
    /\ child' = [Teardown(child) EXCEPT !.born = Never]
    /\ proc' = IF proc = "running" THEN "dying" ELSE proc
    /\ UNCHANGED <<launching, posted, degr, status, sawDown>>

\* before-quit while the window warms: no source is running, so stop() of the
\* supervisor returns at once, and start() goes on behind it.
QuitCold ==
    /\ app = "warming"
    /\ app' = "leaving"
    /\ quit' = "cold"
    /\ UNCHANGED <<running, entry, launching, child, proc, posted, degr, poll, status, sawDown>>

\* SIGTERM is answered, or SIGKILL follows.
ChildDies ==
    /\ proc = "dying"
    /\ proc' = "none"
    /\ UNCHANGED <<app, quit, running, entry, launching, child, posted, degr, poll, status, sawDown>>

\* stop() has settled: the second before-quit is let through.
StopSettles ==
    /\ \/ app = "stopping" /\ proc # "dying"
       \/ app = "leaving"
    /\ app' = "gone"
    /\ UNCHANGED <<quit, running, entry, launching, child, proc, posted, degr, poll, status, sawDown>>

\* Only the first quit is held back.
QuitAgain ==
    /\ app \in {"leaving", "stopping"}
    /\ app' = "gone"
    /\ quit' = "twice"
    /\ UNCHANGED <<running, entry, launching, child, proc, posted, degr, poll, status, sawDown>>

Next ==
    \/ Launch \/ WarmFails \/ StateStarted \/ Relaunch \/ ChildExits \/ ChildSpeaks \/ DotaPosts
    \/ Poll \/ Inspect \/ Tick \/ Quit \/ QuitCold \/ ChildDies \/ StopSettles \/ QuitAgain
    \/ \E id \in Registered : StartSettles(id)

\* Timers fire, promises settle and time passes; nobody has to post, speak, crash or quit.
Fairness ==
    /\ WF_sourceVars(Launch)
    /\ WF_sourceVars(StateStarted)
    /\ WF_sourceVars(Relaunch)
    /\ WF_sourceVars(Poll)
    /\ WF_sourceVars(Tick)
    /\ WF_sourceVars(ChildDies)
    /\ WF_sourceVars(StopSettles)
    /\ \A id \in Registered : WF_sourceVars(StartSettles(id))

Spec == Init /\ [][Next]_sourceVars /\ Fairness

-----------------------------------------------------------------------------
(* Properties *)

AgeUpTo(n) == -1..n

TypeOK ==
    /\ app \in {"warming", "starting", "polling", "leaving", "stopping", "gone"}
    /\ quit \in {"none", "cold", "once", "twice"}
    /\ running \in BOOLEAN
    /\ entry \in [Registered -> [restarts : 0..MaxRestarts, gaveUp : BOOLEAN,
                                 pending : BOOLEAN, watched : BOOLEAN]]
    /\ launching \in SUBSET Registered
    /\ child \in [held : BOOLEAN, born : AgeUpTo(Quiet), heard : AgeUpTo(Quiet)]
    /\ proc \in {"none", "running", "dying"}
    /\ posted \in AgeUpTo(Miss + 1)
    /\ degr \in [level : {"full", "gsi_only"}, since : AgeUpTo(Hysteresis)]
    /\ poll \in {"none", "armed", "due", "off"}
    /\ status \in {"starting", "no game data", "waiting for Dota 2", "full", "gsi_only"}
    /\ sawDown \in AgeUpTo(Hysteresis)

\* While the supervisor runs, exactly one thing will move the sidecar: the
\* exit of a process that is watched, the timer of a restart, or nothing more
\* because it was given up. (launch, onExit, scheduleRestart)
SidecarIsDriven ==
    HasVision /\ running =>
        /\ ~entry["sidecar"].gaveUp => (entry["sidecar"].pending <=> proc = "none")
        /\ entry["sidecar"].gaveUp => ~entry["sidecar"].pending /\ proc = "none"
        /\ proc = "running" <=> child.held
        /\ proc = "running" => entry["sidecar"].watched

\* No process is left behind by an app whose sources were running when it was
\* told to quit, and that was not told again while it stopped. A quit that
\* comes while the window warms is another matter: QuitLeavesNoProcess.
\* (before-quit, stop, kill)
NothingOutlivesTheApp == app = "gone" /\ quit \in {"none", "once"} => proc = "none"

\* What the header of the main process says of every quit but a second one, which does not wait:
\* the sidecar is drained by the stop() that before-quit awaits. It is not true of
\* a quit that comes while the window warms. (index.ts: before-quit awaits stop())
QuitLeavesNoProcess == app = "gone" /\ quit # "twice" => proc = "none"

\* The level rises only when no evaluation saw the sidecar down for as long as
\* the hysteresis asks. (evaluate)
RecoversSlowly ==
    [][degr.level = "gsi_only" /\ degr'.level = "full" => sawDown = Hysteresis]_sourceVars

\* A sidecar that stays up is used again in the end. (evaluate, poll)
RecoversInTheEnd == <>[](~VisionDown /\ app = "polling") => <>[](degr.level = "full")

\* The refinement: what each source does is a life as the supervisor promises it.
LifeOf(id, up) ==
    CASE ~running /\ quit \in {"none", "cold"} -> "off"
      [] ~running /\ quit \notin {"none", "cold"} -> "stopped"
      [] running /\ entry[id].gaveUp -> "gaveUp"
      [] running /\ ~entry[id].gaveUp /\ entry[id].pending -> "waiting"
      [] running /\ ~entry[id].gaveUp /\ ~entry[id].pending /\ up -> "up"
      [] OTHER -> "off"

TheSidecar == INSTANCE SourceLife WITH
    MaxTries <- MaxRestarts,
    st <- LifeOf("sidecar", proc = "running"),
    tries <- entry["sidecar"].restarts

TheListener == INSTANCE SourceLife WITH
    MaxTries <- 0,
    st <- LifeOf("gsi", "gsi" \notin launching),
    tries <- entry["gsi"].restarts

\* A listener that could not bind is reported, not waited for. (scheduleRestart, summarise)
RefusalReachesTheTray ==
    entry["gsi"].gaveUp ~> (status = "no game data" \/ app \in {"leaving", "stopping", "gone"})

\* Each source lives as the supervisor promises: the sidecar is retried MaxRestarts
\* times and then never again, the listener is tried once and its failure told, and
\* nothing comes back after a stop that found the supervisor running. (launch, scheduleRestart, stop, NO_RESTART)
SourcesLive == TheSidecar!Life /\ TheListener!Life /\ RefusalReachesTheTray
===============================================================================
