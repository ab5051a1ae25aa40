---------------------------- MODULE SourcesProofs ----------------------------
(***************************************************************************)
(* Proofs about Sources: an inductive invariant, the properties that       *)
(* follow from it, and the refinement of SourceLife by each source.        *)
(***************************************************************************)
EXTENDS Sources, TLAPS

EntryType == [restarts : 0..MaxRestarts, gaveUp : BOOLEAN, pending : BOOLEAN, watched : BOOLEAN]

ChildType == [held : BOOLEAN, born : AgeUpTo(Quiet), heard : AgeUpTo(Quiet)]

\* Nothing was launched yet, or nothing ever will be.
Unlaunched == ~running /\ quit \in {"none", "cold"}

\* The supervisor runs from the launch on, until a quit that finds it running.
StagesSound ==
    /\ app = "warming" => ~running /\ quit = "none"
    /\ app \in {"starting", "polling"} => running /\ quit = "none"
    /\ app = "leaving" => quit = "cold"
    /\ app = "stopping" => ~running /\ quit = "once"
    /\ running /\ app = "gone" => quit \in {"cold", "twice"}
    /\ Unlaunched => /\ entry = [id \in Registered |-> FreshEntry]
                     /\ proc = "none"
                     /\ child.held = FALSE
                     /\ launching = {}

\* A restart is only pending of the sidecar, and only while it may be made.
RestartsSound ==
    \A id \in Registered :
        entry[id].pending => running /\ id = "sidecar" /\ ~entry[id].gaveUp

\* A process is one of the sidecar, and lives no longer than the supervisor runs.
ProcessSound ==
    /\ proc # "none" => HasVision
    /\ proc = "running" => running
    /\ proc = "dying" => ~running /\ (app = "stopping" \/ quit = "twice")

\* The listener is never started again, and not given up before it was tried.
ListenerSound ==
    /\ entry["gsi"].restarts = 0
    /\ "gsi" \in launching => ~entry["gsi"].gaveUp

\* A level that fell has seen the sidecar down, and its recovery is younger than that.
RecoverySound ==
    /\ degr.level = "gsi_only" => sawDown >= 0 /\ degr.since <= sawDown
    /\ sawDown <= Hysteresis

IInv ==
    /\ TypeOK
    /\ StagesSound
    /\ RestartsSound
    /\ ProcessSound
    /\ ListenerSound
    /\ SidecarIsDriven
    /\ NothingOutlivesTheApp
    /\ RecoverySound

-----------------------------------------------------------------------------
(* The helpers of the supervisor *)

LEMMA OlderIsAge ==
    ASSUME NEW n \in Nat, NEW age \in AgeUpTo(n)
    PROVE  /\ Older(age, n) \in AgeUpTo(n)
           /\ age <= Older(age, n)
           /\ age = Never => Older(age, n) = Never
  BY DEF Older, AgeUpTo, Never

\* The recovery does not overtake what it recovers from.
LEMMA OlderIsMonotone ==
    ASSUME NEW n \in Nat, NEW a \in AgeUpTo(n), NEW b \in AgeUpTo(n), a <= b, b >= 0
    PROVE  Older(a, n) <= Older(b, n) /\ Older(b, n) >= 0
  BY DEF Older, AgeUpTo, Never

LEMMA FreshIsEntry == FreshEntry \in EntryType /\ ~FreshEntry.gaveUp /\ FreshEntry.restarts = 0
  BY SourcesAssumption DEF FreshEntry, EntryType

LEMMA DetachKeeps ==
    ASSUME NEW e \in EntryType
    PROVE  /\ Detach(e) \in EntryType
           /\ Detach(e).restarts = e.restarts
           /\ Detach(e).gaveUp = e.gaveUp
           /\ ~Detach(e).pending
           /\ ~Detach(e).watched
  BY DEF EntryType, Detach

LEMMA WatchKeeps ==
    ASSUME NEW e \in EntryType
    PROVE  /\ Watch(e) \in EntryType
           /\ Watch(e).restarts = e.restarts
           /\ Watch(e).gaveUp = e.gaveUp
           /\ ~Watch(e).pending
           /\ Watch(e).watched
  BY DEF EntryType, Watch, Detach

\* What an exit does to the entry of a source that runs: it is given up, or one of
\* the restarts it has left is pending.
LEMMA ScheduleRestarts ==
    ASSUME NEW e \in EntryType, NEW id, NEW on \in BOOLEAN
    PROVE  LET f == ScheduleRestart(e, id, on) IN
           /\ f \in EntryType
           /\ f.watched = e.watched
           /\ ~on \/ e.gaveUp => f = e
           /\ on /\ ~e.gaveUp /\ (id # "sidecar" \/ e.restarts = MaxRestarts) =>
                  f.gaveUp /\ f.restarts = e.restarts /\ f.pending = e.pending
           /\ on /\ ~e.gaveUp /\ id = "sidecar" /\ e.restarts # MaxRestarts =>
                  ~f.gaveUp /\ f.restarts = e.restarts + 1 /\ f.pending /\ e.restarts < MaxRestarts
  <1> DEFINE f == ScheduleRestart(e, id, on)
  <1>0. MaxRestarts \in Nat /\ e.restarts \in 0..MaxRestarts /\ e.gaveUp \in BOOLEAN
    BY SourcesAssumption DEF EntryType
  <1>1. CASE ~on \/ e.gaveUp
    BY <1>1 DEF ScheduleRestart
  <1>2. CASE on /\ ~e.gaveUp /\ (id # "sidecar" \/ e.restarts = MaxRestarts)
    <2>1. f = [e EXCEPT !.gaveUp = TRUE]
      BY <1>0, <1>2 DEF ScheduleRestart, Restartable
    <2>2. QED
      BY <1>0, <1>2, <2>1 DEF EntryType
  <1>3. CASE on /\ ~e.gaveUp /\ id = "sidecar" /\ e.restarts # MaxRestarts
    <2>1. f = [e EXCEPT !.restarts = @ + 1, !.pending = TRUE] /\ e.restarts < MaxRestarts
      BY <1>0, <1>3 DEF ScheduleRestart, Restartable
    <2>2. e.restarts + 1 \in 0..MaxRestarts
      BY <1>0, <2>1
    <2>3. QED
      BY <1>0, <1>3, <2>1, <2>2 DEF EntryType
  <1>4. QED
    BY <1>0, <1>1, <1>2, <1>3

\* The other sources are never tried again.
LEMMA OthersAreNotRetried ==
    ASSUME NEW e \in EntryType, NEW id, NEW on \in BOOLEAN, id # "sidecar"
    PROVE  LET f == ScheduleRestart(e, id, on) IN
           f.restarts = e.restarts /\ f.pending = e.pending
  <1> DEFINE f == ScheduleRestart(e, id, on)
  <1>1. CASE ~on \/ e.gaveUp
    <2>1. f = e
      BY <1>1, ScheduleRestarts
    <2>2. QED
      BY <2>1
  <1>2. CASE on /\ ~e.gaveUp
    <2>1. f = [e EXCEPT !.gaveUp = TRUE]
      BY <1>2 DEF ScheduleRestart, Restartable
    <2>2. QED
      BY <2>1 DEF EntryType
  <1>3. QED
    BY <1>1, <1>2 DEF EntryType

\* A start that throws is an exit of a source that is no longer watched.
LEMMA StartThrowsIsExit ==
    ASSUME NEW e \in EntryType, NEW id, NEW on \in BOOLEAN
    PROVE  LET f == StartThrows(e, id, on) IN
           /\ f \in EntryType
           /\ ~on \/ e.gaveUp => f.restarts = e.restarts /\ f.gaveUp = e.gaveUp /\ ~f.pending
           /\ id # "sidecar" => f.restarts = e.restarts /\ ~f.pending
           /\ on /\ ~e.gaveUp /\ (id # "sidecar" \/ e.restarts = MaxRestarts) =>
                  f.gaveUp /\ f.restarts = e.restarts /\ ~f.pending
           /\ on /\ ~e.gaveUp /\ id = "sidecar" /\ e.restarts # MaxRestarts =>
                  ~f.gaveUp /\ f.restarts = e.restarts + 1 /\ f.pending /\ e.restarts < MaxRestarts
  <1> DEFINE g == Detach(e)
             f == ScheduleRestart(g, id, on)
  <1>1. /\ g \in EntryType /\ g.restarts = e.restarts /\ g.gaveUp = e.gaveUp
        /\ ~g.pending
    BY DetachKeeps
  <1>2. StartThrows(e, id, on) = f
    BY DEF StartThrows
  <1> HIDE DEF g
  <1>3. id # "sidecar" => f.restarts = g.restarts /\ f.pending = g.pending
    BY <1>1, OthersAreNotRetried
  <1>4. QED
    BY <1>1, <1>2, <1>3, ScheduleRestarts

-----------------------------------------------------------------------------
(* The invariant *)

LEMMA InitInvariant == Init => IInv
  <1> SUFFICES ASSUME Init PROVE IInv
    OBVIOUS
  <1>1. \A id \in Registered : entry[id] = FreshEntry
    BY DEF Init
  <1>2. \A id \in Registered : ~entry[id].pending
    BY <1>1 DEF FreshEntry
  <1>3. TypeOK
    <2>1. entry \in [Registered -> EntryType]
      BY FreshIsEntry DEF Init
    <2>2. child \in ChildType
      BY SourcesAssumption DEF Init, ChildType, NoChild, AgeUpTo, Never
    <2>3. Never \in AgeUpTo(Miss + 1) /\ Never \in AgeUpTo(Hysteresis)
      BY SourcesAssumption DEF AgeUpTo, Never
    <2>4. degr \in [level : {"full", "gsi_only"}, since : AgeUpTo(Hysteresis)]
      BY <2>3 DEF Init
    <2>5. QED
      BY <2>1, <2>2, <2>3, <2>4 DEF Init, TypeOK, EntryType, ChildType
  <1>4. StagesSound
    BY DEF Init, StagesSound, Unlaunched, NoChild
  <1>5. RestartsSound
    BY <1>2 DEF RestartsSound
  <1>6. ListenerSound
    BY <1>1, FreshIsEntry, SourcesAssumption DEF Init, ListenerSound
  <1>7. QED
    BY <1>3, <1>4, <1>5, <1>6, SourcesAssumption
       DEF Init, IInv, ProcessSound, SidecarIsDriven, NothingOutlivesTheApp, RecoverySound, Never

\* Steps that leave the life of the sources alone keep what is said of it.
LivesVars == <<app, quit, running, entry, launching, proc, child.held>>

LEMMA LivesUnchanged ==
    ASSUME IInv, UNCHANGED LivesVars
    PROVE  /\ StagesSound' /\ RestartsSound' /\ ProcessSound' /\ ListenerSound'
           /\ SidecarIsDriven' /\ NothingOutlivesTheApp'
  BY DEF IInv, LivesVars, StagesSound, Unlaunched, RestartsSound, ProcessSound, ListenerSound,
         SidecarIsDriven, NothingOutlivesTheApp, HasVision

\* What the health that is read does to the level.
LEMMA ReadHealthIsSound ==
    ASSUME IInv, ReadHealth
    PROVE  /\ degr' \in [level : {"full", "gsi_only"}, since : AgeUpTo(Hysteresis)]
           /\ sawDown' \in AgeUpTo(Hysteresis)
           /\ RecoverySound'
  <1>1. /\ degr \in [level : {"full", "gsi_only"}, since : AgeUpTo(Hysteresis)]
        /\ sawDown \in AgeUpTo(Hysteresis)
        /\ Hysteresis \in Nat \ {0}
        /\ degr.level = "gsi_only" => sawDown >= 0 /\ degr.since <= sawDown
    BY SourcesAssumption DEF IInv, TypeOK, RecoverySound
  <1>2. CASE VisionDown
    <2>1. degr' = [level |-> "gsi_only", since |-> Never] /\ sawDown' = 0
      BY <1>2 DEF ReadHealth, Evaluate, ImpliedLevel
    <2>2. QED
      BY <1>1, <2>1 DEF RecoverySound, AgeUpTo, Never
  <1>3. CASE ~VisionDown
    <2>1. sawDown' = sawDown /\ ImpliedLevel = "full"
      BY <1>3 DEF ReadHealth, ImpliedLevel
    <2>2. degr' = IF degr.level = "full" THEN [degr EXCEPT !.since = Never]
                  ELSE IF degr.since >= Hysteresis THEN [level |-> "full", since |-> Never]
                  ELSE [degr EXCEPT !.since = IF @ = Never THEN 0 ELSE @]
      BY <2>1 DEF ReadHealth, Evaluate
    <2>3. CASE degr.level = "full"
      BY <1>1, <2>1, <2>2, <2>3 DEF RecoverySound, AgeUpTo, Never
    <2>4. CASE degr.level = "gsi_only" /\ degr.since >= Hysteresis
      BY <1>1, <2>1, <2>2, <2>4 DEF RecoverySound, AgeUpTo, Never
    <2>5. CASE degr.level = "gsi_only" /\ ~(degr.since >= Hysteresis)
      BY <1>1, <2>1, <2>2, <2>5 DEF RecoverySound, AgeUpTo, Never
    <2>6. QED
      BY <1>1, <2>3, <2>4, <2>5
  <1>4. QED
    BY <1>2, <1>3

\* And to the line of the tray.
LEMMA SummaryIsStatus ==
    ASSUME NEW level \in {"full", "gsi_only"}
    PROVE  Summarise(level) \in {"no game data", "waiting for Dota 2", "full", "gsi_only"}
  BY DEF Summarise

LEMMA LaunchKeeps == ASSUME IInv, Launch PROVE IInv'
  <1>0. /\ TypeOK /\ running = FALSE /\ proc = "none" /\ child.held = FALSE
        /\ \/ app = "warming" /\ app' = "starting" /\ quit = "none"
           \/ app = "leaving" /\ app' = "leaving" /\ quit = "cold"
        /\ entry = [id \in Registered |-> FreshEntry]
        /\ running' = TRUE /\ launching' = Registered \ {"sidecar"}
        /\ UNCHANGED <<quit, posted, degr, poll, status, sawDown>>
        /\ SourcesAssumption
    BY SourcesAssumption DEF IInv, TypeOK, StagesSound, Unlaunched, Launch
  <1>1. PICK spawns \in BOOLEAN :
            /\ entry' = [id \in Registered |->
                            IF id = "sidecar" /\ ~spawns
                            THEN StartThrows(Watch(entry[id]), id, TRUE) ELSE Watch(entry[id])]
            /\ IF HasVision /\ spawns
               THEN child' = SpawnChild(child) /\ proc' = "running"
               ELSE UNCHANGED <<child, proc>>
    BY DEF Launch
  <1>2. \A id \in Registered :
            /\ entry[id] \in EntryType /\ ~entry[id].gaveUp /\ entry[id].restarts = 0
    BY <1>0, FreshIsEntry
  <1>3. \A id \in Registered : id # "sidecar" \/ spawns =>
            /\ entry'[id] = Watch(entry[id])
            /\ entry'[id] \in EntryType /\ entry'[id].restarts = 0
            /\ ~entry'[id].gaveUp /\ ~entry'[id].pending /\ entry'[id].watched
    <2> TAKE id \in Registered
    <2> HAVE id # "sidecar" \/ spawns
    <2>1. entry'[id] = Watch(entry[id])
      BY <1>1
    <2>2. QED
      BY <1>2, <2>1, WatchKeeps
  <1>4. HasVision /\ ~spawns =>
            LET f == entry'["sidecar"] IN
            f \in EntryType /\ ~f.gaveUp /\ f.pending /\ f.restarts = 1
    <2> SUFFICES ASSUME HasVision, ~spawns
                 PROVE  LET f == entry'["sidecar"] IN
                        f \in EntryType /\ ~f.gaveUp /\ f.pending /\ f.restarts = 1
      OBVIOUS
    <2>1. entry'["sidecar"] = StartThrows(Watch(entry["sidecar"]), "sidecar", TRUE)
      BY <1>1 DEF HasVision
    <2> DEFINE e == Watch(entry["sidecar"])
               f == StartThrows(e, "sidecar", TRUE)
    <2>2. e \in EntryType /\ ~e.gaveUp /\ e.restarts = 0 /\ MaxRestarts # 0
      BY <1>2, WatchKeeps, SourcesAssumption DEF HasVision
    <2>3. f \in EntryType /\ ~f.gaveUp /\ f.restarts = e.restarts + 1 /\ f.pending
      BY <2>2, StartThrowsIsExit
    <2>4. f.restarts = 1
      <3>1. e.restarts = 0 /\ f.restarts = e.restarts + 1
        BY <2>2, <2>3, Zenon
      <3> HIDE DEF e, f
      <3>2. QED
        BY <3>1
    <2>5. QED
      BY <2>1, <2>3, <2>4
  <1>5. entry' \in [Registered -> EntryType]
    <2>1. \A id \in Registered : entry'[id] \in EntryType
      BY <1>3, <1>4 DEF HasVision
    <2>2. QED
      BY <1>1, <2>1
  <1>6. child' \in ChildType /\ (proc' = "running" <=> child'.held) /\ proc' \in {"none", "running"}
        /\ (proc' = "running" <=> HasVision /\ spawns)
    <2>1. CASE HasVision /\ spawns
      <3>1. child' = [child EXCEPT !.held = TRUE, !.born = 0] /\ proc' = "running"
        BY <1>0, <1>1, <2>1 DEF SpawnChild
      <3>2. child \in ChildType /\ 0 \in AgeUpTo(Quiet)
        <4>1. child \in ChildType
          BY <1>0 DEF TypeOK, ChildType
        <4>2. 0 \in AgeUpTo(Quiet)
          BY SourcesAssumption DEF AgeUpTo
        <4>3. QED
          BY <4>1, <4>2
      <3>3. QED
        BY <2>1, <3>1, <3>2 DEF ChildType
    <2>2. CASE ~(HasVision /\ spawns)
      BY <1>0, <1>1, <2>2 DEF TypeOK, ChildType
    <2>3. QED
      BY <2>1, <2>2
  <1>7. TypeOK'
    BY <1>0, <1>5, <1>6 DEF TypeOK, EntryType, ChildType
  <1>8. RestartsSound'
    BY <1>0, <1>3, <1>4 DEF RestartsSound, HasVision
  <1>9. SidecarIsDriven'
    BY <1>0, <1>3, <1>4, <1>6 DEF SidecarIsDriven, HasVision
  <1>10. ListenerSound'
    BY <1>0, <1>3 DEF ListenerSound, SourcesAssumption
  <1>11. QED
    BY <1>0, <1>6, <1>7, <1>8, <1>9, <1>10
       DEF IInv, StagesSound, Unlaunched, ProcessSound, NothingOutlivesTheApp, RecoverySound

LEMMA WarmFailsKeeps == ASSUME IInv, WarmFails PROVE IInv'
  <1>0. /\ app \in {"warming", "leaving"} /\ ~running /\ app' = "gone"
        /\ UNCHANGED <<quit, running, entry, launching, child, proc, posted, degr, poll, status, sawDown>>
    BY DEF WarmFails
  <1>1. TypeOK'
    BY <1>0 DEF IInv, TypeOK
  <1>2. proc = "none"
    BY <1>0 DEF IInv, StagesSound, Unlaunched
  <1>3. QED
    BY <1>0, <1>1, <1>2 DEF IInv, StagesSound, Unlaunched, RestartsSound, ProcessSound, ListenerSound,
       SidecarIsDriven, NothingOutlivesTheApp, RecoverySound, HasVision

LEMMA StartSettlesKeeps ==
    ASSUME IInv, NEW id \in Registered, StartSettles(id) PROVE IInv'
  <1>0. /\ TypeOK /\ id \in launching /\ launching' = launching \ {id}
        /\ UNCHANGED <<app, quit, running, child, proc, posted, degr, poll, status, sawDown>>
    BY DEF IInv, StartSettles
  <1>1. CASE UNCHANGED entry
    <2>1. TypeOK'
      BY <1>0, <1>1, ZenonT(60) DEF TypeOK
    <2>2. ListenerSound'
      BY <1>0, <1>1 DEF IInv, ListenerSound
    <2>3. QED
      BY <1>0, <1>1, <2>1, <2>2 DEF IInv, StagesSound, Unlaunched, RestartsSound, ProcessSound,
         SidecarIsDriven, NothingOutlivesTheApp, RecoverySound, HasVision
  <1>2. CASE id = "gsi" /\ entry' = [entry EXCEPT ![id] = StartThrows(@, id, running)]
    <2> DEFINE e == entry["gsi"]
               f == StartThrows(e, "gsi", running)
    <2>1. "gsi" \in Registered /\ entry \in [Registered -> EntryType] /\ running \in BOOLEAN
      BY <1>0, SourcesAssumption DEF TypeOK, EntryType
    <2>2. e \in EntryType
      BY <2>1
    <2>3. f \in EntryType /\ f.restarts = e.restarts /\ ~f.pending
      BY <2>1, <2>2, StartThrowsIsExit
    <2>4. entry' = [entry EXCEPT !["gsi"] = f]
      BY <1>2
    <2>5. entry'["gsi"] = f
      BY <2>1, <2>4
    <2> HIDE DEF f
    <2>6. \A other \in Registered : other # "gsi" => entry'[other] = entry[other]
      BY <2>1, <2>4
    <2>7. TypeOK'
      <3>1. entry' \in [Registered -> EntryType]
        BY <2>1, <2>3, <2>4
      <3>2. QED
        BY <1>0, <3>1, ZenonT(60) DEF TypeOK, EntryType
    <2>8. StagesSound'
      BY <1>0 DEF IInv, StagesSound, Unlaunched
    <2>9. RestartsSound'
      BY <1>0, <2>3, <2>5, <2>6 DEF IInv, RestartsSound
    <2>10. ListenerSound'
      BY <1>0, <1>2, <2>3, <2>5 DEF IInv, ListenerSound
    <2>11. SidecarIsDriven'
      <3>1. HasVision => entry'["sidecar"] = entry["sidecar"]
        BY <2>6 DEF HasVision
      <3>2. QED
        BY <1>0, <3>1 DEF IInv, SidecarIsDriven, HasVision
    <2>12. QED
      BY <1>0, <2>7, <2>8, <2>9, <2>10, <2>11
         DEF IInv, ProcessSound, NothingOutlivesTheApp, RecoverySound, HasVision
  <1>3. QED
    BY <1>1, <1>2 DEF StartSettles

LEMMA StateStartedKeeps == ASSUME IInv, StateStarted PROVE IInv'
  <1>0. /\ app \in {"starting", "stopping", "leaving"}
        /\ app' = IF app = "starting" THEN "polling" ELSE app
        /\ poll' = "armed" /\ ReadHealth
        /\ status' = IF app = "starting" THEN Summarise(degr'.level) ELSE status
        /\ UNCHANGED <<quit, running, entry, launching, child, proc, posted>>
    BY DEF StateStarted
  <1>1. /\ degr' \in [level : {"full", "gsi_only"}, since : AgeUpTo(Hysteresis)]
        /\ sawDown' \in AgeUpTo(Hysteresis) /\ RecoverySound'
    BY <1>0, ReadHealthIsSound
  <1>2. status' \in {"starting", "no game data", "waiting for Dota 2", "full", "gsi_only"}
    BY <1>0, <1>1, SummaryIsStatus DEF IInv, TypeOK
  <1>3. TypeOK'
    BY <1>0, <1>1, <1>2 DEF IInv, TypeOK
  <1>4. QED
    BY <1>0, <1>1, <1>3 DEF IInv, StagesSound, Unlaunched, RestartsSound, ProcessSound, ListenerSound,
       SidecarIsDriven, NothingOutlivesTheApp, HasVision

LEMMA RelaunchKeeps == ASSUME IInv, Relaunch PROVE IInv'
  <1> DEFINE e == entry["sidecar"]
             g == Watch(e)
             f == StartThrows(g, "sidecar", running)
  <1>0. /\ TypeOK /\ HasVision /\ e.pending
        /\ UNCHANGED <<app, quit, running, launching, posted, degr, poll, status, sawDown>>
    BY DEF IInv, Relaunch
  <1>1. PICK spawns \in BOOLEAN :
            /\ entry' = [entry EXCEPT !["sidecar"] =
                            IF spawns THEN Watch(@) ELSE StartThrows(Watch(@), "sidecar", running)]
            /\ IF spawns
               THEN child' = SpawnChild(child) /\ proc' = "running"
               ELSE UNCHANGED <<child, proc>>
    BY DEF Relaunch
  <1>2. entry \in [Registered -> EntryType] /\ "sidecar" \in Registered /\ e \in EntryType
    BY <1>0 DEF TypeOK, EntryType, HasVision
  <1>3. running /\ ~e.gaveUp /\ proc = "none" /\ ~child.held
    <2>1. running /\ ~e.gaveUp
      BY <1>0, <1>2 DEF IInv, RestartsSound
    <2>2. proc = "none"
      BY <1>0, <2>1 DEF IInv, SidecarIsDriven
    <2>3. child.held \in BOOLEAN
      BY <1>0 DEF TypeOK
    <2>4. QED
      BY <1>0, <2>1, <2>2, <2>3 DEF IInv, SidecarIsDriven
  <1>4. g \in EntryType /\ ~g.gaveUp /\ ~g.pending /\ g.watched
    BY <1>2, <1>3, WatchKeeps
  <1>5. f \in EntryType /\ (f.pending <=> ~f.gaveUp)
    <2> HIDE DEF g
    <2>1. CASE g.restarts = MaxRestarts
      BY <1>3, <1>4, <2>1, StartThrowsIsExit
    <2>2. CASE g.restarts # MaxRestarts
      BY <1>3, <1>4, <2>2, StartThrowsIsExit
    <2>3. QED
      BY <2>1, <2>2
  <1>6. entry'["sidecar"] = IF spawns THEN g ELSE f
    BY <1>1, <1>2
  <1>7. \A other \in Registered : other # "sidecar" => entry'[other] = entry[other]
    BY <1>1, <1>2
  <1> HIDE DEF f, g
  <1>8. entry' \in [Registered -> EntryType]
    <2>1. \A id \in Registered : entry'[id] \in EntryType
      BY <1>2, <1>4, <1>5, <1>6, <1>7
    <2>2. entry' = [id \in Registered |-> entry'[id]]
      BY <1>1, <1>2
    <2>3. QED
      BY <2>1, <2>2
  <1>9. /\ child' \in ChildType
        /\ spawns => proc' = "running" /\ child'.held
        /\ ~spawns => proc' = "none" /\ ~child'.held
    <2>1. child \in ChildType /\ 0 \in AgeUpTo(Quiet)
      <3>1. child \in ChildType
        BY <1>0 DEF TypeOK, ChildType
      <3>2. 0 \in AgeUpTo(Quiet)
        BY SourcesAssumption DEF AgeUpTo
      <3>3. QED
        BY <3>1, <3>2
    <2>2. CASE spawns
      <3>1. child' = [child EXCEPT !.held = TRUE, !.born = 0] /\ proc' = "running"
        BY <1>1, <1>3, <2>2 DEF SpawnChild
      <3>2. QED
        BY <2>1, <2>2, <3>1 DEF ChildType
    <2>3. CASE ~spawns
      BY <1>1, <1>3, <2>1, <2>3
    <2>4. QED
      BY <2>2, <2>3
  <1>10. TypeOK'
    BY <1>0, <1>8, <1>9, ZenonT(60) DEF TypeOK, EntryType, ChildType
  <1>11. app \notin {"warming", "stopping", "gone"} /\ app' = app /\ running' = TRUE
    BY <1>0, <1>3 DEF IInv, StagesSound, TypeOK, Relaunch
  <1>12. SidecarIsDriven'
    BY <1>4, <1>5, <1>6, <1>9 DEF SidecarIsDriven
  <1>13. ListenerSound'
    BY <1>0, <1>7, SourcesAssumption DEF IInv, ListenerSound
  <1>14. RestartsSound'
    BY <1>4, <1>5, <1>6, <1>7, <1>11, <1>3 DEF IInv, RestartsSound
  <1>15. ProcessSound'
    BY <1>0, <1>9, <1>11 DEF ProcessSound, HasVision
  <1>16. QED
    BY <1>0, <1>10, <1>11, <1>12, <1>13, <1>14, <1>15
       DEF IInv, StagesSound, Unlaunched, NothingOutlivesTheApp, RecoverySound

LEMMA ChildExitsKeeps == ASSUME IInv, ChildExits PROVE IInv'
  <1> DEFINE e == entry["sidecar"]
             f == ScheduleRestart(e, "sidecar", running)
  <1>0. /\ TypeOK /\ proc = "running" /\ proc' = "none" /\ child' = Teardown(child)
        /\ UNCHANGED <<app, quit, running, launching, posted, degr, poll, status, sawDown>>
        /\ running /\ HasVision
    BY DEF IInv, ProcessSound, ChildExits
  <1>1. entry \in [Registered -> EntryType] /\ "sidecar" \in Registered /\ e \in EntryType
    BY <1>0 DEF TypeOK, EntryType, HasVision
  <1>2. ~e.gaveUp /\ ~e.pending /\ e.watched
    BY <1>0 DEF IInv, SidecarIsDriven
  <1>3. entry' = [entry EXCEPT !["sidecar"] = f]
    BY <1>2 DEF ChildExits
  <1>4. f \in EntryType /\ (f.pending <=> ~f.gaveUp)
    <2> HIDE DEF e
    <2>1. CASE e.restarts = MaxRestarts
      BY <1>0, <1>1, <1>2, <2>1, ScheduleRestarts
    <2>2. CASE e.restarts # MaxRestarts
      BY <1>0, <1>1, <1>2, <2>2, ScheduleRestarts
    <2>3. QED
      BY <2>1, <2>2
  <1>5. entry'["sidecar"] = f
    BY <1>1, <1>3
  <1>6. \A other \in Registered : other # "sidecar" => entry'[other] = entry[other]
    BY <1>1, <1>3
  <1> HIDE DEF f
  <1>7. entry' \in [Registered -> EntryType]
    BY <1>1, <1>3, <1>4
  <1>8. child' \in ChildType /\ ~child'.held
    BY <1>0 DEF TypeOK, ChildType, Teardown
  <1>9. TypeOK'
    BY <1>0, <1>7, <1>8 DEF TypeOK, EntryType, ChildType
  <1>10. app \notin {"warming", "stopping", "gone"} /\ app' = app
    BY <1>0 DEF IInv, StagesSound, ChildExits
  <1>11. SidecarIsDriven'
    BY <1>0, <1>4, <1>5, <1>8 DEF SidecarIsDriven
  <1>12. ListenerSound'
    BY <1>0, <1>6, SourcesAssumption DEF IInv, ListenerSound
  <1>13. RestartsSound'
    BY <1>0, <1>4, <1>5, <1>6 DEF IInv, RestartsSound
  <1>14. QED
    BY <1>0, <1>9, <1>10, <1>11, <1>12, <1>13
       DEF IInv, StagesSound, Unlaunched, ProcessSound, NothingOutlivesTheApp, RecoverySound

LEMMA ChildSpeaksKeeps == ASSUME IInv, ChildSpeaks PROVE IInv'
  <1>0. /\ child.held /\ child' = [child EXCEPT !.heard = 0]
        /\ UNCHANGED <<app, quit, running, entry, launching, proc, posted, degr, poll, status, sawDown>>
    BY DEF ChildSpeaks
  <1>1. child \in ChildType /\ 0 \in AgeUpTo(Quiet)
    <2>1. child \in ChildType
      BY DEF IInv, TypeOK, ChildType
    <2>2. 0 \in AgeUpTo(Quiet)
      BY SourcesAssumption DEF AgeUpTo
    <2>3. QED
      BY <2>1, <2>2
  <1>2. child' \in ChildType /\ child'.held = child.held
    BY <1>0, <1>1 DEF ChildType
  <1>3. UNCHANGED LivesVars
    BY <1>0, <1>2 DEF LivesVars
  <1>4. TypeOK'
    BY <1>0, <1>2, ZenonT(60) DEF IInv, TypeOK, ChildType
  <1>5. QED
    BY <1>0, <1>3, <1>4, LivesUnchanged DEF IInv, RecoverySound

LEMMA DotaPostsKeeps == ASSUME IInv, DotaPosts PROVE IInv'
  <1>0. /\ posted' = 0
        /\ UNCHANGED <<app, quit, running, entry, launching, child, proc, degr, poll, status, sawDown>>
    BY DEF DotaPosts
  <1>1. UNCHANGED LivesVars
    BY <1>0 DEF LivesVars
  <1>2. 0 \in AgeUpTo(Miss + 1)
    BY SourcesAssumption DEF AgeUpTo
  <1>3. TypeOK'
    BY <1>0, <1>2, ZenonT(60) DEF IInv, TypeOK
  <1>4. QED
    BY <1>0, <1>1, <1>3, LivesUnchanged DEF IInv, RecoverySound

LEMMA PollKeeps == ASSUME IInv, Poll PROVE IInv'
  <1>0. /\ poll' = "armed" /\ ReadHealth
        /\ status' = IF app = "polling" THEN Summarise(degr'.level) ELSE status
        /\ UNCHANGED <<app, quit, running, entry, launching, child, proc, posted>>
    BY DEF Poll
  <1>1. /\ degr' \in [level : {"full", "gsi_only"}, since : AgeUpTo(Hysteresis)]
        /\ sawDown' \in AgeUpTo(Hysteresis) /\ RecoverySound'
    BY <1>0, ReadHealthIsSound
  <1>2. status' \in {"starting", "no game data", "waiting for Dota 2", "full", "gsi_only"}
    BY <1>0, <1>1, SummaryIsStatus DEF IInv, TypeOK
  <1>3. UNCHANGED LivesVars
    BY <1>0 DEF LivesVars
  <1>4. TypeOK'
    BY <1>0, <1>1, <1>2 DEF IInv, TypeOK
  <1>5. QED
    BY <1>1, <1>3, <1>4, LivesUnchanged DEF IInv

LEMMA InspectKeeps == ASSUME IInv, Inspect PROVE IInv'
  <1>0. /\ ReadHealth
        /\ UNCHANGED <<app, quit, running, entry, launching, child, proc, posted, poll, status>>
    BY DEF Inspect
  <1>1. /\ degr' \in [level : {"full", "gsi_only"}, since : AgeUpTo(Hysteresis)]
        /\ sawDown' \in AgeUpTo(Hysteresis) /\ RecoverySound'
    BY <1>0, ReadHealthIsSound
  <1>2. UNCHANGED LivesVars
    BY <1>0 DEF LivesVars
  <1>3. TypeOK'
    BY <1>0, <1>1, ZenonT(60) DEF IInv, TypeOK
  <1>4. QED
    BY <1>1, <1>2, <1>3, LivesUnchanged DEF IInv

LEMMA TickKeeps == ASSUME IInv, Tick PROVE IInv'
  <1>0. /\ child' = [child EXCEPT !.born = Older(@, Quiet), !.heard = Older(@, Quiet)]
        /\ posted' = Older(posted, Miss + 1)
        /\ degr' = [degr EXCEPT !.since = Older(@, Hysteresis)]
        /\ poll' = IF poll = "armed" THEN "due" ELSE poll
        /\ sawDown' = Older(sawDown, Hysteresis)
        /\ UNCHANGED <<app, quit, running, entry, launching, proc, status>>
    BY DEF Tick
  <1>1. /\ child \in ChildType /\ posted \in AgeUpTo(Miss + 1) /\ sawDown \in AgeUpTo(Hysteresis)
        /\ degr \in [level : {"full", "gsi_only"}, since : AgeUpTo(Hysteresis)]
        /\ Quiet \in Nat /\ Miss + 1 \in Nat /\ Hysteresis \in Nat
    <2>1. Quiet \in Nat /\ Miss + 1 \in Nat /\ Hysteresis \in Nat
      BY SourcesAssumption
    <2>2. QED
      BY <2>1 DEF IInv, TypeOK, ChildType
  <1>2. child' \in ChildType /\ child'.held = child.held
    <2>1. Older(child.born, Quiet) \in AgeUpTo(Quiet) /\ Older(child.heard, Quiet) \in AgeUpTo(Quiet)
      BY <1>1, OlderIsAge DEF ChildType
    <2>2. QED
      BY <1>0, <1>1, <2>1 DEF ChildType
  <1>3. posted' \in AgeUpTo(Miss + 1) /\ sawDown' \in AgeUpTo(Hysteresis)
    BY <1>0, <1>1, OlderIsAge
  <1>4. /\ degr' \in [level : {"full", "gsi_only"}, since : AgeUpTo(Hysteresis)]
        /\ degr'.level = degr.level /\ degr'.since = Older(degr.since, Hysteresis)
    <2>1. Older(degr.since, Hysteresis) \in AgeUpTo(Hysteresis)
      BY <1>1, OlderIsAge
    <2>2. QED
      BY <1>0, <1>1, <2>1
  <1>5. TypeOK'
    BY <1>0, <1>2, <1>3, <1>4 DEF IInv, TypeOK, ChildType
  <1>6. RecoverySound'
    <2>1. sawDown' <= Hysteresis
      BY <1>1, <1>3 DEF AgeUpTo
    <2>2. ASSUME degr.level = "gsi_only"
          PROVE  sawDown' >= 0 /\ degr'.since <= sawDown'
      <3>1. sawDown >= 0 /\ degr.since <= sawDown
        BY <2>2 DEF IInv, RecoverySound
      <3>2. QED
        BY <1>0, <1>1, <1>4, <3>1, OlderIsMonotone
    <2>3. QED
      BY <1>4, <2>1, <2>2 DEF RecoverySound
  <1>7. UNCHANGED LivesVars
    BY <1>0, <1>2 DEF LivesVars
  <1>8. QED
    BY <1>5, <1>6, <1>7, LivesUnchanged DEF IInv

LEMMA QuitKeeps == ASSUME IInv, Quit PROVE IInv'
  <1>0. /\ app \in {"starting", "polling"} /\ app' = "stopping" /\ quit' = "once"
        /\ poll' = IF poll = "none" THEN poll ELSE "off"
        /\ running' = FALSE
        /\ entry' = [id \in Registered |-> Detach(entry[id])]
        /\ child' = [Teardown(child) EXCEPT !.born = Never]
        /\ proc' = IF proc = "running" THEN "dying" ELSE proc
        /\ UNCHANGED <<launching, posted, degr, status, sawDown>>
    BY DEF Quit
  <1>1. \A id \in Registered :
            /\ entry'[id] \in EntryType
            /\ entry'[id].restarts = entry[id].restarts
            /\ entry'[id].gaveUp = entry[id].gaveUp
            /\ ~entry'[id].pending
    <2> TAKE id \in Registered
    <2>1. entry[id] \in EntryType
      BY DEF IInv, TypeOK, EntryType
    <2>2. QED
      BY <1>0, <2>1, DetachKeeps
  <1>2. child' \in ChildType
    <2>1. child \in ChildType
      BY DEF IInv, TypeOK, ChildType
    <2>2. Never \in AgeUpTo(Quiet)
      BY SourcesAssumption DEF AgeUpTo, Never
    <2>3. QED
      BY <1>0, <2>1, <2>2 DEF ChildType, Teardown
  <1>3. TypeOK'
    <2>1. entry' \in [Registered -> EntryType]
      BY <1>0, <1>1
    <2>2. QED
      BY <1>0, <1>2, <2>1 DEF IInv, TypeOK, EntryType, ChildType
  <1>4. ListenerSound'
    BY <1>0, <1>1, SourcesAssumption DEF IInv, ListenerSound
  <1>5. RestartsSound'
    BY <1>1 DEF RestartsSound
  <1>6. ProcessSound'
    BY <1>0 DEF IInv, TypeOK, ProcessSound, HasVision
  <1>7. QED
    BY <1>0, <1>3, <1>4, <1>5, <1>6
       DEF IInv, StagesSound, Unlaunched, SidecarIsDriven, NothingOutlivesTheApp, RecoverySound

LEMMA QuitColdKeeps == ASSUME IInv, QuitCold PROVE IInv'
  <1>0. /\ app = "warming" /\ app' = "leaving" /\ quit' = "cold"
        /\ UNCHANGED <<running, entry, launching, child, proc, posted, degr, poll, status, sawDown>>
    BY DEF QuitCold
  <1>1. TypeOK'
    BY <1>0 DEF IInv, TypeOK
  <1>2. ~running /\ quit = "none" /\ proc = "none"
    BY <1>0 DEF IInv, StagesSound, Unlaunched
  <1>3. QED
    BY <1>0, <1>1, <1>2 DEF IInv, StagesSound, Unlaunched, RestartsSound, ProcessSound, ListenerSound,
       SidecarIsDriven, NothingOutlivesTheApp, RecoverySound, HasVision

LEMMA ChildDiesKeeps == ASSUME IInv, ChildDies PROVE IInv'
  <1>0. /\ proc = "dying" /\ proc' = "none"
        /\ UNCHANGED <<app, quit, running, entry, launching, child, posted, degr, poll, status, sawDown>>
    BY DEF ChildDies
  <1>1. TypeOK'
    BY <1>0, ZenonT(60) DEF IInv, TypeOK
  <1>2. ~running /\ ~Unlaunched
    BY <1>0 DEF IInv, ProcessSound, StagesSound, Unlaunched
  <1>3. QED
    BY <1>0, <1>1, <1>2 DEF IInv, StagesSound, Unlaunched, RestartsSound, ProcessSound, ListenerSound,
       SidecarIsDriven, NothingOutlivesTheApp, RecoverySound, HasVision

LEMMA StopSettlesKeeps == ASSUME IInv, StopSettles PROVE IInv'
  <1>0. /\ \/ app = "stopping" /\ proc # "dying"
           \/ app = "leaving"
        /\ app' = "gone"
        /\ UNCHANGED <<quit, running, entry, launching, child, proc, posted, degr, poll, status, sawDown>>
    BY DEF StopSettles
  <1>1. TypeOK'
    BY <1>0 DEF IInv, TypeOK
  <1>2. /\ app = "stopping" => proc = "none" /\ ~running /\ quit = "once"
        /\ app = "leaving" => quit = "cold" /\ proc # "dying"
    BY <1>0 DEF IInv, TypeOK, ProcessSound, StagesSound
  <1>3. QED
    BY <1>0, <1>1, <1>2 DEF IInv, StagesSound, Unlaunched, RestartsSound, ProcessSound, ListenerSound,
       SidecarIsDriven, NothingOutlivesTheApp, RecoverySound, HasVision

LEMMA QuitAgainKeeps == ASSUME IInv, QuitAgain PROVE IInv'
  <1>0. /\ app \in {"leaving", "stopping"} /\ app' = "gone" /\ quit' = "twice"
        /\ UNCHANGED <<running, entry, launching, child, proc, posted, degr, poll, status, sawDown>>
    BY DEF QuitAgain
  <1>1. TypeOK'
    BY <1>0 DEF IInv, TypeOK
  <1>2. QED
    BY <1>0, <1>1 DEF IInv, StagesSound, Unlaunched, RestartsSound, ProcessSound, ListenerSound,
       SidecarIsDriven, NothingOutlivesTheApp, RecoverySound, HasVision

LEMMA StutterKeeps == ASSUME IInv, UNCHANGED sourceVars PROVE IInv'
  <1>1. UNCHANGED LivesVars
    BY DEF sourceVars, LivesVars
  <1>2. TypeOK'
    <2>1. TypeOK
      BY DEF IInv
    <2>2. QED
      BY <2>1, ZenonT(60) DEF sourceVars, TypeOK
  <1>3. QED
    BY <1>1, <1>2, LivesUnchanged DEF sourceVars, IInv, RecoverySound

LEMMA NextInvariant == IInv /\ [Next]_sourceVars => IInv'
  <1> SUFFICES ASSUME IInv, [Next]_sourceVars PROVE IInv'
    OBVIOUS
  <1>1. CASE UNCHANGED sourceVars
    BY <1>1, StutterKeeps
  <1>2. ASSUME NEW id \in Registered, StartSettles(id) PROVE IInv'
    BY <1>2, StartSettlesKeeps
  <1>3. QED
    BY <1>1, <1>2, LaunchKeeps, WarmFailsKeeps, StateStartedKeeps, RelaunchKeeps, ChildExitsKeeps,
       ChildSpeaksKeeps, DotaPostsKeeps, PollKeeps, InspectKeeps, TickKeeps, QuitKeeps,
       QuitColdKeeps, ChildDiesKeeps, StopSettlesKeeps, QuitAgainKeeps
       DEF Next

-----------------------------------------------------------------------------
(* The theorems *)

\* The inductive invariant: stages, restarts, the process, the listener and the
\* recovery of the level agree, for every number of restarts and every delay.
THEOREM InvariantHolds == Spec => []IInv
  BY InitInvariant, NextInvariant, PTL DEF Spec

\* The variables keep their types: no source is restarted more often than it may be.
THEOREM TypesHold == Spec => []TypeOK
  <1>1. IInv => TypeOK
    BY DEF IInv
  <1>2. QED
    BY <1>1, InvariantHolds, PTL

\* While the supervisor runs, exactly one thing moves the sidecar, or it was given up.
THEOREM DrivenHolds == Spec => []SidecarIsDriven
  <1>1. IInv => SidecarIsDriven
    BY DEF IInv
  <1>2. QED
    BY <1>1, InvariantHolds, PTL

\* An app that is told to quit once, when its sources run, leaves no process behind,
\* for every number of restarts; of a quit while the window warms it says nothing.
THEOREM NothingLeftHolds == Spec => []NothingOutlivesTheApp
  <1>1. IInv => NothingOutlivesTheApp
    BY DEF IInv
  <1>2. QED
    BY <1>1, InvariantHolds, PTL

\* Reading the health raises the level only when the whole hysteresis has passed
\* since anything saw the sidecar down.
LEMMA RisesLate ==
    ASSUME IInv, ReadHealth, degr.level = "gsi_only", degr'.level = "full"
    PROVE  sawDown = Hysteresis
  <1>1. /\ degr \in [level : {"full", "gsi_only"}, since : AgeUpTo(Hysteresis)]
        /\ sawDown \in AgeUpTo(Hysteresis)
        /\ degr.since <= sawDown
    BY DEF IInv, TypeOK, RecoverySound
  <1>2. ~VisionDown
    <2>1. SUFFICES ASSUME VisionDown PROVE FALSE
      OBVIOUS
    <2>2. degr' = [level |-> "gsi_only", since |-> Never]
      BY <2>1 DEF ReadHealth, Evaluate, ImpliedLevel
    <2>3. QED
      BY <2>2
  <1>3. degr.since >= Hysteresis
    <2>1. SUFFICES ASSUME ~(degr.since >= Hysteresis) PROVE FALSE
      OBVIOUS
    <2>2. degr' = [degr EXCEPT !.since = IF @ = Never THEN 0 ELSE @]
      BY <1>2, <2>1 DEF ReadHealth, Evaluate, ImpliedLevel
    <2>3. degr'.level = degr.level
      BY <1>1, <2>2
    <2>4. QED
      BY <2>3
  <1>4. Hysteresis \in Nat
    BY SourcesAssumption
  <1>5. QED
    BY <1>1, <1>3, <1>4 DEF AgeUpTo

\* A level that fell rises only when no evaluation saw the sidecar down for as long as
\* the hysteresis asks, for every hysteresis and however the evaluations fall.
THEOREM RecoveryHolds == Spec => RecoversSlowly
  <1>1. IInv /\ [Next]_sourceVars =>
            [degr.level = "gsi_only" /\ degr'.level = "full" => sawDown = Hysteresis]_sourceVars
    <2> SUFFICES ASSUME IInv, Next, degr.level = "gsi_only", degr'.level = "full"
                 PROVE  sawDown = Hysteresis
      OBVIOUS
    <2>1. ReadHealth \/ degr' = degr \/ degr' = [degr EXCEPT !.since = Older(@, Hysteresis)]
      BY DEF Next, Launch, WarmFails, StateStarted, Relaunch, ChildExits, ChildSpeaks, DotaPosts,
             Poll, Inspect, Tick, Quit, QuitCold, ChildDies, StopSettles, QuitAgain, StartSettles
    <2>2. degr \in [level : {"full", "gsi_only"}, since : AgeUpTo(Hysteresis)]
      BY DEF IInv, TypeOK
    <2>3. QED
      BY <2>1, <2>2, RisesLate
  <1>2. QED
    BY <1>1, InvariantHolds, PTL DEF Spec, RecoversSlowly

-----------------------------------------------------------------------------
(* The refinement *)

ListenerLife == LifeOf("gsi", "gsi" \notin launching)

SidecarLife == LifeOf("sidecar", proc = "running")

\* How the life of a source reads, before, while and after the supervisor runs.
LEMMA LifeReads ==
    ASSUME IInv, NEW id \in Registered, NEW up \in BOOLEAN
    PROVE  /\ Unlaunched => LifeOf(id, up) = "off"
           /\ ~running /\ ~Unlaunched => LifeOf(id, up) = "stopped"
           /\ running /\ entry[id].gaveUp => LifeOf(id, up) = "gaveUp"
           /\ running /\ ~entry[id].gaveUp /\ entry[id].pending => LifeOf(id, up) = "waiting"
           /\ running /\ ~entry[id].gaveUp /\ ~entry[id].pending /\ up => LifeOf(id, up) = "up"
           /\ running /\ ~entry[id].gaveUp /\ ~entry[id].pending /\ ~up => LifeOf(id, up) = "off"
  <1>1. running \in BOOLEAN
    BY DEF IInv, TypeOK
  <1>2. CASE Unlaunched
    BY <1>1, <1>2 DEF LifeOf, Unlaunched
  <1>3. CASE ~running /\ ~Unlaunched
    BY <1>1, <1>3 DEF LifeOf, Unlaunched
  <1>4. CASE running /\ entry[id].gaveUp
    BY <1>1, <1>4 DEF LifeOf, Unlaunched
  <1>5. CASE running /\ ~entry[id].gaveUp /\ entry[id].pending
    BY <1>1, <1>5 DEF LifeOf, Unlaunched
  <1>6. CASE running /\ ~entry[id].gaveUp /\ ~entry[id].pending /\ up
    BY <1>1, <1>6 DEF LifeOf, Unlaunched
  <1>7. CASE running /\ ~entry[id].gaveUp /\ ~entry[id].pending /\ ~up
    BY <1>1, <1>7 DEF LifeOf, Unlaunched
  <1>8. QED
    BY <1>1, <1>2, <1>3, <1>4, <1>5, <1>6, <1>7 DEF Unlaunched

ListenerReads ==
    /\ Unlaunched => ListenerLife = "off"
    /\ ~running /\ ~Unlaunched => ListenerLife = "stopped"
    /\ running /\ entry["gsi"].gaveUp => ListenerLife = "gaveUp"
    /\ running /\ ~entry["gsi"].gaveUp /\ "gsi" \notin launching => ListenerLife = "up"
    /\ running /\ ~entry["gsi"].gaveUp /\ "gsi" \in launching => ListenerLife = "off"

SidecarReads ==
    /\ Unlaunched => SidecarLife = "off"
    /\ ~running /\ ~Unlaunched => SidecarLife = "stopped"
    /\ running /\ entry["sidecar"].gaveUp => SidecarLife = "gaveUp"
    /\ running /\ ~entry["sidecar"].gaveUp /\ proc = "none" => SidecarLife = "waiting"
    /\ running /\ ~entry["sidecar"].gaveUp /\ proc = "running" => SidecarLife = "up"

LEMMA ListenerReadsNow == IInv => ListenerReads
  <1> SUFFICES ASSUME IInv PROVE ListenerReads
    OBVIOUS
  <1>1. "gsi" \in Registered /\ ("gsi" \notin launching) \in BOOLEAN
    BY SourcesAssumption
  <1>2. ~entry["gsi"].pending
    BY <1>1 DEF IInv, RestartsSound
  <1>3. QED
    BY <1>1, <1>2, LifeReads DEF ListenerReads, ListenerLife

LEMMA SidecarReadsNow == IInv /\ HasVision => SidecarReads
  <1> SUFFICES ASSUME IInv, HasVision PROVE SidecarReads
    OBVIOUS
  <1>1. "sidecar" \in Registered /\ (proc = "running") \in BOOLEAN
    BY DEF HasVision
  <1>2. running /\ ~entry["sidecar"].gaveUp => (entry["sidecar"].pending <=> proc = "none")
    BY DEF IInv, SidecarIsDriven
  <1>3. QED
    BY <1>1, <1>2, LifeReads DEF SidecarReads, SidecarLife

LEMMA ListenerReadsNext == IInv' => ListenerReads'
  BY ListenerReadsNow, PTL

LEMMA SidecarReadsNext == IInv' /\ HasVision => SidecarReads'
  <1>1. IInv' /\ HasVision' => SidecarReads'
    BY SidecarReadsNow, PTL
  <1>2. HasVision' = HasVision
    BY DEF HasVision
  <1>3. QED
    BY <1>1, <1>2

\* A step is a step of the life that is promised, or a stutter.
LEMMA ListenerStep ==
    ASSUME IInv, IInv', [Next]_sourceVars
    PROVE  [TheListener!Lives]_(TheListener!life)
  <1> DEFINE tries == entry["gsi"].restarts
  <1>0. ListenerReads /\ ListenerReads' /\ tries = 0 /\ tries' = 0
    BY ListenerReadsNow, ListenerReadsNext DEF IInv, ListenerSound
  <1>1. "gsi" \in Registered /\ "gsi" # "sidecar" /\ entry \in [Registered -> EntryType]
    BY SourcesAssumption DEF IInv, TypeOK, EntryType
  <1>2. SUFFICES \/ ListenerLife' = ListenerLife
                 \/ ListenerLife = "off" /\ ListenerLife' \in {"up", "gaveUp"}
                 \/ ListenerLife # "stopped" /\ ListenerLife' = "stopped"
    BY <1>0 DEF TheListener!Lives, TheListener!life, TheListener!Rises, TheListener!GivesUp,
       TheListener!Stops, ListenerLife
  <1>3. CASE UNCHANGED <<quit, running, entry, launching>>
    BY <1>3 DEF ListenerLife, LifeOf
  <1>4. CASE Launch
    <2>1. Unlaunched /\ running' = TRUE /\ "gsi" \in launching'
      BY <1>1, <1>4 DEF Launch, IInv, StagesSound, Unlaunched
    <2>2. ~entry'["gsi"].gaveUp
      BY <2>1 DEF IInv, ListenerSound
    <2>3. QED
      BY <1>0, <2>1, <2>2 DEF ListenerReads
  <1>5. ASSUME NEW id \in Registered, StartSettles(id)
        PROVE  \/ ListenerLife' = ListenerLife
               \/ ListenerLife = "off" /\ ListenerLife' \in {"up", "gaveUp"}
    <2>1. /\ id \in launching /\ launching' = launching \ {id}
          /\ UNCHANGED <<app, quit, running>>
      BY <1>5 DEF StartSettles
    <2>2. CASE ~running
      BY <1>0, <2>1, <2>2 DEF ListenerReads, Unlaunched
    <2>3. CASE running /\ id = "gsi"
      BY <1>0, <2>1, <2>3 DEF ListenerReads, IInv, ListenerSound, TypeOK
    <2>4. CASE running /\ id # "gsi"
      <3>1. entry' = entry
        BY <1>5, <2>4 DEF StartSettles
      <3>2. "gsi" \in launching' <=> "gsi" \in launching
        BY <2>1, <2>4
      <3>3. QED
        BY <2>1, <3>1, <3>2 DEF ListenerLife, LifeOf
    <2>5. QED
      BY <2>2, <2>3, <2>4 DEF IInv, TypeOK
  <1>6. CASE Relaunch \/ ChildExits
    <2>1. quit' = quit /\ running' = running /\ launching' = launching
      BY <1>6 DEF Relaunch, ChildExits
    <2>2. entry'["gsi"] = entry["gsi"]
      BY <1>1, <1>6 DEF Relaunch, ChildExits
    <2>3. QED
      BY <2>1, <2>2 DEF ListenerLife, LifeOf
  <1>7. CASE Quit
    <2>1. running /\ ~running' /\ ~Unlaunched'
      BY <1>7 DEF Quit, IInv, StagesSound, Unlaunched
    <2>2. ListenerLife' = "stopped"
      BY <1>0, <2>1 DEF ListenerReads
    <2>3. ListenerLife # "stopped"
      BY <1>0, <2>1 DEF ListenerReads, IInv, TypeOK
    <2>4. QED
      BY <2>2, <2>3
  <1>8. CASE QuitCold
    <2>1. Unlaunched /\ Unlaunched'
      BY <1>8 DEF QuitCold, IInv, StagesSound, Unlaunched
    <2>2. QED
      BY <1>0, <2>1 DEF ListenerReads
  <1>9. CASE QuitAgain
    <2>1. running' = running /\ entry' = entry /\ launching' = launching /\ ~Unlaunched'
      BY <1>9 DEF QuitAgain, Unlaunched
    <2>2. CASE running
      BY <2>1, <2>2 DEF ListenerLife, LifeOf
    <2>3. CASE ~running
      BY <1>0, <2>1, <2>3 DEF ListenerReads
    <2>4. QED
      BY <2>2, <2>3
  <1>10. QED
    BY <1>3, <1>4, <1>5, <1>6, <1>7, <1>8, <1>9
       DEF Next, sourceVars, WarmFails, StateStarted, ChildSpeaks, DotaPosts, Poll, Inspect, Tick,
           ChildDies, StopSettles

\* The sidecar after an exit or a spawn that threw: one more try, or none left.
LEMMA SidecarFalls ==
    ASSUME IInv, IInv', HasVision, running',
           SidecarLife \in {"off", "up", "waiting"}, proc' = "none",
           NEW e \in EntryType, ~e.gaveUp, e.restarts = entry["sidecar"].restarts,
           LET f == ScheduleRestart(e, "sidecar", TRUE) IN
           /\ entry'["sidecar"].gaveUp = f.gaveUp
           /\ entry'["sidecar"].restarts = f.restarts
    PROVE  TheSidecar!Falls \/ TheSidecar!GivesUp
  <1> DEFINE f == ScheduleRestart(e, "sidecar", TRUE)
  <1>0. SidecarReads'
    BY SidecarReadsNext
  <1>1. MaxRestarts \in Nat /\ e.restarts \in 0..MaxRestarts /\ "sidecar" \in Registered
    BY SourcesAssumption DEF EntryType, HasVision
  <1>2. CASE e.restarts = MaxRestarts
    <2>1. f.gaveUp /\ f.restarts = e.restarts
      BY <1>2, ScheduleRestarts
    <2>2. SidecarLife' = "gaveUp"
      BY <1>0, <2>1 DEF SidecarReads
    <2>3. QED
      BY <1>2, <2>1, <2>2 DEF TheSidecar!GivesUp, SidecarLife
  <1>3. CASE e.restarts # MaxRestarts
    <2>1. ~f.gaveUp /\ f.restarts = e.restarts + 1 /\ e.restarts < MaxRestarts
      BY <1>3, ScheduleRestarts
    <2>2. SidecarLife' = "waiting"
      BY <1>0, <2>1 DEF SidecarReads
    <2>3. QED
      BY <1>3, <2>1, <2>2 DEF TheSidecar!Falls, SidecarLife
  <1>4. QED
    BY <1>2, <1>3

LEMMA SidecarStep ==
    ASSUME IInv, IInv', HasVision, [Next]_sourceVars
    PROVE  [TheSidecar!Lives]_(TheSidecar!life)
  <1> DEFINE e == entry["sidecar"]
             tries == e.restarts
  <1>0. SidecarReads /\ SidecarReads'
    BY SidecarReadsNow, SidecarReadsNext
  <1>1. "sidecar" \in Registered /\ entry \in [Registered -> EntryType] /\ e \in EntryType
    BY DEF IInv, TypeOK, EntryType, HasVision
  <1>2. SidecarLife' = SidecarLife /\ tries' = tries => [TheSidecar!Lives]_(TheSidecar!life)
    BY DEF TheSidecar!life, SidecarLife
  <1>3. SidecarLife \in {"off", "waiting"} /\ SidecarLife' = "up" /\ tries' = tries =>
            TheSidecar!Lives
    BY DEF TheSidecar!Lives, TheSidecar!Rises, SidecarLife
  <1>4. SidecarLife # "stopped" /\ SidecarLife' = "stopped" /\ tries' = tries =>
            TheSidecar!Lives
    BY DEF TheSidecar!Lives, TheSidecar!Stops, SidecarLife
  <1>5. TheSidecar!Falls \/ TheSidecar!GivesUp => TheSidecar!Lives
    BY DEF TheSidecar!Lives
  <1>6. CASE UNCHANGED <<quit, running, entry, proc>>
    BY <1>2, <1>6 DEF SidecarLife, LifeOf
  <1>7. CASE Launch
    <2>1. /\ Unlaunched /\ running' = TRUE /\ e = FreshEntry /\ SidecarLife = "off"
      BY <1>0, <1>1, <1>7 DEF Launch, IInv, StagesSound, Unlaunched, SidecarReads
    <2>2. PICK spawns \in BOOLEAN :
              /\ entry'["sidecar"] = IF spawns THEN Watch(e) ELSE StartThrows(Watch(e), "sidecar", TRUE)
              /\ IF spawns THEN proc' = "running" ELSE proc' = proc
      BY <1>1, <1>7 DEF Launch, HasVision
    <2>3. Watch(e) \in EntryType /\ Watch(e).restarts = tries /\ ~Watch(e).gaveUp
      BY <1>1, <2>1, FreshIsEntry, WatchKeeps
    <2>4. CASE spawns
      <3>1. tries' = tries /\ ~entry'["sidecar"].gaveUp /\ proc' = "running"
        BY <2>2, <2>3, <2>4
      <3>2. QED
        BY <1>0, <1>3, <2>1, <3>1 DEF SidecarReads
    <2>5. CASE ~spawns
      <3> DEFINE g == Detach(Watch(e))
      <3>1. g \in EntryType /\ g.restarts = tries /\ ~g.gaveUp
        BY <2>3, DetachKeeps
      <3>2. entry'["sidecar"] = ScheduleRestart(g, "sidecar", TRUE) /\ proc' = proc
        BY <2>2, <2>5 DEF StartThrows
      <3>3. proc' = "none" /\ running'
        BY <2>1, <3>2 DEF IInv, StagesSound, Unlaunched
      <3>4. QED
        BY <1>5, <2>1, <3>1, <3>2, <3>3, SidecarFalls
    <2>6. QED
      BY <2>4, <2>5
  <1>8. CASE Relaunch
    <2>1. /\ e.pending /\ running' = running
      BY <1>8 DEF Relaunch
    <2>2. running /\ ~e.gaveUp /\ proc = "none"
      BY <1>1, <2>1 DEF IInv, RestartsSound, SidecarIsDriven
    <2>3. SidecarLife = "waiting"
      BY <1>0, <2>2 DEF SidecarReads
    <2>4. PICK spawns \in BOOLEAN :
              /\ entry'["sidecar"] = IF spawns THEN Watch(e) ELSE StartThrows(Watch(e), "sidecar", running)
              /\ IF spawns THEN proc' = "running" ELSE proc' = proc
      BY <1>1, <1>8 DEF Relaunch
    <2>5. Watch(e) \in EntryType /\ Watch(e).restarts = tries /\ ~Watch(e).gaveUp
      BY <1>1, <2>2, WatchKeeps
    <2>6. CASE spawns
      <3>1. tries' = tries /\ ~entry'["sidecar"].gaveUp /\ proc' = "running" /\ running'
        BY <2>1, <2>2, <2>4, <2>5, <2>6
      <3>2. QED
        BY <1>0, <1>3, <2>3, <3>1 DEF SidecarReads
    <2>7. CASE ~spawns
      <3> DEFINE g == Detach(Watch(e))
      <3>1. g \in EntryType /\ g.restarts = tries /\ ~g.gaveUp
        BY <2>5, DetachKeeps
      <3>2. running = TRUE
        BY <2>2 DEF IInv, TypeOK
      <3>3. entry'["sidecar"] = ScheduleRestart(g, "sidecar", TRUE) /\ proc' = "none" /\ running'
        BY <2>1, <2>2, <2>4, <2>7, <3>2 DEF StartThrows
      <3>4. QED
        BY <1>5, <2>2, <2>3, <3>1, <3>3, SidecarFalls
    <2>8. QED
      BY <2>6, <2>7
  <1>9. CASE ChildExits
    <2>1. /\ proc = "running" /\ proc' = "none" /\ running' = running
      BY <1>9 DEF ChildExits
    <2>2. running = TRUE
      BY <2>1 DEF IInv, TypeOK, ProcessSound
    <2>3. ~e.gaveUp /\ e.watched
      BY <2>1, <2>2 DEF IInv, SidecarIsDriven
    <2>4. SidecarLife = "up"
      BY <1>0, <2>1, <2>2, <2>3 DEF SidecarReads
    <2>5. entry'["sidecar"] = ScheduleRestart(e, "sidecar", TRUE)
      BY <1>1, <1>9, <2>2, <2>3 DEF ChildExits
    <2>6. QED
      BY <1>1, <1>5, <2>1, <2>2, <2>3, <2>4, <2>5, SidecarFalls
  <1>10. CASE Quit
    <2>1. /\ running /\ ~running' /\ ~Unlaunched'
          /\ entry'["sidecar"] = Detach(e)
      BY <1>1, <1>10 DEF Quit, IInv, StagesSound, Unlaunched
    <2>2. tries' = tries
      BY <1>1, <2>1, DetachKeeps
    <2>3. SidecarLife # "stopped"
      BY <2>1 DEF SidecarLife, LifeOf
    <2>4. QED
      BY <1>0, <1>4, <2>1, <2>2, <2>3 DEF SidecarReads
  <1>11. CASE QuitCold
    <2>1. Unlaunched /\ Unlaunched' /\ tries' = tries
      BY <1>11 DEF QuitCold, IInv, StagesSound, Unlaunched
    <2>2. QED
      BY <1>0, <1>2, <2>1 DEF SidecarReads
  <1>12. CASE QuitAgain
    <2>1. running' = running /\ entry' = entry /\ proc' = proc /\ ~Unlaunched'
      BY <1>12 DEF QuitAgain, Unlaunched
    <2>2. CASE running
      BY <1>2, <2>1, <2>2 DEF SidecarLife, LifeOf
    <2>3. CASE ~running
      BY <1>0, <1>2, <1>4, <2>1, <2>3 DEF SidecarReads
    <2>4. QED
      BY <2>2, <2>3
  <1>13. ASSUME NEW id \in Registered, StartSettles(id)
         PROVE  SidecarLife' = SidecarLife /\ tries' = tries
    <2>1. UNCHANGED <<quit, running, proc>> /\ entry'["sidecar"] = entry["sidecar"]
      BY <1>1, <1>13 DEF StartSettles
    <2>2. QED
      BY <2>1 DEF SidecarLife, LifeOf
  <1>14. CASE ChildDies
    <2>1. /\ proc = "dying" /\ UNCHANGED <<quit, running, entry>>
      BY <1>14 DEF ChildDies
    <2>2. ~running /\ ~running'
      BY <2>1 DEF IInv, ProcessSound
    <2>3. QED
      BY <1>2, <2>1, <2>2 DEF SidecarLife, LifeOf
  <1>15. QED
    BY <1>2, <1>6, <1>7, <1>8, <1>9, <1>10, <1>11, <1>12, <1>13, <1>14
       DEF Next, sourceVars, WarmFails, StateStarted, ChildSpeaks, DotaPosts, Poll, Inspect, Tick,
           StopSettles

\* The listener is tried once: it comes up or is given up, and nothing more.
THEOREM ListenerLives == Spec => TheListener!Life
  <1>1. Init => TheListener!Born
    <2> SUFFICES ASSUME Init PROVE TheListener!Born
      OBVIOUS
    <2>1. "gsi" \in Registered
      BY SourcesAssumption
    <2>2. QED
      BY <2>1 DEF Init, TheListener!Born, LifeOf, FreshEntry
  <1>2. IInv /\ IInv' /\ [Next]_sourceVars => [TheListener!Lives]_(TheListener!life)
    BY ListenerStep
  <1>3. QED
    BY <1>1, <1>2, InvariantHolds, PTL DEF Spec, TheListener!Life

\* The sidecar lives as the supervisor promises, for every number of restarts.
THEOREM SidecarLives == ASSUME HasVision PROVE Spec => TheSidecar!Life
  <1>1. Init => TheSidecar!Born
    BY HasVision DEF Init, TheSidecar!Born, LifeOf, FreshEntry, HasVision
  <1>2. IInv /\ IInv' /\ [Next]_sourceVars => [TheSidecar!Lives]_(TheSidecar!life)
    BY HasVision, SidecarStep
  <1>3. QED
    BY <1>1, <1>2, InvariantHolds, PTL DEF Spec, TheSidecar!Life
=============================================================================
