------------------------------- MODULE MCParts -------------------------------
(***************************************************************************)
(* The parts of the app that a module of their own describes, each alone:  *)
(* `part' is chosen at the start and only its variables move.              *)
(***************************************************************************)
EXTENDS LogTail, ObservationBus, GsiHttp, Vision, ToolCalls, WorldReading, Timings,
        TriggerPump, AppLife, Conversation, DebugHub, DebugWindow, Audio, Config,
        Commands, SilentSession, Credentials, SidecarWire, Screen, WorldAt, TLC

VARIABLE part

Parts == {"log", "bus", "http", "vision", "calls", "reading", "timing", "key", "app",
          "conversation", "hub", "window", "mic", "duck", "stream", "config", "command",
          "silent", "mint", "wire", "screen", "memory"}

\* The choices of the other parts' first states are pinned.
PartsInit ==
    /\ part \in Parts
    /\ LogInit /\ BusInit /\ HttpInit /\ VisionInit /\ ToolInit /\ ReadingInit /\ TimingInit
    /\ TriggerInit /\ (part # "key" => edges)
    /\ AppInit
    /\ ConvInit /\ (part # "conversation" => wire.kind = "webrtc")
    /\ HubInit /\ WindowInit
    /\ AudioInit /\ (part # "duck" => duck.available)
                 /\ (part # "stream" => stream.rates = [from |-> 3, to |-> 2])
    /\ ConfigInit /\ CommandInit /\ SilentInit /\ CredInit /\ WireInit /\ ScreenInit
    /\ AtInit /\ (part # "memory" => dial = 0)

PartsNext ==
    /\ UNCHANGED part
    /\ IF part = "log" THEN LogNext ELSE UNCHANGED logVars
    /\ IF part = "bus" THEN BusNext ELSE UNCHANGED busVars
    /\ IF part = "http" THEN HttpNext ELSE UNCHANGED httpVars
    /\ IF part = "vision" THEN VisionNext ELSE UNCHANGED visionVars
    /\ IF part = "calls" THEN ToolNext ELSE UNCHANGED callVars
    /\ IF part = "reading" THEN ReadingNext ELSE UNCHANGED readingVars
    /\ IF part = "timing" THEN TimingNext ELSE UNCHANGED timingVars
    /\ IF part = "key" THEN TriggerNext ELSE UNCHANGED triggerVars
    /\ IF part = "app" THEN AppNext ELSE UNCHANGED appVars
    /\ IF part = "conversation" THEN ConvNext ELSE UNCHANGED convVars
    /\ IF part = "hub" THEN HubNext ELSE UNCHANGED hubVars
    /\ IF part = "window" THEN WindowNext ELSE UNCHANGED windowVars
    /\ CASE part = "mic" -> MicNext
         [] part = "duck" -> DuckNext
         [] part = "stream" -> StreamNext
         [] OTHER -> UNCHANGED audioVars
    /\ IF part = "config" THEN ConfigNext ELSE UNCHANGED configVars
    /\ IF part = "command" THEN CommandNext ELSE UNCHANGED commandVars
    /\ IF part = "silent" THEN SilentNext ELSE UNCHANGED silentVars
    /\ IF part = "mint" THEN CredNext ELSE UNCHANGED credVars
    /\ IF part = "wire" THEN WireNext ELSE UNCHANGED wireVars
    /\ IF part = "screen" THEN ScreenNext ELSE UNCHANGED screenVars
    /\ IF part = "memory" THEN AtNext ELSE UNCHANGED atVars

PartsSpec ==
    PartsInit /\ [][PartsNext]_<<part, logVars, busVars, httpVars, visionVars, callVars,
        readingVars, timingVars, triggerVars, appVars, convVars, hubVars, windowVars,
        audioVars, configVars, commandVars, silentVars, credVars, wireVars, screenVars, atVars>>

-----------------------------------------------------------------------------
(* The instances *)

MCRates == {[from |-> 3, to |-> 2], [from |-> 2, to |-> 3], [from |-> 5, to |-> 2]}
MCWalkFrom == -4

MCArgvs == {<<>>, <<Switch("port", FALSE, "two")>>,
    <<Switch("port", FALSE, "none"), Word("two")>>,
    <<Switch("vision", FALSE, "none")>>, <<Switch("vision", TRUE, "none")>>,
    <<Switch("coach", FALSE, "llm")>>, <<Switch("vision", FALSE, "none"), Word("app")>>,
    <<Switch("port", FALSE, "none"), Switch("vision", FALSE, "none")>>}
MCDotEnvs == {<<NoFile, NoFile>>, <<NoFile, "port" :> "two">>, <<"port" :> "", "port" :> "two">>,
    <<("vision" :> "on") @@ ("coach" :> "llm"), "port" :> "two">>}
MCEnvs == {<<>>, "port" :> "", "port" :> "one", "vision" :> "blank",
    ("coach" :> "llm") @@ ("port" :> "three")}

\* A clause, what came before it and what came after.
MCUtterances == {before \o clause \o after :
    before \in {<<>>, <<"don't">>, <<"no">>, <<"no", ",">>, <<"okay", "so">>, <<"i", "said">>,
                <<"don't", "stop", "farming", "and">>},
    clause \in {<<"stop">>, <<"stop", "it">>, <<"mute">>, <<"never", "mind">>, <<"nevermint">>,
                <<"enough">>, <<"stop", "talking", "unprompted">>,
                <<"mute", "for", "ten", "minutes">>, <<"enough", "for", "blink">>,
                <<"mute", "the", "enemy">>},
    after \in {<<>>, <<",">>, <<",", "push", "mid">>, <<"so", "not">>}}
MCEdits == {
    [heard |-> <<"nevermint">>, meant |-> <<"nevermind">>, distance |-> 1, letters |-> 9, longest |-> 9],
    [heard |-> <<"no", "stop", "talking", "unprompted">>, meant |-> <<"stop", "talking", "unprompted">>,
     distance |-> 3, letters |-> 23, longest |-> 26],
    [heard |-> <<"stomp">>, meant |-> <<"stop">>, distance |-> 1, letters |-> 4, longest |-> 5]}

MCWindow(name, title, bundle, area, shown) ==
    [app |-> name, title |-> title, bundle |-> bundle, area |-> area, shown |-> shown]
MCGame == MCWindow("dota2", "Dota 2", "com.valvesoftware.dota2", 9, TRUE)
MCHelper == [MCGame EXCEPT !.area = 0]
MCTab == MCWindow("browser", "Dota 2 guide", "org.browser", 16, TRUE)
MCCheat == MCWindow("trainer", "Dota 2", "com.example.dota2cheat", 12, TRUE)
MCHidden == MCWindow("dota2.exe", "Dota 2", "none", 20, FALSE)
MCOffers == {<<MCTab, MCGame>>, <<MCHelper, MCCheat>>, <<MCHidden, MCHelper, MCGame, MCTab>>,
             <<MCCheat>>, <<>>}
MCSizes == {[w |-> 3, h |-> 2], [w |-> 4, h |-> 3]}
MCRects == {[x |-> 0, y |-> 0, w |-> 100, h |-> 100], [x |-> 30, y |-> 50, w |-> 40, h |-> 50],
            [x |-> 75, y |-> 0, w |-> 50, h |-> 34], [x |-> 100, y |-> 0, w |-> 10, h |-> 10]}
MCQuestions == {{"my_state"}, {"enemy"}, Topics}
-----------------------------------------------------------------------------
(* What the parts promise together; each conjunct is commented where it is *)
(* defined.                                                                *)

\* Whatever reaches the app is read once, in order, or counted as lost: lines
\* of console.log, posts of the game, observations of the bus.
IngestIsAccounted == EachLineOnce /\ InOrderOrCounted /\ EveryPostAccounted

\* The sidecar looks at the game's window alone, only when and where it was
\* told to, and what it saw is dated by the app's clock.
SeesAsTold == CapturesOnlyAsTold /\ CropsFitTheirRegions /\ SightingsAreDated /\ OnlyTheGameIsSeen

\* What the model is told of the match, of now, of what is to come and of what
\* is past, is what was observed and has the age it has.
WorldIsTold == LossesAreTold /\ NothingIsSkipped /\ MemoryIsHonest

\* A launch runs on what was said, and leaves nothing behind when it ends.
LaunchIsClean == LeavesNothing /\ ConfigAsSpoken

\* A conversation listens while the key is held, and says, mints and reports
\* each thing once: faults, the samples of an utterance, the edges of a turn.
TalkIsTrue == PushEndsWithTheKey /\ ToldOnce /\ AudioIsTrue /\ ClosesEachTurn /\ MintsAreSpaced

\* The inspector shows what happened and is fed while it is open.
InspectorIsTrue == JoinsWhatItShows /\ InspectorIsFed
=============================================================================
