# Riki, verified

Riki is a voice assistant that watches a game of Dota 2: the player holds a key, asks a
question, and hears the answer. It is an Electron application (main process, a hidden window that
holds the microphone and the Realtime session, an overlay window), a set of TypeScript packages
and a Rust sidecar that looks at the screen. This directory holds TLA+ modules translated from
that source, TLC configurations that check them on small instances, and theorems about them that
TLAPS checks for every value of the constants.

1. [Inventory](#1-inventory) · 2. [Modules](#2-modules-and-the-code-they-stand-for) ·
3. [Runs](#3-runs) · 4. [Bounds](#4-bounds) · 5. [Fairness](#5-fairness) ·
6. [Proofs](#6-proofs) · 7. [Divergences](#7-where-the-code-and-its-words-part) ·
8. [Not modelled](#8-what-is-not-modelled) · 9. [Plan](#9-plan)

## 1. Inventory

| Component | State it keeps | Operations | Talks to | What makes it correct |
|---|---|---|---|---|
| Interaction machine (`main/session/machine.ts`) | phase, mute, latch, pending timers, reported faults, environment | one reducer over keys, capture, speech, turn, fault, mute, settings and timer inputs | pure: returns effects | a timer belongs to its phase; nothing is left running behind an idle chip; a microphone always closes |
| Session runtime (`main/session/runtime.ts`) | the machine's state, a queue of inputs, timers of the clock | `dispatch`, `subscribe`, `dispose` | overlay, tray, level pump, ducking, voice sink, shell | window, chip, tray, levels and ducking never disagree with the phase |
| Shell (`main/shell/index.ts`) | the turn being captured, the current match | start, stop, match started / ended, push-to-talk subscriber, mute toggle | everything in main | what the chip shows is what the voice window does |
| Voice session (`main/voice/session.ts`) | window, queue until ready, state, instructions, renewal attempt, one timer handle | open, close, renew, back off, dispose; window events | credential broker, voice window | a session exists exactly for the match that runs, or the player is told |
| Voice window (`renderer/voice/host.ts`) | the live session, a serial queue of directives | open, close, turn and tool directives | devices, Realtime session | one session at a time; reports what it holds |
| Realtime turn controller (`packages/realtime/src/turn.ts`) | gate, active turn, cancelled flag | begin, end, submit, abort, interrupt, tool output | capture graph, server | a question reaches the model once; a cancelled one never does |
| Realtime session and transports (`session.ts`, `transport.ts`, `credentials.ts`, `window.ts`, `cost.ts`) | connection, response in progress, loss reported, tokens | connect, close, one handler per server event | OpenAI Realtime API | one loss is one fault |
| Sources (`main/state`, `main/sidecar`) | per source: restarts, gave up, pending restart, child process; bus queue; degradation level | start, stop, exit, restart, publish, evaluate | GSI listener, sidecar, log tailer, world model | a failed source is restarted or given up on, never both, and nothing restarts after stop |
| GSI listener and match session (`packages/gsi`) | socket, last payload, match id, phase, clock | one handler per POST | Dota 2, sources | one start and one end per match |
| World model (`packages/world-model`) | facts with provenance, history, recordings, timelines | apply, reset, pause; record; replay | sources, context, tools | the fresher and better source wins; a recording replays to the model |
| Log tailer (`packages/log-tail`) | offset, pending line, timer | poll, rotate, stop | console log, sources | every line once |
| Overlay (`main/overlay`, `renderer/overlay`) | window, placement, hide hold, presented model | warm, show, hide, reload, present | session runtime | the chip of the last dispatch is what is on screen |
| Trigger and tray (`main/trigger`, `main/tray`) | held key, tap timer | key down / up, resync | operating system, session runtime | a press has one release |
| Agent (`main/agent`), context (`packages/context`) | prompt, snapshots | begin / end a player turn, tools | world model, voice session | an answer is about the match that is played |
| Audio (`packages/audio`) | ring of samples, level, queue | capture, play, duck | voice window | no sample is played after an abort |
| Config, protocol, telemetry, debug, bootstrap | settings, schemas | load, encode, log | all | layers override in order |
| Vision sidecar (`crates/*`) | capture health, window match, session with the host | handshake, frame loop, stop | main process over pipes | frames in order, none after stop |

**How the parts interact.** Inside the main process calls are synchronous: a `dispatch` reduces one
input, performs every effect, then calls the subscribers, and inputs that arrive meanwhile wait in
a queue. Everything else is a message. Main and the voice window exchange directives and updates
over ordered IPC; the window and the server exchange events over a data channel; Dota 2 posts
snapshots; the sidecar writes lines. So a phase of the machine and the microphone gate that follows
it are two pieces of state with two queues between them, and a session is known to main only
through updates that may describe a session already replaced.

**Which behaviours are hard.** Events of an abandoned answer that arrive in the next turn; an abort
that overtakes the end of a turn; a match that ends while a credential is minted; a renewal that
races a loss, its own deadline and the end of the match; a wait without a bound in a serial queue;
a timer handle shared by three timers; a quit that comes while the app still starts; snapshots whose differences are the only sign of a match's
start, end, pause or jump of the clock; a disk that refuses a line or half of one anywhere in a recording; detections
that arrive after the kill they contradict. `PROJECT.json` lists each with its line under `hazards`,
with the properties that watch it.

## 2. Modules and the code they stand for

    InteractionMachine ──┬── SessionRuntime ──── SessionRuntimeProofs
                         │        └── MCSessionRuntime
                         └── TurnPipeline ────── TurnPipelineProofs
          TurnController ─────┘   └── MCTurnPipeline
    VoiceBridge ── VoiceSession ──┐
          └─────── VoiceHost ─────┴── VoiceLink ── VoiceLinkProofs
    MatchTracker ──┐
    WorldFusion ───┴── MatchRecord ── MatchState ──┬─ MatchStateProofs
                                                   └─ MCMatchState
    SourceLife ~~ implemented by ~~ Sources ── SourcesProofs
    Desk ── DeskProofs
    LogTail, ObservationBus, GsiHttp, Vision, SidecarWire, Screen,  ┐
    ToolCalls, WorldReading, WorldAt, Timings, TriggerPump,         │
    AppLife, Conversation, Commands, SilentSession, Credentials,    ├── MCParts ── PartsProofs
    Audio, Config, DebugHub, DebugWindow                            ┘

**InteractionMachine** is the reducer as operators on a draft: `OnTrigger`, `OnCapture`, `OnSpeech`,
`OnTurn`, `RaiseFault`, `OnMute`, `OnSettings`, `OnTimer`, one per branch of `apply`, built from
`Enter`, `BeginCapture`, `ToProcessing`, `ToIdle`, ... as the source is. A draft carries the state
and the set of effects emitted. Time is counted in ticks: a pending timer holds what is left of its
delay, and the phase holds the age of the silence or of the processing, up to `Horizon`.
`ProjectChip` and `ProjectTray` are the projections, as far as they depend on the state.

**SessionRuntime** holds the state and what each sink was last told: `window`, `chip`, `tray`,
`levels`, `ducked`, `cue` and the `voice` commands of the last dispatch. `Dispatch` is one dispatch;
there is one action per input, and `Tick`. All inputs are enabled always, whatever the phase: an
event of an old turn may arrive at any moment.

**VoiceBridge / VoiceSession / VoiceHost / VoiceLink.** `VoiceSession` is `createVoiceSession` of the
main process, again as operators on a draft. An `await broker.mint` ends a step: the continuation is
an element of `v.mints`, resolved by `MintResolves` with a secret, a retryable refusal or a final
one. Timers are a set `v.timers`; `v.cancelRenewTimer` is the one handle the code keeps, so that a
timer whose handle was overwritten runs on as in the code. `VoiceHost` is the window: `h.phase` says
what the directive under way awaits, and each await settles in an action of its own, the closing of a
session included: it is `closing` until `Closes` or `CloseFails`, and a close that fails skips the rest, so that
the microphone stream stays open and an open that waited behind it is given up. `VoiceLink`
adds the shell's matches. Observers: `raced` and `informed`.

**TurnController / TurnPipeline.** `TurnController` is `createTurnController` with the gate's wrapper of
`host.ts`. `TurnPipeline` composes it with the same `InteractionMachine`, the shell's push-to-talk
subscriber (`Subscriber`), the order "effects, then subscribers" (`Dispatch`), the queue of the
window, the adapter that drops turn ids, and a server that handles client events in order with one
response in progress. Timers fire at any moment they are pending, which covers every delay.
`renewed` is an observer. `MCTurnPipeline` puts two instances of it in one run.

**MatchTracker / WorldFusion / MatchRecord / MatchState.** `MatchTracker` is the match session of the GSI
listener: `EdgesOf` gives the lifecycle events that one snapshot raises against the last one, a
record with a field per place in the order of the code. `WorldFusion` is `fuse`: the candidate that a
source's reader makes of an observation, the confidence gate, and `canWrite`. A fact is who said it, when,
and how sure; of the fields of the store three remain, one per kind of rule: `meta` (of the game's own
payload only), `alive` (kill feed over detection) and `position` (detection only). `MatchRecord` is the
recorder and the timeline. Every `Write` takes the next of the fates that `d.disk` holds: the line is taken, or
nothing of it, half of it or all but its newline is left, and the write then fails or the process dies in it. A
disk that broke may take the lines after. What is appended to half a line is glued to it and lost with
it (`Malformed`); the reader drops such lines, finds its anchor by the binary search of the code and folds `Fuse`
over the lines after it. `MatchState` puts them behind the state
subsystem: `PostSnapshot` is one POST, with every listener of every edge in order (reset, recorder,
shell) before the observation is fused and recorded; `LogEvent`, `Detections` are the other two sources;
`Stop`, `Restart` and `Tick` the process, whose clock begins at zero each time; `GameStep` is Dota 2.
`d` is the subsystem, its recorder and the shell's match together. A `Restart` follows a stop, or a death in the
middle of a write, between a header and its keyframe included (`d.died`, until `LivesOn`). The file survives it with its torn end, and so does the
disk; all else is lost. `d.lived` (what the model was at each line), `posted`, `dropped` and `killed` are observers.

**SourceLife / Sources.** `SourceLife` is what the supervisor promises of *one* source: it runs, waits for its next
try, or was given up after `MaxTries`, and nothing brings it back once the app stops. `Sources` is the code:
the supervisor's entries (`Launch`, `StartSettles`, `Relaunch`, `ChildDies`, `scheduleRestart` as an operator), the sidecar's
child process with its watcher and its kill, the await in the middle of `launch`, the poll of the health,
the degradation controller, and a quit at any point: once, again while the app stops, or cold, while the window warms (`QuitCold`;
`start()` then goes on, so `Launch` may come behind the stop, or the load fails with the window, `WarmFails`). `quit` and
`sawDown` are observers. `TheSidecar` and `TheListener`
are instances of `SourceLife` under a refinement mapping of an entry; `Life` of both is checked
(`SourcesLive`) and proved.

**Desk** is what the player sees: `overlay/window.ts` with its warm-up, hide hold and `showWhenWarm`; the
presenter's cache; the two message directions; the model the renderer has mounted and its pending paint; and the
tray, which is drawn from the same machine. `lost` is an observer: the end of the load undid a show.

**The parts**, each closed under the environment its module names. *Input:* `LogTail` (a poll that awaits a stat, an
open and a read while the file rotates), `ObservationBus` (re-entrant drain, shedding, a throw), `GsiHttp` (one
POST from its first chunk to its answer), `TriggerPump` (tap or hold, with the shell's resync). *The sidecar:*
`Vision` (handshake, loop, capture thread against dispatch queue, and a stop that may give up on a stream that
does not answer, which then delivers as `stray`), `SidecarWire` (its lines and two clocks),
`Screen` (which window, which pixels, what changed). *The model as it is told:* `WorldReading` (two clocks and a bounded
ring), `Timings` (runes, stacks, Roshan), `WorldAt` (a moment of a finished match, from a disk that may have
spoilt lines). *A conversation:* `Conversation` (one session of `session.ts` on either transport), `ToolCalls` (a question of
the model to main), `Commands` (phrases that need no model), `SilentSession`, `Credentials`, `Audio` (pre-roll and silence,
ducking, resampler). *The app:* `AppLife` (launch with a token file that can be read or not, matches, a quit
at any await), `Config` (the layers of settings), `DebugHub` and `DebugWindow`
(the inspector). `MCParts` runs them in one state space: `part` is chosen at the start, and only
that part's variables move.

The modules are written as operators over small records so that they serve TLC and TLAPS alike, and
none of those with a theorem reaches a recursive operator: the loops of the timeline's reader are recursive
functions.

## 3. Runs

| Run | Configuration | States | What it shows |
|---|---|---|---|
| `session_runtime` | `SessionRuntime.cfg` | 1 326 | the machine agrees with its timers and all its sinks, and a capture ends |
| `voice_link` | `VoiceLink.cfg` | 0.18 M | a renewal is always driven and ends; main and window agree; no match is silently voiceless |
| `voice_after_match` | `VoiceLink_NoSessionAfterMatch.cfg` | violation | a session is opened for a match that ended |
| `voice_wedged` | `VoiceLink_OpenIsAnswered.cfg` | violation | a failed connection wedges the window |
| `turn_pipeline` | `TurnPipeline.cfg` (`MCTurnPipeline`) | 0.94 M | the gate follows the chip, a question reaches the model, processing ends; with sessions replaced at any moment, and tools, the gate always closes |
| `turn_forgotten` | `TurnPipeline_CancelledIsForgotten.cfg` | violation | a cancelled question stays in the server's buffer |
| `match_state` | `MatchState.cfg` (`MCMatchState`) | 1.7 M | tracker, shell, model and recorder speak of one match; a recording is whole or reported, is anchored whatever the disk leaves of it, and replays to the model as it was; a kill stands against detections |
| `match_paused` | `MatchState_PauseKeepsFacts.cfg` | violation | a pause ends in a wiped model |
| `sources` | `Sources.cfg` | 28 k | sources are restarted, given up and stopped as `SourceLife` promises; a stop that found them running leaves no process |
| `sources_cold_quit` | `Sources_QuitLeavesNoProcess.cfg` | violation | a quit while the window warms leaves the sidecar |
| `desk` | `Desk.cfg` | 20 k | the chip drawn is the machine's, on a window mapped as asked |
| `parts` | `Parts.cfg` (`MCParts`) | 0.35 M | each of the 22 parts, alone under its own interleavings |

Every property of a passing run has a mutant: a plausible bug written next to the definition it
changes (comment `Mutant:`), under which the property fails.

*session_runtime.* `TimersMatchPhase` says that no timer outlives its phase and that every capture and
every transient error has the timer that ends it. `PhaseIsKept` joins the types with four relations to the phase:
`SurfacesMatchPhase` ties window, level pump and ducking to it; `ReportedOnlyAtRest` is why the deduplication
of `raiseFault`, which drops a fault without an abort, never drops a running turn; `MutedNeverCaptures` and
`LatchMatchesGesture` are about flags beside the phase. `ChipIsCurrent` covers what only time changes. `NoTurnLeftBehind`
is the action property that a turn is abandoned only with a command to the voice session.
`CaptureEnds` and `TransientErrorClears` are liveness: what the player forgets to end, ends.

*voice_link.* `RenewalIsDriven`: a renewal under way has a mint or a timer of its own, and never
depends on a message that may not come. `LinkIsSound` joins the types with `HandleIsArmed` (the handle is of a
timer that is armed) and `ReadyIsScheduled` (a ready session has its renewal scheduled). `StateIsTrue` and
`SessionOfTheMatch` compare the two processes once nothing is in flight. `SessionOfTheMatch` excludes runs in which a match ended under a mint
or under a stray timer (`raced`), which is the very hazard of a match that ends under a renewal: those are the divergence of
`voice_after_match`, and what the property says is about every other order. `RenewalEnds` and
`NeverSilentlyLost` are liveness; the second excludes a connection that fails during its setup,
which is the divergence of `voice_wedged`.

*turn_pipeline.* Of the two instances one has every gesture and mute in a session that lasts, the other push gestures,
sessions replaced at any moment and tools that answer late. `GateFollowsChip` compares the gate *as it will be* when the queued
directives are handled with the phase of the machine: at every moment, not only at rest. It
compares the turn ids too until the session is replaced; after that the new session knows no
turn, and only the half that protects the player is claimed.
`QuestionReachesTheModel`: no `end` of
a release ever arrives at a window that has another turn open, so `endTurn` never returns early on
a question. `ProcessingEnds` and `MicCloses` are liveness.

*match_state.* `MatchIdsAgree`, `TracksTheMatch` and `RecordedOrReported` relate what three
parts derived from the same edges: the match whose facts are read, the one the shell opened a session
for, the one on disk, the one the game said it is in. `RecordIsAnchored` is what a reader of a
recording needs, whatever broke and however often the process began again: every moment in the file leads back, line by
line, to an opening keyframe of the empty model, and that to the header or to the half line that swallowed the header.
`ReplayedFaithfully` compares the reconstruction at each line with the model that
lived then, asked about at any later time. It speaks of the first opening of a file, up to the first line that broke
(`Sole`), and of no span that contains a resync, which the code does not replay to what was (section 7): it
does not watch that hazard.
`KillFeedIsTrusted` is the reason for ranks and the shadow window.

*sources.* `SidecarIsDriven`: while the supervisor runs, exactly one of a watched process, a pending restart and
"given up" holds, so a crash is never restarted twice and never forgotten. `NothingOutlivesTheApp` is about a quit that
found the sources running and was not repeated; `sources_cold_quit` shows what a quit while the window warms
leaves behind. `RecoversSlowly` is an action property with an observer, `sawDown`, of what the
evaluations saw; `RecoversInTheEnd` its liveness. `SourcesLive` is the refinement of `SourceLife` by both kinds of
source (many tries, one try), with the report of a refused port to the tray.

*desk.* `ChipIsDrawn` is about what is *drawn* once nothing is on its way, whatever was sent before the renderer
listened; `ShownAsAsked` about the mapped window, under mutes and machine steps through load and hold. It exempts one
show, the one that the end of the load undoes (`lost`, section 7), until the window is asked for or dismissed
again. `ShowIsPainted` is liveness of the timed show, on which the latency figure rests.

*parts.* Each property joins the promises of the parts that answer one question; every conjunct has its
comment where it is defined.

| Property | Conjuncts | Module |
|---|---|---|
| `IngestIsAccounted` | `EachLineOnce`, `InOrderOrCounted`, `EveryPostAccounted` | `LogTail`, `ObservationBus`, `GsiHttp` |
| `SeesAsTold` | `CapturesOnlyAsTold`, `CropsFitTheirRegions`, `SightingsAreDated`, `OnlyTheGameIsSeen` | `Vision`, `SidecarWire`, `Screen` |
| `SeenNeverGrowsYounger` | an action property of ages under two clocks | `WorldReading` |
| `AnsweredOnce` | every call has one output or one waiter | `ToolCalls` |
| `WorldIsTold` | `LossesAreTold`, `NothingIsSkipped`, `MemoryIsHonest` | `WorldReading`, `Timings`, `WorldAt` |
| `CommandIsMeant` | `NegatedSaysNothing`, `LastClauseDecides` | `Commands` |
| `LaunchIsClean` | `LeavesNothing`, `ConfigAsSpoken` | `AppLife`, `Config` |
| `TalkIsTrue` | `PushEndsWithTheKey`, `ToldOnce`, `AudioIsTrue`, `ClosesEachTurn`, `MintsAreSpaced` | `TriggerPump`, `Conversation`, `Audio`, `SilentSession`, `Credentials` |
| `InspectorIsTrue` | `JoinsWhatItShows`, `InspectorIsFed` | `DebugHub`, `DebugWindow` |

## 4. Bounds

`SessionRuntime`: the machine has no counter; `MCSessionRuntime` gives two environments whose listen
timeouts differ, two persistent faults, a transient one and one kind that is raised both ways, and
delays of one to four ticks, so every order of two timers occurs. `Horizon` saturates ages past the last threshold.

`VoiceLink`: `MaxMatch = 2` (a match, and the one that follows it); `Backoffs = 1`, so that a renewal can
fail, be retried, and give up; `MaxPending = 2` mints and timers at a time, enough for a mint that
races a timer; `MaxBacklog` and `MaxInFlight` bound directives and updates in flight before a *new*
cause is admitted. `v.renewAttempt` stops one past `Backoffs`: every later attempt is treated alike.

`TurnPipeline`: `MaxDirectives`, `MaxEvents` and `MaxWire` stop the *causes* (keys, mutes, faults, tool calls,
renewals) while more is in flight, never the reactions. A directive queue can so hold four entries:
more than one whole turn behind the player. `MaxTurns = 9` is a pool from which `NextTurnId`
takes an id nothing holds; with these queues it is never exhausted. The *replaced* instance leaves mutes and
taps to the other, and starts nothing new while two messages are under way.

`MatchState`: `MCMatchState` puts three instances in one run, told apart by their disk. *Seen* has one match, no restart, a sound
disk, and three kills or detections, late by up to a tick and of two confidences. *Lived* has two matches (the
smallest number in which one supersedes another), pauses, a lost connection, a restart in mid-match, one
observation, and a disk that is full from the first line or from the sixth. *Broken* has the matches and the restart, and a
disk on which one write among the first five breaks in any of the ways, or two in a row, the second a header glued to half a line. None
of the questions needs the others' inputs: trust in the kill feed is lost by a reset, and what is anchored does not depend on
what was observed. `LongestSeen = 8` and `LongestBroken = 7` lines hold a header, two openings and what lies
between. A tick stands for the five seconds of
`Threshold`; the windows are one or two ticks, of which only the order matters (`ConfidenceWindow <
ShadowWindow`, as shipped). `MaxTime` bounds the clocks of all processes together. `ChangeIsPosted`, an
assumption about the game, says that Dota 2 posts a change of match, state or pause before it makes
the next: without it a whole match could pass between two posts, which at its throttle of a tenth
of a second it cannot. It also excludes a match first seen when already over.

`Sources`: two restarts, so that a source is restarted, restarted again and given up; a hysteresis of two ticks, the
smallest that a third event can interrupt; all three sources. `Desk`: `MaxRevision = 3` models, enough for one to be superseded on its way.

`Parts`: each part has the smallest instance in which its hazard occurs: three lines in two files;
a bus of two with four observations; two posts; two sessions with two calls; two buildings and three seconds; ring of two entries;
three launches and two matches; one stray stream at a time; two sessions' worth of items; `Timings` walks
every second of the first 800 (`LastSecond`), which passes
each kind of rune twice; `DebugWindow` walks the stack scenario through all its seconds; `Audio` uses three ratios of sample
rates (up, down, neither integral) and every way to cut twelve samples into chunks of up to three. `Config`, `Commands` and `Screen` are
functions of an input: `MCParts` gives inputs that reach each branch, listed there. `MaxAudio`, `MaxErrors`, `MaxMints`, `MaxTick`, `MaxClock`,
`MaxPipe`, `MaxRead`, `MaxToolCalls`, `MaxTurns` and `MaxSilentTurns` cap the environment, not the code.

## 5. Fairness

*Timers.* `SessionRuntime` assumes that time passes and that a timer that is due fires; it may be late by
any amount. `TurnPipeline` assumes it of the listen timeout only. *Mints* settle: `fetch` of the broker
is bounded by the platform's own timeouts, and both outcomes are explored. *IPC* is delivered: Electron
keeps order within a window. *The window* goes on with an await that can settle; an await on a data
channel whose connection has failed cannot, and is given no fairness (`ChannelOpens` and `CallFails`
require `~h.failed`). *The server* answers a `create` and ends an answer; it owes nothing else.
The player and the model owe nothing: no key is ever required to come up. `Sources`: a due launch, restart,
poll and tick happen, a start settles, and a killed child dies; a child may live for ever otherwise. `Desk`:
the load ends, the renderer mounts, and the hold
timer, messages and the frames behind a paint report arrive, as Electron and Chromium give them; nothing is asked of the machine.
`MatchState` and the parts state safety only and assume no fairness.

## 6. Proofs

The seven proof modules have the same shape: an invariant of named conjuncts, a lemma that the initial
states have it, a lemma per action that a step keeps it, and theorems that follow from it. They rest on the
named assumptions of the modules only, so they hold for every delay, every set of faults and every
bound. One theorem has a hypothesis of its own, stated with it (`ChipHolds`).

| Module | Theorems that state a property of a run |
|---|---|
| `SessionRuntimeProofs` | `TimersHold`, `PhaseHolds`, `ChipHolds`, `NoTurnIsLeftBehind` |
| `TurnPipelineProofs` | `GateHolds`, `QuestionHolds` |
| `MatchStateProofs` | `MatchIdsHold`, `TrackingHolds`, `RecordingHolds`, `KillFeedHolds`, `AnchorHolds`, `ReplayHolds`; and `SearchFindsLast`, `AnchorsHold`, `ReplayBoundHolds` |
| `VoiceLinkProofs` | `DrivenHolds`, `LinkHolds`, `StateHolds`, `SessionHolds` |
| `SourcesProofs` | `DrivenHolds`, `NothingLeftHolds`, `RecoveryHolds`; and the refinement of `SourceLife` |
| `DeskProofs` | `ChipDrawn`, `WindowMapped` |
| `PartsProofs` | `AnswersHold`, `SightHolds`, `LaunchHolds`, `AgesHold`, `WorldHolds`, `TalkHolds`, `InspectorHolds`, `IngestHolds` |

`SessionRuntimeProofs`. `IInv == TypeOK /\ Sound(m) /\ SurfacesMatchPhase`, where `Sound` states
`TimersMatchPhase` (`SoundTimers`), `ReportedOnlyAtRest`, `MutedNeverCaptures` and `LatchMatchesGesture`
(`SoundConditions`) as predicates of a machine state. None is inductive alone: mute is safe because a capture is not started while muted and
mute ends one; the reported faults stay at rest because the edge into Listening clears them. Lemmas
`...Form` say what each composite transition returns; `...Lawful` say that a branch of the reducer, from
a sound state, gives a sound state *and* effects that move the surfaces to the new phase
(the draft's effects and its phase are related by one predicate). For `ChipIsCurrent` the invariant is `DInv == Timed(m) /\
ChipIsCurrent`: `Timed` says that what time alone will change on the chip has a timer that is due no earlier (`Due`), and
`Drawn` that a branch which does not project leaves everything the chip shows as it was (`Unseen`). `ChipHolds` assumes
`OneNudge`, that all snapshots of the settings agree on the silence nudge: the reducer reads the delay of a
running silence from the current settings, so a changed nudge moves the dimming of a silence whose timer
keeps the old one (section 7). The application passes one environment and never changes it. `NoTurnIsLeftBehind` is the action
property, from `Told` of the same lemmas; only the end of an answer needs no word to the session.

`TurnPipelineProofs`. The invariant relates three things: the machine's phase, the shell's `capturing`, and
the queue read as a word. `Matched` says that each `end` of the queue meets, when it is handled, its own
turn or none, and a release its own turn; `QueueSound` adds that the turn the queue leaves open is the
one main captures, `CapturingSound` that main captures one exactly in the capture phases, and
`HostSound` that the gate is open exactly for the active turn. The last
parameter `n` of these predicates stands for "the session may have been replaced", under which only
the weaker half is kept; `RenewalWeakens` is the step from one to the other. The machine enters
through one predicate, `Tame`: a dispatch that sends an abort does not end in Processing, and ends in a
capture only if it did not begin in one. `AppendMatched` and `TailMatched` are the facts about sequences. Theorems: `GateHolds`,
`QuestionHolds`, for every bound on the queues and every number of turns.

`MatchStateProofs`. `IInv == GameSound /\ PostedSound /\ MatchSound /\ ModelSound`. `PostedSound` is the heart: the
tracker holds what was posted, and the game is at most one change ahead of it, so a snapshot is a new
match, the end of this one or neither. Without it `TracksTheMatch` is not inductive: the edges are
differences with a tracker that the property does not mention. `MatchSound` is `Agrees` (shell, subsystem and recorder) with
`TracksTheMatch`; `ModelSound` says that facts are of the past, a detection of at most now, and that a kill in the
shadow window still stands (`KillStands`). Lemmas `...Form` say what each operator of the recorder
and the subsystem returns, down to `Write`, with `Survives` for "the recording goes on or was reported";
`LifecycleForm` composes them over the edges of a snapshot; `PayloadIsSound`, `KillIsTaken`, `KillIsNobodys`,
`DetectionIsSound` and `TimeIsSound` are the facts about `Fuse`. `AnchorHolds` is about the file alone, whatever the disk does: its
invariant `Filed` is kept by a line that is taken, by half a line and by what is glued to it, by a header whose keyframe was refused or
never written because the process died between them, by a disk that takes lines again, and by any number of
processes that append to the file of one match.

*Reading back.* The reader's loops are recursive functions; each is shown to have the equation of its loop by the least
counterexample, and is used through it alone. `SearchFindsLast`: the binary search finds an entry that holds, and the last
one when what holds is a prefix. `IndicesAre`: the list it searches has each keyframe once, in order. The second
invariant, `TaleKept`, is about every line of the file: the model that lived at a line is the one at the line before, changed by that
line (`Chained`, up to a resync); a keyframe holds the model of its moment; times in the file never go back (`Timed`); and while a recording
goes on its last line is the model of now and its clock that of the recorder (`Live`). `ReplayedFaithfully` alone is not inductive: it
says nothing of what is written next, and the replay of the next line may begin at another keyframe. `ReplayTells` then replays from any keyframe,
and `ReplayHolds` (`Spec => []ReplayedFaithfully`) follows for every line of the first opening, whichever
keyframe is found. That it is the right one is `AnchorsHold`: the newest
that is older than the history, or the first where none is. The third, `PaceKept`, says that observations of one keyframe are closer to it than an
interval; `ReplayBoundHolds` draws the cost from it: what a replay takes that is older than the history lies within one keyframe interval
of its anchor, so the length of the match does not matter. All speak of the lines of the first opening, before
anything broke (a second header starts the times again),
and `ReplayHolds` of no jump of the clock since the anchor; `SearchFindsLast` assumes nothing.

`VoiceLinkProofs`. `IInv == TypeOK /\ Sound(DraftOf(v), Owed) /\ Silenced`. `Sound` is a predicate of a draft, so that
each operator of `VoiceSession` has one lemma (`...Form`) that says it returns a sound draft, and each action one
(`...Keeps`) that writes the draft back (`WriteBack`). Its parts: `Roomy` (awaits and timers fit the bound, which is why a fresh
id is free), `Armed`, `Keyed` (a session without key or window awaits nothing), `Ended` (after `dispose` nothing is renewed or up),
`Driven`, and that a session that is up is scheduled, or an `open` is queued or on its way, or the window owes
a state. `ReadyIsScheduled` alone is not inductive, because `Quiet` hides what is under way: a first open makes a session
renewable before the window has heard of it, and only the state the window then owes (`Owed`: a directive, an
await, an update in flight) arms the deadline. `HostOwes` says that no step of the window pays this debt
other than by a state. `Silenced`, nothing arrives after `dispose`, keeps a late `ready` from reviving it.

`StateIsTrue` and `SessionOfTheMatch` compare two processes only when nothing is on its way; a second invariant, `Delivered`,
says of every state how the two channels will leave them. `Believed` reads the updates to come as a word: the last state
in it, or main's own if there is none, is true of the window's session, unless the window is closing one and
has yet to say so. `Meant` reads the directives to come: taken in order they
leave the window with the session of the match that runs or none (`LeadsTo`), and whatever main still awaits is for that match (`AllFor`),
unless a match ended under a mint or a stray timer (`raced`). `Ordered` says where messages can be before the window listens and
after it is gone. Each operator of `VoiceSession` then has a second lemma on what it sends and shows (`Quietly`, `Sends`, `Answers`).
`StateIsTrue` needs no exemption: the divergence of `voice_after_match` is about which match a session is for, never about
whether there is one.

`SourcesProofs`. `IInv` adds five conjuncts to the two invariants: `StagesSound` (what each stage of the app allows
of the supervisor), `RestartsSound` (a pending restart belongs to a live entry that is not given up, and the
count is within `MaxRestarts`), `ProcessSound` (a process is held, watched or being killed), `ListenerSound` and `RecoverySound` (the instant the
recovery is counted from agrees with the observer). They allow the supervisor to run behind a cold quit, and
say that it does not behind any other. `SidecarIsDriven` alone is not inductive: that an exit is reported
once depends on the watcher being detached in the same step. The refinement is
`SidecarLives` and `ListenerLives`: `Spec => TheSidecar!Life` and `Spec => TheListener!Life`, by one step per action that maps
to a step of `SourceLife` or to a stutter, for every `MaxRestarts`, every hysteresis and every set of sources with
the one in it.

`DeskProofs`. `ChipIsDrawn` speaks of a desk at rest; `Projected` says of every state that the last model on its way to the
renderer, or the one it holds, is what main projected last, unless the renderer has still to ask (`Asked`), and that
what main projected is what the machine shows. `Mapped` is the window: nobody asks for it before there is one, a hide that is held back is the last
thing asked, and what is mapped is what was asked unless the end of the load undid it (`lost`). Neither theorem assumes
anything of when the player mutes.

`PartsProofs`. Each part has an invariant of its own (`CallsInv`, `TriggerInv`, `VisionInv`, `WireInv`, ...), a lemma that it begins so
(`...Start`) and one that a step keeps it (`...NextKeeps`); the theorem of a property joins the parts of the answer. What is not obvious:

- *Calls.* A call that was asked and has no answer is being waited for under exactly one id, in the one place the code keeps it
  (asked, reading, answering, waiting); ids are never reused, so an answer that is late finds nothing (`CallsInv`).
- *Sight.* A crop's generation is at most the backend's, and crops of the current generation were cut by its list, unless the frame was planned
  before a reset that did not wait for it, by the stream that was given up or by its flight (`outlived`; `VisionInv`); each
  line in the pipe carries a time that its reader turns into the app's clock whatever second the child was born in (`WireInv`,
  `LineIsDated`); and the pixels copied are those of the region, rounded outwards, inside a surface that holds it (`ScreenInv`).
- *World.* `LossInv`: a loss is told if a delta of the ring is inside the window, or the ring was full and shed it (`shed`).
  `MemoryInv`: between two keyframes what was seen of a leaf changes at an observation of that leaf only, so a replay from the
  keyframe agrees with what was live, except where a line or a leaf is spoilt. `WorldAt` states what replay keeps as what was said last of
  each leaf, which needs no fold.
- *Timings* is arithmetic: the next rune is less than one period ahead and no rune lies between, for every period.
- *Talk.* A decision about a press is timed (`TriggerInv`); a fault is told exactly if it was noted as reported (`ConvInv`); the resampler has
  made the samples that lie before what it holds (`StreamInv`), an equation in the two rates that chunks
  cannot change, and holds at most two half widths
  between chunks; the first edge of a turn precedes its one end (`SilentInv`).
- *Launch.* `LoadConfig` of the launch's own inputs is what runs, and a choice that was saved stays saved (`ConfigInv`); a token that was
  used is the one in the file, and there is at most one more of them than launches that could not read it (`AppInv`); what is
  still held after a quit is what `start()` picks up from the await the quit came at (`PickedUpBehind`).
- *Inspector.* `HubInv` says that the two indexes hold exactly what is shown; `WindowInv` that the walk's clock moves by two and so passes
  each of its odd marks between two steps.
- *Ingest.* `LogInv`: the file is `b` earlier lines and `k` of its own (`FileHolds`, of which the last may be
  half), and the tailer has read `m` of them to
  their end, or one piece of the next which it holds back, or was anchored in the middle of one and has
  published nothing (`Placed`). `ReadOn` says what splitting
  at newlines then returns, by counting them (`NewlinesCount`). Bus: the numbers delivered, waiting and shed are all that were
  published, each once (`BusInv`). HTTP: a post that ended was counted once, under its answer (`HttpInv`).

Facts that only induction gives are proved from the well-foundedness of the naturals, by the least
counterexample (`LeastOf`, `AllNumbers`): counts of newlines, of periods, the last observation before a line.
`Screen` assumes that a window with the game's bundle does not name itself a browser or a trainer, `SidecarWire` that the map is at least
four units wide, `DebugWindow` that its walk begins an even number of seconds before the horn and that its stack target is odd (both
are: they are literals of the scenario), `Audio` that the detector holds for at least one frame.

Only model-checked:

- Liveness: `CaptureEnds`, `TransientErrorClears`, `RenewalEnds`, `NeverSilentlyLost`, `ProcessingEnds`, `MicCloses`,
  `RecoversInTheEnd`, `ShowIsPainted`. Fairness and ENABLED are out of the prover's reach.
- `CommandIsMeant`: `Commands` matches given phrases against given utterances, and the claim is about these ("enough for don't mute"
  would refute it for arbitrary words); it is a check of a finite function.

## 7. Where the code and its words part

With a run that shows it (`findings`): the session after the match (`voice/session.ts:727`), the wedged
window (`transport.ts:238`), the cancelled question that is
kept (`turn.ts:215`), the model wiped by the end of a pause (`gsi/src/session.ts:94`), and the sidecar that a quit
while the window warms leaves running (`state/supervisor.ts:158`).

That last one needs the load to settle between the quit's `stop()` and the end of the process. Destroying a window in
mid-load normally rejects the load, which ends the start (`WarmFails`); the other order is a race of two events that nothing in
the code arranges. An orphan of a process that is gone also sees its standard input close, upon which `riki-vision` exits by itself.

Seen while modelling, without a run of their own:

- `machine.ts:392` the listen timeout runs from the press, and speech does not push it back:
  `docs/design/overlay-architecture.md:371` ends a capture after that long *without speech*.
- `machine.ts:264` `cancelInteraction` of a capture plays no `capture-end`, which
  `docs/design/overlay-architecture.md:357` gives every close of the microphone.
- `machine.ts:476` unmuting at rest projects before it hides, so the tray may keep the muted glyph for a
  player who unmutes in Error.
- `machine.ts:612` a changed silence nudge moves the dimming of a silence under way although its timer
  keeps the old delay; the shipped application never dispatches `settings`.
- `voice/session.ts:679`, `:713` assign `cancelRenewTimer` without cancelling what it held, against "one deadline"
  at `:274`: the earlier timer runs on and nothing can cancel it.
- `voice/session.ts:345` a `session-lost` that arrives after a renewal gave up is shown again, against `:63-64`.
- `renderer/voice/host.ts:217-236` a close that rejects skips what follows it: the microphone stream stays open, nothing says `idle`,
  and an open that waited behind it is never tried.
- `renderer/voice/host.ts:247` a connect that fails leaves the microphone stream open with no owner, against
  `docs/adr/0016:20`.
- `machine.ts:405` a `closed` taken for a device that went away (`:403-404`) may be of an earlier capture.
- `shell/index.ts:432` drops `interrupt`; the answer is silenced by the begin of the next turn instead
  (`turn.ts:256-258` describes the interrupt).
- `machine.ts:448` the continuation of a tool call after its response ended has no phase (`turn.ts:87-88`).
- After a renewal under a question in Processing nothing ends Processing (`turn.ts:215`, `docs/adr/0045:106`):
  `ProcessingEnds` claims nothing once a session was replaced.
- `gsi/src/session.ts:32`, `:78` a disconnection counts as the end of the match, and a reconnection with the same
  id starts none: the rest of the match has no session and no recording. `TracksTheMatch` claims
  nothing after it (`dropped`). A new id after it ends the same match a second time (`:65-69`).
- `gsi/src/session.ts` keeps the clock of the last match, so the first clocked snapshot of the next one
  is a clock discontinuity.
- A discontinuity empties the model, against `docs/design/state-capture-architecture.md:825`, "mark all CV
  facts stale, keep GSI"; until the hero is seen again its kills are nobody's.
- `record/file-sink.ts:58` a restart in mid-match appends a second header, and `atMs` begins at zero
  again: the binary search of `timeline/reader.ts:203`, `:357`, `:364` runs over times that are not
  ordered, and "seconds ago" may miss the newest lines. `at({ clock })` has the same trouble after a
  clock that ran backwards.
- `record/file-sink.ts:18-19` has a killed process cost "at most a half-written line": the header of the process that
  goes on in that file is glued to the half line and lost with it, and the reader then takes the file to have begun at time zero.
- `timeline/reader.ts:278` replays from a keyframe a history window back and skips those on the way: across a resync
  it brings back facts the model had thrown away.
- `adapters/voice.ts:64` drops the turn id of an event: the end of an abandoned response can take the next turn
  to Idle, and its answer is spoken behind a hidden chip.
- `world-model/src/history/ring.ts:43-44` expects the plain cap to hold five minutes; at up to 8 Hz it can be reached before
  (`state.ts:444`), and `buildings.ts:28-30` then forgets a loss that is inside the window it promises.
- GSI silence freezes the match clock, so a position grows no older until the next post.
- `realtime/src/session.ts` truncates an item by what was heard of it, but `beginResponse` and `endResponse` of
  `audio/src/playback.ts` have no caller and `response.done` forgets the item: an interruption after it
  truncates nothing (`turn.ts:264-274`).
- `realtime/src/session.ts` lets a non-fatal error whose code mentions the connection count as the loss
  reported: the real loss that follows is silent.
- `log-tail/src/tailer.ts:147-197` a file that is rotated or cut between the `stat` and the read, or cut and grown past
  the offset between two polls, is read at the offset of the one before: half a line, and lines
  twice. `EachLineOnce` exempts what follows such a read (`misread`). A poll under way when the tailer is stopped reads on to
  its end and publishes what it read.
- `renderer/voice/host.ts` sends a tool output to whatever session is live; call ids are of the session, so a late
  answer may meet a call of the next one with the same id. `tools.ts` numbers its questions from the beginning again in every window, and main
  answers by number alone.
- `audio/src/capture.ts:178-182` closes the gate at the release, when the delay line before it still holds the last
  `preRollMs` of the question, which so are never sent; `docs/design/voice-input-architecture.md:229` counts
  the delay as a cost in time only.
- `realtime/src/commands.ts:225` looks for a negation before the phrase, which an anchored clause has only when it was
  nearly heard; a "for" after a phrase counts as a duration whatever follows ("enough for blink").
- `config/src/sources.ts` takes the next word as the value of a bare flag (`--debug-enabled .`), and a variable of
  blanks hides the value in `.env`; `saveSettings` over an unreadable file writes a fresh one, and has no caller.
- A quit during the start of the app goes on starting behind the stop (`shell/index.ts:830-839`):
  `LeavesNothing` allows what that start picks up from the
  await it was at, and no more; that "nothing comes back" (`SourcesLive`) is about a stop that found the
  supervisor running. A second quit does not wait for the
  first: `NothingOutlivesTheApp` says nothing of it.
- `bootstrap.ts:50` writes a new token over a file that exists but could not be read, against "generated once and reused" and "stable across
  launches" at `:36-40`: the configuration that Dota 2 has then carries the old one. `LeavesNothing` counts such launches (`refusals`).
- `crates/riki-capture/src/macos.rs:383-403` waits five seconds for a stream to stop and resets what it shares with it in either case: a frame
  of the old stream may be taken for one of the new under a generation that begins again, which the comment of `Inner` has generations prevent.
  `SeesAsTold` exempts exactly such frames (`late`).
- `sidecar/protocol-codec.ts:322` dates sightings that waited in the pipe too young; a burst may then be rejected as older
  (`fusion/precedence.ts:190`).
- `record/keyframe.ts` keeps a keyframe with one bad field, but a bad `meta.phase` silences the sections that read it.
- `shell/index.ts:805-807` tells the tray of a mute only when its own row was clicked: after a spoken "mute" the
  checkbox disagrees with the machine; `Desk` has it behind `MutesBySpeech`.
- `overlay/window.ts:95` hides the window at the end of its load whatever was asked meanwhile: `showWhenWarm`
  remembers only a show that came before there was
  a window, so one that comes during the load (a mute from the tray, say) is undone, against "must not be lost" at `:52` and
  `window.test.ts:43`. `ShownAsAsked` exempts that show (`lost`) and nothing after it.
- `debug/actions.ts:131`, `:144`, `:151`: with two scenarios in flight the first to end clears the mark of both.
- `record/recorder.ts:205` reports a recording as opened after its header failed.
- `fusion/precedence.ts:184-187` a weaker source that waited out the shadow window is not compared by age.
- The last snapshot of a match is never recorded: its edge closes the file before it is applied.

## 8. What is not modelled

*Of the modelled parts.* Level frames, text transcripts and the branch of
`attemptRenewal` without timers (`VoiceSession`); device changes, which the app does not wire (`VoiceHost`);
the `opened` event, which the machine ignores, and the speech events, which
`SessionRuntime` has and `TurnPipeline` leaves out because they move no directive; the debug scenario
`voice.turn.speak`. `reload()` of the overlay and the context window executor have no caller. Wording of the
chip and the tray, colours and placement are layout. Values of samples and pixels.

*External.* The Realtime server, the operating system's windows, devices and key hooks, Dota 2: modelled from
how the code uses them.

*Of the system.* Context assembly and the hero library are text; the economy rules, colour spaces and filters are
arithmetic without state; per-field validation is declared by schemas; `riki-cv` is a stub and the platforms other than
macOS return an error; telemetry logs; developer tools, benches, scripts, packaging and lint rules are no
behaviour of the program. `PROJECT.json` lists them under `components`.

## 9. Plan

In order of importance, each with the hazards it answers.

Done: session runtime, voice link, turn pipeline, match state, sources with their refinement, desk, and the parts; and
the proofs of every safety property that the passing runs check, but `CommandIsMeant`.

1. **Composition**: `ToolCalls` with `VoiceLink`, where a session is replaced under a call that waits; `TriggerPump`
   with `TurnPipeline`, so that the keys of a turn are those the recognizer can produce.
2. **Abstract specifications**: a conversation as the player sees it (ask, answer, silence), implemented by `TurnPipeline`.
