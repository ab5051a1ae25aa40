------------------------------- MODULE VoiceLink -------------------------------
(***************************************************************************)
(* The voice session of a match, end to end: the shell that opens and      *)
(* closes it with the match, the main process that mints and renews, and   *)
(* the voice window that holds it.                                         *)
(* (apps/desktop/src/main/shell/index.ts: openSession, closeMatch)         *)
(***************************************************************************)
EXTENDS VoiceSession, VoiceHost

CONSTANTS
    MaxInFlight,    \* bound: updates in flight before the window reports more
    MaxBacklog      \* bound: directives in flight before a mint sends more

ASSUME LinkAssumption ==
    /\ MaxInFlight \in Nat \ {0}
    /\ MaxBacklog \in Nat \ {0}

VARIABLES
    played,     \* how many matches have started
    playing,    \* does the last of them still run: matchId !== null
    raced,      \* observer: a match ended under a mint or a stray timer
    informed    \* observer: a fault was shown since this match last had a session

linkVars == <<v, told, h, toHost, toMain, played, playing, raced, informed>>

Init ==
    /\ \E hasKey \in BOOLEAN : SessionInit(hasKey)
    /\ HostInit
    /\ toHost = <<>>
    /\ toMain = <<>>
    /\ played = 0
    /\ playing = FALSE
    /\ raced = FALSE
    /\ informed = FALSE

\* What stopRenewal cannot reach: a mint in flight, a timer without a handle.
Unreachable ==
    \/ v.mints # {}
    \/ \E t \in v.timers : t.id # v.cancelRenewTimer

Observed ==
    informed' = (told' # Nothing
                 \/ (informed /\ ~(v'.state = "ready" /\ h.live = played)))

MatchStarts ==
    /\ played < MaxMatch
    /\ played' = played + 1
    /\ playing' = TRUE
    /\ IF playing THEN ReopenMatch(played') ELSE OpenMatch(played')
    /\ raced' = (raced \/ Unreachable)
    /\ informed' = FALSE
    /\ UNCHANGED h

MatchEnds ==
    /\ playing
    /\ playing' = FALSE
    /\ CloseMatch
    /\ raced' = (raced \/ Unreachable)
    /\ UNCHANGED <<h, played, informed>>

MintStep ==
    /\ \E mint \in v.mints, outcome \in {"secret", "refused", "forbidden"} :
           /\ outcome = "secret" => Len(toHost) + Len(v.queued) < MaxBacklog
           /\ MintResolves(mint, outcome)
    /\ Observed
    /\ UNCHANGED <<h, played, playing, raced>>

TimerStep ==
    /\ \E timer \in v.timers : Fire(timer)
    /\ Observed
    /\ UNCHANGED <<h, played, playing, raced>>

ReceiveStep ==
    /\ Receive
    /\ Observed
    /\ UNCHANGED <<h, played, playing, raced>>

WindowUnchanged ==
    /\ told' = Nothing
    /\ UNCHANGED <<v, played, playing, raced, informed>>

WindowStep ==
    /\ Len(toMain) < MaxInFlight
    /\ \/ v.window = "open" /\ StartHost
       \/ HostNext
    /\ WindowUnchanged

SessionLost ==
    /\ Len(toMain) < MaxInFlight
    /\ LoseSession
    /\ WindowUnchanged

ConnectionFails ==
    /\ PeerFails
    /\ WindowUnchanged

Quits ==
    /\ Dispose
    /\ h' = [h EXCEPT !.phase = "absent", !.opening = None, !.live = None,
                      !.lost = FALSE, !.failed = FALSE]
    /\ UNCHANGED <<played, playing, raced, informed>>

Next ==
    \/ MatchStarts \/ MatchEnds
    \/ MintStep \/ TimerStep \/ ReceiveStep
    \/ WindowStep \/ SessionLost \/ ConnectionFails
    \/ Quits

Spec == Init /\ [][Next]_linkVars

\* A mint settles and a timer fires, however late; messages arrive, and each
\* await of the window settles, unless its connection has failed under it.
FairSpec ==
    /\ Spec
    /\ WF_linkVars(MintStep)
    /\ WF_linkVars(TimerStep)
    /\ WF_linkVars(ReceiveStep)
    /\ WF_linkVars(WindowStep)

-----------------------------------------------------------------------------
\* Every variable holds a value of its type.
TypeOK ==
    /\ v \in [hasKey           : BOOLEAN,
              window           : {"none", "open", "closed"},
              ready            : BOOLEAN,
              queued           : Seq(Directive),
              state            : SessionStates,
              disposed         : BOOLEAN,
              openInstructions : Matches \cup {None},
              renewing         : BOOLEAN,
              renewAttempt     : 0 .. Backoffs + 1,
              cancelRenewTimer : 0 .. MaxPending,
              timers           : SUBSET Timer,
              mints            : SUBSET Mint]
    /\ told \in {Nothing, "session-lost", "device", "mint"}
    /\ h \in [phase    : HostPhases,
              opening  : Matches \cup {None},
              live     : Matches \cup {None},
              lost     : BOOLEAN,
              failed   : BOOLEAN]
    /\ toHost \in Seq(Directive)
    /\ toMain \in Seq(Update)
    /\ played \in 0 .. MaxMatch
    /\ playing \in BOOLEAN
    /\ raced \in BOOLEAN
    /\ informed \in BOOLEAN

Renewing == {t \in v.timers : t.kind # "age"}

\* A renewal that runs is driven: by a mint in flight, by a wait for the window
\* or by a backoff.  None is ever left to the arrival of a message, so none is
\* forgotten when a message never arrives.
RenewalIsDriven ==
    v.renewing => \/ \E mint \in v.mints : mint.kind = "renew"
                  \/ Renewing # {}

\* The handle of the deadline is the handle of a timer that is still armed.
HandleIsArmed ==
    v.cancelRenewTimer # NoTimer =>
        \E t \in v.timers : t.id = v.cancelRenewTimer

\* No message is on its way and the window awaits nothing.
Quiet ==
    /\ toHost = <<>>
    /\ toMain = <<>>
    /\ v.queued = <<>>
    /\ h.phase = "idle"

\* Once everything is delivered the state main shows is the state the window is
\* in: it never claims a session that does not exist, nor rests beside one.
StateIsTrue ==
    Quiet => /\ v.state = "ready" => h.live # None
             /\ v.state = "idle" => h.live = None

\* A match that ended while nothing was in flight leaves no session behind, and
\* the session of a match that runs is the session of that match.
SessionOfTheMatch ==
    Quiet /\ ~raced /\ h.live # None => playing /\ h.live = played

\* A session that is up is scheduled to be renewed before its hour is over:
\* whatever replaced it, lost it or retried it, the deadline is armed again.
ReadyIsScheduled ==
    Quiet /\ v.state = "ready" /\ v.openInstructions # None =>
        \/ \E t \in v.timers : t.kind = "age"
        \/ v.renewing

\* What main keeps of its session is in order: its timers have their handle, and
\* a session that is up its deadline. (session.ts:574-679)
LinkIsSound == TypeOK /\ HandleIsArmed /\ ReadyIsScheduled

\* A renewal that starts ends, with a session or by giving up, even when the
\* window has stopped answering.
RenewalEnds == v.renewing ~> ~v.renewing

WaitsForSession == playing /\ v.hasKey /\ ~v.disposed /\ v.state # "ready" /\ ~informed

\* No match is silently without a voice: it gets a session or the player is told,
\* unless a connection failed while it was being set up.
NeverSilentlyLost == WaitsForSession ~> (~WaitsForSession \/ h.failed)

-----------------------------------------------------------------------------
\* session.ts says that a failure to open is a fault on the chip; a connection
\* that fails during its setup must not be the exception.
OpenIsAnswered == WaitsForSession ~> ~WaitsForSession

\* shell/index.ts says that opening a session for a match that has ended would
\* leave one running with nothing to answer: when all is delivered, none runs.
NoSessionAfterMatch == Quiet /\ ~playing => h.live = None
=============================================================================
