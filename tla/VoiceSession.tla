------------------------------ MODULE VoiceSession ------------------------------
(***************************************************************************)
(* The main process's half of the voice session: it mints a credential,    *)
(* tells the voice window to open a session, and renews the session before *)
(* its hour is over or when it is lost.                                    *)
(* (apps/desktop/src/main/voice/session.ts)                                *)
(*                                                                         *)
(* Operators take the session's variables as a draft `d' and return it     *)
(* changed.  A draft also collects what the step emits: `out', the         *)
(* directives for the window, and `told', the fault the player is shown.   *)
(* An `await broker.mint' ends the step; what follows it is the action     *)
(* that resolves the mint.  Timers may fire late and in any order.         *)
(***************************************************************************)
EXTENDS VoiceBridge, FiniteSets

CONSTANTS
    Backoffs,   \* renewal.backoffMs.length: the retries a renewal has
    MaxPending  \* bound: mints in flight and timers armed at a time

ASSUME SessionAssumption ==
    /\ Backoffs \in Nat
    /\ MaxPending \in Nat \ {0}

VARIABLES
    v,      \* the variables of createVoiceSession
    told    \* the fault the last step emitted, if any

sessionVars == <<v, told, toHost, toMain>>

NoTimer == 0
Nothing == "nothing"

\* What an await or a timer goes on with; `id' tells equal ones apart.
Mint == [id : 1 .. MaxPending, kind : {"open", "renew"}, match : Matches]
Timer == [id : 1 .. MaxPending, kind : {"age", "ready", "backoff"}, match : Matches]

SessionInit(hasKey) ==
    /\ v = [hasKey           |-> hasKey,
            window           |-> "none",
            ready            |-> FALSE,
            queued           |-> <<>>,
            state            |-> "idle",
            disposed         |-> FALSE,
            openInstructions |-> None,
            renewing         |-> FALSE,
            renewAttempt     |-> 0,
            cancelRenewTimer |-> NoTimer,
            timers           |-> {},
            mints            |-> {}]
    /\ told = Nothing

DraftOf(s) == [s |-> s, out |-> <<>>, told |-> Nothing]

FreeId(ids, used) == CHOOSE i \in ids : \A x \in used : x.id # i

(***************************************************************************)
(* Helpers.                                                                *)
(***************************************************************************)
SetState(d, state) == [d EXCEPT !.s.state = state]

Raise(d, fault) == [d EXCEPT !.told = fault]

\* A directive is dropped without a window and waits for a window to listen.
Send(d, directive) ==
    IF d.s.window # "open" THEN d
    ELSE IF ~d.s.ready THEN [d EXCEPT !.s.queued = Append(@, directive)]
    ELSE [d EXCEPT !.out = Append(@, directive)]

CancelTimer(d) ==
    [d EXCEPT !.s.timers = {t \in @ : t.id # d.s.cancelRenewTimer},
              !.s.cancelRenewTimer = NoTimer]

\* `cancelRenewTimer = timers.after(...)': a timer held before runs on.
Arm(d, kind, match) ==
    LET id == FreeId(1 .. MaxPending, d.s.timers)
    IN [d EXCEPT !.s.timers = @ \cup {[id |-> id, kind |-> kind, match |-> match]},
                 !.s.cancelRenewTimer = id]

\* `await broker.mint(...)', the last thing the step does.
AwaitMint(d, kind, match) ==
    LET id == FreeId(1 .. MaxPending, d.s.mints)
    IN [d EXCEPT !.s.mints = @ \cup {[id |-> id, kind |-> kind, match |-> match]}]

\* Mutant: a match that ends leaves its deadline armed.
StopRenewalOnly(d) ==
    [d EXCEPT !.s.openInstructions = None,
              !.s.renewing = FALSE,
              !.s.renewAttempt = 0]

StopRenewal(d) ==
    [CancelTimer(d) EXCEPT !.s.openInstructions = None,
                           !.s.renewing = FALSE,
                           !.s.renewAttempt = 0]

ArmScheduledRenewal(d) ==
    LET cancelled == CancelTimer(d)
    IN IF d.s.openInstructions = None \/ d.s.disposed THEN cancelled
       ELSE Arm(cancelled, "age", d.s.openInstructions)

IsRenewable(d) == d.s.openInstructions # None /\ d.s.hasKey /\ ~d.s.disposed

AttemptRenewal(d, match) ==
    LET cancelled == CancelTimer(d)
    IN IF d.s.disposed THEN cancelled
       ELSE AwaitMint(SetState(cancelled, "connecting"), "renew", match)

\* Start a renewal, or join the one that runs.
Renew(d) ==
    IF d.s.renewing \/ ~IsRenewable(d) THEN d
    ELSE AttemptRenewal([d EXCEPT !.s.renewing = TRUE, !.s.renewAttempt = 0],
                        d.s.openInstructions)

\* Mutant: a renewal that has run out of attempts is not over.
BackOffForever(d, match, retryable) ==
    LET attempted == [d EXCEPT !.s.renewAttempt = IF @ > Backoffs THEN @ ELSE @ + 1]
    IN IF retryable /\ d.s.renewAttempt < Backoffs /\ ~d.s.disposed
       THEN Arm(attempted, "backoff", match)
       ELSE Raise(SetState(attempted, IF retryable THEN "degraded" ELSE "unavailable"),
                  "session-lost")

\* Attempts past the budget are all alike: the count stops there.
BackOff(d, match, retryable) ==
    LET attempted == [d EXCEPT !.s.renewAttempt = IF @ > Backoffs THEN @ ELSE @ + 1]
    IN IF retryable /\ d.s.renewAttempt < Backoffs /\ ~d.s.disposed
       THEN Arm(attempted, "backoff", match)
       ELSE Raise(SetState([attempted EXCEPT !.s.renewing = FALSE],
                           IF retryable THEN "degraded" ELSE "unavailable"),
                  "session-lost")

EnsureWindow(d) ==
    IF d.s.window = "none" THEN [d EXCEPT !.s.window = "open", !.s.ready = FALSE] ELSE d

(***************************************************************************)
(* The operations of the session, and the continuations of its awaits.     *)
(***************************************************************************)
Open(d, match) ==
    IF ~d.s.hasKey THEN SetState(d, "unavailable")
    ELSE IF d.s.disposed THEN d
    ELSE AwaitMint(SetState(StopRenewal(EnsureWindow(d)), "connecting"), "open", match)

Close(d) == SetState(Send(StopRenewal(d), CloseDirective), "idle")

\* The window goes with its queue; what the close sent before is on its way.
DisposeSession(d) ==
    LET closed == Close([d EXCEPT !.s.disposed = TRUE])
    IN IF d.s.disposed THEN d
       ELSE [closed EXCEPT !.s.window = "closed", !.s.ready = FALSE, !.s.queued = <<>>]

\* Mutant: a refused mint is reported to nobody.
FirstOpenQuietly(d, match, outcome) ==
    IF outcome = "secret"
    THEN [Send(d, OpenDirective(match)) EXCEPT !.s.openInstructions = match]
    ELSE SetState(d, IF outcome = "refused" THEN "degraded" ELSE "unavailable")

\* A first open that fails is put on the chip, and is not tried again.
FirstOpen(d, match, outcome) ==
    IF outcome = "secret"
    THEN [Send(d, OpenDirective(match)) EXCEPT !.s.openInstructions = match]
    ELSE Raise(SetState(d, IF outcome = "refused" THEN "degraded" ELSE "unavailable"),
               "mint")

\* Mutant: once the directive is out, nothing waits for the window.
RenewUnawaited(d, match, outcome) ==
    IF outcome = "secret" THEN Send(d, OpenDirective(match))
    ELSE BackOff(d, match, outcome = "refused")

\* A renewal is not over before the window says it is ready.
ReOpen(d, match, outcome) ==
    IF outcome = "secret"
    THEN Arm(Send(d, OpenDirective(match)), "ready", match)
    ELSE BackOff(d, match, outcome = "refused")

Continue(d, mint, outcome) ==
    LET resumed == [d EXCEPT !.s.mints = @ \ {mint}]
    IN IF mint.kind = "open" THEN FirstOpen(resumed, mint.match, outcome)
                             ELSE ReOpen(resumed, mint.match, outcome)

\* Mutant: a timer that fires leaves its handle behind.
FiredKeepingHandle(d, timer) ==
    LET fired == [d EXCEPT !.s.timers = @ \ {timer}]
    IN CASE timer.kind = "age" -> Renew(fired)
         [] timer.kind = "ready" -> BackOff(fired, timer.match, TRUE)
         [] timer.kind = "backoff" -> AttemptRenewal(fired, timer.match)

\* A timer that fires clears the handle, whichever timer the handle is of.
Fired(d, timer) ==
    LET fired == [d EXCEPT !.s.timers = @ \ {timer}, !.s.cancelRenewTimer = NoTimer]
    IN CASE timer.kind = "age" -> Renew(fired)
         [] timer.kind = "ready" -> BackOff(fired, timer.match, TRUE)
         [] timer.kind = "backoff" -> AttemptRenewal(fired, timer.match)

WindowReady(d) ==
    [d EXCEPT !.s.ready = TRUE, !.s.queued = <<>>,
              !.out = IF d.s.window = "open" THEN @ \o d.s.queued ELSE @]

\* The one evidence of a session: it ends the renewal and arms the next one.
HostState(d, state) ==
    LET known == SetState(d, state)
    IN IF state # "ready" THEN known
       ELSE ArmScheduledRenewal([CancelTimer(known) EXCEPT !.s.renewing = FALSE,
                                                           !.s.renewAttempt = 0])

\* The fault that starts, or joins, a renewal is swallowed.
HostFault(d, kind) ==
    IF kind = "session-lost" /\ IsRenewable(d) THEN Renew(d) ELSE Raise(d, kind)

OnUpdate(d, update) ==
    CASE update.type = "ready" -> WindowReady(d)
      [] update.type = "state" -> HostState(d, update.value)
      [] update.type = "fault" -> HostFault(d, update.value)

(***************************************************************************)
(* The steps.  Each starts at most one await or timer more than it ends.   *)
(***************************************************************************)
HasRoom == Cardinality(v.mints) + Cardinality(v.timers) < MaxPending

Step(d) ==
    /\ v' = d.s
    /\ told' = d.told
    /\ toHost' = toHost \o d.out
    /\ UNCHANGED toMain

Draft == DraftOf(v)

OpenMatch(match) == HasRoom /\ Step(Open(Draft, match))

CloseMatch == Step(Close(Draft))

\* The shell closes the match that is open and opens the next in one step.
ReopenMatch(match) == HasRoom /\ Step(Open(Close(Draft), match))

MintResolves(mint, outcome) ==
    /\ mint \in v.mints
    /\ Step(Continue(Draft, mint, outcome))

Fire(timer) ==
    /\ timer \in v.timers
    /\ Step(Fired(Draft, timer))

Receive ==
    /\ toMain # <<>>
    /\ toMain' = Tail(toMain)
    /\ LET update == Head(toMain)
           d == OnUpdate(Draft, update)
       IN /\ \/ HasRoom
             \/ v.cancelRenewTimer # NoTimer
             \/ update.type = "fault" /\ v.renewing
          /\ v' = d.s
          /\ told' = d.told
          /\ toHost' = toHost \o d.out

\* The window is destroyed, and with it what was on its way to it and from it.
Dispose ==
    /\ ~v.disposed
    /\ v' = DisposeSession(Draft).s
    /\ told' = Nothing
    /\ toHost' = <<>>
    /\ toMain' = <<>>
=============================================================================
