-------------------------------- MODULE AppLife --------------------------------
(***************************************************************************)
(* The app from its launch to its exit: the lock, the token it keeps for   *)
(* Dota 2, the shell that is built at once and started in three awaited    *)
(* steps, the sessions its matches open, and a quit that may come at any   *)
(* of these points and is put off once, until the shell has stopped.       *)
(* (apps/desktop/src/main: index.ts, bootstrap.ts, shell/index.ts)         *)
(***************************************************************************)
EXTENDS Integers, FiniteSets

CONSTANTS
    Launches,       \* bound: how often the app is launched
    Matches         \* bound: the matches of one launch

ASSUME AppLifeAssumption == Launches \in Nat /\ Matches \in Nat

VARIABLES
    app,            \* launch number, what became of the process, the stage a quit came at
    stage,          \* how far start() got: "none", "warming", "sources", "done"
    held,           \* what the shell holds, and stop() must let go of
    match,          \* the match a session has been opened for, 0 for none
    sessions,       \* openMatch calls with no closeMatch after them
    token           \* the token file, 0 when it is missing or empty; the tokens listened for;
                    \* and how many launches could not read a file that was there

appVars == <<app, stage, held, match, sessions, token>>

AppInit ==
    /\ app = [nr |-> 0, process |-> "none", quit |-> "not"]
    /\ stage = "none" /\ held = {}
    /\ match = 0 /\ sessions = 0
    /\ token = [file |-> 0, used |-> {}, refusals |-> 0]

Alive == app.process = "alive"
Quitting == app.quit # "not"
Stopped == Alive /\ Quitting

-----------------------------------------------------------------------------
(* The process *)

\* A second launch beside a live one exits at once, for want of the lock.
Starts ==
    /\ ~Alive
    /\ app.nr < Launches
    /\ app' = [nr |-> app.nr + 1, process |-> "alive", quit |-> "not"]
    /\ stage' = "none" /\ held' = {} /\ match' = 0 /\ sessions' = 0
    /\ UNCHANGED token

Gone(how) == app' = [app EXCEPT !.process = how]

\* fail: a process that cannot start says so and exits; or it is killed.
Dies ==
    /\ Alive
    /\ Gone("dead")
    /\ UNCHANGED <<stage, held, match, sessions, token>>

-----------------------------------------------------------------------------
(* Starting *)

\* Mutant: every launch makes a token of its own.
FreshToken(readable) == app.nr

\* The token is made once and read ever after. An empty file is no token, and neither is
\* one that cannot be read: the new token is written over it.
OwnToken(readable) == IF token.file # 0 /\ readable THEN token.file ELSE app.nr

Refusals(readable) == token.refusals + (IF token.file # 0 /\ ~readable THEN 1 ELSE 0)

\* What building the shell leaves held.
Wired == {"tray", "subscriptions", "window"}

\* whenReady: configuration, token, session and shell are built in one go, and the
\* window begins to warm.
BuildShell ==
    /\ Alive /\ ~Quitting /\ stage = "none"
    /\ \E readable \in BOOLEAN :
          token' = [file |-> OwnToken(readable), refusals |-> Refusals(readable),
                    used |-> token.used \cup {OwnToken(readable)}]
    /\ stage' = "warming"
    /\ held' = Wired
    /\ UNCHANGED <<app, match, sessions>>

\* The new token cannot be written, or the process dies in the write: nothing was
\* built, and the file is as it was, empty, or holds (part of) a token nobody used.
TokenUnwritten ==
    /\ Alive /\ ~Quitting /\ stage = "none"
    /\ \E readable \in BOOLEAN, file \in {token.file, 0, app.nr} :
          /\ OwnToken(readable) # token.file
          /\ token' = [token EXCEPT !.file = file, !.refusals = Refusals(readable)]
    /\ Gone("dead")
    /\ UNCHANGED <<stage, held, match, sessions>>

\* warm() is done, and nothing tells start() that a stop has come meanwhile: the key is
\* bound, unless another application owns it, and the sources are started.
Warmed ==
    /\ Alive /\ stage = "warming"
    /\ stage' = "sources"
    /\ \E bound \in SUBSET {"hotkey"} : held' = held \cup bound \cup {"sources"}
    /\ UNCHANGED <<app, match, sessions, token>>

\* state.start() is done: the health poll arms itself.
SourcesUp ==
    /\ Alive /\ stage = "sources"
    /\ stage' = "done"
    /\ held' = held \cup {"poll"}
    /\ UNCHANGED <<app, match, sessions, token>>

-----------------------------------------------------------------------------
(* Matches *)

\* closeMatch: only of a match a session has been opened for.
Closed == IF match # 0 THEN sessions - 1 ELSE sessions

\* Mutant: a match that starts leaves the session of the one before it.
StartsOver(id) ==
    /\ {"sources", "subscriptions"} \subseteq held
    /\ match' = id /\ sessions' = sessions + 1
    /\ UNCHANGED <<app, stage, held, token>>

\* match_started, also without a match_ended before it.
SessionFor(id) ==
    /\ {"sources", "subscriptions"} \subseteq held
    /\ match' = id /\ sessions' = Closed + 1
    /\ UNCHANGED <<app, stage, held, token>>

MatchOver ==
    /\ {"sources", "subscriptions"} \subseteq held
    /\ match' = 0 /\ sessions' = Closed
    /\ UNCHANGED <<app, stage, held, token>>

-----------------------------------------------------------------------------
(* Stopping *)

\* before-quit. The first is put off for stop(), whose first part is synchronous; with no
\* shell yet, or the second time, it is let through.
BeforeQuit ==
    /\ Alive
    /\ IF Quitting \/ stage = "none"
       THEN Gone("cut") /\ UNCHANGED <<held, match, sessions>>
       ELSE /\ app' = [app EXCEPT !.quit = stage]
            /\ held' = held \cap {"sources"}
            /\ match' = 0 /\ sessions' = Closed
    /\ UNCHANGED <<stage, token>>

\* Mutant: the quit is not put off until the sources have stopped.
QuitsAtOnce ==
    /\ Stopped
    /\ Gone("quit")
    /\ UNCHANGED <<stage, held, match, sessions, token>>

\* The sources have stopped, and the recording is closed: the app quits. A stop that
\* found no sources running waits for none.
Drains ==
    /\ Stopped
    /\ held' = IF app.quit = "warming" THEN held ELSE held \ {"sources"}
    /\ Gone("quit")
    /\ UNCHANGED <<stage, match, sessions, token>>

AppNext ==
    \/ Starts \/ Dies \/ BuildShell \/ TokenUnwritten \/ Warmed \/ SourcesUp
    \/ \E id \in 1 .. Matches : SessionFor(id)
    \/ MatchOver \/ BeforeQuit \/ Drains

-----------------------------------------------------------------------------
\* What a start() may pick up behind a stop that came at this stage: nothing tells it.
PickedUpBehind(at) ==
    CASE at = "warming" -> {"hotkey", "sources", "poll"}
      [] at = "sources" -> {"poll"}
      [] OTHER -> {}

\* A player's quit leaves no tray, window, subscription or session behind, whenever it
\* comes; after a start that was done it leaves nothing, in the start only what start()
\* goes on to pick up. A match has one session, and every session but the current match's
\* has been closed. Dota 2 is listened to under one token for ever, unless a launch found
\* the file unreadable. (before-quit, stop, closeMatch, loadOrCreateGsiToken)
LeavesNothing ==
    /\ app.process = "quit" => held \subseteq PickedUpBehind(app.quit) /\ sessions = 0
    /\ sessions = IF match = 0 THEN 0 ELSE 1
    /\ Cardinality(token.used) <= 1 + token.refusals
===============================================================================
