----------------------------- MODULE MatchTracker -----------------------------
(***************************************************************************)
(* The lifecycle of a match, read off the snapshots that Dota 2 posts:     *)
(* each snapshot gives edges, and the tracker keeps what it compares the   *)
(* next one with.  (packages/gsi/src/session.ts, clock.ts)                 *)
(*                                                                         *)
(* The edges of one snapshot are raised in a fixed order, so they are a    *)
(* record with a field per place in that order.                            *)
(***************************************************************************)
EXTENDS Integers

CONSTANTS
    MaxMatch,       \* bound: match ids
    Threshold       \* DISCONTINUITY_THRESHOLD_SECONDS

ASSUME TrackerAssumption ==
    /\ MaxMatch \in Nat \ {0}
    /\ Threshold \in Nat

Matches == 1 .. MaxMatch

NoMatch == 0

MatchOrNone == Matches \cup {NoMatch}

\* map.game_state, less the states that PHASES maps alike.
GameStates == {"init", "hero_selection", "in_progress", "post_game", "disconnect"}

PhaseOf ==
    [init |-> "idle", hero_selection |-> "hero_selection",
     in_progress |-> "in_progress",
     post_game |-> "post_game", disconnect |-> "post_game"]

Phases == {PhaseOf[g] : g \in GameStates}

\* `map' of a payload; Valve may leave the clock out of it.
Snapshot ==
    [match : Matches, state : GameStates, paused : BOOLEAN,
     clocked : BOOLEAN, clock : Nat]

TrackerState ==
    [matchId : MatchOrNone, phase : Phases, paused : BOOLEAN,
     clocked : BOOLEAN, clock : Nat, clockAt : Nat]

FreshTracker ==
    [matchId |-> NoMatch, phase |-> "idle", paused |-> FALSE,
     clocked |-> FALSE, clock |-> 0, clockAt |-> 0]

\* match_ended, match_started, phase_changed with match_ended,
\* paused or resumed, clock_discontinuity: the order of the code.
Edges ==
    [superseded : BOOLEAN, started : MatchOrNone, over : BOOLEAN,
     turned : {"paused", "resumed", "none"}, jumped : BOOLEAN]

NoEdges ==
    [superseded |-> FALSE, started |-> NoMatch, over |-> FALSE,
     turned |-> "none", jumped |-> FALSE]

\* More than the threshold away from the clock that a second per second predicts.
Jumped(t, map, now) ==
    LET expected == t.clock + (now - t.clockAt)
        delta == map.clock - expected
    IN  delta < -Threshold \/ delta > Threshold

\* Mutant: the new match is announced before the end of the old one.
EdgesOfLateEnd(t, map, now) ==
    [superseded |-> FALSE,
     started |-> IF map.match # t.matchId THEN map.match ELSE NoMatch,
     over |-> \/ map.match # t.matchId /\ t.matchId # NoMatch
              \/ PhaseOf[map.state] # t.phase /\ PhaseOf[map.state] = "post_game",
     turned |-> "none",
     jumped |-> FALSE]

\* The edges that `map' raises, received at `now'.  The pause that decides whether
\* clocks are compared is already the new one.
EdgesOf(t, map, now) ==
    [superseded |-> map.match # t.matchId /\ t.matchId # NoMatch,
     started |-> IF map.match # t.matchId THEN map.match ELSE NoMatch,
     over |-> PhaseOf[map.state] # t.phase /\ PhaseOf[map.state] = "post_game",
     turned |-> IF map.paused = t.paused THEN "none"
                ELSE IF map.paused THEN "paused" ELSE "resumed",
     jumped |-> t.clocked /\ map.clocked /\ ~map.paused /\ Jumped(t, map, now)]

Tracked(t, map, now) ==
    [matchId |-> map.match,
     phase |-> PhaseOf[map.state],
     paused |-> map.paused,
     clocked |-> t.clocked \/ map.clocked,
     clock |-> IF map.clocked THEN map.clock ELSE t.clock,
     clockAt |-> IF map.clocked THEN now ELSE t.clockAt]
=============================================================================
