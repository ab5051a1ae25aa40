----------------------------- MODULE WorldReading -----------------------------
(***************************************************************************)
(* What the assistant is told of the map: facts stamped with two clocks, a *)
(* ring of deltas bounded by time and by entries, and the `objectives' and *)
(* `enemy' tools, which read the one and search the other. The match may   *)
(* be paused, the listener may fall silent and the store may be reset.     *)
(* (packages/world-model: store, history, fusion/staleness, tools)         *)
(***************************************************************************)
EXTENDS Integers, Sequences, FiniteSets

CONSTANTS
    Window,         \* seconds of history (300)
    MaxEntries,     \* entries of the ring (2000)
    Buildings,      \* towers and barracks of one side
    MaxSeconds,     \* wall seconds of a run (bound)
    MaxPerSecond    \* observations of a second (bound)

ASSUME ReadingAssumption == {Window, MaxEntries, MaxSeconds, MaxPerSecond} \subseteq Nat \ {0}

VARIABLES
    game,       \* wall and match seconds, is it paused, what stands, posts of this second
    world,      \* WorldState: clock, buildings and an enemy's position, each a fact or None
    ring,       \* state.history: per delta its match clock, wall clock, and the buildings it took
    shed,       \* the ring has dropped an entry for want of room
    fell        \* when the store was told of each loss, since it was last reset

readingVars == <<game, world, ring, shed, fell>>

-----------------------------------------------------------------------------
(* Facts *)

None == [value |-> -1, observed |-> -1, at |-> -1]
Stamped(value, at) == [value |-> value, observed |-> game.wall, at |-> at]

\* Mutant: match time whenever there is a match clock.
AgeByMatch(f, wall, clock) == IF clock # -1 THEN clock - f.at ELSE wall - f.observed

\* Match time while both clocks are known, else wall time; never negative.
AgeOf(f, wall, clock) ==
    LET age == IF clock # -1 /\ f.at # -1 THEN clock - f.at ELSE wall - f.observed
    IN  IF age < 0 THEN 0 ELSE age

Known(f) == f.observed # -1

EmptyWorld == [clock |-> None, buildings |-> [None EXCEPT !.value = {}], position |-> None]

-----------------------------------------------------------------------------
(* The ring of deltas *)

\* Mutant: an entry that carries a match clock ages in wall time.
WallOnly(slot, at, wall) == wall - slot.wall > Window

TooOld(slot, at, wall) ==
    IF slot.at # -1 /\ at # -1 THEN at - slot.at > Window ELSE wall - slot.wall > Window

\* Old entries go from the front only, then as many as are too many.
FirstKept(slots, at, wall) ==
    IF \E i \in DOMAIN slots : ~TooOld(slots[i], at, wall)
    THEN CHOOSE i \in DOMAIN slots :
            /\ ~TooOld(slots[i], at, wall)
            /\ \A j \in 1 .. i - 1 : TooOld(slots[j], at, wall)
    ELSE Len(slots) + 1

Push(slots, at, gone) ==
    LET all  == Append(slots, [at |-> at, wall |-> game.wall, gone |-> gone])
        kept == SubSeq(all, FirstKept(all, at, game.wall), Len(all))
        over == Len(kept) - MaxEntries
    IN  /\ ring' = IF over > 0 THEN SubSeq(kept, over + 1, Len(kept)) ELSE kept
        /\ shed' = (shed \/ over > 0)

\* Everything between a moment and now: entries with no match clock are in no window.
Since(clock) == {i \in DOMAIN ring : ring[i].at # -1 /\ ring[i].at >= clock}

-----------------------------------------------------------------------------
(* The tools *)

Clock == world.clock.value

\* recentlyLost: what stood in `before' and does not in `after', newest first; an entry
\* outside of the window takes nothing.
RecentlyLost ==
    LET told    == IF Clock = -1 THEN DOMAIN ring ELSE Since(Clock - Window)
        back(i) == Len(ring) + 1 - i
    IN  [i \in DOMAIN ring |-> IF back(i) \in told THEN ring[back(i)].gone ELSE {}]

Lost == UNION {RecentlyLost[i] : i \in DOMAIN RecentlyLost}

\* buildingsFact: a payload that brings the buildings names the player's side too.
BuildingsAnswered == Known(world.buildings)


-----------------------------------------------------------------------------
(* Steps *)

ReadingInit ==
    /\ game = [wall |-> 0, clock |-> 0, paused |-> FALSE, standing |-> Buildings, posts |-> 0]
    /\ world = EmptyWorld
    /\ ring = <<>> /\ shed = FALSE
    /\ fell = [b \in Buildings |-> -1]

Second ==
    /\ game.wall < MaxSeconds
    /\ game' = [game EXCEPT !.wall = @ + 1, !.clock = @ + (IF game.paused THEN 0 ELSE 1), !.posts = 0]
    /\ UNCHANGED <<world, ring, shed, fell>>

Pause ==
    /\ game' = [game EXCEPT !.paused = ~@]
    /\ UNCHANGED <<world, ring, shed, fell>>

\* A building falls; nobody has been told.
Falls ==
    /\ ~game.paused
    /\ \E b \in game.standing : game' = [game EXCEPT !.standing = @ \ {b}]
    /\ UNCHANGED <<world, ring, shed, fell>>

\* A GSI payload, with or without its `map' (the clock) and `buildings' components.
\* The delta is dated with the clock the state then has.
Post(map, buildings) ==
    /\ game.posts < MaxPerSecond
    /\ game' = [game EXCEPT !.posts = @ + 1]
    /\ LET at   == IF map THEN game.clock ELSE -1
           gone == IF buildings
                   THEN world.buildings.value \ game.standing ELSE {}
       IN  /\ world' = [world EXCEPT
                 !.clock = IF map THEN Stamped(game.clock, at) ELSE @,
                 !.buildings = IF buildings THEN Stamped(game.standing, at) ELSE @]
           /\ Push(ring, world'.clock.value, gone)
           /\ fell' = [b \in Buildings |-> IF b \in gone THEN world'.clock.value ELSE fell[b]]

\* The sidecar sees an enemy: dated with the clock the store knows.
Sighting ==
    /\ game.posts < MaxPerSecond
    /\ game' = [game EXCEPT !.posts = @ + 1]
    /\ world' = [world EXCEPT !.position = Stamped(1, Clock)]
    /\ Push(ring, Clock, {})
    /\ UNCHANGED fell

\* reset: an empty state with a ring of its own, and the delta to it.
Reset ==
    /\ world # EmptyWorld
    /\ world' = EmptyWorld
    /\ Push(<<>>, -1, {})
    /\ fell' = [b \in Buildings |-> -1]
    /\ UNCHANGED game

ReadingNext ==
    \/ Second \/ Pause \/ Falls \/ Sighting \/ Reset
    \/ \E map, buildings \in BOOLEAN : Post(map, buildings)

ReadingSpec == ReadingInit /\ [][ReadingNext]_readingVars

-----------------------------------------------------------------------------
(* Properties *)

RecentFalls == {b \in Buildings : fell[b] # -1 /\ fell[b] >= Clock - Window}

\* However the match is paused and its sources interleave, the losses told are those
\* of the window, newest first, and none is counted as standing, unless the ring had
\* no room for the window's deltas. (recentlyLost, createRingHistory)
LossesAreTold ==
    BuildingsAnswered =>
        /\ Lost \intersect world.buildings.value = {}
        /\ Clock # -1 =>
            /\ Lost \subseteq RecentFalls
            /\ ~shed => RecentFalls \subseteq Lost
        /\ \A i, j \in DOMAIN RecentlyLost :
            i < j => \A b \in RecentlyLost[i], c \in RecentlyLost[j] : fell[b] >= fell[c]

\* Nothing seen grows younger until it is seen again or forgotten, whichever clock
\* measures it and however late the clocks arrive. (ageInBasis)
SeenNeverGrowsYounger ==
    [][ world'.position = world.position /\ Known(world.position) =>
            AgeOf(world.position, game.wall, Clock) <= AgeOf(world'.position, game'.wall, world'.clock.value)
      ]_readingVars
=============================================================================
