---------------------------- MODULE MCMatchState ----------------------------
(***************************************************************************)
(* Three instances of MatchState in one: a long life of matches with       *)
(* little seen in them, one match with much to see, and matches whose      *)
(* recordings break.                                                       *)
(***************************************************************************)
EXTENDS MatchState

VARIABLE instance

\* Writes that are taken, and after them some that are not.
Then(sound, broken) == [i \in 1 .. sound |-> Taken] \o broken

Full == [left |-> "nothing", then |-> "fails"]
Halved(then) == [left |-> "part", then |-> then]

SoundDisk == {<<>>}

\* A disk that is full, from some line on, for all the matches there are.
FullDisks == {Then(sound, [i \in 1 .. 6 |-> Full]) : sound \in {0, 5}}

\* One write that breaks in any way, somewhere, and one that breaks the header glued to
\* what it broke before.
BreakingDisks ==
    {Then(sound, <<fate>>) : sound \in 0 .. 4, fate \in Broken}
    \cup {Then(sound, <<Halved("dies"), Halved("fails")>>) : sound \in {1, 2}}

MCDisks == SoundDisk \cup FullDisks \cup BreakingDisks

\* Bounds: the lines of a file with much to see in it, and of one that breaks.
LongestSeen == 8
LongestBroken == 7

MCInit ==
    /\ Init
    /\ instance = CASE d.disk \in SoundDisk -> "seen"
                     [] d.disk \in FullDisks -> "lived"
                     [] d.disk \in BreakingDisks -> "broken"

MCNext ==
    /\ Next
    /\ UNCHANGED instance
    /\ CASE instance = "lived" -> sightings' <= 1
         [] instance = "seen" ->
              /\ game'.match <= 1 /\ game'.state # "disconnect" /\ restarts' = 0
              /\ Len(d'.lines) <= LongestSeen
         [] instance = "broken" ->
              /\ game'.state # "disconnect" /\ sightings' = 0
              /\ Len(d'.lines) <= LongestBroken

MCSpec == MCInit /\ [][MCNext]_<<matchVars, instance>>
=============================================================================
