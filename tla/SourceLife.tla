------------------------------ MODULE SourceLife ------------------------------
(***************************************************************************)
(* What the source supervisor promises of one source: it runs, or it       *)
(* waits for its next try, or it was given up after MaxTries of them; and  *)
(* nothing brings it back once the supervisor, running, was stopped.       *)
(***************************************************************************)
EXTENDS Naturals

CONSTANT MaxTries

VARIABLES
    st,     \* "off", "up", "waiting", "gaveUp" or "stopped"
    tries   \* restarts so far

life == <<st, tries>>

Born == st = "off" /\ tries = 0

Rises ==
    /\ st \in {"off", "waiting"}
    /\ st' = "up"
    /\ UNCHANGED tries

Falls ==
    /\ st \in {"off", "up", "waiting"}
    /\ tries < MaxTries
    /\ st' = "waiting"
    /\ tries' = tries + 1

GivesUp ==
    /\ st \in {"off", "up", "waiting"}
    /\ tries = MaxTries
    /\ st' = "gaveUp"
    /\ UNCHANGED tries

Stops == st # "stopped" /\ st' = "stopped" /\ UNCHANGED tries

Lives == Rises \/ Falls \/ GivesUp \/ Stops

Life == Born /\ [][Lives]_life
===============================================================================
