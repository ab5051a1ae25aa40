---------------------------- MODULE MCTurnPipeline ----------------------------
(***************************************************************************)
(* Two instances of TurnPipeline in one: every gesture and mute against a  *)
(* window several directives behind, in a session that lasts; and push     *)
(* gestures against sessions that are replaced and tools that answer late. *)
(***************************************************************************)
EXTENDS TurnPipeline

VARIABLE instance

MCEnvironments == {[silenceNudge |-> 1, listenTimeout |-> 1]}

MCFaults == {[kind |-> "offline", persistent |-> FALSE]}

MCInit == Init /\ instance \in {"gestures", "replaced"}

\* Nobody starts anything new: what is under way goes on.
GoesOn == System \/ Speak \/ ResponseEnds \/ TimerFires("listen-timeout") \/ TimerFires("error-dismiss")

MCNext ==
    /\ Next
    /\ UNCHANGED instance
    /\ instance = "gestures" => ~renewed' /\ ~calling'
    /\ instance = "replaced" =>
        /\ ~m'.muted
        /\ Capturing(m'.phase) => m'.phase.gesture = "push"
        /\ Len(toHost) + Len(toMain) > 1 => GoesOn

MCSpec == MCInit /\ [][MCNext]_<<vars, instance>> /\ Fairness
=============================================================================
