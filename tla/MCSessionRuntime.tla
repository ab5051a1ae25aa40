--------------------------- MODULE MCSessionRuntime ---------------------------
(* Small instances of SessionRuntime. *)
EXTENDS SessionRuntime

MCFaults ==
    {[kind |-> "mic-denied", persistent |-> TRUE],
     [kind |-> "auth", persistent |-> TRUE],
     [kind |-> "offline", persistent |-> FALSE],
     [kind |-> "session-lost", persistent |-> TRUE],
     [kind |-> "session-lost", persistent |-> FALSE]}

\* The listen timeout is a setting; the nudge is the same in both snapshots.
MCEnvironments ==
    {[silenceNudge |-> 1, listenTimeout |-> 2],
     [silenceNudge |-> 1, listenTimeout |-> 4]}
=============================================================================
