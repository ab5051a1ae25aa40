-------------------------------- MODULE DebugHub --------------------------------
(***************************************************************************)
(* The inspector's hub: the turns it shows with their tool calls, each     *)
(* list capped, and what arrives for a turn or a call only afterwards, of  *)
(* the same match or the next one. It hears of problems by standing in     *)
(* front of the telemetry, and of tool calls in front of the dispatcher.   *)
(* (apps/desktop/src/main/debug: hub.ts, telemetry.ts, observing-dispatch.ts) *)
(***************************************************************************)
EXTENDS Integers, Sequences, SequencesExt

CONSTANTS
    ShownTurns,     \* DEBUG_LIMITS.turns
    CallsPerTurn,   \* DEBUG_LIMITS.toolCallsPerTurn
    ShownProblems,  \* DEBUG_LIMITS.problems
    MaxTurns,       \* bound: the turns opened
    MaxToolCalls    \* bound: the tool calls made

ASSUME DebugHubAssumption ==
    {ShownTurns, CallsPerTurn, ShownProblems, MaxTurns, MaxToolCalls} \subseteq Nat \ {0}

VARIABLES
    turns,          \* MutableTurn: id, outcome, calls, toolsDropped, what the agent said
    turnIndex,      \* the ids a late transcript can be joined to
    callIndex,      \* the calls a late result can be joined to
    calls,          \* seq -> the status its result gave it
    problems,       \* what the Problems panel shows
    past            \* observer: turn -> calls made in it; telemetry handed on
hubVars == <<turns, turnIndex, callIndex, calls, problems, past>>

HubInit ==
    /\ turns = <<>> /\ turnIndex = {} /\ callIndex = {} /\ calls = <<>> /\ problems = <<>>
    /\ past = [made |-> <<>>, told |-> 0, sent |-> 0]

\* push: the oldest make room.
Capped(list, cap) == IF Len(list) > cap THEN SubSeq(list, Len(list) - cap + 1, Len(list)) ELSE list

ShownIds(list) == {list[i].id : i \in 1 .. Len(list)}
ShownCalls(list) == UNION {ToSet(list[i].calls) : i \in 1 .. Len(list)}

Problem(kind) == problems' = Capped(Append(problems, kind), ShownProblems)

-----------------------------------------------------------------------------
(* Turns *)

\* Mutant: the indexes outlive the list they index.
KeepsIndexes(list) ==
    /\ turnIndex' = turnIndex \cup {list[Len(list)].id}
    /\ UNCHANGED callIndex

\* pruneIndexes: nothing is joined to a turn no frame can show.
Prunes(list) ==
    /\ turnIndex' = (turnIndex \cup {list[Len(list)].id}) \cap ShownIds(list)
    /\ callIndex' = callIndex \cap ShownCalls(list)

\* observeSnapshots: a snapshot was rendered, for a player's turn or a scenario's.
TurnOpened ==
    LET id == Len(past.made) + 1
        list == Capped(Append(turns, [id |-> id, outcome |-> "open", calls |-> <<>>,
                                      dropped |-> 0, said |-> FALSE]), ShownTurns)
    IN /\ id <= MaxTurns
       /\ turns' = list
       /\ Prunes(list)
       /\ past' = [past EXCEPT !.made = Append(@, 0)]
       /\ UNCHANGED <<calls, problems>>

Amended(id, field, value) ==
    [i \in DOMAIN turns |-> IF turns[i].id = id /\ id \in turnIndex
                            THEN [turns[i] EXCEPT ![field] = value] ELSE turns[i]]

TurnClosed(id) ==
    /\ turns' = Amended(id, "outcome", "spoke")
    /\ UNCHANGED <<turnIndex, callIndex, calls, problems, past>>

AgentSaid(id) ==
    /\ turns' = Amended(id, "said", TRUE)
    /\ UNCHANGED <<turnIndex, callIndex, calls, problems, past>>

-----------------------------------------------------------------------------
(* Tool calls *)

\* A call goes to the latest turn, open or not; with no turn at all it is a problem.
CallRecorded ==
    LET seq == Len(calls) + 1
        n == Len(turns)
        over == n > 0 /\ Len(turns[n].calls) = CallsPerTurn
    IN /\ seq <= MaxToolCalls
       /\ calls' = Append(calls, "pending")
       /\ IF n = 0
          THEN Problem("no turn") /\ UNCHANGED <<turns, callIndex, past>>
          ELSE /\ turns' = [turns EXCEPT ![n].calls = Capped(Append(@, seq), CallsPerTurn),
                                         ![n].dropped = IF over THEN @ + 1 ELSE @]
               /\ callIndex' = (callIndex \cup {seq}) \ (IF over THEN {Head(turns[n].calls)} ELSE {})
               /\ past' = [past EXCEPT !.made[turns[n].id] = @ + 1]
               /\ UNCHANGED problems
       /\ UNCHANGED turnIndex

\* The delegate has answered, or thrown: a call that is no longer shown is let go.
ResultRecorded(seq) ==
    /\ calls[seq] = "pending"
    /\ \E status \in {"ok", "unknown", "failed"} :
          calls' = [calls EXCEPT ![seq] = IF seq \in callIndex THEN status ELSE "let go"]
    /\ UNCHANGED <<turns, turnIndex, callIndex, problems, past>>

-----------------------------------------------------------------------------
(* Telemetry, and the match *)

Events == {"sourceStarted", "sourceRestarted", "worldReset", "sidecarReady"}

\* Mutant: an event that is a problem is not handed on.
TellsTheHub(event) ==
    IF event \in {"sourceRestarted", "worldReset"} THEN 0 ELSE 1

\* Each goes to the sink behind, and the problems to the hub as well.
Delegated(event) == 1

Telemetry(event) ==
    /\ past.sent < MaxTurns
    /\ past' = [past EXCEPT !.sent = @ + 1, !.told = @ + Delegated(event)]
    /\ IF event \in {"sourceRestarted", "worldReset"} THEN Problem(event) ELSE UNCHANGED problems
    /\ UNCHANGED <<turns, turnIndex, callIndex, calls>>

\* resetMatch: problems and trace survive.
ResetMatch ==
    /\ turns' = <<>> /\ turnIndex' = {} /\ callIndex' = {}
    /\ UNCHANGED <<calls, problems, past>>

HubNext ==
    \/ TurnOpened
    \/ \E id \in 1 .. Len(past.made) : TurnClosed(id) \/ AgentSaid(id)
    \/ CallRecorded
    \/ \E seq \in 1 .. Len(calls) : ResultRecorded(seq)
    \/ \E event \in Events : Telemetry(event)
    \/ ResetMatch

-----------------------------------------------------------------------------
\* A late transcript or result finds exactly the turns and calls the window can show, in a
\* long match and after a new one began; a call that is shown has its result, once that has
\* come; a turn accounts for every call made in it, the dropped ones included; and the
\* telemetry behind the inspector misses nothing. (pruneIndexes, recordToolCall,
\* recordToolResult, resetMatch, withDebugTelemetry)
JoinsWhatItShows ==
    /\ turnIndex = ShownIds(turns) /\ callIndex = ShownCalls(turns)
    /\ \A seq \in ShownCalls(turns) : calls[seq] # "let go"
    /\ \A i \in 1 .. Len(turns) : Len(turns[i].calls) + turns[i].dropped = past.made[turns[i].id]
    /\ past.told = past.sent
===============================================================================
