---------------------------- MODULE SilentSession ----------------------------
(***************************************************************************)
(* The voice session of an app without an API key                          *)
(* (main/shell/silent-session.ts): it says nothing, and gives each turn    *)
(* both of its edges a nominal answer apart.                               *)
(***************************************************************************)
EXTENDS Naturals, Sequences, FiniteSets

CONSTANT MaxSilentTurns  \* bound: turns begun

VARIABLES
    begun,     \* ids given out by beginTurn
    heldTurns,    \* turns handed over for an answer
    pending,   \* turns whose speaking timer runs
    silentEdges,     \* the events emitted, in order
    disposed
silentVars == <<begun, heldTurns, pending, silentEdges, disposed>>

SilentInit == begun = 0 /\ heldTurns = {} /\ pending = {} /\ silentEdges = <<>> /\ disposed = FALSE

BeginSilent ==
    /\ begun < MaxSilentTurns
    /\ begun' = begun + 1
    /\ UNCHANGED <<heldTurns, pending, silentEdges, disposed>>

(* Mutant: an aborted turn is only forgotten. *)
DropsPending(ids) == pending' = pending \ ids /\ UNCHANGED silentEdges

(* endPending: the timer is cancelled and the second edge sent at once. *)
EndPending(ids) ==
    /\ pending' = pending \ ids
    /\ \E order \in [1 .. Cardinality(ids \cap pending) -> ids \cap pending] :
          /\ \A i, j \in DOMAIN order : i < j => order[i] < order[j]
          /\ silentEdges' = silentEdges \o [i \in DOMAIN order |-> <<"ended", order[i]>>]

(* speakNow, or endTurn with words to answer. *)
Speak == \E id \in 1 .. begun :
    /\ ~disposed /\ id \notin heldTurns
    /\ heldTurns' = heldTurns \cup {id}
    /\ pending' = pending \cup {id}
    /\ silentEdges' = Append(silentEdges, <<"started", id>>)
    /\ UNCHANGED <<begun, disposed>>

(* endTurn(id, "cancel"), for a turn that is being answered or never was. *)
CancelTurn == \E id \in 1 .. begun :
    /\ ~disposed
    /\ EndPending({id})
    /\ heldTurns' = heldTurns \cup {id}
    /\ UNCHANGED <<begun, disposed>>

AbortAll == EndPending(pending) /\ UNCHANGED <<begun, heldTurns, disposed>>

SpeechTimer == \E id \in pending :
    /\ pending' = pending \ {id}
    /\ silentEdges' = Append(silentEdges, <<"ended", id>>)
    /\ UNCHANGED <<begun, heldTurns, disposed>>

DisposeSilent ==
    /\ ~disposed
    /\ disposed' = TRUE /\ pending' = {}
    /\ UNCHANGED <<begun, heldTurns, silentEdges>>

SilentNext == BeginSilent \/ Speak \/ CancelTurn \/ AbortAll \/ SpeechTimer \/ DisposeSilent
SilentSpec == SilentInit /\ [][SilentNext]_silentVars

-----------------------------------------------------------------------------

Times(edge, id) == Cardinality({i \in DOMAIN silentEdges : silentEdges[i] = <<edge, id>>})

(* ClosesEachTurn: the chip never stays in Speaking on a session that hung: *)
(* each turn that started ends once and not twice, and a turn with no timer *)
(* has both edges or neither, until the session is gone                     *)
(* (main/shell/silent-session.ts:33-41).                                    *)
ClosesEachTurn == \A id \in 1 .. begun :
    /\ Times("started", id) <= 1
    /\ Times("ended", id) <= Times("started", id)
    /\ id \notin pending /\ ~disposed => Times("ended", id) = Times("started", id)
=============================================================================
