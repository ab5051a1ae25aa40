------------------------------- MODULE ToolCalls -------------------------------
(***************************************************************************)
(* A question of the model to the world, in the middle of a spoken answer: *)
(* the session of the voice window parses it, the bridge dispatcher asks   *)
(* main under an id of its own, main answers in the order its reads        *)
(* finish, and the output goes back to the session that is live by then.   *)
(* (packages/realtime/src/tools.ts and session.ts, renderer/voice/tools.ts *)
(* and host.ts, main/voice/session.ts, main/agent/tools.ts)                *)
(*                                                                         *)
(* A call is told apart by the session that asked and its number; an       *)
(* answer is the call it is a fact about, or Unknown.                      *)
(***************************************************************************)
EXTENDS Integers, Sequences, FiniteSets, Functions

CONSTANTS
    MaxSessions,        \* sessions opened one after the other
    MaxCalls            \* bound: calls the model makes in one session

ASSUME CallsAssumption == MaxSessions \in Nat /\ MaxCalls \in Nat

VARIABLES
    speaking,   \* the session that is live, 0 for none
    opened,     \* sessions opened so far
    asked,      \* the calls with an id to answer to
    counter,    \* the last id the dispatcher of this session gave out
    waiting,    \* id -> the call that waits for it
    asking,     \* `voice.tool.call' on its way to main
    reading,    \* calls main awaits an answer to
    answering,  \* `voice.tool.result' on its way to the window
    outputs     \* call -> the function_call_outputs sent for it

callVars == <<speaking, opened, asked, counter, waiting, asking, reading,
              answering, outputs>>

Call == [session : 1 .. MaxSessions, nr : 1 .. MaxCalls]

\* { unknown: reason }: what every failure is encoded as.
Unknown == [session |-> 0, nr |-> 0]

Message(id, call) == [id |-> id, call |-> call]

ToolInit ==
    /\ speaking = 0 /\ opened = 0
    /\ asked = {}
    /\ counter = 0 /\ waiting = <<>>
    /\ asking = <<>> /\ reading = {} /\ answering = <<>>
    /\ outputs = [c \in Call |-> <<>>]

Output(call, answer) == outputs' = [outputs EXCEPT ![call] = Append(@, answer)]

\* A dispatcher is built with each session, and its ids restart.
OpenSession ==
    /\ speaking = 0 /\ opened < MaxSessions
    /\ opened' = opened + 1 /\ speaking' = opened + 1
    /\ counter' = 0 /\ waiting' = <<>>
    /\ UNCHANGED <<asked, asking, reading, answering, outputs>>

\* What is in flight is abandoned: its answers go to a transport that is closing.
CloseSession ==
    /\ speaking # 0
    /\ speaking' = 0 /\ waiting' = <<>>
    /\ UNCHANGED <<opened, asked, counter, asking, reading, answering, outputs>>

NextCall == [session |-> speaking,
             nr |-> 1 + Cardinality({c \in asked : c.session = speaking})]

MakesCall == speaking # 0 /\ NextCall \in Call /\ asked' = asked \cup {NextCall}

\* An unknown tool, arguments that are no JSON or not those of its schema.
Refused ==
    /\ MakesCall
    /\ Output(NextCall, Unknown)
    /\ UNCHANGED <<speaking, opened, counter, waiting, asking, reading, answering>>

\* The dispatcher waits under its own id before it sends.
Dispatched ==
    /\ MakesCall
    /\ counter' = counter + 1
    /\ waiting' = [id \in DOMAIN waiting \cup {counter + 1} |->
                     IF id = counter + 1 THEN NextCall ELSE waiting[id]]
    /\ asking' = Append(asking, Message(counter + 1, NextCall))
    /\ UNCHANGED <<speaking, opened, reading, answering, outputs>>

MainReads ==
    /\ asking # <<>>
    /\ reading' = reading \cup {Head(asking)}
    /\ asking' = Tail(asking)
    /\ UNCHANGED <<speaking, opened, asked, counter, waiting, answering, outputs>>

\* `world_at' reads a file and the others the live model: answers overtake each other.
\* A tool that is not wired, or that throws, is answered for.
MainAnswers(message) ==
    /\ message \in reading
    /\ reading' = reading \ {message}
    /\ \E answer \in {message.call, Unknown} :
        answering' = Append(answering, Message(message.id, answer))
    /\ UNCHANGED <<speaking, opened, asked, counter, waiting, asking, outputs>>

\* Mutant: an answer leaves its entry, for the deadline to answer again.
Peek(id) == UNCHANGED waiting

\* Removing the entry is what makes an answer happen once.
Take(id) == waiting' = Restrict(waiting, DOMAIN waiting \ {id})

\* A result goes to whoever waits for its id; one its schema refuses becomes Unknown.
Settle ==
    /\ answering # <<>>
    /\ answering' = Tail(answering)
    /\ LET id == Head(answering).id
       IN IF id \in DOMAIN waiting
          THEN /\ \E answer \in {Head(answering).call, Unknown} : Output(waiting[id], answer)
               /\ Take(id)
          ELSE UNCHANGED <<waiting, outputs>>
    /\ UNCHANGED <<speaking, opened, asked, counter, asking, reading>>

Deadline(id) ==
    /\ id \in DOMAIN waiting
    /\ Output(waiting[id], Unknown)
    /\ Take(id)
    /\ UNCHANGED <<speaking, opened, asked, counter, asking, reading, answering>>

ToolNext ==
    \/ OpenSession
    \/ CloseSession
    \/ Refused
    \/ Dispatched
    \/ MainReads
    \/ \E message \in reading : MainAnswers(message)
    \/ Settle
    \/ \E id \in DOMAIN waiting : Deadline(id)

ToolSpec == ToolInit /\ [][ToolNext]_callVars

-----------------------------------------------------------------------------
\* "Never leaves a call unanswered": a call of the live session has its one output
\* or waits under exactly one id, however results, deadlines and replaced sessions
\* fall, and no call is ever given two. (renderer/voice/tools.ts take)
AnsweredOnce ==
    \A c \in asked :
        /\ Len(outputs[c]) <= 1
        /\ c.session = speaking /\ outputs[c] = <<>> =>
               Cardinality({id \in DOMAIN waiting : waiting[id] = c}) = 1
=============================================================================
