-------------------------------- MODULE GsiHttp --------------------------------
(***************************************************************************)
(* The HTTP listener Dota 2 posts its state to: a body that grows chunk by *)
(* chunk, refused when it is too large, unreadable, unauthorised or no     *)
(* object, and otherwise handed on as one observation.                     *)
(* (packages/gsi/src: server.ts, auth.ts, parse.ts)                        *)
(***************************************************************************)
EXTENDS Integers, Sequences, FiniteSets

CONSTANTS
    Posts,          \* the requests there are
    MaxBody         \* maxBodyBytes, in chunks

ASSUME GsiHttpAssumption ==
    /\ IsFiniteSet(Posts)
    /\ MaxBody \in Nat

VARIABLES
    server,     \* "off", "listening" or "refused": start() rejected
    request,    \* per post: "new", "open", "aborted" or "done"; its size, its answer
    stats,      \* GsiServerStats
    handed      \* the observations handed on, with the token each came with

httpVars == <<server, request, stats, handed>>

Bodies == {"garbage", "array", "object"}
Tokens == {"ok", "missing", "mismatch"}

Count(field) == stats' = [stats EXCEPT ![field] = @ + 1]

Answer(post, status) ==
    request' = [request EXCEPT ![post].state = "done", ![post].answer = status]

-----------------------------------------------------------------------------
(* Life *)

\* listen: a port in use rejects, and the server stays set.
Listen ==
    /\ server = "off"
    /\ server' \in {"listening", "refused"}
    /\ UNCHANGED <<request, stats, handed>>

\* close, and every connection with it: an open request never ends.
Close ==
    /\ server # "off"
    /\ server' = "off"
    /\ request' = [p \in Posts |-> IF request[p].state = "open"
                                   THEN [request[p] EXCEPT !.state = "gone"] ELSE request[p]]
    /\ UNCHANGED <<stats, handed>>

-----------------------------------------------------------------------------
(* The handler *)

\* A request that is not a POST is not even counted.
Refuse(post) ==
    /\ server = "listening"
    /\ request[post].state = "new"
    /\ Answer(post, 405)
    /\ UNCHANGED <<server, stats, handed>>

Accept(post) ==
    /\ server = "listening"
    /\ request[post].state = "new"
    /\ request' = [request EXCEPT ![post].state = "open"]
    /\ Count("received")
    /\ UNCHANGED <<server, handed>>

\* 'data': the chunk that passes the limit is the last one looked at.
BodyChunk(post) ==
    /\ request[post].state = "open"
    /\ IF request[post].size + 1 > MaxBody
       THEN Answer(post, 413) /\ Count("rejectedTooLarge")
       ELSE request' = [request EXCEPT ![post].size = @ + 1] /\ UNCHANGED stats
    /\ UNCHANGED <<server, handed>>

\* tokenFromBody and verify
Verdict(body, token) == IF body = "object" THEN token ELSE "missing"

\* Mutant: the payload is parsed before the token is looked at.
ParsesFirst(post) ==
    /\ request[post].state = "open"
    /\ \E body \in Bodies, token \in Tokens :
        CASE body # "object" ->
                Answer(post, 400) /\ Count("rejectedParse") /\ UNCHANGED handed
          [] OTHER ->
                /\ Answer(post, IF token = "ok" THEN 200 ELSE 403)
                /\ Count(IF token = "ok" THEN "accepted" ELSE "rejectedAuth")
                /\ handed' = Append(handed, [post |-> post, token |-> token])
    /\ UNCHANGED server

\* 'end': unreadable, unauthorised, unparsable, or an observation.
BodyEnds(post) ==
    /\ request[post].state = "open"
    /\ \E body \in Bodies, token \in Tokens :
        CASE body = "garbage" ->
                Answer(post, 400) /\ Count("rejectedParse") /\ UNCHANGED handed
          [] body # "garbage" /\ Verdict(body, token) # "ok" ->
                Answer(post, 403) /\ Count("rejectedAuth") /\ UNCHANGED handed
          [] OTHER ->
                /\ Answer(post, 200)
                /\ Count("accepted")
                /\ handed' = Append(handed, [post |-> post, token |-> token])
    /\ UNCHANGED server

\* The client goes away in the middle of a body: there is no 'end'.
HangUp(post) ==
    /\ request[post].state = "open"
    /\ request' = [request EXCEPT ![post].state = "gone"]
    /\ UNCHANGED <<server, stats, handed>>

-----------------------------------------------------------------------------

HttpInit ==
    /\ server = "off"
    /\ request = [p \in Posts |-> [state |-> "new", size |-> 0, answer |-> 0]]
    /\ stats = [received |-> 0, accepted |-> 0, rejectedAuth |-> 0, rejectedParse |-> 0,
                rejectedTooLarge |-> 0]
    /\ handed = <<>>

HttpNext ==
    \/ Listen \/ Close
    \/ \E post \in Posts : Refuse(post) \/ Accept(post) \/ BodyChunk(post) \/ BodyEnds(post) \/ HangUp(post)
-----------------------------------------------------------------------------
(* Properties *)

\* Every post that was counted has exactly one fate, and an observation is
\* handed on exactly for those that were answered 200, all of them with the
\* token of the install, whatever is left half sent. (handle)
EveryPostAccounted ==
    /\ stats.received = stats.accepted + stats.rejectedAuth + stats.rejectedParse
            + stats.rejectedTooLarge + Cardinality({p \in Posts : request[p].state \in {"open", "gone"}})
    /\ {handed[i].post : i \in DOMAIN handed} = {p \in Posts : request[p].answer = 200}
    /\ Len(handed) = stats.accepted
    /\ \A i \in DOMAIN handed : handed[i].token = "ok"
===============================================================================
