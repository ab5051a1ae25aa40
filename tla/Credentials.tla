---------------------------- MODULE Credentials ----------------------------
(***************************************************************************)
(* The broker of ephemeral credentials (packages/realtime/src/             *)
(* credentials.ts, main process): a mint is asked for, the network answers *)
(* or does not, and the answer is read in the shapes it has had so far.    *)
(***************************************************************************)
EXTENDS Integers, Sequences, FiniteSets

CONSTANTS
    MintInterval,  \* MIN_MINT_INTERVAL_MS, in ticks
    MaxTick,       \* bound: the clock
    MaxMints       \* bound: the mints asked for

ASSUME CredentialsAssumption == {MintInterval, MaxTick, MaxMints} \subseteq Nat \ {0}

(* Where the value and the session id are in a body: the two GA spellings,  *)
(* the older nested one, the id also under session.  Empty is as good as    *)
(* absent.                                                                  *)
SecretBodies == [json : BOOLEAN, value : {"root", "nested", "none"},
           id : {"session", "root", "nested", "none"}, expires : BOOLEAN]
Statuses == {200, 401, 403, 429, 500}

VARIABLES
    tick,       \* the monotonic clock
    lastMintAt, \* -1 before the first mint
    posts,      \* the requests sent: when, and the answer once there is one
    minted,     \* how many mints were asked for
    verdicts    \* what each mint came to: of which post (0: of none), and what
credVars == <<tick, lastMintAt, posts, minted, verdicts>>

CredInit ==
    /\ tick = 0 /\ lastMintAt = -1 /\ posts = <<>> /\ minted = 0 /\ verdicts = {}

Fault(kind, retryable) == [kind |-> kind, retryable |-> retryable, expiresAt |-> -1]

(* Mutant: only a mint that was answered counts. *)
CountsAnswered == lastMintAt' = lastMintAt

(* The interval is counted from the request, so that two that overlap are    *)
(* two requests, and one that failed is one too.                             *)
Stamps == lastMintAt' = tick

Mint ==
    /\ minted < MaxMints
    /\ minted' = minted + 1
    /\ IF lastMintAt # -1 /\ tick - lastMintAt < MintInterval
       THEN /\ verdicts' = verdicts \cup {[post |-> 0, fault |-> Fault("offline", TRUE)]}
            /\ UNCHANGED <<lastMintAt, posts>>
       ELSE /\ Stamps
            /\ posts' = Append(posts, [at |-> tick, done |-> FALSE, status |-> 0])
            /\ UNCHANGED verdicts
    /\ UNCHANGED tick

(* faultForStatus: only a refusal of the key is beyond a retry. *)
FaultForStatus(status) ==
    IF status \in {401, 403} THEN Fault("auth", FALSE) ELSE Fault("offline", TRUE)

(* parseClientSecret: a secret without a session id would open nothing in    *)
(* the window, unseen from here, so it is a fault.                           *)
ParseClientSecret(body, now) ==
    IF ~body.json \/ body.value = "none" \/ body.id = "none" THEN Fault("offline", TRUE)
    ELSE [kind |-> "secret", retryable |-> FALSE, expiresAt |-> now + IF body.expires THEN 1 ELSE 60]

Concluded(i, status, verdict) ==
    /\ posts' = [posts EXCEPT ![i].done = TRUE, ![i].status = status]
    /\ verdicts' = verdicts \cup {[post |-> i, fault |-> verdict]}
    /\ UNCHANGED <<tick, lastMintAt, minted>>

Answers == \E i \in DOMAIN posts, status \in Statuses, body \in SecretBodies :
    /\ ~posts[i].done
    /\ status # 200 => body = CHOOSE b \in SecretBodies : TRUE
    /\ Concluded(i, IF status = 200 /\ (~body.json \/ "none" \in {body.value, body.id}) THEN 206 ELSE status,
                 IF status = 200 THEN ParseClientSecret(body, posts[i].at) ELSE FaultForStatus(status))

Unreachable == \E i \in DOMAIN posts :
    ~posts[i].done /\ Concluded(i, 0, Fault("offline", TRUE))

CredTick == tick < MaxTick /\ tick' = tick + 1 /\ UNCHANGED <<lastMintAt, posts, minted, verdicts>>

CredNext == Mint \/ Answers \/ Unreachable \/ CredTick
CredSpec == CredInit /\ [][CredNext]_credVars

-----------------------------------------------------------------------------

(* MintsAreSpaced: whatever overlaps or fails, the API never gets two        *)
(* requests within the interval; and a mint is given up on for good only     *)
(* when the API refused the key (credentials.ts:151-155, 172-192).           *)
MintsAreSpaced ==
    /\ \A i, j \in DOMAIN posts : i < j => posts[j].at - posts[i].at >= MintInterval
    /\ \A v \in verdicts : v.fault.kind = "auth" => v.post # 0 /\ posts[v.post].status \in {401, 403}
    /\ \A v \in verdicts : v.fault.kind = "secret" => posts[v.post].status = 200
=============================================================================
