---------------------------- MODULE VoiceLinkProofs ----------------------------
(***************************************************************************)
(* Proofs about VoiceLink: a renewal is always driven, every handle is of  *)
(* an armed timer, and a session that is up has its renewal scheduled;     *)
(* and, of the two channels, that what main shows once all is delivered is *)
(* the state of the window, and that the session there is of the match     *)
(* that runs.                                                              *)
(***************************************************************************)
EXTENDS VoiceLink, FiniteSetTheorems, TLAPS

Session ==
    [hasKey           : BOOLEAN,
     window           : {"none", "open", "closed"},
     ready            : BOOLEAN,
     queued           : Seq(Directive),
     state            : SessionStates,
     disposed         : BOOLEAN,
     openInstructions : Matches \cup {None},
     renewing         : BOOLEAN,
     renewAttempt     : 0 .. Backoffs + 1,
     cancelRenewTimer : 0 .. MaxPending,
     timers           : SUBSET Timer,
     mints            : SUBSET Mint]

Tolds == {Nothing, "session-lost", "device", "mint"}

Drafts == [s : Session, out : Seq(Directive), told : Tolds]

Hosts ==
    [phase    : HostPhases,
     opening  : Matches \cup {None},
     live     : Matches \cup {None},
     lost     : BOOLEAN,
     failed   : BOOLEAN]

\* What a draft keeps through a helper that only moves timers, awaits or messages.
Alike(s, t) ==
    /\ s.hasKey = t.hasKey
    /\ s.window = t.window
    /\ s.state = t.state
    /\ s.disposed = t.disposed
    /\ s.openInstructions = t.openInstructions
    /\ s.renewing = t.renewing

\* There is a message of this type in the channel.
Has(q, type) == \E i \in 1 .. Len(q) : q[i].type = type

\* Awaits and timers share the room there is for them.
Load(s) == Cardinality(s.mints) + Cardinality(s.timers)
Roomy(s) == IsFiniteSet(s.mints) /\ IsFiniteSet(s.timers) /\ Load(s) <= MaxPending

Armed(s) == s.cancelRenewTimer # NoTimer => \E t \in s.timers : t.id = s.cancelRenewTimer

\* Only a session with a key and a window has anything to await.
Keyed(s) ==
    /\ s.mints # {} \/ s.timers # {} \/ s.openInstructions # None => s.hasKey /\ s.window # "none"
    /\ s.window # "open" => s.queued = <<>>

\* Once disposed nothing is renewed and nothing is up.
Ended(s) ==
    /\ s.window = "closed" => s.disposed
    /\ s.disposed => ~s.renewing /\ s.state # "ready" /\ s.window = "closed"

Driven(s) ==
    s.renewing => \/ \E mint \in s.mints : mint.kind = "renew"
                  \/ \E t \in s.timers : t.kind # "age"

Up(s) == s.state = "ready" /\ s.openInstructions # None
Scheduled(s) == s.renewing \/ \E t \in s.timers : t.kind = "age"

Base(d) ==
    /\ d \in Drafts
    /\ Roomy(d.s)
    /\ Armed(d.s)
    /\ Keyed(d.s)
    /\ Ended(d.s)

\* A draft that may be written back; `u' says that an answer of the window is due.
Sound(d, u) ==
    /\ Base(d)
    /\ Driven(d.s)
    /\ Up(d.s) => Scheduled(d.s) \/ Has(d.s.queued, "open") \/ Has(d.out, "open") \/ u

\* The window owes main the state of a session it was told to open.
Owed ==
    \/ Has(toHost, "open")
    \/ h.phase \in {"closing", "device", "call"}
    \/ Has(toMain, "state")

Silenced == v.disposed => h.phase = "absent" /\ h.live = None /\ toMain = <<>>

IInv ==
    /\ TypeOK
    /\ Sound(DraftOf(v), Owed)
    /\ Silenced

-----------------------------------------------------------------------------
(* Channels *)

LEMMA HasAppend ==
    ASSUME NEW S, NEW q \in Seq(S), NEW x \in S, NEW type
    PROVE  Has(Append(q, x), type) <=> Has(q, type) \/ x.type = type
  <1>1. Len(Append(q, x)) = Len(q) + 1 /\ Len(q) \in Nat
    OBVIOUS
  <1>2. /\ \A i \in 1 .. Len(q) : Append(q, x)[i] = q[i]
        /\ Append(q, x)[Len(q) + 1] = x
    OBVIOUS
  <1>3. ASSUME Has(Append(q, x), type) PROVE Has(q, type) \/ x.type = type
    BY <1>1, <1>2, <1>3 DEF Has
  <1>4. ASSUME Has(q, type) \/ x.type = type PROVE Has(Append(q, x), type)
    <2>1. CASE Has(q, type)
      BY <1>1, <1>2, <2>1 DEF Has
    <2>2. CASE x.type = type
      <3>1. Len(q) + 1 \in 1 .. Len(Append(q, x))
        BY <1>1
      <3>2. QED
        BY <1>2, <2>2, <3>1 DEF Has
    <2>3. QED
      BY <1>4, <2>1, <2>2
  <1>5. QED
    BY <1>3, <1>4

LEMMA HasConcat ==
    ASSUME NEW S, NEW p \in Seq(S), NEW q \in Seq(S), NEW type
    PROVE  /\ p \o q \in Seq(S)
           /\ Has(p, type) => Has(p \o q, type)
           /\ Has(q, type) => Has(p \o q, type)
  <1>1. /\ p \o q \in Seq(S)
        /\ Len(p \o q) = Len(p) + Len(q)
        /\ Len(p) \in Nat
        /\ Len(q) \in Nat
    OBVIOUS
  <1>2. ASSUME Has(p, type) PROVE Has(p \o q, type)
    <2>1. PICK i \in 1 .. Len(p) : p[i].type = type
      BY <1>2 DEF Has
    <2>2. (p \o q)[i] = p[i] /\ i \in 1 .. Len(p \o q)
      BY <1>1
    <2>3. QED
      BY <2>1, <2>2 DEF Has
  <1>3. ASSUME Has(q, type) PROVE Has(p \o q, type)
    <2>1. PICK i \in 1 .. Len(q) : q[i].type = type
      BY <1>3 DEF Has
    <2>2. Len(p) + i \in 1 .. Len(p \o q)
      BY <1>1
    <2>3. (p \o q)[Len(p) + i] = q[i]
      BY <1>1, <2>2
    <2>4. QED
      BY <2>1, <2>2, <2>3 DEF Has
  <1>4. QED
    BY <1>1, <1>2, <1>3

LEMMA HasTail ==
    ASSUME NEW S, NEW q \in Seq(S), q # <<>>, NEW type, Has(q, type), Head(q).type # type
    PROVE  Has(Tail(q), type)
  <1>1. PICK i \in 1 .. Len(q) : q[i].type = type
    BY DEF Has
  <1>2. Len(q) \in Nat /\ Len(Tail(q)) = Len(q) - 1 /\ Head(q) = q[1]
    OBVIOUS
  <1>3. i - 1 \in 1 .. Len(Tail(q))
    BY <1>1, <1>2
  <1>4. Tail(q)[i - 1] = q[i]
    BY <1>2, <1>3
  <1>5. QED
    BY <1>1, <1>3, <1>4 DEF Has

-----------------------------------------------------------------------------
(* Names and room *)

\* There is a name for one more while not all are taken.
LEMMA FreeIdIsFree ==
    ASSUME NEW used, IsFiniteSet(used), Cardinality(used) < MaxPending
    PROVE  FreeId(1 .. MaxPending, used) \in 1 .. MaxPending
  <1>1. MaxPending \in Nat
    BY SessionAssumption
  <1>2. \E i \in 1 .. MaxPending : \A x \in used : x.id # i
    <2>1. SUFFICES ASSUME \A i \in 1 .. MaxPending : \E x \in used : x.id = i
                   PROVE  FALSE
      OBVIOUS
    <2> DEFINE ids == {x.id : x \in used}
    <2> DEFINE name == [x \in used |-> x.id]
    <2>2. name \in Surjection(used, ids)
      BY DEF Surjection
    <2>3. IsFiniteSet(ids) /\ Cardinality(ids) <= Cardinality(used)
      BY <2>2, FS_Surjection
    <2>4. 1 .. MaxPending \in SUBSET ids
      BY <2>1
    <2>5. Cardinality(1 .. MaxPending) <= Cardinality(ids)
      BY <2>3, <2>4, FS_Subset
    <2>6. Cardinality(1 .. MaxPending) = MaxPending
      BY <1>1, FS_Interval, SessionAssumption
    <2>7. Cardinality(ids) \in Nat /\ Cardinality(used) \in Nat
      BY <2>3, FS_CardinalityType
    <2>8. QED
      BY <1>1, <2>3, <2>5, <2>6, <2>7
  <1>3. QED
    BY <1>2 DEF FreeId

-----------------------------------------------------------------------------
(* The helpers of the session *)

LEMMA SendForm ==
    ASSUME NEW d \in Drafts, NEW directive \in Directive
    PROVE  LET r == Send(d, directive) IN
           /\ r \in Drafts
           /\ Alike(r.s, d.s)
           /\ r.s.mints = d.s.mints
           /\ r.s.timers = d.s.timers
           /\ r.s.cancelRenewTimer = d.s.cancelRenewTimer
           /\ r.told = d.told
           /\ d.s.window # "open" => r = d
           /\ Has(d.s.queued, "open") => Has(r.s.queued, "open")
           /\ Has(d.out, "open") => Has(r.out, "open")
           /\ d.s.window = "open" /\ directive.type = "open" =>
                  Has(r.s.queued, "open") \/ Has(r.out, "open")
  <1> DEFINE r == Send(d, directive)
  <1>1. d.s.queued \in Seq(Directive) /\ d.out \in Seq(Directive)
    BY DEF Drafts, Session
  <1>2. CASE d.s.window # "open"
    BY <1>2 DEF Send, Alike
  <1>3. CASE d.s.window = "open" /\ ~d.s.ready
    <2>1. r = [d EXCEPT !.s.queued = Append(@, directive)]
      BY <1>3 DEF Send
    <2> HIDE DEF r
    <2> DEFINE longer == Append(d.s.queued, directive)
    <2>4. longer \in Seq(Directive) /\ d.s \in Session
      BY <1>1 DEF Drafts
    <2>5. r = [d EXCEPT !.s.queued = longer]
      BY <2>1
    <2> HIDE DEF longer
    <2>6. r.s = [d.s EXCEPT !.queued = longer] /\ r = [d EXCEPT !.s = r.s]
      BY <2>5 DEF Drafts
    <2>7. r.s \in Session /\ r.s.queued = longer
      BY <2>4, <2>6 DEF Session
    <2>8. /\ Alike(r.s, d.s)
          /\ r.s.mints = d.s.mints
          /\ r.s.timers = d.s.timers
          /\ r.s.cancelRenewTimer = d.s.cancelRenewTimer
      BY <2>4, <2>6 DEF Session, Alike
    <2>9. r \in Drafts /\ r.out = d.out /\ r.told = d.told
      BY <2>6, <2>7 DEF Drafts
    <2>2. r.s.queued = Append(d.s.queued, directive)
      BY <2>7 DEF longer
    <2>3. /\ Has(d.s.queued, "open") => Has(r.s.queued, "open")
          /\ directive.type = "open" => Has(r.s.queued, "open")
      BY <1>1, <2>2, HasAppend
    <2>10. QED
      BY <1>3, <2>3, <2>8, <2>9 DEF r
  <1>4. CASE d.s.window = "open" /\ d.s.ready
    <2>1. r = [d EXCEPT !.out = Append(@, directive)]
      BY <1>4 DEF Send
    <2> DEFINE longer == Append(d.out, directive)
    <2>5. longer \in Seq(Directive)
      BY <1>1
    <2>6. r = [d EXCEPT !.out = longer]
      BY <2>1 DEF Drafts
    <2> HIDE DEF longer, r
    <2>7. r \in Drafts /\ r.s = d.s /\ r.out = longer /\ r.told = d.told
      BY <2>5, <2>6 DEF Drafts
    <2>2. r \in Drafts /\ r.s = d.s /\ r.out = Append(d.out, directive) /\ r.told = d.told
      BY <2>7 DEF longer
    <2>3. /\ Has(d.out, "open") => Has(r.out, "open")
          /\ directive.type = "open" => Has(r.out, "open")
      BY <1>1, <2>2, HasAppend
    <2>4. QED
      BY <1>4, <2>2, <2>3 DEF Alike, r
  <1>5. d.s.ready \in BOOLEAN
    BY DEF Drafts, Session
  <1>6. QED
    BY <1>2, <1>3, <1>4, <1>5

LEMMA CancelForm ==
    ASSUME NEW d \in Drafts, Roomy(d.s)
    PROVE  LET c == CancelTimer(d) IN
           /\ c \in Drafts
           /\ Alike(c.s, d.s)
           /\ c.s.queued = d.s.queued
           /\ c.s.mints = d.s.mints
           /\ c.s.timers \subseteq d.s.timers
           /\ c.s.cancelRenewTimer = NoTimer
           /\ c.out = d.out
           /\ c.told = d.told
           /\ Roomy(c.s)
           /\ Load(c.s) <= Load(d.s)
           /\ Armed(d.s) /\ d.s.cancelRenewTimer # NoTimer => Load(c.s) < Load(d.s)
  <1> DEFINE c == CancelTimer(d)
  <1>1. /\ c \in Drafts
        /\ c.s.timers = {t \in d.s.timers : t.id # d.s.cancelRenewTimer}
        /\ c.s.cancelRenewTimer = NoTimer
        /\ c.s.mints = d.s.mints
        /\ c.s.queued = d.s.queued
        /\ c.out = d.out
        /\ c.told = d.told
    <2> DEFINE kept == {t \in d.s.timers : t.id # d.s.cancelRenewTimer}
    <2>1. d.s \in Session /\ kept \in SUBSET Timer /\ NoTimer \in 0 .. MaxPending
      BY SessionAssumption DEF Drafts, Session, NoTimer
    <2>2. c = [d EXCEPT !.s.timers = kept, !.s.cancelRenewTimer = NoTimer]
      BY DEF CancelTimer, Drafts, Session
    <2> HIDE DEF kept, c
    <2>3. /\ c.s \in Session
          /\ c.s.timers = kept
          /\ c.s.cancelRenewTimer = NoTimer
          /\ c.s.mints = d.s.mints
          /\ c.s.queued = d.s.queued
      BY <2>1, <2>2 DEF Session, Drafts
    <2>4. c = [d EXCEPT !.s = c.s]
      BY <2>2 DEF Drafts
    <2>5. c \in Drafts /\ c.out = d.out /\ c.told = d.told
      BY <2>3, <2>4 DEF Drafts
    <2>6. QED
      BY <2>3, <2>5 DEF kept
  <1>2. Alike(c.s, d.s)
    BY DEF CancelTimer, Drafts, Session, Alike
  <1> HIDE DEF c
  <1>3. c.s.timers \in SUBSET d.s.timers
    BY <1>1
  <1>4. /\ IsFiniteSet(c.s.timers)
        /\ Cardinality(c.s.timers) <= Cardinality(d.s.timers)
        /\ Cardinality(d.s.timers) = Cardinality(c.s.timers) => d.s.timers = c.s.timers
    BY <1>3, FS_Subset DEF Roomy
  <1>5. /\ Cardinality(c.s.timers) \in Nat
        /\ Cardinality(d.s.timers) \in Nat
        /\ Cardinality(d.s.mints) \in Nat
    BY <1>4, FS_CardinalityType DEF Roomy
  <1>6. Load(c.s) <= Load(d.s)
    BY <1>1, <1>4, <1>5 DEF Load
  <1>7. Roomy(c.s)
    BY <1>1, <1>4, <1>5, SessionAssumption DEF Roomy, Load
  <1>8. ASSUME Armed(d.s), d.s.cancelRenewTimer # NoTimer
        PROVE  Load(c.s) < Load(d.s)
    <2>1. d.s.timers # c.s.timers
      BY <1>1, <1>8 DEF Armed
    <2>2. QED
      BY <1>1, <1>4, <1>5, <2>1 DEF Load
  <1>9. QED
    BY <1>1, <1>2, <1>3, <1>6, <1>7, <1>8 DEF c

LEMMA ArmForm ==
    ASSUME NEW d \in Drafts, Roomy(d.s), Load(d.s) < MaxPending,
           NEW kind \in {"age", "ready", "backoff"}, NEW match \in Matches
    PROVE  LET a == Arm(d, kind, match) IN
           /\ a \in Drafts
           /\ Alike(a.s, d.s)
           /\ a.s.queued = d.s.queued
           /\ a.s.mints = d.s.mints
           /\ d.s.timers \subseteq a.s.timers
           /\ \E t \in a.s.timers : t.kind = kind
           /\ a.out = d.out
           /\ a.told = d.told
           /\ Armed(a.s)
           /\ Roomy(a.s)
  <1> DEFINE a == Arm(d, kind, match)
  <1> DEFINE id == FreeId(1 .. MaxPending, d.s.timers)
  <1> DEFINE timer == [id |-> id, kind |-> kind, match |-> match]
  <1>1. MaxPending \in Nat
    BY SessionAssumption
  <1>2. /\ IsFiniteSet(d.s.timers)
        /\ Cardinality(d.s.timers) \in Nat
        /\ Cardinality(d.s.mints) \in Nat
    BY FS_CardinalityType DEF Roomy
  <1>3. id \in 1 .. MaxPending
    BY <1>1, <1>2, FreeIdIsFree DEF Load
  <1>4. a = [d EXCEPT !.s.timers = @ \cup {timer}, !.s.cancelRenewTimer = id]
    BY DEF Arm
  <1> HIDE DEF id
  <1>5. timer \in Timer /\ timer.kind = kind /\ timer.id = id
    BY <1>3 DEF Timer
  <1> HIDE DEF a, timer
  <1>6. /\ a \in Drafts
        /\ a.s.timers = d.s.timers \cup {timer}
        /\ a.s.cancelRenewTimer = id
        /\ a.s.mints = d.s.mints
        /\ a.s.queued = d.s.queued
        /\ a.out = d.out
        /\ a.told = d.told
    <2>1. d.s \in Session /\ id \in 0 .. MaxPending
      BY <1>1, <1>3 DEF Drafts
    <2>2. /\ a.s \in Session
          /\ a.s.timers = d.s.timers \cup {timer}
          /\ a.s.cancelRenewTimer = id
          /\ a.s.mints = d.s.mints
          /\ a.s.queued = d.s.queued
      BY <1>4, <1>5, <2>1 DEF Session, Drafts
    <2>3. a = [d EXCEPT !.s = a.s]
      BY <1>4 DEF Drafts
    <2>4. a \in Drafts /\ a.out = d.out /\ a.told = d.told
      BY <2>2, <2>3 DEF Drafts
    <2>5. QED
      BY <2>2, <2>4
  <1>7. Alike(a.s, d.s)
    BY <1>4 DEF Drafts, Session, Alike
  <1>8. /\ IsFiniteSet(a.s.timers)
        /\ Cardinality(a.s.timers) \in Nat
        /\ Cardinality(a.s.timers) <= Cardinality(d.s.timers) + 1
    <2>1. /\ IsFiniteSet(d.s.timers \cup {timer})
          /\ Cardinality(d.s.timers \cup {timer}) =
                IF timer \in d.s.timers THEN Cardinality(d.s.timers)
                                        ELSE Cardinality(d.s.timers) + 1
      BY <1>2, FS_AddElement
    <2>2. QED
      BY <1>2, <1>6, <2>1
  <1>9. Roomy(a.s)
    BY <1>1, <1>2, <1>6, <1>8 DEF Roomy, Load
  <1>10. Armed(a.s)
    BY <1>5, <1>6 DEF Armed
  <1>11. QED
    BY <1>5, <1>6, <1>7, <1>9, <1>10 DEF a

LEMMA AwaitForm ==
    ASSUME NEW d \in Drafts, Roomy(d.s), Load(d.s) < MaxPending,
           NEW kind \in {"open", "renew"}, NEW match \in Matches
    PROVE  LET a == AwaitMint(d, kind, match) IN
           /\ a \in Drafts
           /\ Alike(a.s, d.s)
           /\ a.s.queued = d.s.queued
           /\ a.s.timers = d.s.timers
           /\ a.s.cancelRenewTimer = d.s.cancelRenewTimer
           /\ d.s.mints \subseteq a.s.mints
           /\ \E m \in a.s.mints : m.kind = kind
           /\ a.out = d.out
           /\ a.told = d.told
           /\ Roomy(a.s)
  <1> DEFINE a == AwaitMint(d, kind, match)
  <1> DEFINE id == FreeId(1 .. MaxPending, d.s.mints)
  <1> DEFINE mint == [id |-> id, kind |-> kind, match |-> match]
  <1>1. MaxPending \in Nat
    BY SessionAssumption
  <1>2. /\ IsFiniteSet(d.s.mints)
        /\ Cardinality(d.s.timers) \in Nat
        /\ Cardinality(d.s.mints) \in Nat
    BY FS_CardinalityType DEF Roomy
  <1>3. id \in 1 .. MaxPending
    BY <1>1, <1>2, FreeIdIsFree DEF Load
  <1>4. a = [d EXCEPT !.s.mints = @ \cup {mint}]
    BY DEF AwaitMint
  <1> HIDE DEF id
  <1>5. mint \in Mint /\ mint.kind = kind
    BY <1>3 DEF Mint
  <1> HIDE DEF a, mint
  <1>6. /\ a \in Drafts
        /\ a.s.mints = d.s.mints \cup {mint}
        /\ a.s.timers = d.s.timers
        /\ a.s.cancelRenewTimer = d.s.cancelRenewTimer
        /\ a.s.queued = d.s.queued
        /\ a.out = d.out
        /\ a.told = d.told
    BY <1>1, <1>3, <1>4, <1>5 DEF Drafts, Session
  <1>7. Alike(a.s, d.s)
    BY <1>4 DEF Drafts, Session, Alike
  <1>8. /\ IsFiniteSet(a.s.mints)
        /\ Cardinality(a.s.mints) \in Nat
        /\ Cardinality(a.s.mints) <= Cardinality(d.s.mints) + 1
    <2>1. /\ IsFiniteSet(d.s.mints \cup {mint})
          /\ Cardinality(d.s.mints \cup {mint}) =
                IF mint \in d.s.mints THEN Cardinality(d.s.mints) ELSE Cardinality(d.s.mints) + 1
      BY <1>2, FS_AddElement
    <2>2. QED
      BY <1>2, <1>6, <2>1
  <1>9. Roomy(a.s)
    BY <1>1, <1>2, <1>6, <1>8 DEF Roomy, Load
  <1>10. QED
    BY <1>5, <1>6, <1>7, <1>9 DEF a

LEMMA SetStateForm ==
    ASSUME NEW d \in Drafts, NEW state \in SessionStates
    PROVE  LET r == SetState(d, state) IN
           /\ r \in Drafts
           /\ r.s = [d.s EXCEPT !.state = state]
           /\ r.s.state = state
           /\ r.out = d.out
           /\ r.told = d.told
  <1> DEFINE r == SetState(d, state)
  <1>1. r.s = [d.s EXCEPT !.state = state] /\ r = [d EXCEPT !.s = r.s]
    BY DEF SetState, Drafts
  <1>2. r.s \in Session /\ r.s.state = state
    BY <1>1 DEF Drafts, Session
  <1>3. QED
    BY <1>1, <1>2 DEF Drafts

LEMMA RaiseForm ==
    ASSUME NEW d \in Drafts, NEW fault \in Tolds
    PROVE  LET r == Raise(d, fault) IN
           r \in Drafts /\ r.s = d.s /\ r.out = d.out
  BY DEF Raise, Drafts

LEMMA StopForm ==
    ASSUME NEW d \in Drafts, Roomy(d.s)
    PROVE  LET r == StopRenewal(d) IN
           /\ r \in Drafts
           /\ r.s.hasKey = d.s.hasKey
           /\ r.s.window = d.s.window
           /\ r.s.state = d.s.state
           /\ r.s.disposed = d.s.disposed
           /\ r.s.queued = d.s.queued
           /\ r.s.mints = d.s.mints
           /\ r.s.timers \subseteq d.s.timers
           /\ r.s.openInstructions = None
           /\ r.s.renewing = FALSE
           /\ r.s.cancelRenewTimer = NoTimer
           /\ r.out = d.out
           /\ Roomy(r.s)
           /\ Load(r.s) <= Load(d.s)
  <1> DEFINE c == CancelTimer(d)
  <1> DEFINE r == StopRenewal(d)
  <1>1. /\ c \in Drafts
        /\ Alike(c.s, d.s)
        /\ c.s.queued = d.s.queued
        /\ c.s.mints = d.s.mints
        /\ c.s.timers \subseteq d.s.timers
        /\ c.s.cancelRenewTimer = NoTimer
        /\ c.out = d.out
        /\ Roomy(c.s)
        /\ Load(c.s) <= Load(d.s)
    BY CancelForm
  <1>2. r = [c EXCEPT !.s.openInstructions = None, !.s.renewing = FALSE, !.s.renewAttempt = 0]
    BY DEF StopRenewal
  <1> HIDE DEF c, r
  <1>3. r.s = [c.s EXCEPT !.openInstructions = None, !.renewing = FALSE, !.renewAttempt = 0]
        /\ r = [c EXCEPT !.s = r.s]
    BY <1>1, <1>2 DEF Drafts
  <1>4. 0 \in 0 .. Backoffs + 1
    BY SessionAssumption
  <1>5. r.s \in Session /\ r.s.openInstructions = None /\ r.s.renewing = FALSE
    BY <1>1, <1>3, <1>4 DEF Drafts, Session
  <1>6. /\ r.s.hasKey = d.s.hasKey
        /\ r.s.window = d.s.window
        /\ r.s.state = d.s.state
        /\ r.s.disposed = d.s.disposed
        /\ r.s.queued = d.s.queued
        /\ r.s.mints = c.s.mints
        /\ r.s.timers = c.s.timers
        /\ r.s.cancelRenewTimer = NoTimer
    BY <1>1, <1>3 DEF Drafts, Session, Alike
  <1>7. r \in Drafts /\ r.out = d.out
    BY <1>1, <1>3, <1>5 DEF Drafts
  <1>8. Roomy(r.s) /\ Load(r.s) <= Load(d.s)
    BY <1>1, <1>6 DEF Roomy, Load
  <1>9. QED
    BY <1>1, <1>5, <1>6, <1>7, <1>8 DEF r

-----------------------------------------------------------------------------
(* Renewals *)

LEMMA AttemptForm ==
    ASSUME NEW d, NEW match \in Matches, Base(d),
           d.s.hasKey, d.s.window # "none",
           Load(d.s) < MaxPending \/ d.s.cancelRenewTimer # NoTimer
    PROVE  LET r == AttemptRenewal(d, match) IN
           /\ Base(r)
           /\ Driven(r.s)
           /\ ~Up(r.s)
           /\ r.s.disposed = d.s.disposed
  <1> DEFINE c == CancelTimer(d)
  <1> DEFINE r == AttemptRenewal(d, match)
  <1>1. d \in Drafts /\ Roomy(d.s) /\ Armed(d.s) /\ Keyed(d.s) /\ Ended(d.s)
    BY DEF Base
  <1>2. /\ c \in Drafts
        /\ Alike(c.s, d.s)
        /\ c.s.queued = d.s.queued
        /\ c.s.mints = d.s.mints
        /\ c.s.timers \subseteq d.s.timers
        /\ c.s.cancelRenewTimer = NoTimer
        /\ Roomy(c.s)
        /\ Load(c.s) <= Load(d.s)
        /\ d.s.cancelRenewTimer # NoTimer => Load(c.s) < Load(d.s)
    BY <1>1, CancelForm
  <1>3. Load(c.s) < MaxPending
    <2>1. Load(c.s) \in Int /\ Load(d.s) \in Int /\ Load(d.s) <= MaxPending /\ MaxPending \in Int
      BY <1>1, <1>2, FS_CardinalityType, SessionAssumption DEF Roomy, Load
    <2>2. QED
      BY <1>2, <2>1
  <1> HIDE DEF c
  <1>4. CASE d.s.disposed
    <2>1. r = c
      BY <1>4 DEF AttemptRenewal, c
    <2>2. Armed(c.s) /\ Keyed(c.s) /\ Ended(c.s) /\ Driven(c.s) /\ ~Up(c.s)
      BY <1>1, <1>2, <1>4 DEF Armed, Keyed, Ended, Driven, Up, Alike
    <2>3. QED
      BY <1>2, <2>1, <2>2 DEF Base, Alike
  <1>5. CASE ~d.s.disposed
    <2> DEFINE k == SetState(c, "connecting")
    <2>1. r = AwaitMint(k, "renew", match)
      BY <1>5 DEF AttemptRenewal, c
    <2>2. /\ k \in Drafts
          /\ k.s = [c.s EXCEPT !.state = "connecting"]
          /\ k.s.state = "connecting"
      BY <1>2, SetStateForm DEF SessionStates
    <2> HIDE DEF k
    <2>3. /\ k.s.hasKey = d.s.hasKey
          /\ k.s.window = d.s.window
          /\ k.s.disposed = d.s.disposed
          /\ k.s.queued = d.s.queued
          /\ k.s.mints = c.s.mints
          /\ k.s.timers = c.s.timers
          /\ k.s.cancelRenewTimer = NoTimer
      BY <1>2, <2>2 DEF Drafts, Session, Alike
    <2>4. Roomy(k.s) /\ Load(k.s) < MaxPending
      BY <1>2, <1>3, <2>3 DEF Roomy, Load
    <2> DEFINE w == AwaitMint(k, "renew", match)
    <2>10. /\ w \in Drafts
           /\ Alike(w.s, k.s)
           /\ w.s.queued = k.s.queued
           /\ w.s.cancelRenewTimer = k.s.cancelRenewTimer
           /\ \E m \in w.s.mints : m.kind = "renew"
           /\ Roomy(w.s)
      BY <2>2, <2>4, AwaitForm, ZenonT(60)
    <2>11. r = w
      BY <2>1
    <2> HIDE DEF r, w
    <2>5. /\ r \in Drafts
          /\ Alike(r.s, k.s)
          /\ r.s.queued = k.s.queued
          /\ r.s.cancelRenewTimer = k.s.cancelRenewTimer
          /\ \E m \in r.s.mints : m.kind = "renew"
          /\ Roomy(r.s)
      BY <2>10, <2>11
    <2>6. Armed(r.s) /\ Driven(r.s) /\ ~Up(r.s)
      BY <2>2, <2>3, <2>5 DEF Armed, Driven, Up, Alike
    <2>7. Keyed(r.s) /\ Ended(r.s)
      BY <1>1, <1>5, <2>3, <2>5 DEF Keyed, Ended, Alike
    <2>8. r.s.disposed = d.s.disposed
      BY <2>3, <2>5 DEF Alike
    <2>9. QED
      BY <2>5, <2>6, <2>7, <2>8 DEF Base, r
  <1>6. d.s.disposed \in BOOLEAN
    BY <1>1 DEF Drafts, Session
  <1>7. QED
    BY <1>4, <1>5, <1>6

\* A renewal starts, is joined, or there is nothing to renew.
LEMMA RenewForm ==
    ASSUME NEW d, Base(d), Driven(d.s),
           Load(d.s) < MaxPending \/ d.s.cancelRenewTimer # NoTimer \/ d.s.renewing
    PROVE  LET r == Renew(d) IN
           /\ Base(r)
           /\ Driven(r.s)
           /\ Up(r.s) => Scheduled(r.s)
           /\ r.s.disposed = d.s.disposed
  <1> DEFINE r == Renew(d)
  <1>1. d \in Drafts /\ Roomy(d.s) /\ Armed(d.s) /\ Keyed(d.s) /\ Ended(d.s)
    BY DEF Base
  <1>2. CASE d.s.renewing
    <2>1. r = d
      BY <1>2 DEF Renew
    <2>2. QED
      BY <1>2, <2>1 DEF Scheduled
  <1>3. CASE ~IsRenewable(d)
    <2>1. r = d
      BY <1>3 DEF Renew
    <2>2. ~Up(d.s)
      BY <1>1, <1>3 DEF IsRenewable, Up, Keyed, Ended
    <2>3. QED
      BY <2>1, <2>2
  <1>4. CASE ~d.s.renewing /\ IsRenewable(d)
    <2> DEFINE e == [d EXCEPT !.s.renewing = TRUE, !.s.renewAttempt = 0]
    <2>1. r = AttemptRenewal(e, d.s.openInstructions)
      BY <1>4 DEF Renew
    <2>2. e.s = [d.s EXCEPT !.renewing = TRUE, !.renewAttempt = 0] /\ e = [d EXCEPT !.s = e.s]
      BY <1>1 DEF Drafts
    <2> HIDE DEF e
    <2>3. 0 \in 0 .. Backoffs + 1
      BY SessionAssumption
    <2>4. e.s \in Session
      BY <1>1, <2>2, <2>3 DEF Drafts, Session
    <2>5. /\ e.s.hasKey = d.s.hasKey
          /\ e.s.window = d.s.window
          /\ e.s.state = d.s.state
          /\ e.s.disposed = d.s.disposed
          /\ e.s.openInstructions = d.s.openInstructions
          /\ e.s.queued = d.s.queued
          /\ e.s.mints = d.s.mints
          /\ e.s.timers = d.s.timers
          /\ e.s.cancelRenewTimer = d.s.cancelRenewTimer
      BY <1>1, <2>2 DEF Drafts, Session
    <2>6. e \in Drafts
      BY <1>1, <2>2, <2>4 DEF Drafts
    <2>7. Roomy(e.s) /\ Armed(e.s) /\ Keyed(e.s)
      BY <1>1, <2>5 DEF Roomy, Load, Armed, Keyed
    <2>8. ~e.s.disposed /\ Ended(e.s)
      BY <1>1, <1>4, <2>5 DEF IsRenewable, Ended
    <2>9. Load(e.s) < MaxPending \/ e.s.cancelRenewTimer # NoTimer
      BY <1>4, <2>5 DEF Load
    <2>10. e.s.hasKey /\ e.s.window # "none" /\ d.s.openInstructions \in Matches
      BY <1>1, <1>4, <2>5 DEF IsRenewable, Keyed, Drafts, Session
    <2>11. Base(e)
      BY <2>6, <2>7, <2>8 DEF Base
    <2>12. QED
      BY <2>1, <2>5, <2>9, <2>10, <2>11, AttemptForm
  <1>5. QED
    BY <1>2, <1>3, <1>4

\* A backoff is armed, or the renewal is over and said to be.
LEMMA BackOffForm ==
    ASSUME NEW d, NEW match \in Matches, NEW retryable \in BOOLEAN, Base(d),
           d.s.hasKey, d.s.window # "none", Load(d.s) < MaxPending
    PROVE  LET r == BackOff(d, match, retryable) IN
           /\ Base(r)
           /\ Driven(r.s)
           /\ Up(r.s) => Up(d.s)
           /\ Up(r.s) /\ Scheduled(d.s) => Scheduled(r.s)
           /\ r.s.queued = d.s.queued
           /\ r.out = d.out
           /\ r.s.disposed = d.s.disposed
  <1> DEFINE r == BackOff(d, match, retryable)
  <1> DEFINE count == IF d.s.renewAttempt > Backoffs THEN d.s.renewAttempt ELSE d.s.renewAttempt + 1
  <1> DEFINE e == [d EXCEPT !.s.renewAttempt = count]
  <1>1. d \in Drafts /\ Roomy(d.s) /\ Armed(d.s) /\ Keyed(d.s) /\ Ended(d.s)
    BY DEF Base
  <1>2. count \in 0 .. Backoffs + 1
    <2>1. d.s.renewAttempt \in 0 .. Backoffs + 1 /\ Backoffs \in Nat
      BY <1>1, SessionAssumption DEF Drafts, Session
    <2>2. QED
      BY <2>1
  <1>3. e = [d EXCEPT !.s.renewAttempt = IF @ > Backoffs THEN @ ELSE @ + 1]
    BY <1>1 DEF Drafts, Session
  <1> HIDE DEF count, e
  <1>4. e.s = [d.s EXCEPT !.renewAttempt = count] /\ e = [d EXCEPT !.s = e.s]
    BY <1>1 DEF e, Drafts
  <1>11. d.s \in Session
    BY <1>1 DEF Drafts
  <1>12. e.s \in Session
    BY <1>2, <1>4, <1>11 DEF Session
  <1>5. /\ e.s \in Session
        /\ Alike(e.s, d.s)
        /\ e.s.queued = d.s.queued
        /\ e.s.mints = d.s.mints
        /\ e.s.timers = d.s.timers
        /\ e.s.cancelRenewTimer = d.s.cancelRenewTimer
    BY <1>4, <1>11, <1>12 DEF Session, Alike
  <1>6. e \in Drafts /\ e.out = d.out
    BY <1>1, <1>4, <1>5 DEF Drafts
  <1>7. Roomy(e.s) /\ Load(e.s) < MaxPending
    BY <1>1, <1>5 DEF Roomy, Load
  <1>8. CASE retryable /\ d.s.renewAttempt < Backoffs /\ ~d.s.disposed
    <2> DEFINE w == Arm(e, "backoff", match)
    <2>1. /\ w \in Drafts
          /\ Alike(w.s, e.s)
          /\ w.s.queued = e.s.queued
          /\ w.s.mints = e.s.mints
          /\ e.s.timers \subseteq w.s.timers
          /\ \E t \in w.s.timers : t.kind = "backoff"
          /\ w.out = e.out
          /\ Armed(w.s)
          /\ Roomy(w.s)
      BY <1>6, <1>7, ArmForm
    <2>2. r = w
      BY <1>3, <1>8 DEF BackOff
    <2> HIDE DEF w, r
    <2>3. Keyed(w.s) /\ Ended(w.s)
      BY <1>1, <1>5, <1>8, <2>1 DEF Keyed, Ended, Alike
    <2>4. Driven(w.s)
      BY <2>1 DEF Driven
    <2>5. Up(w.s) => Up(d.s)
      BY <1>5, <2>1 DEF Up, Alike
    <2>6. Scheduled(d.s) => Scheduled(w.s)
      BY <1>5, <2>1 DEF Scheduled, Alike
    <2>7. w.s.disposed = d.s.disposed
      BY <1>5, <2>1 DEF Alike
    <2>8. QED
      BY <1>5, <1>6, <2>1, <2>2, <2>3, <2>4, <2>5, <2>6, <2>7 DEF Base, r
  <1>9. CASE ~(retryable /\ d.s.renewAttempt < Backoffs /\ ~d.s.disposed)
    <2> DEFINE f == [e EXCEPT !.s.renewing = FALSE]
    <2> DEFINE last == IF retryable THEN "degraded" ELSE "unavailable"
    <2> DEFINE k == SetState(f, last)
    <2>1. r = Raise(k, "session-lost")
      BY <1>3, <1>9 DEF BackOff
    <2>2. f.s = [e.s EXCEPT !.renewing = FALSE] /\ f = [e EXCEPT !.s = f.s]
      BY <1>6 DEF Drafts
    <2> HIDE DEF f
    <2>3. f \in Drafts /\ f.out = d.out
      BY <1>5, <1>6, <2>2 DEF Drafts, Session
    <2>4. last \in SessionStates /\ last # "ready"
      BY DEF SessionStates
    <2>5. k \in Drafts /\ k.s = [f.s EXCEPT !.state = last] /\ k.s.state = last /\ k.out = f.out
      BY <2>3, <2>4, SetStateForm
    <2> HIDE DEF last, k
    <2>6. r \in Drafts /\ r.s = k.s /\ r.out = k.out
      BY <2>1, <2>5, RaiseForm DEF Tolds
    <2> HIDE DEF r
    <2>7. /\ r.s.hasKey = e.s.hasKey
          /\ r.s.window = e.s.window
          /\ r.s.disposed = e.s.disposed
          /\ r.s.queued = e.s.queued
          /\ r.s.openInstructions = e.s.openInstructions
          /\ r.s.mints = e.s.mints
          /\ r.s.timers = e.s.timers
          /\ r.s.cancelRenewTimer = e.s.cancelRenewTimer
          /\ r.s.renewing = FALSE
      BY <1>5, <2>2, <2>5, <2>6 DEF Session
    <2>8. Roomy(r.s) /\ Armed(r.s) /\ Keyed(r.s)
      BY <1>1, <1>5, <2>7 DEF Roomy, Load, Armed, Keyed, Alike
    <2>9. Ended(r.s) /\ Driven(r.s) /\ ~Up(r.s)
      BY <1>1, <1>5, <2>4, <2>5, <2>6, <2>7 DEF Ended, Driven, Up, Alike
    <2>10. r.s.disposed = d.s.disposed
      BY <1>5, <2>7 DEF Alike
    <2>11. QED
      BY <1>5, <2>3, <2>5, <2>6, <2>7, <2>8, <2>9, <2>10 DEF Base, r
  <1>10. QED
    BY <1>8, <1>9

-----------------------------------------------------------------------------
(* The operations *)

LEMMA CloseForm ==
    ASSUME NEW d \in Drafts, Roomy(d.s), Keyed(d.s)
    PROVE  LET r == Close(d) IN
           /\ r \in Drafts
           /\ Roomy(r.s)
           /\ Load(r.s) <= Load(d.s)
           /\ Armed(r.s)
           /\ Keyed(r.s)
           /\ Driven(r.s)
           /\ r.s.renewing = FALSE
           /\ r.s.state = "idle"
           /\ r.s.openInstructions = None
           /\ r.s.window = d.s.window
           /\ r.s.disposed = d.s.disposed
  <1> DEFINE p == StopRenewal(d)
  <1> DEFINE q == Send(p, CloseDirective)
  <1> DEFINE r == Close(d)
  <1>1. /\ p \in Drafts
        /\ p.s.hasKey = d.s.hasKey
        /\ p.s.window = d.s.window
        /\ p.s.disposed = d.s.disposed
        /\ p.s.queued = d.s.queued
        /\ p.s.mints = d.s.mints
        /\ p.s.timers \subseteq d.s.timers
        /\ p.s.openInstructions = None
        /\ p.s.renewing = FALSE
        /\ p.s.cancelRenewTimer = NoTimer
        /\ Roomy(p.s)
        /\ Load(p.s) <= Load(d.s)
    BY StopForm
  <1> HIDE DEF p
  <1>2. /\ q \in Drafts
        /\ Alike(q.s, p.s)
        /\ q.s.mints = p.s.mints
        /\ q.s.timers = p.s.timers
        /\ q.s.cancelRenewTimer = p.s.cancelRenewTimer
        /\ p.s.window # "open" => q = p
    BY <1>1, SendForm DEF Directive
  <1> HIDE DEF q
  <1> DEFINE k == SetState(q, "idle")
  <1>3. r = k
    BY DEF Close, p, q
  <1>10. /\ k \in Drafts
         /\ k.s = [q.s EXCEPT !.state = "idle"]
         /\ k.s.state = "idle"
    BY <1>2, SetStateForm DEF SessionStates
  <1>4. /\ r \in Drafts
        /\ r.s = [q.s EXCEPT !.state = "idle"]
        /\ r.s.state = "idle"
    BY <1>3, <1>10
  <1> HIDE DEF r
  <1>5. /\ r.s.hasKey = d.s.hasKey
        /\ r.s.window = d.s.window
        /\ r.s.disposed = d.s.disposed
        /\ r.s.queued = q.s.queued
        /\ r.s.mints = d.s.mints
        /\ r.s.timers = p.s.timers
        /\ r.s.openInstructions = None
        /\ r.s.renewing = FALSE
        /\ r.s.cancelRenewTimer = NoTimer
    BY <1>1, <1>2, <1>4 DEF Drafts, Session, Alike
  <1>6. Roomy(r.s) /\ Load(r.s) <= Load(d.s)
    BY <1>1, <1>5 DEF Roomy, Load
  <1>7. Armed(r.s) /\ Driven(r.s)
    BY <1>5 DEF Armed, Driven
  <1>8. Keyed(r.s)
    BY <1>1, <1>2, <1>5 DEF Keyed
  <1>9. QED
    BY <1>4, <1>5, <1>6, <1>7, <1>8 DEF r

LEMMA OpenForm ==
    ASSUME NEW d, NEW match \in Matches, Base(d), Driven(d.s), Load(d.s) < MaxPending
    PROVE  LET r == Open(d, match) IN
           /\ Base(r)
           /\ Driven(r.s)
           /\ ~Up(r.s)
           /\ r.s.disposed = d.s.disposed
  <1> DEFINE r == Open(d, match)
  <1>1. d \in Drafts /\ Roomy(d.s) /\ Armed(d.s) /\ Keyed(d.s) /\ Ended(d.s)
    BY DEF Base
  <1>2. CASE ~d.s.hasKey
    <2> DEFINE k == SetState(d, "unavailable")
    <2>1. r = k
      BY <1>2 DEF Open
    <2> HIDE DEF r
    <2>7. /\ k \in Drafts
          /\ k.s = [d.s EXCEPT !.state = "unavailable"]
          /\ k.s.state = "unavailable"
      BY <1>1, SetStateForm DEF SessionStates
    <2>2. /\ r \in Drafts
          /\ r.s = [d.s EXCEPT !.state = "unavailable"]
          /\ r.s.state = "unavailable"
      BY <2>1, <2>7
    <2>3. /\ r.s.hasKey = d.s.hasKey
          /\ r.s.window = d.s.window
          /\ r.s.disposed = d.s.disposed
          /\ r.s.queued = d.s.queued
          /\ r.s.openInstructions = d.s.openInstructions
          /\ r.s.renewing = d.s.renewing
          /\ r.s.mints = d.s.mints
          /\ r.s.timers = d.s.timers
          /\ r.s.cancelRenewTimer = d.s.cancelRenewTimer
      BY <1>1, <2>2 DEF Drafts, Session
    <2>4. Roomy(r.s) /\ Armed(r.s) /\ Keyed(r.s)
      BY <1>1, <2>3 DEF Roomy, Load, Armed, Keyed
    <2>5. Ended(r.s) /\ Driven(r.s) /\ ~Up(r.s)
      BY <1>1, <2>2, <2>3 DEF Ended, Driven, Up
    <2>6. QED
      BY <2>2, <2>3, <2>4, <2>5 DEF Base, r
  <1>3. CASE d.s.hasKey /\ d.s.disposed
    <2>1. r = d
      BY <1>3 DEF Open
    <2>2. QED
      BY <1>1, <1>3, <2>1 DEF Ended, Up
  <1>4. CASE d.s.hasKey /\ ~d.s.disposed
    <2> DEFINE e == EnsureWindow(d)
    <2> DEFINE p == StopRenewal(e)
    <2> DEFINE k == SetState(p, "connecting")
    <2> DEFINE w == AwaitMint(k, "open", match)
    <2>1. r = w
      BY <1>4 DEF Open
    <2>2. /\ e \in Drafts
          /\ e.s.hasKey
          /\ e.s.window = "open"
          /\ ~e.s.disposed
          /\ e.s.mints = d.s.mints
          /\ e.s.timers = d.s.timers
      <3>1. CASE d.s.window = "none"
        <4>1. e = [d EXCEPT !.s.window = "open", !.s.ready = FALSE]
          BY <3>1 DEF EnsureWindow
        <4> HIDE DEF e
        <4>2. e.s = [d.s EXCEPT !.window = "open", !.ready = FALSE] /\ e = [d EXCEPT !.s = e.s]
          BY <1>1, <4>1 DEF Drafts
        <4>3. e.s \in Session /\ e.s.window = "open"
          BY <1>1, <4>2 DEF Drafts, Session
        <4>4. e \in Drafts
          BY <1>1, <4>2, <4>3 DEF Drafts
        <4>5. QED
          BY <1>1, <1>4, <4>2, <4>3, <4>4 DEF Drafts, Session
      <3>2. CASE d.s.window # "none"
        <4>1. e = d
          BY <3>2 DEF EnsureWindow
        <4>2. d.s.window = "open"
          BY <1>1, <1>4, <3>2 DEF Ended, Drafts, Session
        <4>3. QED
          BY <1>1, <1>4, <4>1, <4>2
      <3>3. QED
        BY <3>1, <3>2
    <2> HIDE DEF e
    <2>3. Roomy(e.s) /\ Load(e.s) < MaxPending
      BY <1>1, <2>2 DEF Roomy, Load
    <2>4. /\ p \in Drafts
          /\ p.s.hasKey = e.s.hasKey
          /\ p.s.window = e.s.window
          /\ p.s.disposed = e.s.disposed
          /\ p.s.openInstructions = None
          /\ p.s.renewing = FALSE
          /\ p.s.cancelRenewTimer = NoTimer
          /\ Roomy(p.s)
          /\ Load(p.s) <= Load(e.s)
      BY <2>2, <2>3, StopForm
    <2> HIDE DEF p
    <2>5. /\ k \in Drafts
          /\ k.s = [p.s EXCEPT !.state = "connecting"]
          /\ k.s.state = "connecting"
      BY <2>4, SetStateForm DEF SessionStates
    <2> HIDE DEF k
    <2>6. /\ k.s.hasKey
          /\ k.s.window = "open"
          /\ ~k.s.disposed
          /\ k.s.openInstructions = None
          /\ k.s.renewing = FALSE
          /\ k.s.cancelRenewTimer = NoTimer
          /\ k.s.mints = p.s.mints
          /\ k.s.timers = p.s.timers
      BY <2>2, <2>4, <2>5 DEF Drafts, Session
    <2>7. Roomy(k.s) /\ Load(k.s) < MaxPending
      <3>1. Load(k.s) = Load(p.s) /\ Roomy(k.s)
        BY <2>4, <2>6 DEF Roomy, Load
      <3>2. Load(p.s) \in Int /\ Load(e.s) \in Int /\ MaxPending \in Int
        BY <2>3, <2>4, FS_CardinalityType, SessionAssumption DEF Roomy, Load
      <3>3. QED
        BY <2>3, <2>4, <3>1, <3>2
    <2>8. /\ w \in Drafts
          /\ Alike(w.s, k.s)
          /\ w.s.cancelRenewTimer = k.s.cancelRenewTimer
          /\ Roomy(w.s)
      BY <2>5, <2>7, AwaitForm
    <2> HIDE DEF w, r
    <2>9. Armed(w.s) /\ Keyed(w.s) /\ Ended(w.s)
      BY <2>6, <2>8 DEF Armed, Keyed, Ended, Alike
    <2>10. Driven(w.s) /\ ~Up(w.s) /\ ~w.s.disposed
      BY <2>6, <2>8 DEF Driven, Up, Alike
    <2>11. w.s.disposed = d.s.disposed
      BY <1>1, <1>4, <2>8, <2>10 DEF Drafts, Session
    <2>12. QED
      BY <2>1, <2>8, <2>9, <2>10, <2>11 DEF Base, r
  <1>5. d.s.hasKey \in BOOLEAN /\ d.s.disposed \in BOOLEAN
    BY <1>1 DEF Drafts, Session
  <1>6. QED
    BY <1>2, <1>3, <1>4, <1>5

LEMMA DisposeForm ==
    ASSUME NEW d, Base(d), ~d.s.disposed
    PROVE  LET r == DisposeSession(d) IN
           /\ Base(r)
           /\ Driven(r.s)
           /\ ~Up(r.s)
           /\ r.s.disposed
  <1> DEFINE e == [d EXCEPT !.s.disposed = TRUE]
  <1> DEFINE c == Close(e)
  <1> DEFINE r == DisposeSession(d)
  <1>1. d \in Drafts /\ Roomy(d.s) /\ Armed(d.s) /\ Keyed(d.s) /\ Ended(d.s)
    BY DEF Base
  <1>2. r = [c EXCEPT !.s.window = "closed", !.s.ready = FALSE, !.s.queued = <<>>]
    BY DEF DisposeSession
  <1>3. e.s = [d.s EXCEPT !.disposed = TRUE] /\ e = [d EXCEPT !.s = e.s]
    BY <1>1 DEF Drafts
  <1> HIDE DEF e
  <1>4. /\ e.s \in Session
        /\ e.s.disposed
        /\ e.s.hasKey = d.s.hasKey
        /\ e.s.window = d.s.window
        /\ e.s.queued = d.s.queued
        /\ e.s.openInstructions = d.s.openInstructions
        /\ e.s.mints = d.s.mints
        /\ e.s.timers = d.s.timers
    BY <1>1, <1>3 DEF Drafts, Session
  <1>5. e \in Drafts /\ Roomy(e.s) /\ Keyed(e.s)
    BY <1>1, <1>3, <1>4 DEF Drafts, Roomy, Load, Keyed
  <1>6. /\ c \in Drafts
        /\ Roomy(c.s)
        /\ Armed(c.s)
        /\ Keyed(c.s)
        /\ c.s.renewing = FALSE
        /\ c.s.state = "idle"
        /\ c.s.disposed = e.s.disposed
    BY <1>5, CloseForm
  <1> HIDE DEF c, r
  <1>7. r.s = [c.s EXCEPT !.window = "closed", !.ready = FALSE, !.queued = <<>>]
        /\ r = [c EXCEPT !.s = r.s]
    BY <1>2, <1>6 DEF Drafts
  <1>8. r.s \in Session /\ r.s.window = "closed" /\ r.s.queued = <<>>
    <2>1. c.s \in Session /\ <<>> \in Seq(Directive)
      BY <1>6 DEF Drafts
    <2>2. QED
      BY <1>7, <2>1 DEF Session
  <1>9. /\ r.s.hasKey = c.s.hasKey
        /\ r.s.openInstructions = c.s.openInstructions
        /\ r.s.mints = c.s.mints
        /\ r.s.timers = c.s.timers
        /\ r.s.cancelRenewTimer = c.s.cancelRenewTimer
        /\ r.s.renewing = FALSE
        /\ r.s.state = "idle"
        /\ r.s.disposed
    BY <1>4, <1>6, <1>7 DEF Drafts, Session
  <1>10. r \in Drafts
    BY <1>6, <1>7, <1>8 DEF Drafts
  <1>11. Roomy(r.s) /\ Armed(r.s) /\ Keyed(r.s)
    BY <1>6, <1>8, <1>9 DEF Roomy, Load, Armed, Keyed
  <1>12. Ended(r.s) /\ Driven(r.s) /\ ~Up(r.s)
    BY <1>8, <1>9 DEF Ended, Driven, Up
  <1>13. QED
    BY <1>9, <1>10, <1>11, <1>12 DEF Base, r

\* The first open goes on: it is on its way to the window, or has failed.
LEMMA FirstOpenForm ==
    ASSUME NEW d, NEW match \in Matches, NEW outcome \in {"secret", "refused", "forbidden"},
           Base(d), Driven(d.s), d.s.hasKey, d.s.window # "none", NEW u \in BOOLEAN
    PROVE  LET r == FirstOpen(d, match, outcome) IN
           Sound(r, u) /\ r.s.disposed = d.s.disposed
  <1> DEFINE r == FirstOpen(d, match, outcome)
  <1>1. d \in Drafts /\ Roomy(d.s) /\ Armed(d.s) /\ Keyed(d.s) /\ Ended(d.s)
    BY DEF Base
  <1>2. CASE outcome = "secret"
    <2> DEFINE q == Send(d, OpenDirective(match))
    <2>1. OpenDirective(match) \in Directive /\ OpenDirective(match).type = "open"
      BY DEF Directive, OpenDirective
    <2>2. /\ q \in Drafts
          /\ Alike(q.s, d.s)
          /\ q.s.mints = d.s.mints
          /\ q.s.timers = d.s.timers
          /\ q.s.cancelRenewTimer = d.s.cancelRenewTimer
          /\ d.s.window # "open" => q = d
          /\ d.s.window = "open" => Has(q.s.queued, "open") \/ Has(q.out, "open")
      BY <1>1, <2>1, SendForm
    <2>3. r = [q EXCEPT !.s.openInstructions = match]
      BY <1>2 DEF FirstOpen
    <2> HIDE DEF q, r
    <2>4. r.s = [q.s EXCEPT !.openInstructions = match] /\ r = [q EXCEPT !.s = r.s]
      BY <2>2, <2>3 DEF Drafts
    <2>5. r.s \in Session
      BY <2>2, <2>4 DEF Drafts, Session
    <2>6. r \in Drafts /\ r.out = q.out
      BY <2>2, <2>4, <2>5 DEF Drafts
    <2>7. /\ r.s.hasKey = d.s.hasKey
          /\ r.s.window = d.s.window
          /\ r.s.disposed = d.s.disposed
          /\ r.s.state = d.s.state
          /\ r.s.queued = q.s.queued
          /\ r.s.renewing = d.s.renewing
          /\ r.s.mints = d.s.mints
          /\ r.s.timers = d.s.timers
          /\ r.s.cancelRenewTimer = d.s.cancelRenewTimer
      BY <2>2, <2>4 DEF Drafts, Session, Alike
    <2>8. Roomy(r.s) /\ Armed(r.s) /\ Keyed(r.s)
      BY <1>1, <2>2, <2>7 DEF Roomy, Load, Armed, Keyed
    <2>9. Ended(r.s) /\ Driven(r.s)
      BY <1>1, <2>7 DEF Ended, Driven
    <2>10. r.s.state = "ready" => d.s.window = "open"
      BY <1>1, <2>7 DEF Ended, Drafts, Session
    <2>11. QED
      BY <2>2, <2>6, <2>7, <2>8, <2>9, <2>10 DEF Sound, Base, Up, r
  <1>3. CASE outcome # "secret"
    <2> DEFINE next == IF outcome = "refused" THEN "degraded" ELSE "unavailable"
    <2> DEFINE k == SetState(d, next)
    <2> DEFINE w == Raise(k, "mint")
    <2>1. r = w
      BY <1>3 DEF FirstOpen
    <2>2. next \in SessionStates /\ next # "ready"
      BY DEF SessionStates
    <2> HIDE DEF next
    <2>3. k \in Drafts /\ k.s = [d.s EXCEPT !.state = next] /\ k.s.state = next
      BY <1>1, <2>2, SetStateForm
    <2> HIDE DEF k
    <2>4. w \in Drafts /\ w.s = k.s
      BY <2>3, RaiseForm DEF Tolds
    <2> HIDE DEF w, r
    <2>5. /\ w.s.hasKey = d.s.hasKey
          /\ w.s.window = d.s.window
          /\ w.s.disposed = d.s.disposed
          /\ w.s.openInstructions = d.s.openInstructions
          /\ w.s.queued = d.s.queued
          /\ w.s.renewing = d.s.renewing
          /\ w.s.mints = d.s.mints
          /\ w.s.timers = d.s.timers
          /\ w.s.cancelRenewTimer = d.s.cancelRenewTimer
      <3>1. d.s \in Session
        BY <1>1 DEF Drafts
      <3>2. w.s = [d.s EXCEPT !.state = next]
        BY <2>3, <2>4
      <3>3. QED
        BY <3>1, <3>2, ZenonT(60) DEF Session
    <2>6. Roomy(w.s) /\ Armed(w.s) /\ Keyed(w.s)
      BY <1>1, <2>5 DEF Roomy, Load, Armed, Keyed
    <2>7. Ended(w.s) /\ Driven(w.s) /\ ~Up(w.s)
      BY <1>1, <2>2, <2>3, <2>4, <2>5 DEF Ended, Driven, Up
    <2>8. QED
      BY <2>1, <2>4, <2>5, <2>6, <2>7 DEF Sound, Base, r
  <1>4. QED
    BY <1>2, <1>3

\* A renewal goes on: it waits for the window, backs off or is over.
LEMMA ReOpenForm ==
    ASSUME NEW d, NEW match \in Matches, NEW outcome \in {"secret", "refused", "forbidden"},
           Base(d), d.s.hasKey, d.s.window # "none", Load(d.s) < MaxPending, NEW u \in BOOLEAN,
           Up(d.s) => Scheduled(d.s) \/ Has(d.s.queued, "open") \/ Has(d.out, "open") \/ u
    PROVE  LET r == ReOpen(d, match, outcome) IN
           Sound(r, u) /\ r.s.disposed = d.s.disposed
  <1> DEFINE r == ReOpen(d, match, outcome)
  <1>1. d \in Drafts /\ Roomy(d.s) /\ Armed(d.s) /\ Keyed(d.s) /\ Ended(d.s)
    BY DEF Base
  <1>2. CASE outcome = "secret"
    <2> DEFINE q == Send(d, OpenDirective(match))
    <2> DEFINE w == Arm(q, "ready", match)
    <2>1. OpenDirective(match) \in Directive
      BY DEF Directive
    <2>2. /\ q \in Drafts
          /\ Alike(q.s, d.s)
          /\ q.s.mints = d.s.mints
          /\ q.s.timers = d.s.timers
          /\ d.s.window # "open" => q = d
          /\ Has(d.s.queued, "open") => Has(q.s.queued, "open")
          /\ Has(d.out, "open") => Has(q.out, "open")
      BY <1>1, <2>1, SendForm
    <2>3. r = w
      BY <1>2 DEF ReOpen
    <2> HIDE DEF q
    <2>4. Roomy(q.s) /\ Load(q.s) < MaxPending
      BY <1>1, <2>2 DEF Roomy, Load
    <2>5. /\ w \in Drafts
          /\ Alike(w.s, q.s)
          /\ w.s.queued = q.s.queued
          /\ q.s.timers \subseteq w.s.timers
          /\ \E t \in w.s.timers : t.kind = "ready"
          /\ w.out = q.out
          /\ Armed(w.s)
          /\ Roomy(w.s)
      BY <2>2, <2>4, ArmForm
    <2> HIDE DEF w, r
    <2>6. Keyed(w.s) /\ Ended(w.s)
      BY <1>1, <2>2, <2>5 DEF Keyed, Ended, Alike
    <2>7. Driven(w.s)
      BY <2>5 DEF Driven
    <2>8. Up(w.s) => Up(d.s)
      BY <2>2, <2>5 DEF Up, Alike
    <2>9. Scheduled(d.s) => Scheduled(w.s)
      BY <2>2, <2>5 DEF Scheduled, Alike
    <2>10. w.s.disposed = d.s.disposed
      BY <2>2, <2>5 DEF Alike
    <2>11. QED
      BY <2>2, <2>3, <2>5, <2>6, <2>7, <2>8, <2>9, <2>10 DEF Sound, Base, r
  <1>3. CASE outcome # "secret"
    <2> DEFINE retryable == outcome = "refused"
    <2> DEFINE w == BackOff(d, match, retryable)
    <2>1. r = w
      BY <1>3 DEF ReOpen
    <2>2. retryable \in BOOLEAN
      OBVIOUS
    <2> HIDE DEF retryable
    <2>3. /\ Base(w)
          /\ Driven(w.s)
          /\ Up(w.s) => Up(d.s)
          /\ Up(w.s) /\ Scheduled(d.s) => Scheduled(w.s)
          /\ w.s.queued = d.s.queued
          /\ w.out = d.out
          /\ w.s.disposed = d.s.disposed
      BY <2>2, BackOffForm
    <2> HIDE DEF w
    <2>4. Sound(w, u)
      BY <2>3 DEF Sound
    <2> HIDE DEF r
    <2>5. Sound(r, u) /\ r.s.disposed = d.s.disposed
      BY <2>1, <2>3, <2>4
    <2>6. QED
      BY <2>5 DEF r
  <1>4. QED
    BY <1>2, <1>3

\* What an await leaves is what goes on without it.
LEMMA ContinueForm ==
    ASSUME NEW d, NEW u \in BOOLEAN, Sound(d, u), NEW mint \in d.s.mints,
           NEW outcome \in {"secret", "refused", "forbidden"}
    PROVE  LET r == Continue(d, mint, outcome) IN
           Sound(r, u) /\ r.s.disposed = d.s.disposed
  <1> DEFINE q == [d EXCEPT !.s.mints = @ \ {mint}]
  <1> DEFINE r == Continue(d, mint, outcome)
  <1>1. d \in Drafts /\ d.s \in Session /\ Roomy(d.s) /\ Armed(d.s) /\ Keyed(d.s) /\ Ended(d.s)
    BY DEF Sound, Base, Drafts
  <1>2. mint \in Mint
    BY <1>1 DEF Session
  <1>3. mint.match \in Matches /\ mint.kind \in {"open", "renew"}
    BY <1>2 DEF Mint
  <1>4. d.s.hasKey /\ d.s.window # "none"
    BY <1>1 DEF Keyed
  <1> DEFINE others == d.s.mints \ {mint}
  <1>5. others \in SUBSET Mint
    BY <1>1 DEF Session
  <1>6. q.s = [d.s EXCEPT !.mints = others] /\ q = [d EXCEPT !.s = q.s]
    BY <1>1 DEF Drafts
  <1>7. r = IF mint.kind = "open" THEN FirstOpen(q, mint.match, outcome)
                                  ELSE ReOpen(q, mint.match, outcome)
    BY DEF Continue
  <1>8. /\ IsFiniteSet(others)
        /\ Cardinality(others) = Cardinality(d.s.mints) - 1
        /\ Cardinality(d.s.mints) \in Nat
        /\ Cardinality(d.s.timers) \in Nat
    BY <1>1, FS_RemoveElement, FS_CardinalityType DEF Roomy
  <1> HIDE DEF q, others, r
  <1>9. q.s \in Session /\ Alike(q.s, d.s)
    BY <1>1, <1>5, <1>6 DEF Session, Alike
  <1>10. /\ q.s.mints = others
         /\ q.s.timers = d.s.timers
         /\ q.s.queued = d.s.queued
         /\ q.s.cancelRenewTimer = d.s.cancelRenewTimer
    BY <1>1, <1>6 DEF Session
  <1>11. q \in Drafts /\ q.out = d.out
    BY <1>1, <1>6, <1>9 DEF Drafts
  <1>12. Roomy(q.s) /\ Load(q.s) < MaxPending
    BY <1>1, <1>8, <1>10, SessionAssumption DEF Roomy, Load
  <1>13. Armed(q.s) /\ Keyed(q.s) /\ Ended(q.s)
    BY <1>1, <1>4, <1>9, <1>10 DEF Armed, Keyed, Ended, Alike
  <1>14. Base(q)
    BY <1>11, <1>12, <1>13 DEF Base
  <1>15. q.s.hasKey /\ q.s.window # "none" /\ q.s.disposed = d.s.disposed
    BY <1>4, <1>9 DEF Alike
  <1>16. CASE mint.kind = "open"
    <2> DEFINE w == FirstOpen(q, mint.match, outcome)
    <2>1. Driven(q.s)
      BY <1>9, <1>10, <1>16 DEF Sound, Driven, Alike, others
    <2>2. Sound(w, u) /\ w.s.disposed = q.s.disposed
      BY <1>3, <1>14, <1>15, <2>1, FirstOpenForm
    <2>3. r = w
      BY <1>7, <1>16
    <2> HIDE DEF w
    <2>4. QED
      BY <1>15, <2>2, <2>3 DEF r
  <1>17. CASE mint.kind # "open"
    <2> DEFINE w == ReOpen(q, mint.match, outcome)
    <2>1. Up(q.s) => Scheduled(q.s) \/ Has(q.s.queued, "open") \/ Has(q.out, "open") \/ u
      BY <1>9, <1>10, <1>11 DEF Sound, Up, Scheduled, Alike
    <2>2. Sound(w, u) /\ w.s.disposed = q.s.disposed
      BY <1>3, <1>12, <1>14, <1>15, <2>1, ReOpenForm
    <2>3. r = w
      BY <1>7, <1>17
    <2> HIDE DEF w
    <2>4. QED
      BY <1>15, <2>2, <2>3 DEF r
  <1>18. QED
    BY <1>16, <1>17

\* A timer that fires is no longer armed, and what it was for goes on.
LEMMA FiredForm ==
    ASSUME NEW d, NEW u \in BOOLEAN, Sound(d, u), NEW timer \in d.s.timers
    PROVE  LET r == Fired(d, timer) IN
           Sound(r, u) /\ r.s.disposed = d.s.disposed
  <1> DEFINE q == [d EXCEPT !.s.timers = @ \ {timer}, !.s.cancelRenewTimer = NoTimer]
  <1> DEFINE r == Fired(d, timer)
  <1>1. d \in Drafts /\ d.s \in Session /\ Roomy(d.s) /\ Armed(d.s) /\ Keyed(d.s) /\ Ended(d.s)
    BY DEF Sound, Base, Drafts
  <1>2. timer \in Timer
    BY <1>1 DEF Session
  <1>3. timer.match \in Matches /\ timer.kind \in {"age", "ready", "backoff"}
    BY <1>2 DEF Timer
  <1>4. d.s.hasKey /\ d.s.window # "none"
    BY <1>1 DEF Keyed
  <1> DEFINE others == d.s.timers \ {timer}
  <1>5. others \in SUBSET Timer /\ NoTimer \in 0 .. MaxPending
    BY <1>1, SessionAssumption DEF Session, NoTimer
  <1>6. q.s = [d.s EXCEPT !.timers = others, !.cancelRenewTimer = NoTimer]
        /\ q = [d EXCEPT !.s = q.s]
    BY <1>1 DEF Drafts
  <1>7. /\ timer.kind = "age" => r = Renew(q)
        /\ timer.kind = "ready" => r = BackOff(q, timer.match, TRUE)
        /\ timer.kind = "backoff" => r = AttemptRenewal(q, timer.match)
    BY DEF Fired
  <1>8. /\ IsFiniteSet(others)
        /\ Cardinality(others) = Cardinality(d.s.timers) - 1
        /\ Cardinality(d.s.mints) \in Nat
        /\ Cardinality(d.s.timers) \in Nat
    BY <1>1, FS_RemoveElement, FS_CardinalityType DEF Roomy
  <1> HIDE DEF q, others, r
  <1>9. q.s \in Session /\ Alike(q.s, d.s)
    BY <1>1, <1>5, <1>6 DEF Session, Alike
  <1>10. /\ q.s.mints = d.s.mints
         /\ q.s.timers = others
         /\ q.s.queued = d.s.queued
         /\ q.s.cancelRenewTimer = NoTimer
    BY <1>1, <1>6 DEF Session
  <1>11. q \in Drafts /\ q.out = d.out
    BY <1>1, <1>6, <1>9 DEF Drafts
  <1>12. Roomy(q.s) /\ Load(q.s) < MaxPending
    BY <1>1, <1>8, <1>10, SessionAssumption DEF Roomy, Load
  <1>13. Armed(q.s) /\ Keyed(q.s) /\ Ended(q.s)
    BY <1>1, <1>4, <1>9, <1>10 DEF Armed, Keyed, Ended, Alike
  <1>14. Base(q)
    BY <1>11, <1>12, <1>13 DEF Base
  <1>15. q.s.hasKey /\ q.s.window # "none" /\ q.s.disposed = d.s.disposed
    BY <1>4, <1>9 DEF Alike
  <1>16. CASE timer.kind = "age"
    <2> DEFINE w == Renew(q)
    <2>1. Driven(q.s)
      BY <1>9, <1>10, <1>16 DEF Sound, Driven, Alike, others
    <2>2. Base(w) /\ Driven(w.s) /\ (Up(w.s) => Scheduled(w.s)) /\ w.s.disposed = q.s.disposed
      BY <1>12, <1>14, <2>1, RenewForm
    <2>3. r = w
      BY <1>7, <1>16
    <2> HIDE DEF w
    <2>4. QED
      BY <1>15, <2>2, <2>3 DEF r, Sound
  <1>17. CASE timer.kind = "ready"
    <2> DEFINE w == BackOff(q, timer.match, TRUE)
    <2>1. Up(q.s) => Scheduled(q.s) \/ Has(q.s.queued, "open") \/ Has(q.out, "open") \/ u
      BY <1>9, <1>10, <1>11, <1>17 DEF Sound, Up, Scheduled, Alike, others
    <2>2. /\ Base(w)
          /\ Driven(w.s)
          /\ Up(w.s) => Up(q.s)
          /\ Up(w.s) /\ Scheduled(q.s) => Scheduled(w.s)
          /\ w.s.queued = q.s.queued
          /\ w.out = q.out
          /\ w.s.disposed = q.s.disposed
      BY <1>3, <1>12, <1>14, <1>15, BackOffForm
    <2>3. r = w
      BY <1>7, <1>17
    <2> HIDE DEF w
    <2>4. Sound(w, u)
      BY <2>1, <2>2 DEF Sound
    <2>5. QED
      BY <1>15, <2>2, <2>3, <2>4 DEF r
  <1>18. CASE timer.kind = "backoff"
    <2> DEFINE w == AttemptRenewal(q, timer.match)
    <2>1. Base(w) /\ Driven(w.s) /\ ~Up(w.s) /\ w.s.disposed = q.s.disposed
      BY <1>3, <1>12, <1>14, <1>15, AttemptForm
    <2>2. r = w
      BY <1>7, <1>18
    <2> HIDE DEF w
    <2>3. QED
      BY <1>15, <2>1, <2>2 DEF r, Sound
  <1>19. QED
    BY <1>3, <1>16, <1>17, <1>18

\* A window that listens is sent what waited for it.
LEMMA WindowReadyForm ==
    ASSUME NEW d, NEW u \in BOOLEAN, Sound(d, u)
    PROVE  LET r == WindowReady(d) IN
           Sound(r, u) /\ r.s.disposed = d.s.disposed
  <1> DEFINE r == WindowReady(d)
  <1> DEFINE sent == IF d.s.window = "open" THEN d.out \o d.s.queued ELSE d.out
  <1>1. d \in Drafts /\ d.s \in Session /\ Roomy(d.s) /\ Armed(d.s) /\ Keyed(d.s) /\ Ended(d.s)
    BY DEF Sound, Base, Drafts
  <1>2. d.s.queued \in Seq(Directive) /\ d.out \in Seq(Directive)
    BY <1>1 DEF Drafts, Session
  <1>3. /\ sent \in Seq(Directive)
        /\ Has(d.out, "open") => Has(sent, "open")
        /\ Has(d.s.queued, "open") => Has(sent, "open")
    <2>1. CASE d.s.window = "open"
      BY <1>2, <2>1, HasConcat
    <2>2. CASE d.s.window # "open"
      <3>1. d.s.queued = <<>>
        BY <1>1, <2>2 DEF Keyed
      <3>2. ~Has(d.s.queued, "open")
        BY <3>1 DEF Has
      <3>3. QED
        BY <1>2, <2>2, <3>2
    <2>3. QED
      BY <2>1, <2>2
  <1>4. r = [d EXCEPT !.s.ready = TRUE, !.s.queued = <<>>, !.out = sent]
    BY <1>1 DEF WindowReady, Drafts
  <1> HIDE DEF r, sent
  <1>5. /\ r.s = [d.s EXCEPT !.ready = TRUE, !.queued = <<>>]
        /\ r.out = sent
        /\ r = [d EXCEPT !.s = r.s, !.out = sent]
    BY <1>1, <1>4 DEF Drafts
  <1>6. r.s \in Session /\ Alike(r.s, d.s) /\ r.s.queued = <<>>
    <2>1. <<>> \in Seq(Directive)
      OBVIOUS
    <2>2. QED
      BY <1>1, <1>5, <2>1 DEF Session, Alike
  <1>7. /\ r.s.mints = d.s.mints
        /\ r.s.timers = d.s.timers
        /\ r.s.cancelRenewTimer = d.s.cancelRenewTimer
    BY <1>1, <1>5 DEF Session
  <1>8. r \in Drafts
    BY <1>1, <1>3, <1>5, <1>6 DEF Drafts
  <1>9. Roomy(r.s) /\ Armed(r.s) /\ Keyed(r.s) /\ Ended(r.s)
    BY <1>1, <1>6, <1>7 DEF Roomy, Load, Armed, Keyed, Ended, Alike
  <1>10. Driven(r.s) /\ (Up(r.s) => Up(d.s)) /\ (Scheduled(d.s) => Scheduled(r.s))
    BY <1>6, <1>7 DEF Sound, Driven, Up, Scheduled, Alike
  <1>11. Sound(r, u)
    BY <1>3, <1>5, <1>8, <1>9, <1>10 DEF Sound, Base
  <1>12. QED
    BY <1>6, <1>11 DEF Alike, r

\* A state the window reports: when it is `ready', the deadline is armed.
LEMMA HostStateForm ==
    ASSUME NEW d, NEW u \in BOOLEAN, Sound(d, u), ~d.s.disposed, NEW state \in SessionStates,
           Load(d.s) < MaxPending \/ d.s.cancelRenewTimer # NoTimer
    PROVE  LET r == HostState(d, state) IN
           Sound(r, FALSE) /\ r.s.disposed = d.s.disposed
  <1> DEFINE k == SetState(d, state)
  <1> DEFINE r == HostState(d, state)
  <1>1. d \in Drafts /\ d.s \in Session /\ Roomy(d.s) /\ Armed(d.s) /\ Keyed(d.s) /\ Ended(d.s)
    BY DEF Sound, Base, Drafts
  <1>2. k \in Drafts /\ k.s = [d.s EXCEPT !.state = state] /\ k.s.state = state
    BY <1>1, SetStateForm
  <1>3. state # "ready" => r = k
    BY DEF HostState
  <1>4. state = "ready" =>
            r = ArmScheduledRenewal([CancelTimer(k) EXCEPT !.s.renewing = FALSE,
                                                           !.s.renewAttempt = 0])
    BY DEF HostState
  <1> HIDE DEF k, r
  <1>5. /\ k.s.hasKey = d.s.hasKey
        /\ k.s.window = d.s.window
        /\ k.s.disposed = d.s.disposed
        /\ k.s.openInstructions = d.s.openInstructions
        /\ k.s.queued = d.s.queued
        /\ k.s.renewing = d.s.renewing
        /\ k.s.mints = d.s.mints
        /\ k.s.timers = d.s.timers
        /\ k.s.cancelRenewTimer = d.s.cancelRenewTimer
    BY <1>1, <1>2 DEF Session
  <1>6. Roomy(k.s) /\ Load(k.s) = Load(d.s) /\ Armed(k.s) /\ Keyed(k.s) /\ Ended(k.s)
    BY <1>1, <1>5 DEF Roomy, Load, Armed, Keyed, Ended
  <1>7. CASE state # "ready"
    <2>1. Driven(k.s) /\ ~Up(k.s)
      BY <1>2, <1>5, <1>7 DEF Sound, Driven, Up
    <2>2. Sound(k, FALSE)
      BY <1>2, <1>6, <2>1 DEF Sound, Base
    <2>3. QED
      BY <1>3, <1>5, <1>7, <2>2 DEF r
  <1>8. CASE state = "ready"
    <2> DEFINE c == CancelTimer(k)
    <2> DEFINE f == [c EXCEPT !.s.renewing = FALSE, !.s.renewAttempt = 0]
    <2> DEFINE g == CancelTimer(f)
    <2> DEFINE w == ArmScheduledRenewal(f)
    <2>1. r = w
      BY <1>4, <1>8
    <2>2. /\ c \in Drafts
          /\ Alike(c.s, k.s)
          /\ c.s.queued = k.s.queued
          /\ c.s.mints = k.s.mints
          /\ c.s.timers \subseteq k.s.timers
          /\ c.s.cancelRenewTimer = NoTimer
          /\ Roomy(c.s)
          /\ Load(c.s) <= Load(k.s)
          /\ k.s.cancelRenewTimer # NoTimer => Load(c.s) < Load(k.s)
      BY <1>2, <1>6, CancelForm
    <2> HIDE DEF c
    <2>3. f.s = [c.s EXCEPT !.renewing = FALSE, !.renewAttempt = 0] /\ f = [c EXCEPT !.s = f.s]
      BY <2>2 DEF Drafts
    <2>4. c.s \in Session /\ 0 \in 0 .. Backoffs + 1
      BY <2>2, SessionAssumption DEF Drafts
    <2> HIDE DEF f
    <2>5. /\ f.s \in Session
          /\ f.s.hasKey = c.s.hasKey
          /\ f.s.window = c.s.window
          /\ f.s.disposed = c.s.disposed
          /\ f.s.openInstructions = c.s.openInstructions
          /\ f.s.queued = c.s.queued
          /\ f.s.renewing = FALSE
          /\ f.s.mints = c.s.mints
          /\ f.s.timers = c.s.timers
          /\ f.s.cancelRenewTimer = NoTimer
      BY <2>2, <2>3, <2>4 DEF Session
    <2>6. f \in Drafts
      BY <2>2, <2>3, <2>5 DEF Drafts
    <2>7. Roomy(f.s) /\ Load(f.s) = Load(c.s)
      BY <2>2, <2>5 DEF Roomy, Load
    <2>8. /\ g \in Drafts
          /\ Alike(g.s, f.s)
          /\ g.s.queued = f.s.queued
          /\ g.s.mints = f.s.mints
          /\ g.s.timers \subseteq f.s.timers
          /\ g.s.cancelRenewTimer = NoTimer
          /\ Roomy(g.s)
          /\ Load(g.s) <= Load(f.s)
      BY <2>6, <2>7, CancelForm
    <2>9. w = IF f.s.openInstructions = None \/ f.s.disposed THEN g
              ELSE Arm(g, "age", f.s.openInstructions)
      BY DEF ArmScheduledRenewal
    <2> HIDE DEF g, w
    <2>10. /\ g.s.hasKey = d.s.hasKey
           /\ g.s.window = d.s.window
           /\ ~g.s.disposed
           /\ g.s.openInstructions = d.s.openInstructions
           /\ g.s.queued = d.s.queued
           /\ g.s.renewing = FALSE
           /\ g.s.mints = d.s.mints
           /\ g.s.timers \subseteq d.s.timers
      BY <1>5, <2>2, <2>5, <2>8 DEF Alike
    <2>11. /\ Keyed(g.s)
           /\ Ended(g.s)
           /\ Armed(g.s)
           /\ Driven(g.s)
      BY <1>1, <2>8, <2>10 DEF Keyed, Ended, Armed, Driven
    <2>12. CASE d.s.openInstructions = None
      <3>1. w = g
        BY <2>5, <2>8, <2>9, <2>10, <2>12 DEF Alike
      <3>2. ~Up(g.s)
        BY <2>10, <2>12 DEF Up
      <3>3. Sound(g, FALSE)
        BY <2>8, <2>11, <3>2 DEF Sound, Base
      <3>4. w.s.disposed = d.s.disposed
        BY <1>1, <2>8, <2>10, <3>1 DEF Drafts, Session
      <3>5. QED
        BY <2>1, <3>1, <3>3, <3>4 DEF r
    <2>13. CASE d.s.openInstructions # None
      <3> DEFINE a == Arm(g, "age", d.s.openInstructions)
      <3>1. w = a
        BY <2>5, <2>8, <2>9, <2>10, <2>13 DEF Alike
      <3>2. d.s.openInstructions \in Matches
        BY <1>1, <2>13 DEF Session
      <3>3. Load(g.s) < MaxPending
        <4>1. /\ Load(g.s) \in Int /\ Load(f.s) \in Int
              /\ Load(c.s) \in Int /\ Load(d.s) \in Int
          BY <1>1, <2>2, <2>7, <2>8, FS_CardinalityType DEF Roomy, Load
        <4>2. Load(d.s) <= MaxPending
          BY <1>1 DEF Roomy
        <4>3. QED
          BY <1>5, <1>6, <2>2, <2>7, <2>8, <4>1, <4>2, SessionAssumption
      <3>4. /\ a \in Drafts
            /\ Alike(a.s, g.s)
            /\ a.s.queued = g.s.queued
            /\ a.s.mints = g.s.mints
            /\ \E t \in a.s.timers : t.kind = "age"
            /\ Armed(a.s)
            /\ Roomy(a.s)
        BY <2>8, <3>2, <3>3, ArmForm
      <3> HIDE DEF a
      <3>5. Keyed(a.s) /\ Ended(a.s) /\ Driven(a.s)
        <4>1. d.s.hasKey /\ d.s.window # "none"
          BY <1>1, <2>13 DEF Keyed
        <4>2. QED
          BY <2>10, <2>11, <3>4, <4>1 DEF Keyed, Ended, Driven, Alike
      <3>6. Scheduled(a.s)
        BY <3>4 DEF Scheduled
      <3>7. Sound(a, FALSE)
        BY <3>4, <3>5, <3>6 DEF Sound, Base
      <3>8. a.s.disposed = d.s.disposed
        <4>1. a.s.disposed = g.s.disposed
          BY <3>4 DEF Alike
        <4>2. g.s.disposed = d.s.disposed
          BY <1>1, <2>8, <2>10 DEF Drafts, Session
        <4>3. QED
          BY <4>1, <4>2
      <3>9. QED
        BY <2>1, <3>1, <3>7, <3>8 DEF r
    <2>14. QED
      BY <2>12, <2>13
  <1>9. QED
    BY <1>7, <1>8

\* A fault the window reports is shown, or starts or joins a renewal.
LEMMA HostFaultForm ==
    ASSUME NEW d, NEW u \in BOOLEAN, Sound(d, u), NEW kind \in HostFaults,
           Load(d.s) < MaxPending \/ d.s.cancelRenewTimer # NoTimer \/ d.s.renewing
    PROVE  LET r == HostFault(d, kind) IN
           Sound(r, u) /\ r.s.disposed = d.s.disposed
  <1> DEFINE r == HostFault(d, kind)
  <1>1. CASE kind = "session-lost" /\ IsRenewable(d)
    <2> DEFINE w == Renew(d)
    <2>1. r = w
      BY <1>1 DEF HostFault
    <2>2. Base(w) /\ Driven(w.s) /\ (Up(w.s) => Scheduled(w.s)) /\ w.s.disposed = d.s.disposed
      BY RenewForm DEF Sound
    <2> HIDE DEF w, r
    <2>3. Sound(w, u)
      BY <2>2 DEF Sound
    <2>4. QED
      BY <2>1, <2>2, <2>3 DEF r
  <1>2. CASE ~(kind = "session-lost" /\ IsRenewable(d))
    <2> DEFINE w == Raise(d, kind)
    <2>1. r = w
      BY <1>2 DEF HostFault
    <2>2. w \in Drafts /\ w.s = d.s /\ w.out = d.out
      BY RaiseForm DEF Sound, Base, Tolds, HostFaults
    <2> HIDE DEF w, r
    <2>3. Sound(w, u)
      BY <2>2 DEF Sound, Base
    <2>4. QED
      BY <2>1, <2>2, <2>3 DEF r
  <1>3. QED
    BY <1>1, <1>2

-----------------------------------------------------------------------------
(* The steps of the session *)

LEMMA TypeForm ==
    TypeOK <=> /\ v \in Session
               /\ told \in Tolds
               /\ h \in Hosts
               /\ toHost \in Seq(Directive)
               /\ toMain \in Seq(Update)
               /\ played \in 0 .. MaxMatch
               /\ playing \in BOOLEAN
               /\ raced \in BOOLEAN
               /\ informed \in BOOLEAN
  BY DEF TypeOK, Session, Tolds, Hosts

LEMMA TypeNext ==
    TypeOK' <=> /\ v' \in Session
                /\ told' \in Tolds
                /\ h' \in Hosts
                /\ toHost' \in Seq(Directive)
                /\ toMain' \in Seq(Update)
                /\ played' \in 0 .. MaxMatch
                /\ playing' \in BOOLEAN
                /\ raced' \in BOOLEAN
                /\ informed' \in BOOLEAN
  BY DEF TypeOK, Session, Tolds, Hosts

LEMMA InitInvariant == Init => IInv
  <1> SUFFICES ASSUME Init PROVE IInv
    OBVIOUS
  <1> DEFINE d == DraftOf(v)
  <1>1. /\ MaxMatch \in Nat \ {0}
        /\ Backoffs \in Nat
        /\ MaxPending \in Nat \ {0}
    BY MatchAssumption, SessionAssumption
  <1>2. PICK hasKey \in BOOLEAN : SessionInit(hasKey)
    BY DEF Init
  <1>3. v = [hasKey           |-> hasKey,
             window           |-> "none",
             ready            |-> FALSE,
             queued           |-> <<>>,
             state            |-> "idle",
             disposed         |-> FALSE,
             openInstructions |-> None,
             renewing         |-> FALSE,
             renewAttempt     |-> 0,
             cancelRenewTimer |-> NoTimer,
             timers           |-> {},
             mints            |-> {}]
    BY <1>2 DEF SessionInit
  <1>4. <<>> \in Seq(Directive) /\ <<>> \in Seq(Update)
    OBVIOUS
  <1>5. v \in Session
    BY <1>1, <1>3, <1>4 DEF Session, SessionStates, NoTimer
  <1>6. told \in Tolds
    BY <1>2 DEF SessionInit, Tolds
  <1>7. h \in Hosts
    BY DEF Init, HostInit, Hosts, HostPhases
  <1>8. TypeOK
    <2>1. toHost \in Seq(Directive) /\ toMain \in Seq(Update)
      BY <1>4 DEF Init
    <2>2. playing \in BOOLEAN /\ raced \in BOOLEAN /\ informed \in BOOLEAN
      BY Zenon DEF Init
    <2>3. played = 0
      BY DEF Init
    <2>4. played \in 0 .. MaxMatch
      BY <1>1, <2>3
    <2>5. QED
      BY <1>5, <1>6, <1>7, <2>1, <2>2, <2>4, TypeForm
  <1>9. /\ d.s = v
        /\ d \in Drafts
    BY <1>4, <1>5 DEF DraftOf, Drafts, Tolds
  <1>10. Roomy(v)
    BY <1>1, <1>3, FS_EmptySet DEF Roomy, Load
  <1>11. Armed(v) /\ Keyed(v) /\ Ended(v) /\ Driven(v) /\ ~Up(v)
    BY <1>3 DEF Armed, Keyed, Ended, Driven, Up
  <1> HIDE DEF d
  <1>12. Sound(d, Owed)
    BY <1>9, <1>10, <1>11 DEF Sound, Base
  <1>13. Silenced
    BY <1>3 DEF Silenced
  <1>14. QED
    BY <1>8, <1>12, <1>13 DEF IInv, d

\* A draft that is written back leaves the link as it must be.
LEMMA WriteBack ==
    ASSUME IInv, NEW d, NEW u \in BOOLEAN, Sound(d, u), d.s.disposed = v.disposed,
           v' = d.s, told' = d.told, toHost' = toHost \o d.out, h' = h,
           u => h.phase \in {"closing", "device", "call"} \/ Has(toHost, "open") \/ Has(toMain', "state"),
           v.disposed => toMain' = <<>>
    PROVE  /\ Sound(DraftOf(v'), Owed')
           /\ Silenced'
           /\ v' \in Session
           /\ told' \in Tolds
           /\ toHost' \in Seq(Directive)
  <1> DEFINE w == DraftOf(v')
  <1>1. /\ d \in Drafts
        /\ Roomy(d.s)
        /\ Armed(d.s)
        /\ Keyed(d.s)
        /\ Ended(d.s)
        /\ Driven(d.s)
    BY DEF Sound, Base
  <1>2. d.s \in Session /\ d.out \in Seq(Directive) /\ d.told \in Tolds
    BY <1>1 DEF Drafts
  <1>3. toHost \in Seq(Directive)
    BY TypeForm DEF IInv
  <1>4. /\ toHost' \in Seq(Directive)
        /\ Has(toHost, "open") => Has(toHost', "open")
        /\ Has(d.out, "open") => Has(toHost', "open")
    BY <1>2, <1>3, HasConcat
  <1>5. w.s = d.s /\ w \in Drafts
    <2>1. <<>> \in Seq(Directive)
      OBVIOUS
    <2>2. QED
      BY <1>2, <2>1 DEF DraftOf, Drafts, Tolds
  <1> HIDE DEF w
  <1>6. Base(w) /\ Driven(w.s)
    BY <1>1, <1>5 DEF Base
  <1>7. u \/ Has(d.out, "open") => Owed'
    BY <1>4 DEF Owed
  <1>8. Up(w.s) => Scheduled(w.s) \/ Has(w.s.queued, "open") \/ Owed'
    BY <1>5, <1>7 DEF Sound
  <1>9. Sound(w, Owed')
    BY <1>6, <1>8 DEF Sound
  <1>10. Silenced'
    BY DEF IInv, Silenced
  <1>11. QED
    BY <1>2, <1>4, <1>9, <1>10 DEF w

LEMMA Present ==
    ASSUME IInv
    PROVE  /\ Sound(Draft, Owed)
           /\ Owed \in BOOLEAN
           /\ Draft.s = v
           /\ Draft.out = <<>>
           /\ v \in Session
           /\ HasRoom <=> Load(Draft.s) < MaxPending
  <1>1. Sound(Draft, Owed)
    BY DEF IInv, Draft
  <1>2. Draft.s = v /\ Draft.out = <<>>
    BY DEF Draft, DraftOf
  <1>3. Owed \in BOOLEAN
    BY DEF Owed
  <1>4. v \in Session
    BY TypeForm DEF IInv
  <1>5. QED
    BY <1>1, <1>2, <1>3, <1>4 DEF HasRoom, Load

LEMMA MatchStartsKeeps == IInv /\ MatchStarts => IInv'
  <1> SUFFICES ASSUME IInv, MatchStarts PROVE IInv'
    OBVIOUS
  <1> DEFINE m == played + 1
  <1>1. /\ Sound(Draft, Owed)
        /\ Draft.s = v
        /\ v \in Session
        /\ HasRoom <=> Load(Draft.s) < MaxPending
    BY Present
  <1>2. /\ m \in Matches
        /\ m \in 0 .. MaxMatch
        /\ played' = m
    <2>1. played \in 0 .. MaxMatch /\ played < MaxMatch /\ MaxMatch \in Nat
      BY TypeForm, MatchAssumption DEF IInv, MatchStarts
    <2>2. QED
      BY <2>1 DEF Matches, MatchStarts
  <1>3. /\ playing' \in BOOLEAN
        /\ raced' \in BOOLEAN
        /\ informed' \in BOOLEAN
        /\ h' = h
    BY TypeForm DEF MatchStarts, IInv, Unreachable
  <1>4. PICK r \in {Open(Draft, m), Open(Close(Draft), m)} : HasRoom /\ Step(r)
    BY <1>2 DEF MatchStarts, OpenMatch, ReopenMatch
  <1> HIDE DEF m
  <1> DEFINE c == Close(Draft)
  <1>5. Base(Draft) /\ Driven(Draft.s) /\ Load(Draft.s) < MaxPending
    BY <1>1, <1>4 DEF Sound
  <1>6. /\ Base(c)
        /\ Driven(c.s)
        /\ Load(c.s) < MaxPending
        /\ c.s.disposed = v.disposed
    <2>1. /\ c \in Drafts
          /\ Roomy(c.s)
          /\ Load(c.s) <= Load(Draft.s)
          /\ Armed(c.s)
          /\ Keyed(c.s)
          /\ Driven(c.s)
          /\ c.s.renewing = FALSE
          /\ c.s.state = "idle"
          /\ c.s.openInstructions = None
          /\ c.s.window = Draft.s.window
          /\ c.s.disposed = Draft.s.disposed
      BY <1>5, CloseForm DEF Base
    <2> HIDE DEF c
    <2>2. Ended(c.s)
      BY <1>5, <2>1 DEF Base, Ended
    <2>3. Load(c.s) < MaxPending
      <3>1. Load(c.s) \in Int /\ Load(Draft.s) \in Int /\ MaxPending \in Int
        BY <1>5, <2>1, FS_CardinalityType, SessionAssumption DEF Base, Roomy, Load
      <3>2. QED
        BY <1>5, <2>1, <3>1
    <2>4. QED
      BY <1>1, <2>1, <2>2, <2>3 DEF Base
  <1>7. Base(r) /\ Driven(r.s) /\ ~Up(r.s) /\ r.s.disposed = v.disposed
    <2>1. CASE r = Open(Draft, m)
      BY <1>1, <1>2, <1>5, <2>1, OpenForm
    <2>2. CASE r = Open(c, m)
      <3> HIDE DEF c
      <3>1. QED
        BY <1>2, <1>6, <2>2, OpenForm
    <2>3. QED
      BY <1>4, <2>1, <2>2
  <1>8. Sound(r, FALSE)
    BY <1>7 DEF Sound
  <1>9. /\ v' = r.s
        /\ told' = r.told
        /\ toHost' = toHost \o r.out
        /\ toMain' = toMain
    BY <1>4 DEF Step
  <1>10. v.disposed => toMain' = <<>>
    BY <1>9 DEF IInv, Silenced
  <1>11. /\ Sound(DraftOf(v'), Owed')
         /\ Silenced'
         /\ v' \in Session
         /\ told' \in Tolds
         /\ toHost' \in Seq(Directive)
    BY <1>3, <1>7, <1>8, <1>9, <1>10, WriteBack
  <1>12. toMain' \in Seq(Update) /\ h' \in Hosts
    BY <1>3, <1>9, TypeForm DEF IInv
  <1>13. TypeOK'
    BY <1>2, <1>3, <1>11, <1>12, TypeNext
  <1>14. QED
    BY <1>11, <1>13 DEF IInv

LEMMA MatchEndsKeeps == IInv /\ MatchEnds => IInv'
  <1> SUFFICES ASSUME IInv, MatchEnds PROVE IInv'
    OBVIOUS
  <1> DEFINE r == Close(Draft)
  <1>1. /\ Base(Draft)
        /\ Draft.s = v
    BY Present DEF Sound
  <1>2. /\ v' = r.s
        /\ told' = r.told
        /\ toHost' = toHost \o r.out
        /\ toMain' = toMain
        /\ h' = h
    BY DEF MatchEnds, CloseMatch, Step
  <1>3. /\ played' \in 0 .. MaxMatch
        /\ playing' \in BOOLEAN
        /\ raced' \in BOOLEAN
        /\ informed' \in BOOLEAN
        /\ toMain' \in Seq(Update)
        /\ h' \in Hosts
    BY <1>2, TypeForm DEF MatchEnds, IInv, Unreachable
  <1>4. /\ r \in Drafts
        /\ Roomy(r.s)
        /\ Armed(r.s)
        /\ Keyed(r.s)
        /\ Driven(r.s)
        /\ r.s.renewing = FALSE
        /\ r.s.state = "idle"
        /\ r.s.openInstructions = None
        /\ r.s.window = Draft.s.window
        /\ r.s.disposed = Draft.s.disposed
    BY <1>1, CloseForm DEF Base
  <1> HIDE DEF r
  <1>5. Ended(r.s) /\ ~Up(r.s)
    BY <1>1, <1>4 DEF Base, Ended, Up
  <1>6. Sound(r, FALSE)
    BY <1>4, <1>5 DEF Sound, Base
  <1>7. v.disposed => toMain' = <<>>
    BY <1>2 DEF IInv, Silenced
  <1>8. /\ Sound(DraftOf(v'), Owed')
        /\ Silenced'
        /\ v' \in Session
        /\ told' \in Tolds
        /\ toHost' \in Seq(Directive)
    BY <1>1, <1>2, <1>4, <1>6, <1>7, WriteBack
  <1>9. TypeOK'
    BY <1>3, <1>8, TypeNext
  <1>10. QED
    BY <1>8, <1>9 DEF IInv

\* A mint or a timer goes on with the draft, and the window does nothing.
LEMMA StepKeeps ==
    ASSUME IInv, NEW r, Sound(r, Owed), r.s.disposed = v.disposed, Step(r), Observed,
           UNCHANGED <<h, played, playing, raced>>
    PROVE  IInv'
  <1>1. /\ v' = r.s
        /\ told' = r.told
        /\ toHost' = toHost \o r.out
        /\ toMain' = toMain
        /\ h' = h
    BY DEF Step
  <1>2. /\ played' \in 0 .. MaxMatch
        /\ playing' \in BOOLEAN
        /\ raced' \in BOOLEAN
        /\ informed' \in BOOLEAN
        /\ toMain' \in Seq(Update)
        /\ h' \in Hosts
    BY <1>1, TypeForm DEF IInv, Observed
  <1>3. v.disposed => toMain' = <<>>
    BY <1>1 DEF IInv, Silenced
  <1>4. Owed => h.phase \in {"closing", "device", "call"} \/ Has(toHost, "open") \/ Has(toMain', "state")
    BY <1>1 DEF Owed
  <1>5. Owed \in BOOLEAN
    BY Present
  <1> DEFINE u == Owed
  <1>6. u \in BOOLEAN /\ Sound(r, u)
    BY <1>5
  <1>7. u => h.phase \in {"closing", "device", "call"} \/ Has(toHost, "open") \/ Has(toMain', "state")
    BY <1>4
  <1> HIDE DEF u
  <1>8. /\ Sound(DraftOf(v'), Owed')
        /\ Silenced'
        /\ v' \in Session
        /\ told' \in Tolds
        /\ toHost' \in Seq(Directive)
    BY <1>1, <1>3, <1>6, <1>7, WriteBack
  <1>9. TypeOK'
    BY <1>2, <1>8, TypeNext
  <1>10. QED
    BY <1>8, <1>9 DEF IInv

LEMMA MintStepKeeps == IInv /\ MintStep => IInv'
  <1> SUFFICES ASSUME IInv, MintStep PROVE IInv'
    OBVIOUS
  <1>1. PICK mint \in v.mints, outcome \in {"secret", "refused", "forbidden"} :
            MintResolves(mint, outcome)
    BY DEF MintStep
  <1> DEFINE r == Continue(Draft, mint, outcome)
  <1>2. Sound(Draft, Owed) /\ Owed \in BOOLEAN /\ Draft.s = v
    BY Present
  <1>3. Sound(r, Owed) /\ r.s.disposed = v.disposed
    BY <1>2, ContinueForm
  <1>4. Step(r) /\ Observed /\ UNCHANGED <<h, played, playing, raced>>
    BY <1>1 DEF MintStep, MintResolves
  <1> HIDE DEF r
  <1>5. QED
    BY <1>3, <1>4, StepKeeps

LEMMA TimerStepKeeps == IInv /\ TimerStep => IInv'
  <1> SUFFICES ASSUME IInv, TimerStep PROVE IInv'
    OBVIOUS
  <1>1. PICK timer \in v.timers : Fire(timer)
    BY DEF TimerStep
  <1> DEFINE r == Fired(Draft, timer)
  <1>2. Sound(Draft, Owed) /\ Owed \in BOOLEAN /\ Draft.s = v
    BY Present
  <1>3. Sound(r, Owed) /\ r.s.disposed = v.disposed
    BY <1>2, FiredForm
  <1>4. Step(r) /\ Observed /\ UNCHANGED <<h, played, playing, raced>>
    BY <1>1 DEF TimerStep, Fire
  <1> HIDE DEF r
  <1>5. QED
    BY <1>3, <1>4, StepKeeps

\* An update of the window: the state it reports is what it owed.
LEMMA ReceiveStepKeeps == IInv /\ ReceiveStep => IInv'
  <1> SUFFICES ASSUME IInv, ReceiveStep PROVE IInv'
    OBVIOUS
  <1> DEFINE update == Head(toMain)
  <1> DEFINE r == OnUpdate(Draft, update)
  <1>1. /\ Sound(Draft, Owed)
        /\ Owed \in BOOLEAN
        /\ Draft.s = v
        /\ v \in Session
        /\ HasRoom <=> Load(Draft.s) < MaxPending
    BY Present
  <1>2. /\ toMain # <<>>
        /\ toMain' = Tail(toMain)
        /\ v' = r.s
        /\ told' = r.told
        /\ toHost' = toHost \o r.out
        /\ h' = h
        /\ \/ HasRoom
           \/ v.cancelRenewTimer # NoTimer
           \/ update.type = "fault" /\ v.renewing
    BY DEF ReceiveStep, Receive
  <1>3. toMain \in Seq(Update)
    BY TypeForm DEF IInv
  <1>4. update \in Update /\ Tail(toMain) \in Seq(Update)
    BY <1>2, <1>3
  <1>5. ~v.disposed
    BY <1>2 DEF IInv, Silenced
  <1> DEFINE u == Owed /\ update.type # "state"
  <1>6. u => h.phase \in {"closing", "device", "call"} \/ Has(toHost, "open") \/ Has(toMain', "state")
    BY <1>2, <1>3, HasTail DEF Owed
  <1>7. /\ update.type = "ready" => r = WindowReady(Draft)
        /\ update.type = "state" => r = HostState(Draft, update.value)
        /\ update.type = "fault" => r = HostFault(Draft, update.value)
    BY DEF OnUpdate
  <1>8. \/ update.type = "ready"
        \/ update.type = "state" /\ update.value \in SessionStates
        \/ update.type = "fault" /\ update.value \in HostFaults
    BY <1>4 DEF Update, ReadyUpdate, StateUpdate, FaultUpdate
  <1> HIDE DEF r
  <1>9. Sound(r, u) /\ r.s.disposed = v.disposed
    <2>1. CASE update.type = "ready"
      <3> DEFINE w == WindowReady(Draft)
      <3>1. Sound(w, Owed) /\ w.s.disposed = v.disposed
        BY <1>1, WindowReadyForm
      <3>2. u <=> Owed
        BY <2>1
      <3> HIDE DEF w, u
      <3>3. Sound(w, u)
        BY <3>1, <3>2 DEF Sound
      <3>4. r = w
        BY <1>7, <2>1 DEF w
      <3>5. QED
        BY <3>1, <3>3, <3>4
    <2>2. CASE update.type = "state" /\ update.value \in SessionStates
      <3> DEFINE w == HostState(Draft, update.value)
      <3>1. Sound(w, FALSE) /\ w.s.disposed = v.disposed
        BY <1>1, <1>2, <1>5, <2>2, HostStateForm
      <3>2. r = w
        BY <1>7, <2>2
      <3> HIDE DEF w
      <3>3. Sound(w, u)
        BY <3>1 DEF Sound
      <3>4. QED
        BY <3>1, <3>2, <3>3
    <2>3. CASE update.type = "fault" /\ update.value \in HostFaults
      <3> DEFINE w == HostFault(Draft, update.value)
      <3>1. Sound(w, Owed) /\ w.s.disposed = v.disposed
        BY <1>1, <1>2, <2>3, HostFaultForm
      <3>2. u <=> Owed
        BY <2>3
      <3> HIDE DEF w, u
      <3>3. Sound(w, u)
        BY <3>1, <3>2 DEF Sound
      <3>4. r = w
        BY <1>7, <2>3 DEF w
      <3>5. QED
        BY <3>1, <3>3, <3>4
    <2>4. QED
      BY <1>8, <2>1, <2>2, <2>3
  <1>10. u \in BOOLEAN
    BY <1>1
  <1>11. /\ played' \in 0 .. MaxMatch
         /\ playing' \in BOOLEAN
         /\ raced' \in BOOLEAN
         /\ informed' \in BOOLEAN
         /\ toMain' \in Seq(Update)
         /\ h' \in Hosts
    BY <1>2, <1>4, TypeForm DEF IInv, ReceiveStep, Observed
  <1>12. v.disposed => toMain' = <<>>
    BY <1>5
  <1> HIDE DEF u
  <1>13. /\ Sound(DraftOf(v'), Owed')
         /\ Silenced'
         /\ v' \in Session
         /\ told' \in Tolds
         /\ toHost' \in Seq(Directive)
    BY <1>2, <1>6, <1>9, <1>10, <1>12, WriteBack
  <1>14. TypeOK'
    BY <1>11, <1>13, TypeNext
  <1>15. QED
    BY <1>13, <1>14 DEF IInv

-----------------------------------------------------------------------------
(* The steps of the window *)

\* The window reports, the session stays as it is, and what is owed stays so.
LEMMA WindowKeeps ==
    ASSUME IInv, WindowUnchanged, ~v.disposed, h' \in Hosts,
           toHost' \in Seq(Directive), toMain' \in Seq(Update), Owed => Owed'
    PROVE  IInv'
  <1>1. v' = v /\ UNCHANGED <<played, playing, raced, informed>> /\ told' = Nothing
    BY DEF WindowUnchanged
  <1>2. TypeOK'
    BY <1>1, TypeForm, TypeNext DEF IInv, Tolds
  <1>3. Silenced'
    BY <1>1 DEF Silenced
  <1>4. Sound(DraftOf(v), Owed)
    BY DEF IInv
  <1>5. Sound(DraftOf(v), Owed')
    BY <1>4 DEF Sound
  <1>6. Sound(DraftOf(v'), Owed')
    BY <1>1, <1>5
  <1>7. QED
    BY <1>2, <1>3, <1>6 DEF IInv

LEMMA Reports ==
    ASSUME toMain \in Seq(Update), NEW updates \in Seq(Update), Report(updates)
    PROVE  /\ toMain' \in Seq(Update)
           /\ Has(toMain, "state") => Has(toMain', "state")
           /\ Has(updates, "state") => Has(toMain', "state")
  BY HasConcat DEF Report

LEMMA UpdatesAreTyped ==
    /\ ReadyUpdate \in Update
    /\ \A state \in SessionStates : StateUpdate(state) \in Update
    /\ \A fault \in HostFaults : FaultUpdate(fault) \in Update
  BY DEF Update

\* Whatever the handler of a directive awaits, an open ends in a state.
LEMMA HostOwes ==
    ASSUME IInv, HostNext
    PROVE  /\ h' \in Hosts
           /\ toHost' \in Seq(Directive)
           /\ toMain' \in Seq(Update)
           /\ Owed => Owed'
  <1>1. h \in Hosts /\ toHost \in Seq(Directive) /\ toMain \in Seq(Update)
    BY TypeForm DEF IInv
  <1>3. CloseLive(h) \in Hosts /\ CloseLive(h).phase = h.phase
    BY <1>1 DEF CloseLive, Hosts, None
  <1>4. CASE TakeOpen
    <2>1. Head(toHost) \in Directive /\ toHost' \in Seq(Directive)
      BY <1>1, <1>4 DEF TakeOpen
    <2>2. Head(toHost).match \in Matches \cup {None}
      BY <2>1 DEF Directive, OpenDirective, CloseDirective
    <2>3. CASE h.live = None
      <3> DEFINE sent == <<StateUpdate("connecting")>>
      <3>1. sent \in Seq(Update)
        BY UpdatesAreTyped DEF SessionStates
      <3>2. Report(sent) /\ h' = [h EXCEPT !.phase = "device", !.opening = Head(toHost).match]
        BY <1>4, <2>3 DEF TakeOpen
      <3> HIDE DEF sent
      <3>3. toMain' \in Seq(Update)
        BY <1>1, <3>1, <3>2, Reports
      <3>4. h' \in Hosts /\ h'.phase = "device"
        BY <1>1, <2>2, <3>2 DEF Hosts, HostPhases
      <3>5. QED
        BY <2>1, <3>3, <3>4 DEF Owed
    <2>4. CASE h.live # None
      <3>1. /\ h' = [CloseLive(h) EXCEPT !.phase = "closing", !.opening = Head(toHost).match]
            /\ toMain' = toMain
        BY <1>4, <2>4 DEF TakeOpen
      <3>2. h' \in Hosts /\ h'.phase = "closing"
        BY <1>3, <2>2, <3>1 DEF Hosts, HostPhases
      <3>3. QED
        BY <1>1, <2>1, <3>1, <3>2 DEF Owed
    <2>5. QED
      BY <2>3, <2>4
  <1>5. CASE TakeClose
    <2>1. /\ toHost # <<>> /\ Head(toHost).type = "close"
          /\ toHost' = Tail(toHost)
          /\ toMain' = toMain
          /\ h' = IF h.live = None THEN h ELSE [CloseLive(h) EXCEPT !.phase = "closing"]
      BY <1>5 DEF TakeClose
    <2>2. h' \in Hosts /\ (h' = h \/ h'.phase = "closing")
      BY <1>1, <1>3, <2>1 DEF Hosts, HostPhases
    <2>3. toHost' \in Seq(Directive)
      BY <1>1, <2>1
    <2>4. Has(toHost, "open") => Has(toHost', "open")
      BY <1>1, <2>1, HasTail
    <2>5. QED
      BY <1>1, <2>1, <2>2, <2>3, <2>4 DEF Owed
  <1>6. CASE DeviceOpens
    <2>1. h' \in Hosts /\ h'.phase = "call"
      BY <1>1, <1>6 DEF DeviceOpens, Hosts, HostPhases
    <2>2. QED
      BY <1>1, <1>6, <2>1 DEF DeviceOpens, Owed
  <1>7. ASSUME NEW fault \in HostFaults, Fails(fault, h)
        PROVE  h' \in Hosts /\ toHost' = toHost /\ toMain' \in Seq(Update) /\ Owed'
    <2> DEFINE state == IF fault = "session-lost" THEN "degraded" ELSE "unavailable"
    <2> DEFINE sent == <<FaultUpdate(fault), StateUpdate(state)>>
    <2>1. state \in SessionStates
      BY DEF SessionStates
    <2>2. Report(sent)
      BY <1>7 DEF Fails
    <2>3. sent \in Seq(Update) /\ Len(sent) = 2 /\ sent[2] = StateUpdate(state)
      <3>1. FaultUpdate(fault) \in Update /\ StateUpdate(state) \in Update
        BY <2>1, UpdatesAreTyped
      <3>2. QED
        BY <3>1
    <2> HIDE DEF sent, state
    <2>4. Has(sent, "state")
      BY <2>3 DEF Has, StateUpdate
    <2>5. toMain' \in Seq(Update) /\ Has(toMain', "state")
      BY <1>1, <2>2, <2>3, <2>4, Reports
    <2>6. h' \in Hosts
      BY <1>1, <1>7 DEF Fails, Settled, Hosts, HostPhases, None
    <2>7. QED
      BY <1>7, <2>5, <2>6 DEF Fails, Owed
  <1>8. CASE DeviceRefused
    <2>1. Fails("device", h)
      BY <1>8 DEF DeviceRefused
    <2>2. QED
      BY <1>1, <1>7, <2>1 DEF HostFaults
  <1>9. CASE CallFails
    <2>1. Fails("session-lost", h)
      BY <1>9 DEF CallFails
    <2>2. QED
      BY <1>1, <1>7, <2>1 DEF HostFaults
  <1>10. CASE ChannelOpens
    <2> DEFINE sent == <<StateUpdate("ready")>>
    <2>1. Report(sent)
      BY <1>10 DEF ChannelOpens
    <2>2. sent \in Seq(Update) /\ Len(sent) = 1 /\ sent[1] = StateUpdate("ready")
      BY UpdatesAreTyped DEF SessionStates
    <2> HIDE DEF sent
    <2>3. Has(sent, "state")
      BY <2>2 DEF Has, StateUpdate
    <2>4. toMain' \in Seq(Update) /\ Has(toMain', "state")
      BY <1>1, <2>1, <2>2, <2>3, Reports
    <2>5. h' \in Hosts
      BY <1>1, <1>10 DEF ChannelOpens, Settled, Hosts, HostPhases, None
    <2>6. QED
      BY <1>1, <1>10, <2>4, <2>5 DEF ChannelOpens, Owed
  <1>11. CASE Closes
    <2>1. StateUpdate("idle") \in Update /\ StateUpdate("connecting") \in Update
      BY UpdatesAreTyped DEF SessionStates
    <2>2. CASE h.opening = None
      <3> DEFINE sent == <<StateUpdate("idle")>>
      <3>1. Report(sent) /\ h' = Settled(h) /\ toHost' = toHost
        BY <1>11, <2>2 DEF Closes
      <3>2. sent \in Seq(Update) /\ Len(sent) = 1 /\ sent[1] = StateUpdate("idle")
        BY <2>1
      <3> HIDE DEF sent
      <3>3. Has(sent, "state")
        BY <3>2 DEF Has, StateUpdate
      <3>4. toMain' \in Seq(Update) /\ Has(toMain', "state")
        BY <1>1, <3>1, <3>2, <3>3, Reports
      <3>5. h' \in Hosts
        BY <1>1, <3>1 DEF Settled, Hosts, HostPhases, None
      <3>6. QED
        BY <1>1, <3>1, <3>4, <3>5 DEF Owed
    <2>3. CASE h.opening # None
      <3> DEFINE sent == <<StateUpdate("idle"), StateUpdate("connecting")>>
      <3>1. Report(sent) /\ h' = [h EXCEPT !.phase = "device"] /\ toHost' = toHost
        BY <1>11, <2>3 DEF Closes
      <3>2. sent \in Seq(Update)
        BY <2>1
      <3> HIDE DEF sent
      <3>3. toMain' \in Seq(Update)
        BY <1>1, <3>1, <3>2, Reports
      <3>4. h' \in Hosts /\ h'.phase = "device"
        BY <1>1, <3>1 DEF Hosts, HostPhases
      <3>5. QED
        BY <1>1, <3>1, <3>3, <3>4 DEF Owed
    <2>4. QED
      BY <2>2, <2>3
  <1>12. CASE CloseFails
    <2>1. Fails("session-lost", h)
      BY <1>12 DEF CloseFails
    <2>2. QED
      BY <1>1, <1>7, <2>1 DEF HostFaults
  <1>13. QED
    BY <1>4, <1>5, <1>6, <1>8, <1>9, <1>10, <1>11, <1>12 DEF HostNext

LEMMA WindowStepKeeps == IInv /\ WindowStep => IInv'
  <1> SUFFICES ASSUME IInv, WindowStep PROVE IInv'
    OBVIOUS
  <1>1. h \in Hosts /\ toHost \in Seq(Directive) /\ toMain \in Seq(Update) /\ v \in Session
    BY TypeForm DEF IInv
  <1>2. CASE v.window = "open" /\ StartHost
    <2> DEFINE sent == <<ReadyUpdate>>
    <2>1. Report(sent) /\ h.phase = "absent" /\ h' = [h EXCEPT !.phase = "idle"] /\ toHost' = toHost
      BY <1>2 DEF StartHost
    <2>2. sent \in Seq(Update)
      BY UpdatesAreTyped
    <2> HIDE DEF sent
    <2>3. toMain' \in Seq(Update) /\ (Has(toMain, "state") => Has(toMain', "state"))
      BY <1>1, <2>1, <2>2, Reports
    <2>4. h' \in Hosts
      BY <1>1, <2>1 DEF Hosts, HostPhases
    <2>5. Owed => Owed'
      BY <2>1, <2>3 DEF Owed
    <2>6. ~v.disposed
      <3>1. Ended(Draft.s) /\ Draft.s = v
        BY Present DEF Sound, Base
      <3>2. QED
        BY <1>2, <3>1 DEF Ended
    <2>7. QED
      BY <1>1, <2>1, <2>3, <2>4, <2>5, <2>6, WindowKeeps DEF WindowStep
  <1>3. CASE HostNext
    <2>1. h.phase # "absent"
      BY <1>3 DEF HostNext, TakeOpen, TakeClose, Closes, CloseFails, DeviceOpens,
                  DeviceRefused, CallFails, ChannelOpens
    <2>2. ~v.disposed
      BY <2>1 DEF IInv, Silenced
    <2>3. QED
      BY <1>3, <2>2, HostOwes, WindowKeeps DEF WindowStep
  <1>4. QED
    BY <1>2, <1>3 DEF WindowStep

LEMMA SessionLostKeeps == IInv /\ SessionLost => IInv'
  <1> SUFFICES ASSUME IInv, SessionLost PROVE IInv'
    OBVIOUS
  <1> DEFINE sent == <<FaultUpdate("session-lost")>>
  <1>1. h \in Hosts /\ toHost \in Seq(Directive) /\ toMain \in Seq(Update)
    BY TypeForm DEF IInv
  <1>2. /\ Report(sent)
        /\ h.live # None
        /\ h' = [h EXCEPT !.lost = TRUE]
        /\ toHost' = toHost
    BY DEF SessionLost, LoseSession
  <1>3. sent \in Seq(Update)
    BY UpdatesAreTyped DEF HostFaults
  <1> HIDE DEF sent
  <1>4. toMain' \in Seq(Update) /\ (Has(toMain, "state") => Has(toMain', "state"))
    BY <1>1, <1>2, <1>3, Reports
  <1>5. h' \in Hosts /\ h'.phase = h.phase
    BY <1>1, <1>2 DEF Hosts
  <1>6. Owed => Owed'
    BY <1>2, <1>4, <1>5 DEF Owed
  <1>7. ~v.disposed
    BY <1>2 DEF IInv, Silenced
  <1>8. QED
    BY <1>1, <1>2, <1>4, <1>5, <1>6, <1>7, WindowKeeps DEF SessionLost

LEMMA ConnectionFailsKeeps == IInv /\ ConnectionFails => IInv'
  <1> SUFFICES ASSUME IInv, ConnectionFails PROVE IInv'
    OBVIOUS
  <1>1. h \in Hosts /\ toHost \in Seq(Directive) /\ toMain \in Seq(Update)
    BY TypeForm DEF IInv
  <1>2. /\ h.phase = "call"
        /\ h' = [h EXCEPT !.failed = TRUE]
        /\ toHost' = toHost
        /\ toMain' = toMain
    BY DEF ConnectionFails, PeerFails
  <1>3. h' \in Hosts /\ h'.phase = h.phase
    BY <1>1, <1>2 DEF Hosts
  <1>4. Owed => Owed'
    BY <1>2, <1>3 DEF Owed
  <1>5. ~v.disposed
    BY <1>2 DEF IInv, Silenced
  <1>6. QED
    BY <1>1, <1>2, <1>3, <1>4, <1>5, WindowKeeps DEF ConnectionFails

LEMMA QuitsKeeps == IInv /\ Quits => IInv'
  <1> SUFFICES ASSUME IInv, Quits PROVE IInv'
    OBVIOUS
  <1> DEFINE r == DisposeSession(Draft)
  <1> DEFINE w == DraftOf(v')
  <1>1. /\ Sound(Draft, Owed)
        /\ Draft.s = v
    BY Present
  <1>2. /\ ~v.disposed
        /\ v' = r.s
        /\ told' = Nothing
        /\ toHost' = <<>>
        /\ toMain' = <<>>
        /\ h' = [h EXCEPT !.phase = "absent", !.opening = None, !.live = None,
                          !.lost = FALSE, !.failed = FALSE]
        /\ UNCHANGED <<played, playing, raced, informed>>
    BY DEF Quits, Dispose
  <1>3. Base(r) /\ Driven(r.s) /\ ~Up(r.s)
    BY <1>1, <1>2, DisposeForm DEF Sound
  <1> HIDE DEF r
  <1>4. r.s \in Session
    BY <1>3 DEF Base, Drafts
  <1>5. <<>> \in Seq(Directive) /\ <<>> \in Seq(Update)
    OBVIOUS
  <1>6. w.s = r.s /\ w \in Drafts
    BY <1>2, <1>4, <1>5 DEF DraftOf, Drafts, Tolds
  <1> HIDE DEF w
  <1>7. Sound(w, Owed')
    BY <1>3, <1>6 DEF Sound, Base
  <1>8. h \in Hosts
    BY TypeForm DEF IInv
  <1>9. h' \in Hosts /\ h'.phase = "absent" /\ h'.live = None
    BY <1>2, <1>8 DEF Hosts, HostPhases, None
  <1>10. Silenced'
    BY <1>2, <1>9 DEF Silenced
  <1>11. TypeOK'
    BY <1>2, <1>4, <1>5, <1>9, TypeForm, TypeNext DEF IInv, Tolds
  <1>12. QED
    BY <1>7, <1>10, <1>11 DEF IInv, w

-----------------------------------------------------------------------------
(* The theorems *)

LEMMA StutterKeeps == IInv /\ UNCHANGED linkVars => IInv'
  <1> SUFFICES ASSUME IInv, UNCHANGED linkVars PROVE IInv'
    OBVIOUS
  <1>1. /\ v' = v /\ told' = told /\ h' = h /\ toHost' = toHost /\ toMain' = toMain
        /\ played' = played /\ playing' = playing /\ raced' = raced /\ informed' = informed
    BY DEF linkVars
  <1>2. TypeOK'
    BY <1>1, TypeForm, TypeNext DEF IInv
  <1>3. Owed' <=> Owed
    BY <1>1 DEF Owed
  <1>4. Silenced'
    BY <1>1 DEF IInv, Silenced
  <1>5. Sound(DraftOf(v), Owed')
    BY <1>3 DEF IInv, Sound
  <1>6. QED
    BY <1>1, <1>2, <1>4, <1>5 DEF IInv

\* The inductive invariant: what holds of every draft that is written back, with
\* the state the window owes main. (session.ts:434-756, voice/host.ts:150-330)
THEOREM InvariantHolds == Spec => []IInv
  <1>1. Init => IInv
    BY InitInvariant
  <1>2. IInv /\ [Next]_linkVars => IInv'
    BY MatchStartsKeeps, MatchEndsKeeps, MintStepKeeps, TimerStepKeeps, ReceiveStepKeeps,
       WindowStepKeeps, SessionLostKeeps, ConnectionFailsKeeps, QuitsKeeps, StutterKeeps
       DEF Next
  <1>3. QED
    BY <1>1, <1>2, PTL DEF Spec

\* A renewal that runs is driven by a mint, a wait for the window or a backoff,
\* for any number of matches, backoffs and messages. (session.ts:574-679)
THEOREM DrivenHolds == Spec => []RenewalIsDriven
  <1>1. IInv => RenewalIsDriven
    <2>1. SUFFICES ASSUME IInv PROVE RenewalIsDriven
      OBVIOUS
    <2>2. Driven(v)
      BY <2>1, Present DEF Sound
    <2>3. QED
      BY <2>2 DEF Driven, RenewalIsDriven, Renewing
  <1>2. QED
    BY <1>1, InvariantHolds, PTL

\* Types, the handle of the deadline, and the deadline of a session that is up
\* once everything is delivered. (session.ts:574-679)
THEOREM LinkHolds == Spec => []LinkIsSound
  <1>1. IInv => LinkIsSound
    <2> SUFFICES ASSUME IInv PROVE LinkIsSound
      OBVIOUS
    <2>1. Sound(Draft, Owed) /\ Draft.s = v /\ Draft.out = <<>>
      BY Present
    <2>2. TypeOK
      BY DEF IInv
    <2>3. HandleIsArmed
      BY <2>1 DEF Sound, Base, Armed, HandleIsArmed
    <2>4. ReadyIsScheduled
      <3>1. SUFFICES ASSUME Quiet, v.state = "ready", v.openInstructions # None
                     PROVE  v.renewing \/ \E t \in v.timers : t.kind = "age"
        BY DEF ReadyIsScheduled
      <3>2. ~Has(toHost, "open") /\ ~Has(toMain, "state") /\ ~Has(v.queued, "open")
            /\ ~Has(Draft.out, "open")
        BY <2>1, <3>1 DEF Quiet, Has
      <3>3. ~Owed
        BY <3>1, <3>2 DEF Owed, Quiet
      <3>4. QED
        BY <2>1, <3>1, <3>2, <3>3 DEF Sound, Up, Scheduled
    <2>5. QED
      BY <2>2, <2>3, <2>4 DEF LinkIsSound
  <1>2. QED
    BY <1>1, InvariantHolds, PTL
-----------------------------------------------------------------------------
(* What is on its way, and what main believes of it *)

Whole(d) ==
    /\ DOMAIN d = {"s", "out", "told"}
    /\ DOMAIN d.s = {"hasKey", "window", "ready", "queued", "state", "disposed",
                     "openInstructions", "renewing", "renewAttempt",
                     "cancelRenewTimer", "timers", "mints"}

\* Whatever s still awaits is for the match m.
AllFor(s, m) ==
    /\ \A mint \in s.mints : mint.match = m
    /\ \A t \in s.timers : t.match = m
    /\ s.openInstructions \in {None, m}

\* What no stop of the renewal reaches.
Loose(s) == s.mints # {} \/ \E t \in s.timers : t.id # s.cancelRenewTimer

SameWindow(d, r) ==
    /\ r.s.hasKey = d.s.hasKey
    /\ r.s.window = d.s.window
    /\ r.s.ready = d.s.ready
    /\ r.s.disposed = d.s.disposed

\* The states main sets by itself, besides the idle of a match that is closed.
Own == {"connecting", "degraded", "unavailable"}

\* Work for the match m that sends nothing to the window.
Quietly(d, r, m) ==
    /\ Whole(r)
    /\ SameWindow(d, r)
    /\ r.s.queued = d.s.queued
    /\ r.out = d.out
    /\ AllFor(d.s, m) => AllFor(r.s, m)
    /\ r.s.state \in {d.s.state} \cup Own

\* One directive more is sent, if there is a window to send it to.
Sends(d, r, directive) ==
    /\ Whole(r)
    /\ SameWindow(d, r)
    /\ IF d.s.window = "open" /\ ~d.s.ready
       THEN r.s.queued = Append(d.s.queued, directive)
       ELSE r.s.queued = d.s.queued
    /\ IF d.s.window = "open" /\ d.s.ready
       THEN r.out = Append(d.out, directive)
       ELSE r.out = d.out

\* A mint settled for the match m: its session is sent for, or nothing is.
Answers(d, r, m) ==
    \/ Quietly(d, r, m)
    \/ /\ Sends(d, r, OpenDirective(m))
       /\ AllFor(d.s, m) => AllFor(r.s, m)
       /\ r.s.state = d.s.state

LEMMA CancelQuiet ==
    ASSUME NEW d, Whole(d), NEW m
    PROVE  LET c == CancelTimer(d) IN
           /\ Quietly(d, c, m)
           /\ c.s.state = d.s.state
           /\ c.s.openInstructions = d.s.openInstructions
           /\ c.s.mints = d.s.mints
           /\ c.s.timers = {t \in d.s.timers : t.id # d.s.cancelRenewTimer}
  BY DEF CancelTimer, Whole, SameWindow, Quietly, AllFor

LEMMA ArmQuiet ==
    ASSUME NEW d, Whole(d), NEW kind, NEW m
    PROVE  LET a == Arm(d, kind, m) IN Quietly(d, a, m) /\ a.s.state = d.s.state
  <1> DEFINE a == Arm(d, kind, m)
  <1> DEFINE id == FreeId(1 .. MaxPending, d.s.timers)
  <1> DEFINE timer == [id |-> id, kind |-> kind, match |-> m]
  <1>1. a = [d EXCEPT !.s.timers = @ \cup {timer}, !.s.cancelRenewTimer = id]
    BY DEF Arm
  <1>2. timer.match = m
    OBVIOUS
  <1> HIDE DEF a, id, timer
  <1>3. Quietly(d, a, m) /\ a.s.state = d.s.state
    BY <1>1, <1>2 DEF Whole, SameWindow, Quietly, AllFor
  <1>4. QED
    BY <1>3 DEF a

LEMMA AwaitQuiet ==
    ASSUME NEW d, Whole(d), NEW kind, NEW m
    PROVE  LET a == AwaitMint(d, kind, m) IN
           /\ Quietly(d, a, m)
           /\ a.s.state = d.s.state
           /\ a.s.timers = d.s.timers
           /\ a.s.openInstructions = d.s.openInstructions
           /\ \A mint \in a.s.mints : mint \in d.s.mints \/ mint.match = m
  <1> DEFINE a == AwaitMint(d, kind, m)
  <1> DEFINE mint == [id |-> FreeId(1 .. MaxPending, d.s.mints), kind |-> kind, match |-> m]
  <1>1. a = [d EXCEPT !.s.mints = @ \cup {mint}]
    BY DEF AwaitMint
  <1>2. mint.match = m
    OBVIOUS
  <1> HIDE DEF a, mint
  <1>3. /\ Quietly(d, a, m)
        /\ a.s.state = d.s.state
        /\ a.s.timers = d.s.timers
        /\ a.s.openInstructions = d.s.openInstructions
        /\ \A x \in a.s.mints : x \in d.s.mints \/ x.match = m
    BY <1>1, <1>2 DEF Whole, SameWindow, Quietly, AllFor
  <1>4. QED
    BY <1>3 DEF a

LEMMA SetStateQuiet ==
    ASSUME NEW d, Whole(d), NEW state \in Own, NEW m
    PROVE  Quietly(d, SetState(d, state), m)
  BY DEF SetState, Whole, SameWindow, Quietly, AllFor

LEMMA RaiseQuiet ==
    ASSUME NEW d, Whole(d), NEW fault, NEW m
    PROVE  Quietly(d, Raise(d, fault), m)
  BY DEF Raise, Whole, SameWindow, Quietly, AllFor

LEMMA QuietTwice ==
    ASSUME NEW d, NEW q, NEW r, NEW m, Quietly(d, q, m), Quietly(q, r, m)
    PROVE  Quietly(d, r, m)
  BY DEF SameWindow, Quietly

LEMMA StopQuiet ==
    ASSUME NEW d, Whole(d), NEW m
    PROVE  LET r == StopRenewal(d) IN
           /\ Quietly(d, r, m)
           /\ r.s.state = d.s.state
           /\ ~Loose(d.s) => AllFor(r.s, m) /\ r.s.mints = {} /\ r.s.timers = {}
  <1> DEFINE r == StopRenewal(d)
  <1> DEFINE c == CancelTimer(d)
  <1>1. /\ Quietly(d, c, m)
        /\ c.s.state = d.s.state
        /\ c.s.mints = d.s.mints
        /\ c.s.timers = {t \in d.s.timers : t.id # d.s.cancelRenewTimer}
    BY CancelQuiet
  <1>2. r = [c EXCEPT !.s.openInstructions = None, !.s.renewing = FALSE, !.s.renewAttempt = 0]
    BY DEF StopRenewal
  <1> HIDE DEF r, c
  <1>3. /\ Quietly(c, r, m)
        /\ r.s.state = c.s.state
        /\ r.s.mints = c.s.mints
        /\ r.s.timers = c.s.timers
        /\ r.s.openInstructions = None
    BY <1>1, <1>2 DEF Whole, SameWindow, Quietly, AllFor
  <1>4. Quietly(d, r, m)
    BY <1>1, <1>3, QuietTwice
  <1>5. ASSUME ~Loose(d.s) PROVE AllFor(r.s, m) /\ r.s.mints = {} /\ r.s.timers = {}
    BY <1>1, <1>3, <1>5 DEF Loose, AllFor
  <1>6. QED
    BY <1>1, <1>3, <1>4, <1>5 DEF r

LEMMA AttemptQuiet ==
    ASSUME NEW d, Whole(d), NEW m
    PROVE  Quietly(d, AttemptRenewal(d, m), m)
  <1> DEFINE c == CancelTimer(d)
  <1> DEFINE k == SetState(c, "connecting")
  <1> DEFINE a == AwaitMint(k, "renew", m)
  <1>1. Quietly(d, c, m)
    BY CancelQuiet
  <1>2. Quietly(c, k, m)
    <2> HIDE DEF c
    <2>1. QED
      BY <1>1, SetStateQuiet DEF Own, Quietly
  <1>3. Quietly(k, a, m)
    <2> HIDE DEF k
    <2>1. QED
      BY <1>2, AwaitQuiet DEF Quietly
  <1>4. AttemptRenewal(d, m) = IF d.s.disposed THEN c ELSE a
    BY DEF AttemptRenewal
  <1> HIDE DEF c, k, a
  <1>5. QED
    BY <1>1, <1>2, <1>3, <1>4, QuietTwice

LEMMA RenewQuiet ==
    ASSUME NEW d, Whole(d), NEW m
    PROVE  Quietly(d, Renew(d), m)
  <1> DEFINE q == [d EXCEPT !.s.renewing = TRUE, !.s.renewAttempt = 0]
  <1> DEFINE r == AttemptRenewal(q, d.s.openInstructions)
  <1>1. Quietly(d, q, m) /\ Quietly(d, q, d.s.openInstructions)
    BY DEF Whole, SameWindow, Quietly, AllFor
  <1>2. Quietly(q, r, d.s.openInstructions)
    <2> HIDE DEF q
    <2>1. QED
      BY <1>1, AttemptQuiet DEF Quietly
  <1>3. Renew(d) = IF d.s.renewing \/ ~IsRenewable(d) THEN d ELSE r
    BY DEF Renew
  <1> HIDE DEF q, r
  <1>4. CASE d.s.renewing \/ ~IsRenewable(d)
    BY <1>3, <1>4 DEF SameWindow, Quietly
  <1>5. CASE ~(d.s.renewing \/ ~IsRenewable(d))
    <2>1. AllFor(d.s, m) => m = d.s.openInstructions
      BY <1>5 DEF IsRenewable, AllFor
    <2>2. Quietly(d, r, d.s.openInstructions)
      BY <1>1, <1>2, QuietTwice
    <2>3. QED
      BY <1>3, <1>5, <2>1, <2>2 DEF Quietly
  <1>6. QED
    BY <1>4, <1>5

LEMMA BackOffQuiet ==
    ASSUME NEW d, Whole(d), NEW m, NEW retryable
    PROVE  Quietly(d, BackOff(d, m, retryable), m)
  <1> DEFINE attempted == [d EXCEPT !.s.renewAttempt = IF @ > Backoffs THEN @ ELSE @ + 1]
  <1> DEFINE over == [attempted EXCEPT !.s.renewing = FALSE]
  <1> DEFINE state == IF retryable THEN "degraded" ELSE "unavailable"
  <1> DEFINE known == SetState(over, state)
  <1> DEFINE armed == Arm(attempted, "backoff", m)
  <1> DEFINE raised == Raise(known, "session-lost")
  <1>1. Quietly(d, attempted, m) /\ Quietly(d, over, m)
    BY DEF Whole, SameWindow, Quietly, AllFor
  <1>2. BackOff(d, m, retryable) = armed \/ BackOff(d, m, retryable) = raised
    BY DEF BackOff
  <1>3. state \in Own
    BY DEF Own
  <1>4. Quietly(attempted, armed, m)
    <2> HIDE DEF attempted
    <2>1. QED
      BY <1>1, ArmQuiet DEF Quietly
  <1>5. Quietly(over, known, m)
    <2> HIDE DEF over, state
    <2>1. QED
      BY <1>1, <1>3, SetStateQuiet DEF Quietly
  <1>6. Quietly(known, raised, m)
    <2> HIDE DEF known
    <2>1. QED
      BY <1>5, RaiseQuiet DEF Quietly
  <1> HIDE DEF attempted, over, known, armed, raised
  <1>7. QED
    BY <1>1, <1>2, <1>4, <1>5, <1>6, QuietTwice

LEMMA SendSends ==
    ASSUME NEW d, Whole(d), NEW directive
    PROVE  LET r == Send(d, directive) IN
           /\ Sends(d, r, directive)
           /\ r.s.state = d.s.state
           /\ r.s.mints = d.s.mints
           /\ r.s.timers = d.s.timers
           /\ r.s.openInstructions = d.s.openInstructions
  BY DEF Send, Whole, SameWindow, Sends

LEMMA FirstOpenAnswers ==
    ASSUME NEW d, Whole(d), NEW m, NEW outcome
    PROVE  Answers(d, FirstOpen(d, m, outcome), m)
  <1> DEFINE sent == Send(d, OpenDirective(m))
  <1> DEFINE up == [sent EXCEPT !.s.openInstructions = m]
  <1> DEFINE state == IF outcome = "refused" THEN "degraded" ELSE "unavailable"
  <1> DEFINE known == SetState(d, state)
  <1> DEFINE raised == Raise(known, "mint")
  <1>1. FirstOpen(d, m, outcome) = IF outcome = "secret" THEN up ELSE raised
    BY DEF FirstOpen
  <1>2. /\ Sends(d, sent, OpenDirective(m))
        /\ sent.s.state = d.s.state
        /\ sent.s.mints = d.s.mints
        /\ sent.s.timers = d.s.timers
    BY SendSends
  <1>3. /\ Sends(d, up, OpenDirective(m))
        /\ AllFor(d.s, m) => AllFor(up.s, m)
        /\ up.s.state = d.s.state
    <2> HIDE DEF sent
    <2>1. QED
      BY <1>2 DEF Whole, SameWindow, Sends, AllFor
  <1>4. Quietly(d, known, m)
    <2>1. state \in Own
      BY DEF Own
    <2> HIDE DEF state
    <2>2. QED
      BY <2>1, SetStateQuiet
  <1>5. Quietly(known, raised, m)
    <2> HIDE DEF known
    <2>1. QED
      BY <1>4, RaiseQuiet DEF Quietly
  <1> HIDE DEF up, known, raised
  <1>6. QED
    BY <1>1, <1>3, <1>4, <1>5, QuietTwice DEF Answers

LEMMA ReOpenAnswers ==
    ASSUME NEW d, Whole(d), NEW m, NEW outcome
    PROVE  Answers(d, ReOpen(d, m, outcome), m)
  <1> DEFINE sent == Send(d, OpenDirective(m))
  <1> DEFINE armed == Arm(sent, "ready", m)
  <1> DEFINE waits == BackOff(d, m, outcome = "refused")
  <1>1. ReOpen(d, m, outcome) = IF outcome = "secret" THEN armed ELSE waits
    BY DEF ReOpen
  <1>2. Quietly(d, waits, m)
    BY BackOffQuiet
  <1>3. /\ Sends(d, sent, OpenDirective(m))
        /\ sent.s.state = d.s.state
        /\ sent.s.mints = d.s.mints
        /\ sent.s.timers = d.s.timers
        /\ sent.s.openInstructions = d.s.openInstructions
    BY SendSends
  <1>4. Quietly(sent, armed, m) /\ armed.s.state = sent.s.state
    <2> HIDE DEF sent
    <2>1. QED
      BY <1>3, ArmQuiet DEF Sends
  <1> HIDE DEF sent, armed, waits
  <1>5. AllFor(d.s, m) => AllFor(armed.s, m)
    BY <1>3, <1>4 DEF Quietly, AllFor
  <1>6. Sends(d, armed, OpenDirective(m))
    BY <1>3, <1>4 DEF Quietly, Sends, SameWindow
  <1>7. QED
    BY <1>1, <1>2, <1>3, <1>4, <1>5, <1>6 DEF Answers

LEMMA ContinueAnswers ==
    ASSUME NEW d, Whole(d), NEW mint, NEW outcome
    PROVE  Answers(d, Continue(d, mint, outcome), mint.match)
  <1> DEFINE m == mint.match
  <1> DEFINE q == [d EXCEPT !.s.mints = @ \ {mint}]
  <1>1. Quietly(d, q, m) /\ q.s.state = d.s.state
    BY DEF Whole, SameWindow, Quietly, AllFor
  <1>2. \/ Continue(d, mint, outcome) = FirstOpen(q, m, outcome)
        \/ Continue(d, mint, outcome) = ReOpen(q, m, outcome)
    BY DEF Continue
  <1> HIDE DEF q, m
  <1>3. Answers(q, Continue(d, mint, outcome), m)
    BY <1>1, <1>2, FirstOpenAnswers, ReOpenAnswers DEF Quietly
  <1>4. Answers(d, Continue(d, mint, outcome), m)
    BY <1>1, <1>3, QuietTwice DEF Answers, Quietly, Sends, SameWindow
  <1>5. QED
    BY <1>4 DEF m

LEMMA FiredQuiet ==
    ASSUME NEW d, Whole(d), NEW timer, timer.kind \in {"age", "ready", "backoff"}
    PROVE  Quietly(d, Fired(d, timer), timer.match)
  <1> DEFINE m == timer.match
  <1> DEFINE q == [d EXCEPT !.s.timers = @ \ {timer}, !.s.cancelRenewTimer = NoTimer]
  <1>1. Quietly(d, q, m)
    BY DEF Whole, SameWindow, Quietly, AllFor
  <1>2. \/ Fired(d, timer) = Renew(q)
        \/ Fired(d, timer) = BackOff(q, m, TRUE)
        \/ Fired(d, timer) = AttemptRenewal(q, m)
    BY DEF Fired
  <1> HIDE DEF q, m
  <1>3. Quietly(q, Fired(d, timer), m)
    <2>1. Whole(q)
      BY <1>1 DEF Quietly
    <2>2. Quietly(q, Renew(q), m) /\ Quietly(q, BackOff(q, m, TRUE), m)
      BY <2>1, RenewQuiet, BackOffQuiet
    <2>3. Quietly(q, AttemptRenewal(q, m), m)
      BY <2>1, AttemptQuiet
    <2>4. QED
      BY <1>2, <2>2, <2>3
  <1>4. Quietly(d, Fired(d, timer), m)
    BY <1>1, <1>3, QuietTwice
  <1>5. QED
    BY <1>4 DEF m

\* What the window said is shown, and work for the match at hand is all that follows.
LEMMA HostStateQuiet ==
    ASSUME NEW d, Whole(d), NEW state, NEW m
    PROVE  LET r == HostState(d, state) IN
           Quietly(SetState(d, state), r, m) /\ r.s.state = state
  <1> DEFINE known == SetState(d, state)
  <1> DEFINE free == CancelTimer(known)
  <1> DEFINE over == [free EXCEPT !.s.renewing = FALSE, !.s.renewAttempt = 0]
  <1> DEFINE cancelled == CancelTimer(over)
  <1> DEFINE armed == Arm(cancelled, "age", over.s.openInstructions)
  <1> DEFINE r == HostState(d, state)
  <1>1. /\ r = known \/ r = cancelled \/ r = armed
        /\ r = armed => over.s.openInstructions # None \/ r = known \/ r = cancelled
    BY DEF HostState, ArmScheduledRenewal
  <1>2. Whole(known) /\ known.s.state = state
    BY DEF SetState, Whole
  <1>3. Quietly(known, free, m) /\ free.s.state = state
    <2> HIDE DEF known
    <2>1. QED
      BY <1>2, CancelQuiet DEF Quietly
  <1>4. Quietly(free, over, m) /\ over.s.state = state
    <2> HIDE DEF free
    <2>1. QED
      BY <1>3 DEF Whole, SameWindow, Quietly, AllFor
  <1>5. /\ Quietly(over, cancelled, m)
        /\ cancelled.s.state = state
        /\ cancelled.s.openInstructions = over.s.openInstructions
    <2> HIDE DEF over
    <2>1. QED
      BY <1>4, CancelQuiet DEF Quietly
  <1>6. Quietly(cancelled, armed, over.s.openInstructions) /\ armed.s.state = state
    <2> HIDE DEF cancelled, over
    <2>1. QED
      BY <1>5, ArmQuiet DEF Quietly
  <1> HIDE DEF known, free, over, cancelled, armed, r
  <1>7. Quietly(known, over, m) /\ Quietly(known, cancelled, m)
    BY <1>3, <1>4, <1>5, QuietTwice
  <1>8. ASSUME over.s.openInstructions # None PROVE Quietly(known, armed, m)
    <2>1. AllFor(cancelled.s, m) => m = over.s.openInstructions
      BY <1>5, <1>8 DEF AllFor
    <2>2. QED
      BY <1>6, <1>7, <2>1 DEF Quietly, SameWindow
  <1>9. Quietly(known, known, m)
    BY <1>2 DEF Quietly, SameWindow
  <1>10. Quietly(known, r, m) /\ r.s.state = state
    BY <1>1, <1>2, <1>5, <1>6, <1>7, <1>8, <1>9
  <1>11. QED
    BY <1>10 DEF known, r

LEMMA HostFaultQuiet ==
    ASSUME NEW d, Whole(d), NEW kind, NEW m
    PROVE  Quietly(d, HostFault(d, kind), m)
  BY RenewQuiet, RaiseQuiet DEF HostFault

LEMMA CloseSends ==
    ASSUME NEW d, Whole(d), NEW m
    PROVE  LET r == Close(d) IN
           /\ Sends(d, r, CloseDirective)
           /\ r.s.state = "idle"
           /\ ~Loose(d.s) => AllFor(r.s, m) /\ ~Loose(r.s)
  <1> DEFINE r == Close(d)
  <1> DEFINE stopped == StopRenewal(d)
  <1> DEFINE sent == Send(stopped, CloseDirective)
  <1>1. /\ Quietly(d, stopped, m)
        /\ ~Loose(d.s) => AllFor(stopped.s, m) /\ stopped.s.mints = {} /\ stopped.s.timers = {}
    BY StopQuiet
  <1>2. /\ Sends(stopped, sent, CloseDirective)
        /\ sent.s.mints = stopped.s.mints
        /\ sent.s.timers = stopped.s.timers
        /\ sent.s.openInstructions = stopped.s.openInstructions
    <2> HIDE DEF stopped
    <2>1. QED
      BY <1>1, SendSends DEF Quietly
  <1>3. r = SetState(sent, "idle")
    BY DEF Close
  <1> HIDE DEF r, stopped, sent
  <1>4. /\ Whole(r)
        /\ SameWindow(sent, r)
        /\ r.s.queued = sent.s.queued
        /\ r.out = sent.out
        /\ r.s.state = "idle"
        /\ r.s.mints = sent.s.mints
        /\ r.s.timers = sent.s.timers
        /\ r.s.openInstructions = sent.s.openInstructions
    BY <1>2, <1>3 DEF SetState, Whole, SameWindow, Sends
  <1>5. Sends(d, r, CloseDirective)
    BY <1>1, <1>2, <1>4 DEF Quietly, Sends, SameWindow
  <1>6. ~Loose(d.s) => AllFor(r.s, m) /\ ~Loose(r.s)
    BY <1>1, <1>2, <1>4 DEF AllFor, Loose
  <1>7. QED
    BY <1>4, <1>5, <1>6 DEF r

\* Opening a match readies a window, forgets what is still armed and awaits a mint.
LEMMA OpenQuiet ==
    ASSUME NEW d, Whole(d), NEW m
    PROVE  LET r == Open(d, m) IN
           /\ Whole(r)
           /\ r.s.disposed = d.s.disposed
           /\ r.s.window = d.s.window \/ (d.s.window = "none" /\ r.s.window = "open")
           /\ r.s.ready = IF r.s.window = d.s.window THEN d.s.ready ELSE FALSE
           /\ r.s.queued = d.s.queued
           /\ r.out = d.out
           /\ r.s.state \in {d.s.state} \cup Own
           /\ ~Loose(d.s) /\ d.s.hasKey /\ ~d.s.disposed => AllFor(r.s, m)
           /\ ~d.s.hasKey /\ AllFor(d.s, m) => AllFor(r.s, m)
  <1> DEFINE r == Open(d, m)
  <1> DEFINE ensured == EnsureWindow(d)
  <1> DEFINE stopped == StopRenewal(ensured)
  <1> DEFINE known == SetState(stopped, "connecting")
  <1> DEFINE awaits == AwaitMint(known, "open", m)
  <1>1. r = IF ~d.s.hasKey THEN SetState(d, "unavailable")
            ELSE IF d.s.disposed THEN d ELSE awaits
    BY DEF Open
  <1>2. /\ Whole(ensured)
        /\ ensured.s.disposed = d.s.disposed
        /\ ensured.s.window = d.s.window \/ (d.s.window = "none" /\ ensured.s.window = "open")
        /\ ensured.s.ready = IF ensured.s.window = d.s.window THEN d.s.ready ELSE FALSE
        /\ ensured.s.queued = d.s.queued
        /\ ensured.out = d.out
        /\ Loose(ensured.s) <=> Loose(d.s)
    BY DEF EnsureWindow, Whole, Loose
  <1>3. /\ Quietly(ensured, stopped, m)
        /\ ~Loose(ensured.s) => AllFor(stopped.s, m)
    <2> HIDE DEF ensured
    <2>1. QED
      BY <1>2, StopQuiet
  <1>4. Quietly(stopped, known, m) /\ known.s.state = "connecting"
    <2> HIDE DEF stopped
    <2>1. QED
      BY <1>3, SetStateQuiet DEF Quietly, Own, SetState, Whole
  <1>5. Quietly(known, awaits, m) /\ awaits.s.state = "connecting"
    <2> HIDE DEF known
    <2>1. QED
      BY <1>4, AwaitQuiet DEF Quietly
  <1> HIDE DEF r, ensured, stopped, known, awaits
  <1>6. Quietly(ensured, awaits, m)
    BY <1>3, <1>4, <1>5, QuietTwice
  <1>7. ~Loose(d.s) => AllFor(awaits.s, m)
    BY <1>2, <1>3, <1>4, <1>5 DEF Quietly
  <1>8. Quietly(d, SetState(d, "unavailable"), m) /\ SetState(d, "unavailable").s.state = "unavailable"
    BY SetStateQuiet DEF SetState, Whole, Own
  <1>9. "connecting" \in Own /\ "unavailable" \in Own
    BY DEF Own
  <1>10. CASE ~d.s.hasKey
    BY <1>1, <1>8, <1>9, <1>10 DEF Quietly, SameWindow, r
  <1>11. CASE d.s.hasKey /\ d.s.disposed
    BY <1>1, <1>11 DEF r
  <1>12. CASE d.s.hasKey /\ ~d.s.disposed
    BY <1>1, <1>2, <1>5, <1>6, <1>7, <1>9, <1>12 DEF Quietly, SameWindow, r
  <1>13. QED
    BY <1>10, <1>11, <1>12


-----------------------------------------------------------------------------
(* The invariant of the two channels *)

\* The directives the window has still to take: until it listens they are queued.
Lane == IF v.ready THEN toHost ELSE v.queued

\* The match the session is for.
Goal == IF playing THEN played ELSE None

\* Taken in order, these directives leave the window with nothing but the goal.
LeadsTo(lane, host, goal) ==
    /\ lane # <<>> => lane[Len(lane)].match \in {None, goal}
    /\ lane = <<>> => host.live \in {None, goal} /\ host.opening \in {None, goal}

\* No update in q is of the session's state; the last that is says so.
Mute(q) == \A i \in 1 .. Len(q) : q[i].type # "state"

EndsWith(q, state) ==
    \E i \in 1 .. Len(q) : /\ q[i] = StateUpdate(state)
                           /\ \A j \in 1 .. Len(q) : j > i => q[j].type # "state"

\* What main will show when it has read all of q, of the window as it is.  One that
\* closes its session has yet to say so.
Shows(q, state, host, lane) ==
    host.phase # "closing" =>
        /\ EndsWith(q, "ready") => host.live # None
        /\ Mute(q) /\ state = "ready" => host.live # None
        /\ host.live # None => \A s \in SessionStates : EndsWith(q, s) => s = "ready"
        /\ host.live # None /\ Mute(q) /\ state = "idle" => lane # <<>>

Ordered ==
    /\ v.ready => v.window = "open" /\ v.queued = <<>>
    /\ ~v.ready => toHost = <<>>
    /\ v.window # "open" => v.queued = <<>> /\ toMain = <<>> /\ h.phase = "absent"
    /\ h.phase = "absent" => h.live = None
    /\ h.phase \in {"absent", "idle"} => h.opening = None
    /\ h.phase \in {"device", "call"} => h.live = None /\ h.opening # None
    /\ h.phase = "closing" => h.live = None

Meant == ~raced /\ ~v.disposed => AllFor(v, Goal) /\ LeadsTo(Lane, h, Goal)

Believed == Shows(toMain, v.state, h, Lane)

Delivered == Ordered /\ Meant /\ Believed

LEMMA Appended ==
    ASSUME NEW S, NEW q \in Seq(S), NEW x
    PROVE  Append(q, x) # <<>> /\ Append(q, x)[Len(Append(q, x))] = x
  <1>1. Len(Append(q, x)) = Len(q) + 1 /\ Len(q) \in Nat /\ Append(q, x)[Len(q) + 1] = x
    OBVIOUS
  <1>2. Len(<<>>) = 0
    OBVIOUS
  <1>3. Append(q, x) # <<>>
    BY <1>1, <1>2
  <1>4. QED
    BY <1>1, <1>3

LEMMA ConcatOne ==
    ASSUME NEW S, NEW q \in Seq(S), NEW x \in S
    PROVE  q \o Append(<<>>, x) = Append(q, x) /\ q \o <<x>> = Append(q, x)
  OBVIOUS

LEMMA ConcatNone ==
    ASSUME NEW S, NEW q \in Seq(S)
    PROVE  q \o <<>> = q /\ <<>> \o q = q
  OBVIOUS

LEMMA LastOfTail ==
    ASSUME NEW S, NEW q \in Seq(S), q # <<>>
    PROVE  /\ Tail(q) \in Seq(S)
           /\ Tail(q) = <<>> => q[Len(q)] = Head(q)
           /\ Tail(q) # <<>> => Tail(q)[Len(Tail(q))] = q[Len(q)]
  <1>1. /\ Len(q) \in Nat
        /\ Tail(q) \in Seq(S)
        /\ Len(Tail(q)) = Len(q) - 1
        /\ Head(q) = q[1]
        /\ \A i \in 1 .. Len(Tail(q)) : Tail(q)[i] = q[i + 1]
    OBVIOUS
  <1>2. Len(<<>>) = 0
    OBVIOUS
  <1>3. CASE Tail(q) = <<>>
    BY <1>1, <1>2, <1>3
  <1>4. CASE Tail(q) # <<>>
    <2>1. Len(Tail(q)) \in Nat /\ Len(Tail(q)) # 0
      BY <1>1, <1>4
    <2>5. \A n \in Nat : n # 0 => n \in 1 .. n
      OBVIOUS
    <2>2. Len(Tail(q)) \in 1 .. Len(Tail(q))
      BY <2>1, <2>5, Zenon
    <2>3. Tail(q)[Len(Tail(q))] = q[Len(Tail(q)) + 1] /\ Len(Tail(q)) + 1 = Len(q)
      BY <1>1, <2>2
    <2>4. QED
      BY <1>1, <1>4, <2>3
  <1>5. QED
    BY <1>3, <1>4

\* One more directive, of the goal or that closes, is where the window ends up.
LEMMA LeadsAfter ==
    ASSUME NEW lane \in Seq(Directive), NEW x, NEW host, NEW goal, x.match \in {None, goal}
    PROVE  LeadsTo(Append(lane, x), host, goal)
  BY Appended DEF LeadsTo

LEMMA UpdateFacts ==
    /\ \A s : StateUpdate(s).type = "state" /\ StateUpdate(s).value = s
    /\ \A f : FaultUpdate(f).type = "fault"
    /\ ReadyUpdate.type = "ready"
    /\ \A u \in Update : u.type \in {"ready", "state", "fault"}
    /\ \A u \in Update : u.type = "state" => u.value \in SessionStates /\ u = StateUpdate(u.value)
  BY DEF StateUpdate, FaultUpdate, ReadyUpdate, Update

\* Main reads an update that says nothing of the state.
LEMMA ShowsPastOther ==
    ASSUME NEW q \in Seq(Update), q # <<>>, Head(q).type # "state",
           NEW state, NEW host, NEW lane, Shows(q, state, host, lane)
    PROVE  Shows(Tail(q), state, host, lane)
  <1>1. /\ Len(q) \in Nat
        /\ Len(Tail(q)) = Len(q) - 1
        /\ Head(q) = q[1]
        /\ \A i \in 1 .. Len(Tail(q)) : Tail(q)[i] = q[i + 1]
    OBVIOUS
  <1>2. ASSUME Mute(Tail(q)) PROVE Mute(q)
    <2>1. SUFFICES ASSUME NEW i \in 1 .. Len(q) PROVE q[i].type # "state"
      BY DEF Mute
    <2>2. CASE i = 1
      BY <1>1, <2>2
    <2>3. CASE i # 1
      <3>1. i - 1 \in 1 .. Len(Tail(q)) /\ (i - 1) + 1 = i
        BY <1>1, <2>3
      <3>2. QED
        BY <1>1, <1>2, <3>1 DEF Mute
    <2>4. QED
      BY <2>2, <2>3
  <1>3. ASSUME NEW s, EndsWith(Tail(q), s) PROVE EndsWith(q, s)
    <2>1. PICK i \in 1 .. Len(Tail(q)) :
              /\ Tail(q)[i] = StateUpdate(s)
              /\ \A j \in 1 .. Len(Tail(q)) : j > i => Tail(q)[j].type # "state"
      BY <1>3 DEF EndsWith
    <2>2. i + 1 \in 1 .. Len(q) /\ q[i + 1] = StateUpdate(s)
      BY <1>1, <2>1
    <2>3. ASSUME NEW j \in 1 .. Len(q), j > i + 1 PROVE q[j].type # "state"
      <3>1. j - 1 \in 1 .. Len(Tail(q)) /\ j - 1 > i /\ (j - 1) + 1 = j
        BY <1>1, <2>3
      <3>2. QED
        BY <1>1, <2>1, <3>1
    <2>4. QED
      BY <2>2, <2>3 DEF EndsWith
  <1>4. QED
    BY <1>2, <1>3 DEF Shows

\* Main reads the state of the session: what it then shows is what was said.
LEMMA ShowsPastState ==
    ASSUME NEW q \in Seq(Update), q # <<>>, Head(q).type = "state",
           NEW state, NEW host, NEW lane, Shows(q, state, host, lane)
    PROVE  Shows(Tail(q), Head(q).value, host, lane)
  <1>1. /\ Len(q) \in Nat
        /\ Len(Tail(q)) = Len(q) - 1
        /\ Head(q) = q[1]
        /\ Head(q) \in Update
        /\ \A i \in 1 .. Len(Tail(q)) : Tail(q)[i] = q[i + 1]
    OBVIOUS
  <1>2. Head(q) = StateUpdate(Head(q).value) /\ Head(q).value \in SessionStates
    BY <1>1, UpdateFacts
  <1>3. ASSUME Mute(Tail(q)) PROVE EndsWith(q, Head(q).value)
    <2>1. Len(q) # 0
      OBVIOUS
    <2>2. 1 \in 1 .. Len(q)
      BY <1>1, <2>1
    <2>3. ASSUME NEW j \in 1 .. Len(q), j > 1 PROVE q[j].type # "state"
      <3>1. j - 1 \in 1 .. Len(Tail(q)) /\ (j - 1) + 1 = j
        BY <1>1, <2>3
      <3>2. QED
        BY <1>1, <1>3, <3>1 DEF Mute
    <2>4. QED
      BY <1>1, <1>2, <2>2, <2>3 DEF EndsWith
  <1>4. ASSUME NEW s, EndsWith(Tail(q), s) PROVE EndsWith(q, s)
    <2>1. PICK i \in 1 .. Len(Tail(q)) :
              /\ Tail(q)[i] = StateUpdate(s)
              /\ \A j \in 1 .. Len(Tail(q)) : j > i => Tail(q)[j].type # "state"
      BY <1>4 DEF EndsWith
    <2>2. i + 1 \in 1 .. Len(q) /\ q[i + 1] = StateUpdate(s)
      BY <1>1, <2>1
    <2>3. ASSUME NEW j \in 1 .. Len(q), j > i + 1 PROVE q[j].type # "state"
      <3>1. j - 1 \in 1 .. Len(Tail(q)) /\ j - 1 > i /\ (j - 1) + 1 = j
        BY <1>1, <2>3
      <3>2. QED
        BY <1>1, <2>1, <3>1
    <2>4. QED
      BY <2>2, <2>3 DEF EndsWith
  <1>5. host.phase # "closing" /\ Mute(Tail(q)) /\ Head(q).value = "ready" => host.live # None
    BY <1>3 DEF Shows
  <1>6. host.phase # "closing" /\ Mute(Tail(q)) /\ host.live # None => Head(q).value = "ready"
    BY <1>2, <1>3 DEF Shows
  <1>7. QED
    BY <1>4, <1>5, <1>6 DEF Shows

\* The window says something that is not of the state.
LEMMA ShowsWithOther ==
    ASSUME NEW q \in Seq(Update), NEW u \in Update, u.type # "state",
           NEW state, NEW host, NEW lane, Shows(q, state, host, lane)
    PROVE  Shows(Append(q, u), state, host, lane)
  <1>1. /\ Len(q) \in Nat
        /\ Len(Append(q, u)) = Len(q) + 1
        /\ \A i \in 1 .. Len(q) : Append(q, u)[i] = q[i]
        /\ Append(q, u)[Len(q) + 1] = u
    OBVIOUS
  <1>2. ASSUME Mute(Append(q, u)) PROVE Mute(q)
    BY <1>1, <1>2 DEF Mute
  <1>3. ASSUME NEW s, EndsWith(Append(q, u), s) PROVE EndsWith(q, s)
    <2>1. PICK i \in 1 .. Len(q) + 1 :
              /\ Append(q, u)[i] = StateUpdate(s)
              /\ \A j \in 1 .. Len(q) + 1 : j > i => Append(q, u)[j].type # "state"
      BY <1>1, <1>3 DEF EndsWith
    <2>2. i # Len(q) + 1
      BY <1>1, <2>1, UpdateFacts
    <2>3. i \in 1 .. Len(q)
      BY <1>1, <2>2
    <2>4. QED
      BY <1>1, <2>1, <2>3 DEF EndsWith
  <1>4. QED
    BY <1>2, <1>3 DEF Shows

\* The window says the state it is in: whatever main believed, it will know.
LEMMA ShowsWithState ==
    ASSUME NEW q \in Seq(Update), NEW x \in SessionStates, NEW host, x = "ready" <=> host.live # None,
           NEW state, NEW lane
    PROVE  Shows(Append(q, StateUpdate(x)), state, host, lane)
  <1> DEFINE r == Append(q, StateUpdate(x))
  <1>1. /\ Len(q) \in Nat
        /\ Len(r) = Len(q) + 1
        /\ r[Len(q) + 1] = StateUpdate(x)
    BY UpdatesAreTyped
  <1> HIDE DEF r
  <1>2. Len(q) + 1 \in 1 .. Len(r)
    BY <1>1
  <1>3. ~Mute(r)
    BY <1>1, <1>2, UpdateFacts DEF Mute
  <1>4. ASSUME NEW s, EndsWith(r, s) PROVE s = x
    <2>1. PICK i \in 1 .. Len(r) :
              /\ r[i] = StateUpdate(s)
              /\ \A j \in 1 .. Len(r) : j > i => r[j].type # "state"
      BY <1>4 DEF EndsWith
    <2>2. i = Len(q) + 1
      BY <1>1, <1>2, <2>1, UpdateFacts
    <2>3. StateUpdate(s) = StateUpdate(x)
      BY <1>1, <2>1, <2>2
    <2>4. QED
      BY <2>3, UpdateFacts
  <1>5. Shows(r, state, host, lane)
    BY <1>3, <1>4 DEF Shows
  <1>6. QED
    BY <1>5 DEF r

\* Main changes the state by itself: it never says ready, and idle with a close.
LEMMA ShowsOwn ==
    ASSUME NEW q, NEW state, NEW host, NEW lane, Shows(q, state, host, lane),
           NEW next, NEW longer,
           lane # <<>> => longer # <<>>,
           next \in {state} \cup Own \/ (next = "idle" /\ (host.live # None => longer # <<>>))
    PROVE  Shows(q, next, host, longer)
  BY DEF Shows, Own


-----------------------------------------------------------------------------
(* Every step keeps it *)

LEMMA Begins ==
    ASSUME IInv, Delivered
    PROVE  /\ Whole(Draft)
           /\ Draft.s = v
           /\ Draft.out = <<>>
           /\ v \in Session
           /\ h \in Hosts
           /\ toHost \in Seq(Directive)
           /\ toMain \in Seq(Update)
           /\ Lane \in Seq(Directive)
           /\ v.window = "open" <=> v.window # "none" /\ ~v.disposed
           /\ v.window # "open" => Lane = <<>> /\ h.live = None /\ h.opening = None
           /\ raced \in BOOLEAN
  <1>1. v \in Session /\ Draft.s = v /\ Draft.out = <<>> /\ Sound(Draft, Owed)
    BY Present
  <1>2. h \in Hosts /\ toHost \in Seq(Directive) /\ toMain \in Seq(Update) /\ raced \in BOOLEAN
    BY TypeForm DEF IInv
  <1>3. Whole(Draft)
    BY <1>1 DEF Whole, Draft, DraftOf, Session
  <1>4. Lane \in Seq(Directive)
    BY <1>1, <1>2 DEF Lane, Session
  <1>5. Ended(v)
    BY <1>1 DEF Sound, Base
  <1>6. v.window = "open" <=> v.window # "none" /\ ~v.disposed
    BY <1>1, <1>5 DEF Ended, Session
  <1>7. v.window # "open" => Lane = <<>> /\ h.live = None /\ h.opening = None
    BY <1>1 DEF Delivered, Ordered, Lane, Session
  <1>8. QED
    BY <1>1, <1>2, <1>3, <1>4, <1>6, <1>7

\* Work that sends nothing leaves the channel to the window as it was.
LEMMA AfterQuiet ==
    ASSUME IInv, Delivered, NEW r, NEW m, Quietly(Draft, r, m),
           v' = r.s, toHost' = toHost \o r.out, h' = h,
           v.window # "open" => toMain' = <<>>
    PROVE  Ordered' /\ Lane' = Lane /\ v'.disposed = v.disposed
  <1>1. /\ Draft.s = v
        /\ Draft.out = <<>>
        /\ toHost \in Seq(Directive)
    BY Begins
  <1>2. toHost' = toHost
    BY <1>1, ConcatNone DEF Quietly
  <1>3. /\ v'.ready = v.ready
        /\ v'.window = v.window
        /\ v'.queued = v.queued
        /\ v'.disposed = v.disposed
    BY <1>1 DEF Quietly, SameWindow
  <1>4. QED
    BY <1>2, <1>3 DEF Delivered, Ordered, Lane

\* A directive sent is the last in line, and without a window there is no line.
LEMMA AfterSend ==
    ASSUME IInv, Delivered, NEW r, NEW x \in Directive, Sends(Draft, r, x),
           v' = r.s, toHost' = toHost \o r.out, h' = h, toMain' = toMain
    PROVE  /\ Ordered'
           /\ Lane' = IF v.window = "open" THEN Append(Lane, x) ELSE <<>>
           /\ v'.disposed = v.disposed
           /\ v'.window = v.window
  <1>1. /\ Draft.s = v
        /\ Draft.out = <<>>
        /\ toHost \in Seq(Directive)
        /\ v \in Session
        /\ Lane \in Seq(Directive)
        /\ v.window # "open" => Lane = <<>>
    BY Begins
  <1>2. /\ v'.ready = v.ready
        /\ v'.window = v.window
        /\ v'.disposed = v.disposed
    BY <1>1 DEF Sends, SameWindow
  <1>3. v.ready \in BOOLEAN
    BY <1>1 DEF Session
  <1>4. CASE v.window # "open"
    <2>1. v'.queued = v.queued /\ toHost' = toHost
      BY <1>1, <1>4, ConcatNone DEF Sends
    <2>2. QED
      BY <1>1, <1>2, <1>4, <2>1 DEF Delivered, Ordered, Lane
  <1>5. CASE v.window = "open" /\ v.ready
    <2>1. v'.queued = v.queued /\ toHost' = Append(toHost, x)
      BY <1>1, <1>5, ConcatOne DEF Sends
    <2>2. QED
      BY <1>1, <1>2, <1>5, <2>1 DEF Delivered, Ordered, Lane
  <1>6. CASE v.window = "open" /\ ~v.ready
    <2>1. v'.queued = Append(v.queued, x) /\ toHost' = toHost
      BY <1>1, <1>6, ConcatNone DEF Sends
    <2>2. QED
      BY <1>1, <1>2, <1>6, <2>1 DEF Delivered, Ordered, Lane
  <1>7. QED
    BY <1>3, <1>4, <1>5, <1>6

\* A step of the session that sends nothing, between matches or within one.
LEMMA QuietDelivers ==
    ASSUME IInv, Delivered, NEW r, NEW m, Quietly(Draft, r, m),
           ~raced /\ ~v.disposed => m = Goal,
           v' = r.s, toHost' = toHost \o r.out,
           UNCHANGED <<h, played, playing, raced>>,
           v.window # "open" => toMain' = <<>>,
           Shows(toMain', v.state, h, Lane)
    PROVE  Delivered'
  <1>1. Ordered' /\ Lane' = Lane /\ v'.disposed = v.disposed
    BY AfterQuiet
  <1>2. Draft.s = v
    BY Begins
  <1>3. Meant'
    <2>1. Goal' = Goal
      BY DEF Goal
    <2>2. ASSUME ~raced, ~v.disposed PROVE AllFor(v', Goal)
      BY <1>2, <2>2 DEF Quietly, Delivered, Meant
    <2>3. QED
      BY <1>1, <2>1, <2>2 DEF Delivered, Meant
  <1>4. v'.state \in {v.state} \cup Own
    BY <1>2 DEF Quietly
  <1>5. Shows(toMain', v'.state, h, Lane)
    BY <1>4, ShowsOwn
  <1>6. Believed'
    BY <1>1, <1>5 DEF Believed
  <1>7. QED
    BY <1>1, <1>3, <1>6 DEF Delivered

LEMMA MintStepDelivers == IInv /\ Delivered /\ MintStep => Delivered'
  <1> SUFFICES ASSUME IInv, Delivered, MintStep PROVE Delivered'
    OBVIOUS
  <1>1. PICK mint \in v.mints, outcome \in {"secret", "refused", "forbidden"} :
            MintResolves(mint, outcome)
    BY DEF MintStep
  <1> DEFINE r == Continue(Draft, mint, outcome)
  <1> DEFINE m == mint.match
  <1>2. /\ v' = r.s
        /\ toHost' = toHost \o r.out
        /\ toMain' = toMain
        /\ UNCHANGED <<h, played, playing, raced>>
    BY <1>1 DEF MintResolves, Step, MintStep
  <1>3. /\ Whole(Draft)
        /\ Draft.s = v
        /\ v \in Session
        /\ Lane \in Seq(Directive)
        /\ v.window # "open" => Lane = <<>> /\ h.live = None /\ h.opening = None
    BY Begins
  <1>4. Answers(Draft, r, m)
    BY <1>3, ContinueAnswers
  <1>5. m \in Matches
    BY <1>3 DEF Session, Mint
  <1>6. ~raced /\ ~v.disposed => m = Goal
    BY DEF Delivered, Meant, AllFor
  <1> HIDE DEF r, m
  <1>7. CASE Quietly(Draft, r, m)
    <2>1. v.window # "open" => toMain' = <<>>
      BY <1>2 DEF Delivered, Ordered
    <2>2. Shows(toMain', v.state, h, Lane)
      BY <1>2 DEF Delivered, Believed
    <2>3. QED
      BY <1>2, <1>6, <1>7, <2>1, <2>2, QuietDelivers
  <1>8. CASE /\ Sends(Draft, r, OpenDirective(m))
             /\ AllFor(Draft.s, m) => AllFor(r.s, m)
             /\ r.s.state = Draft.s.state
    <2>1. OpenDirective(m) \in Directive /\ OpenDirective(m).match = m
      BY <1>5 DEF Directive, OpenDirective
    <2>2. /\ Ordered'
          /\ Lane' = IF v.window = "open" THEN Append(Lane, OpenDirective(m)) ELSE <<>>
          /\ v'.disposed = v.disposed
      BY <1>2, <1>8, <2>1, AfterSend
    <2>3. Goal' = Goal
      BY <1>2 DEF Goal
    <2>4. Meant'
      <3>1. SUFFICES ASSUME ~raced, ~v.disposed
                     PROVE  AllFor(v', Goal) /\ LeadsTo(Lane', h, Goal)
        BY <1>2, <2>2, <2>3 DEF Meant
      <3>2. AllFor(v', Goal)
        BY <1>2, <1>3, <1>6, <1>8, <3>1 DEF Delivered, Meant
      <3>3. CASE v.window = "open"
        <4>1. LeadsTo(Append(Lane, OpenDirective(m)), h, Goal)
          BY <1>3, <1>6, <2>1, <3>1, LeadsAfter
        <4>2. QED
          BY <2>2, <3>2, <3>3, <4>1
      <3>4. CASE v.window # "open"
        BY <1>3, <2>2, <3>2, <3>4 DEF LeadsTo
      <3>5. QED
        BY <3>3, <3>4
    <2>5. Lane # <<>> => Lane' # <<>>
      BY <1>3, <2>2, Appended
    <2>6. Shows(toMain, v.state, h, Lane')
      BY <2>5, ShowsOwn DEF Delivered, Believed
    <2>7. Believed'
      BY <1>2, <1>3, <1>8, <2>6 DEF Believed
    <2>8. QED
      BY <2>2, <2>4, <2>7 DEF Delivered
  <1>9. QED
    BY <1>4, <1>7, <1>8 DEF Answers

LEMMA TimerStepDelivers == IInv /\ Delivered /\ TimerStep => Delivered'
  <1> SUFFICES ASSUME IInv, Delivered, TimerStep PROVE Delivered'
    OBVIOUS
  <1>1. PICK timer \in v.timers : Fire(timer)
    BY DEF TimerStep
  <1> DEFINE r == Fired(Draft, timer)
  <1> DEFINE m == timer.match
  <1>2. /\ v' = r.s
        /\ toHost' = toHost \o r.out
        /\ toMain' = toMain
        /\ UNCHANGED <<h, played, playing, raced>>
    BY <1>1 DEF Fire, Step, TimerStep
  <1>3. Whole(Draft) /\ Draft.s = v /\ v \in Session
    BY Begins
  <1>4. Quietly(Draft, r, m)
    <2>1. timer.kind \in {"age", "ready", "backoff"}
      BY <1>3 DEF Session, Timer
    <2>2. QED
      BY <1>3, <2>1, FiredQuiet
  <1>5. ~raced /\ ~v.disposed => m = Goal
    BY DEF Delivered, Meant, AllFor
  <1>6. v.window # "open" => toMain' = <<>>
    BY <1>2 DEF Delivered, Ordered
  <1>7. Shows(toMain', v.state, h, Lane)
    BY <1>2 DEF Delivered, Believed
  <1> HIDE DEF r, m
  <1>8. QED
    BY <1>2, <1>4, <1>5, <1>6, <1>7, QuietDelivers

LEMMA ReceiveStepDelivers == IInv /\ Delivered /\ ReceiveStep => Delivered'
  <1> SUFFICES ASSUME IInv, Delivered, ReceiveStep PROVE Delivered'
    OBVIOUS
  <1> DEFINE update == Head(toMain)
  <1> DEFINE r == OnUpdate(Draft, update)
  <1>1. /\ toMain # <<>>
        /\ toMain' = Tail(toMain)
        /\ v' = r.s
        /\ toHost' = toHost \o r.out
        /\ UNCHANGED <<h, played, playing, raced>>
    BY DEF ReceiveStep, Receive
  <1>2. /\ Whole(Draft)
        /\ Draft.s = v
        /\ Draft.out = <<>>
        /\ v \in Session
        /\ toHost \in Seq(Directive)
        /\ toMain \in Seq(Update)
    BY Begins
  <1>3. update \in Update
    BY <1>1, <1>2
  <1>4. v.window = "open"
    BY <1>1 DEF Delivered, Ordered
  <1>5. /\ update.type = "ready" => r = WindowReady(Draft)
        /\ update.type = "state" => r = HostState(Draft, update.value)
        /\ update.type = "fault" => r = HostFault(Draft, update.value)
    BY DEF OnUpdate
  <1>6. Shows(toMain, v.state, h, Lane)
    BY DEF Delivered, Believed
  <1> HIDE DEF r
  <1>7. CASE update.type = "ready"
    <2>1. r = [Draft EXCEPT !.s.ready = TRUE, !.s.queued = <<>>,
                            !.out = IF Draft.s.window = "open" THEN @ \o Draft.s.queued ELSE @]
      BY <1>5, <1>7 DEF WindowReady
    <2>2. /\ v'.ready = TRUE
          /\ v'.queued = <<>>
          /\ r.out = <<>> \o v.queued
          /\ v'.window = v.window
          /\ v'.disposed = v.disposed
          /\ v'.state = v.state
          /\ v'.mints = v.mints
          /\ v'.timers = v.timers
          /\ v'.openInstructions = v.openInstructions
      BY <1>1, <1>2, <1>4, <2>1 DEF Whole
    <2>3. v.queued \in Seq(Directive) /\ v.ready \in BOOLEAN
      BY <1>2 DEF Session
    <2>4. r.out = v.queued
      BY <2>2, <2>3, ConcatNone
    <2>5. Lane' = Lane
      BY <1>1, <1>2, <2>2, <2>3, <2>4, ConcatNone DEF Delivered, Ordered, Lane
    <2>6. Ordered'
      BY <1>1, <1>4, <2>2 DEF Delivered, Ordered
    <2>7. Meant'
      BY <1>1, <2>2, <2>5 DEF Delivered, Meant, AllFor, Goal
    <2>8. Believed'
      <3>1. Shows(Tail(toMain), v.state, h, Lane)
        BY <1>1, <1>2, <1>6, <1>7, ShowsPastOther
      <3>2. QED
        BY <1>1, <2>2, <2>5, <3>1 DEF Believed
    <2>9. QED
      BY <2>6, <2>7, <2>8 DEF Delivered
  <1>8. CASE update.type = "state"
    <2> DEFINE known == SetState(Draft, update.value)
    <2>1. /\ Whole(known)
          /\ SameWindow(Draft, known)
          /\ known.s.queued = Draft.s.queued
          /\ known.out = Draft.out
          /\ known.s.mints = v.mints
          /\ known.s.timers = v.timers
          /\ known.s.openInstructions = v.openInstructions
      BY <1>2 DEF SetState, Whole, SameWindow
    <2>2. Quietly(known, r, Goal) /\ r.s.state = update.value
      BY <1>2, <1>5, <1>8, HostStateQuiet
    <2> HIDE DEF known
    <2>3. /\ v'.ready = v.ready
          /\ v'.window = v.window
          /\ v'.queued = v.queued
          /\ v'.disposed = v.disposed
          /\ v'.state = update.value
          /\ toHost' = toHost
      BY <1>1, <1>2, <2>1, <2>2, ConcatNone DEF Quietly, SameWindow
    <2>4. Lane' = Lane
      BY <2>3 DEF Lane
    <2>5. Ordered'
      BY <1>1, <1>4, <2>3 DEF Delivered, Ordered
    <2>6. Meant'
      BY <1>1, <2>1, <2>2, <2>3, <2>4 DEF Delivered, Meant, AllFor, Goal, Quietly
    <2>7. Believed'
      <3>1. Shows(Tail(toMain), update.value, h, Lane)
        BY <1>1, <1>2, <1>6, <1>8, ShowsPastState
      <3>2. QED
        BY <1>1, <2>3, <2>4, <3>1 DEF Believed
    <2>8. QED
      BY <2>5, <2>6, <2>7 DEF Delivered
  <1>9. CASE update.type = "fault"
    <2>1. Quietly(Draft, r, Goal)
      BY <1>2, <1>5, <1>9, HostFaultQuiet
    <2>2. Shows(toMain', v.state, h, Lane)
      BY <1>1, <1>2, <1>6, <1>9, ShowsPastOther
    <2>3. QED
      BY <1>1, <1>4, <2>1, <2>2, QuietDelivers
  <1>10. QED
    BY <1>3, <1>7, <1>8, <1>9, UpdateFacts


LEMMA MatchEndsDelivers == IInv /\ Delivered /\ MatchEnds => Delivered'
  <1> SUFFICES ASSUME IInv, Delivered, MatchEnds PROVE Delivered'
    OBVIOUS
  <1> DEFINE r == Close(Draft)
  <1>1. /\ v' = r.s
        /\ toHost' = toHost \o r.out
        /\ toMain' = toMain
        /\ h' = h
        /\ playing' = FALSE
        /\ raced' = (raced \/ Unreachable)
    BY DEF MatchEnds, CloseMatch, Step
  <1>2. /\ Whole(Draft)
        /\ Draft.s = v
        /\ Lane \in Seq(Directive)
        /\ v.window # "open" => Lane = <<>> /\ h.live = None /\ h.opening = None
    BY Begins
  <1>3. /\ Sends(Draft, r, CloseDirective)
        /\ r.s.state = "idle"
        /\ ~Loose(v) => AllFor(r.s, None)
    BY <1>2, CloseSends
  <1>4. Unreachable <=> Loose(v)
    BY DEF Unreachable, Loose
  <1>5. CloseDirective \in Directive /\ CloseDirective.match = None
    BY DEF Directive, CloseDirective
  <1> HIDE DEF r
  <1>6. /\ Ordered'
        /\ Lane' = IF v.window = "open" THEN Append(Lane, CloseDirective) ELSE <<>>
        /\ v'.disposed = v.disposed
    BY <1>1, <1>3, <1>5, AfterSend
  <1>7. Goal' = None
    BY <1>1 DEF Goal
  <1>8. LeadsTo(Lane', h, None)
    <2>1. CASE v.window = "open"
      BY <1>2, <1>5, <1>6, <2>1, LeadsAfter
    <2>2. CASE v.window # "open"
      BY <1>2, <1>6, <2>2 DEF LeadsTo
    <2>3. QED
      BY <2>1, <2>2
  <1>9. Meant'
    BY <1>1, <1>3, <1>4, <1>7, <1>8 DEF Meant
  <1>10. Believed'
    <2>1. (Lane # <<>> => Lane' # <<>>) /\ (h.live # None => Lane' # <<>>)
      BY <1>2, <1>6, Appended
    <2>2. Shows(toMain, "idle", h, Lane')
      BY <2>1, ShowsOwn DEF Delivered, Believed
    <2>3. QED
      BY <1>1, <1>3, <2>2 DEF Believed
  <1>11. QED
    BY <1>6, <1>9, <1>10 DEF Delivered

\* A match opens, from the session as it stands or from the draft that closed it.
LEMMA OpenDelivers ==
    ASSUME IInv, Delivered, NEW c, Whole(c), NEW m,
           v' = Open(c, m).s, toHost' = toHost \o Open(c, m).out, toMain' = toMain, h' = h,
           playing' = TRUE, played' = m,
           raced' = (raced \/ Loose(v)),
           Sends(Draft, c, CloseDirective) \/ (c = Draft /\ ~playing),
           ~Loose(v) => ~Loose(c.s),
           ~Loose(v) /\ c # Draft => AllFor(c.s, m),
           c.s.state = "idle" \/ c = Draft
    PROVE  Delivered'
  <1> DEFINE r == Open(c, m)
  <1>1. /\ r.s.disposed = c.s.disposed
        /\ r.s.window = c.s.window \/ (c.s.window = "none" /\ r.s.window = "open")
        /\ r.s.ready = IF r.s.window = c.s.window THEN c.s.ready ELSE FALSE
        /\ r.s.queued = c.s.queued
        /\ r.out = c.out
        /\ r.s.state \in {c.s.state} \cup Own
        /\ ~Loose(c.s) /\ c.s.hasKey /\ ~c.s.disposed => AllFor(r.s, m)
        /\ ~c.s.hasKey /\ AllFor(c.s, m) => AllFor(r.s, m)
    BY OpenQuiet
  <1>2. /\ Whole(Draft)
        /\ Draft.s = v
        /\ Draft.out = <<>>
        /\ v \in Session
        /\ toHost \in Seq(Directive)
        /\ Lane \in Seq(Directive)
        /\ v.window # "open" => Lane = <<>> /\ h.live = None /\ h.opening = None
        /\ raced \in BOOLEAN
    BY Begins
  <1> HIDE DEF r
  <1>3. SameWindow(Draft, c)
    BY <1>2 DEF Sends, SameWindow
  <1>4. CloseDirective \in Directive /\ CloseDirective.match = None
    BY DEF Directive, CloseDirective
  <1> DEFINE lane == IF Sends(Draft, c, CloseDirective) /\ v.window = "open"
                     THEN Append(Lane, CloseDirective) ELSE Lane
  <1>5. /\ v'.disposed = v.disposed
        /\ v'.window = v.window \/ (v.window = "none" /\ v'.window = "open")
        /\ v'.ready = IF v'.window = v.window THEN v.ready ELSE FALSE
        /\ v'.queued = c.s.queued
        /\ toHost' = toHost \o c.out
    BY <1>1, <1>2, <1>3 DEF SameWindow, r
  <1>6. v.ready \in BOOLEAN /\ v.queued \in Seq(Directive)
    BY <1>2 DEF Session
  <1>7. Ordered' /\ Lane' = lane
    <2>1. CASE v.window # "open"
      <3>1. v'.queued = <<>> /\ toHost' = <<>> /\ ~v.ready
        BY <1>2, <1>5, <1>6, <2>1, ConcatNone DEF Sends, Delivered, Ordered
      <3>2. ~v'.ready
        BY <1>5, <3>1
      <3>3. QED
        BY <1>2, <2>1, <3>1, <3>2 DEF Delivered, Ordered, Lane
    <2>2. CASE v.window = "open" /\ c = Draft /\ ~Sends(Draft, c, CloseDirective)
      <3>1. v'.queued = v.queued /\ toHost' = toHost /\ v'.window = "open" /\ v'.ready = v.ready
        BY <1>2, <1>5, <1>6, <2>2, ConcatNone
      <3>2. QED
        BY <2>2, <3>1 DEF Delivered, Ordered, Lane
    <2>3. CASE v.window = "open" /\ v.ready /\ Sends(Draft, c, CloseDirective)
      <3>1. /\ v'.queued = v.queued
            /\ toHost' = Append(toHost, CloseDirective)
            /\ v'.window = "open"
            /\ v'.ready
        BY <1>2, <1>4, <1>5, <2>3, ConcatOne DEF Sends
      <3>2. QED
        BY <2>3, <3>1 DEF Delivered, Ordered, Lane
    <2>4. CASE v.window = "open" /\ ~v.ready /\ Sends(Draft, c, CloseDirective)
      <3>1. /\ v'.queued = Append(v.queued, CloseDirective)
            /\ toHost' = toHost
            /\ v'.window = "open"
            /\ ~v'.ready
        BY <1>2, <1>5, <2>4, ConcatNone DEF Sends
      <3>2. QED
        BY <2>4, <3>1 DEF Delivered, Ordered, Lane
    <2>5. QED
      BY <1>6, <2>1, <2>2, <2>3, <2>4
  <1>8. Goal' = m
    BY DEF Goal
  <1>9. Meant'
    <2>1. SUFFICES ASSUME ~raced, ~Loose(v), ~v.disposed
                   PROVE  AllFor(v', m) /\ LeadsTo(lane, h, m)
      BY <1>2, <1>5, <1>7, <1>8 DEF Meant, Loose
    <2>2. AllFor(v', m)
      <3>1. CASE v.hasKey
        BY <1>1, <1>2, <1>3, <2>1, <3>1 DEF SameWindow, r
      <3>2. CASE ~v.hasKey
        <4>1. c.s.hasKey = v.hasKey /\ c.s.window = v.window
          BY <1>2, <1>3 DEF SameWindow
        <4>4. AllFor(v, m)
          <5>1. Keyed(v)
            BY <1>2, Present DEF Sound, Base
          <5>2. QED
            BY <3>2, <5>1 DEF Keyed, AllFor
        <4>2. AllFor(c.s, m)
          BY <1>2, <2>1, <4>4
        <4>3. QED
          BY <1>1, <3>2, <4>1, <4>2 DEF r
      <3>3. QED
        BY <3>1, <3>2
    <2>3. LeadsTo(lane, h, m)
      <3>1. CASE v.window = "open" /\ Sends(Draft, c, CloseDirective)
        BY <1>2, <1>4, <3>1, LeadsAfter
      <3>2. CASE v.window # "open"
        BY <1>2, <3>2 DEF LeadsTo
      <3>3. CASE v.window = "open" /\ ~Sends(Draft, c, CloseDirective)
        <4>1. LeadsTo(Lane, h, None)
          BY <2>1, <3>3 DEF Delivered, Meant, Goal
        <4>2. QED
          BY <3>3, <4>1 DEF LeadsTo
      <3>4. QED
        BY <3>1, <3>2, <3>3
    <2>4. QED
      BY <2>2, <2>3
  <1>10. Believed'
    <2>1. Lane # <<>> => lane # <<>>
      BY <1>2, Appended
    <2>2. c # Draft /\ h.live # None => lane # <<>>
      BY <1>2, Appended
    <2>3. Shows(toMain, v'.state, h, lane)
      <3>1. v'.state \in {v.state} \cup Own \/ (v'.state = "idle" /\ c # Draft)
        BY <1>1, <1>2 DEF r
      <3>2. Shows(toMain, v.state, h, Lane)
        BY DEF Delivered, Believed
      <3> HIDE DEF lane
      <3>3. QED
        BY <2>1, <2>2, <3>1, <3>2, ShowsOwn
    <2>4. QED
      BY <1>7, <2>3 DEF Believed
  <1>11. QED
    BY <1>7, <1>9, <1>10 DEF Delivered


LEMMA MatchStartsDelivers == IInv /\ Delivered /\ MatchStarts => Delivered'
  <1> SUFFICES ASSUME IInv, Delivered, MatchStarts PROVE Delivered'
    OBVIOUS
  <1> DEFINE m == played + 1
  <1>1. /\ played' = m
        /\ playing' = TRUE
        /\ h' = h
        /\ raced' = (raced \/ Loose(v))
    BY DEF MatchStarts, Unreachable, Loose
  <1>2. Whole(Draft) /\ Draft.s = v
    BY Begins
  <1>3. CASE ~playing
    <2>1. Step(Open(Draft, m))
      BY <1>1, <1>3 DEF MatchStarts, OpenMatch
    <2>2. /\ v' = Open(Draft, m).s
          /\ toHost' = toHost \o Open(Draft, m).out
          /\ toMain' = toMain
      BY <2>1 DEF Step
    <2> HIDE DEF m
    <2>3. QED
      BY <1>1, <1>2, <1>3, <2>2, OpenDelivers
  <1>4. CASE playing
    <2> DEFINE c == Close(Draft)
    <2>1. /\ Sends(Draft, c, CloseDirective)
          /\ c.s.state = "idle"
          /\ ~Loose(v) => AllFor(c.s, m) /\ ~Loose(c.s)
      BY <1>2, CloseSends
    <2>2. Step(Open(c, m))
      BY <1>1, <1>4 DEF MatchStarts, ReopenMatch
    <2>3. /\ v' = Open(c, m).s
          /\ toHost' = toHost \o Open(c, m).out
          /\ toMain' = toMain
      BY <2>2 DEF Step
    <2>4. Whole(c)
      BY <2>1 DEF Sends
    <2> HIDE DEF c, m
    <2>5. QED
      BY <1>1, <2>1, <2>3, <2>4, OpenDelivers
  <1>5. playing \in BOOLEAN
    BY TypeForm DEF IInv
  <1>6. QED
    BY <1>3, <1>4, <1>5

\* The window takes a directive, the first in line.
LEMMA Taken ==
    ASSUME IInv, Delivered, h.phase = "idle", toHost # <<>>, toHost' = Tail(toHost), v' = v
    PROVE  /\ v.ready
           /\ v.window = "open"
           /\ Lane' = Tail(toHost)
           /\ Head(toHost) \in Directive
           /\ \A goal : LeadsTo(Lane, h, goal) =>
                  /\ Tail(toHost) = <<>> => Head(toHost).match \in {None, goal}
                  /\ Tail(toHost) # <<>> =>
                         Tail(toHost)[Len(Tail(toHost))].match \in {None, goal}
  <1>1. toHost \in Seq(Directive) /\ v \in Session
    BY Begins
  <1>2. v.ready
    BY <1>1 DEF Delivered, Ordered, Session
  <1>3. v.window = "open"
    BY <1>2 DEF Delivered, Ordered
  <1>4. Lane = toHost /\ Lane' = Tail(toHost)
    BY <1>2 DEF Lane
  <1>5. ASSUME NEW goal, LeadsTo(Lane, h, goal) PROVE toHost[Len(toHost)].match \in {None, goal}
    BY <1>4, <1>5 DEF LeadsTo
  <1>6. Head(toHost) \in Directive
    BY <1>1
  <1>7. QED
    BY <1>1, <1>2, <1>3, <1>4, <1>5, <1>6, LastOfTail

\* While the session stands the way it did, what main does of it is kept.
LEMMA HostDelivers ==
    ASSUME IInv, Delivered, v' = v, UNCHANGED <<played, playing, raced>>,
           v.window = "open",
           toHost' = toHost \/ v.ready,
           h'.phase # "absent",
           h'.phase = "idle" => h'.opening = None,
           h'.phase \in {"device", "call"} => h'.live = None /\ h'.opening # None,
           h'.phase = "closing" => h'.live = None,
           ~raced /\ ~v.disposed => LeadsTo(Lane', h', Goal),
           Shows(toMain', v.state, h', Lane')
    PROVE  Delivered'
  <1>1. Ordered'
    BY DEF Delivered, Ordered
  <1>2. Meant'
    BY DEF Delivered, Meant, Goal
  <1>3. Believed'
    BY DEF Believed
  <1>4. QED
    BY <1>1, <1>2, <1>3 DEF Delivered

LEMMA ReportsOne ==
    ASSUME toMain \in Seq(Update), NEW u, Report(<<u>>), u \in Update
    PROVE  toMain' = Append(toMain, u)
  BY ConcatOne DEF Report

LEMMA ReportsTwo ==
    ASSUME toMain \in Seq(Update), NEW a \in Update, NEW b \in Update, Report(<<a, b>>)
    PROVE  Append(toMain, a) \in Seq(Update) /\ toMain' = Append(Append(toMain, a), b)
  BY DEF Report

LEMMA StartHostDelivers ==
    ASSUME IInv, Delivered, v.window = "open", StartHost,
           v' = v, UNCHANGED <<played, playing, raced>>
    PROVE  Delivered'
  <1>1. h \in Hosts /\ toMain \in Seq(Update)
    BY Begins
  <1>2. /\ h.phase = "absent"
        /\ h' = [h EXCEPT !.phase = "idle"]
        /\ Report(<<ReadyUpdate>>)
        /\ toHost' = toHost
    BY DEF StartHost
  <1>3. h'.phase = "idle" /\ h'.live = h.live /\ h'.opening = h.opening
    BY <1>1, <1>2 DEF Hosts
  <1>4. toMain' = Append(toMain, ReadyUpdate)
    BY <1>1, <1>2, UpdatesAreTyped, ReportsOne
  <1>5. Lane' = Lane
    BY <1>2 DEF Lane
  <1>6. Shows(toMain', v.state, h', Lane')
    <2>1. Shows(toMain, v.state, h, Lane) /\ h.phase # "closing"
      BY <1>2 DEF Delivered, Believed
    <2>2. ReadyUpdate \in Update /\ ReadyUpdate.type # "state"
      BY UpdatesAreTyped, UpdateFacts
    <2>3. Shows(toMain', v.state, h, Lane)
      BY <1>1, <1>4, <2>1, <2>2, ShowsWithOther
    <2>4. QED
      BY <1>3, <1>5, <2>1, <2>3 DEF Shows
  <1>7. h'.opening = None
    BY <1>2, <1>3 DEF Delivered, Ordered
  <1>8. ~raced /\ ~v.disposed => LeadsTo(Lane', h', Goal)
    BY <1>3, <1>5 DEF Delivered, Meant, LeadsTo
  <1>9. QED
    BY <1>2, <1>3, <1>6, <1>7, <1>8, HostDelivers

LEMMA TakeOpenDelivers ==
    ASSUME IInv, Delivered, TakeOpen, v' = v, UNCHANGED <<played, playing, raced>>
    PROVE  Delivered'
  <1> DEFINE match == Head(toHost).match
  <1>1. h \in Hosts /\ toMain \in Seq(Update)
    BY Begins
  <1>2. /\ h.phase = "idle"
        /\ toHost # <<>>
        /\ Head(toHost).type = "open"
        /\ toHost' = Tail(toHost)
        /\ \/ /\ h.live = None
              /\ h' = [h EXCEPT !.phase = "device", !.opening = match]
              /\ Report(<<StateUpdate("connecting")>>)
           \/ /\ h.live # None
              /\ h' = [CloseLive(h) EXCEPT !.phase = "closing", !.opening = match]
              /\ toMain' = toMain
    BY DEF TakeOpen
  <1>3. /\ v.ready
        /\ v.window = "open"
        /\ Lane' = Tail(toHost)
        /\ Head(toHost) \in Directive
        /\ LeadsTo(Lane, h, Goal) =>
               /\ Tail(toHost) = <<>> => match \in {None, Goal}
               /\ Tail(toHost) # <<>> =>
                      Tail(toHost)[Len(Tail(toHost))].match \in {None, Goal}
    BY <1>2, Taken
  <1>4. match \in Matches
    BY <1>2, <1>3 DEF Directive, OpenDirective, CloseDirective
  <1>5. match # None
    BY <1>4, MatchAssumption DEF Matches, None
  <1> HIDE DEF match
  <1>6. h'.phase \in {"device", "closing"} /\ h'.live = None /\ h'.opening = match
    BY <1>1, <1>2 DEF Hosts, CloseLive
  <1>7. Shows(toMain', v.state, h', Lane')
    <2>1. CASE h.live = None
      <3>1. StateUpdate("connecting") \in Update /\ "connecting" \in SessionStates
        BY UpdatesAreTyped DEF SessionStates
      <3>2. toMain' = Append(toMain, StateUpdate("connecting"))
        BY <1>1, <1>2, <2>1, <3>1, ReportsOne
      <3>3. QED
        BY <1>1, <1>6, <3>1, <3>2, ShowsWithState
    <2>2. CASE h.live # None
      <3>1. h'.phase = "closing"
        BY <1>1, <1>2, <2>2 DEF Hosts, CloseLive
      <3>2. QED
        BY <3>1 DEF Shows
    <2>3. QED
      BY <2>1, <2>2
  <1>8. ~raced /\ ~v.disposed => LeadsTo(Lane', h', Goal)
    BY <1>3, <1>6 DEF Delivered, Meant, LeadsTo
  <1>9. QED
    BY <1>3, <1>5, <1>6, <1>7, <1>8, HostDelivers

LEMMA TakeCloseDelivers ==
    ASSUME IInv, Delivered, TakeClose, v' = v, UNCHANGED <<played, playing, raced>>
    PROVE  Delivered'
  <1>1. h \in Hosts /\ toMain \in Seq(Update)
    BY Begins
  <1>2. /\ h.phase = "idle"
        /\ toHost # <<>>
        /\ toHost' = Tail(toHost)
        /\ toMain' = toMain
        /\ h' = IF h.live = None THEN h ELSE [CloseLive(h) EXCEPT !.phase = "closing"]
    BY DEF TakeClose
  <1>3. /\ v.ready
        /\ v.window = "open"
        /\ Lane' = Tail(toHost)
        /\ LeadsTo(Lane, h, Goal) /\ Tail(toHost) # <<>> => Tail(toHost)[Len(Tail(toHost))].match \in {None, Goal}
    BY <1>2, Taken
  <1>4. h.opening = None
    BY <1>2 DEF Delivered, Ordered
  <1>5. h'.phase \in {"idle", "closing"} /\ h'.live = None /\ h'.opening = None
    BY <1>1, <1>2, <1>4 DEF Hosts, CloseLive
  <1>6. Shows(toMain', v.state, h', Lane')
    <2>1. CASE h.live = None
      <3>1. Shows(toMain, v.state, h, Lane) /\ h' = h
        BY <1>2, <2>1 DEF Delivered, Believed
      <3>2. QED
        BY <1>2, <2>1, <3>1 DEF Shows
    <2>2. CASE h.live # None
      <3>1. h'.phase = "closing"
        BY <1>1, <1>2, <2>2 DEF Hosts, CloseLive
      <3>2. QED
        BY <3>1 DEF Shows
    <2>3. QED
      BY <2>1, <2>2
  <1>7. ~raced /\ ~v.disposed => LeadsTo(Lane', h', Goal)
    BY <1>3, <1>5 DEF Delivered, Meant, LeadsTo
  <1>8. QED
    BY <1>3, <1>5, <1>6, <1>7, HostDelivers

\* The handler of an open settles, with a session or with none.
LEMMA SettleDelivers ==
    ASSUME IInv, Delivered, h.phase \in {"closing", "device", "call"}, h'.phase = "idle", h'.opening = None,
           h'.live \in {None, h.opening},
           toHost' = toHost, v' = v, UNCHANGED <<played, playing, raced>>,
           NEW q \in Seq(Update), NEW state \in SessionStates,
           toMain' = Append(q, StateUpdate(state)), state = "ready" <=> h'.live # None
    PROVE  Delivered'
  <1>1. Lane' = Lane
    BY DEF Lane
  <1>2. v.window = "open"
    BY DEF Delivered, Ordered
  <1>3. Shows(toMain', v.state, h', Lane')
    BY ShowsWithState
  <1>4. ~raced /\ ~v.disposed => LeadsTo(Lane', h', Goal)
    BY <1>1 DEF Delivered, Meant, LeadsTo
  <1>5. QED
    BY <1>2, <1>3, <1>4, HostDelivers

LEMMA FailsDelivers ==
    ASSUME IInv, Delivered, h.phase \in {"closing", "device", "call"}, NEW fault \in HostFaults,
           Fails(fault, h), v' = v, UNCHANGED <<played, playing, raced>>
    PROVE  Delivered'
  <1> DEFINE state == IF fault = "session-lost" THEN "degraded" ELSE "unavailable"
  <1>1. h \in Hosts /\ toMain \in Seq(Update)
    BY Begins
  <1>2. /\ h' = Settled(h)
        /\ Report(<<FaultUpdate(fault), StateUpdate(state)>>)
        /\ toHost' = toHost
    BY DEF Fails
  <1>3. state \in SessionStates /\ state # "ready"
    BY DEF SessionStates
  <1> HIDE DEF state
  <1>4. FaultUpdate(fault) \in Update /\ StateUpdate(state) \in Update
    BY <1>3, UpdatesAreTyped
  <1>5. h'.phase = "idle" /\ h'.opening = None /\ h'.live = h.live
    BY <1>1, <1>2 DEF Settled, Hosts
  <1>6. h.live = None
    BY DEF Delivered, Ordered
  <1>7. /\ Append(toMain, FaultUpdate(fault)) \in Seq(Update)
        /\ toMain' = Append(Append(toMain, FaultUpdate(fault)), StateUpdate(state))
    BY <1>1, <1>2, <1>4, ReportsTwo
  <1>8. QED
    BY <1>2, <1>3, <1>5, <1>6, <1>7, SettleDelivers

\* The session before it is closed: the window says so, and that it connects.
LEMMA ClosesDelivers ==
    ASSUME IInv, Delivered, Closes, v' = v, UNCHANGED <<played, playing, raced>>
    PROVE  Delivered'
  <1>1. h \in Hosts /\ toMain \in Seq(Update)
    BY Begins
  <1>2. h.phase = "closing" /\ h.live = None /\ toHost' = toHost /\ v.window = "open"
    BY DEF Closes, Delivered, Ordered
  <1>3. /\ StateUpdate("idle") \in Update /\ StateUpdate("connecting") \in Update
        /\ "idle" \in SessionStates /\ "connecting" \in SessionStates
    BY UpdatesAreTyped DEF SessionStates
  <1>4. CASE h.opening = None
    <2>1. h' = Settled(h) /\ Report(<<StateUpdate("idle")>>)
      BY <1>4 DEF Closes
    <2>2. h'.phase = "idle" /\ h'.opening = None /\ h'.live = None
      BY <1>1, <1>2, <2>1 DEF Settled, Hosts
    <2>3. toMain' = Append(toMain, StateUpdate("idle"))
      BY <1>1, <1>3, <2>1, ReportsOne
    <2>4. QED
      BY <1>1, <1>2, <1>3, <2>2, <2>3, SettleDelivers
  <1>5. CASE h.opening # None
    <2>1. /\ h' = [h EXCEPT !.phase = "device"]
          /\ Report(<<StateUpdate("idle"), StateUpdate("connecting")>>)
      BY <1>5 DEF Closes
    <2>2. h'.phase = "device" /\ h'.opening = h.opening /\ h'.live = None
      BY <1>1, <1>2, <2>1 DEF Hosts
    <2>3. /\ Append(toMain, StateUpdate("idle")) \in Seq(Update)
          /\ toMain' = Append(Append(toMain, StateUpdate("idle")), StateUpdate("connecting"))
      BY <1>1, <1>3, <2>1, ReportsTwo
    <2>4. Shows(toMain', v.state, h', Lane')
      BY <1>3, <2>2, <2>3, ShowsWithState
    <2>5. Lane' = Lane
      BY <1>2 DEF Lane
    <2>6. ~raced /\ ~v.disposed => LeadsTo(Lane', h', Goal)
      BY <1>2, <2>2, <2>5 DEF Delivered, Meant, LeadsTo
    <2>7. QED
      BY <1>2, <1>5, <2>2, <2>4, <2>6, HostDelivers
  <1>6. QED
    BY <1>4, <1>5

LEMMA ChannelOpensDelivers ==
    ASSUME IInv, Delivered, ChannelOpens, v' = v, UNCHANGED <<played, playing, raced>>
    PROVE  Delivered'
  <1>1. h \in Hosts /\ toMain \in Seq(Update)
    BY Begins
  <1>2. /\ h.phase = "call"
        /\ h' = [Settled(h) EXCEPT !.live = h.opening]
        /\ Report(<<StateUpdate("ready")>>)
        /\ toHost' = toHost
    BY DEF ChannelOpens
  <1>3. h.opening # None
    BY <1>2 DEF Delivered, Ordered
  <1>4. h'.phase = "idle" /\ h'.opening = None /\ h'.live = h.opening
    BY <1>1, <1>2 DEF Settled, Hosts
  <1>5. "ready" \in SessionStates /\ StateUpdate("ready") \in Update
    BY UpdatesAreTyped DEF SessionStates
  <1>6. toMain' = Append(toMain, StateUpdate("ready"))
    BY <1>1, <1>2, <1>5, ReportsOne
  <1>7. QED
    BY <1>1, <1>2, <1>3, <1>4, <1>5, <1>6, SettleDelivers

\* The window's state is as it was, whatever else of the setup or the loss changes.
LEMMA StandsDelivers ==
    ASSUME IInv, Delivered, h.phase # "absent",
           h'.live = h.live, h'.opening = h.opening,
           h'.phase = h.phase \/ (h.phase = "device" /\ h'.phase = "call"),
           toHost' = toHost, v' = v, UNCHANGED <<played, playing, raced>>,
           Shows(toMain', v.state, h, Lane)
    PROVE  Delivered'
  <1>1. Lane' = Lane
    BY DEF Lane
  <1>2. v.window = "open"
    BY DEF Delivered, Ordered
  <1>3. ~raced /\ ~v.disposed => LeadsTo(Lane', h', Goal)
    BY <1>1 DEF Delivered, Meant, LeadsTo
  <1>4. /\ h'.phase = "idle" => h'.opening = None
        /\ h'.phase \in {"device", "call"} => h'.live = None /\ h'.opening # None
        /\ h'.phase = "closing" => h'.live = None
        /\ h'.phase # "absent"
    BY DEF Delivered, Ordered
  <1>6. Shows(toMain', v.state, h', Lane')
    BY <1>1 DEF Shows
  <1>5. QED
    BY <1>1, <1>2, <1>3, <1>4, <1>6, HostDelivers

LEMMA WindowDelivers ==
    ASSUME IInv, Delivered, WindowStep \/ SessionLost \/ ConnectionFails
    PROVE  Delivered'
  <1>1. v' = v /\ UNCHANGED <<played, playing, raced>>
    BY DEF WindowStep, SessionLost, ConnectionFails, WindowUnchanged
  <1>2. h \in Hosts /\ toMain \in Seq(Update)
    BY Begins
  <1>3. Shows(toMain, v.state, h, Lane)
    BY DEF Delivered, Believed
  <1>4. CASE v.window = "open" /\ StartHost
    BY <1>1, <1>4, StartHostDelivers
  <1>5. CASE TakeOpen
    BY <1>1, <1>5, TakeOpenDelivers
  <1>6. CASE TakeClose
    BY <1>1, <1>6, TakeCloseDelivers
  <1>7. CASE DeviceOpens
    <2>1. h' = [h EXCEPT !.phase = "call"] /\ h.phase = "device" /\ UNCHANGED <<toHost, toMain>>
      BY <1>7 DEF DeviceOpens
    <2>2. h'.phase = "call" /\ h'.live = h.live /\ h'.opening = h.opening
      BY <1>2, <2>1 DEF Hosts
    <2>3. QED
      BY <1>1, <1>3, <2>1, <2>2, StandsDelivers
  <1>8. CASE DeviceRefused
    <2>1. h.phase \in {"closing", "device", "call"} /\ "device" \in HostFaults /\ Fails("device", h)
      BY <1>8 DEF DeviceRefused, HostFaults
    <2>2. QED
      BY <1>1, <2>1, FailsDelivers
  <1>9. CASE CallFails
    <2>1. /\ h.phase \in {"closing", "device", "call"}
          /\ "session-lost" \in HostFaults
          /\ Fails("session-lost", h)
      BY <1>9 DEF CallFails, HostFaults
    <2>2. QED
      BY <1>1, <2>1, FailsDelivers
  <1>10. CASE ChannelOpens
    BY <1>1, <1>10, ChannelOpensDelivers
  <1>11. CASE LoseSession
    <2>1. /\ h.live # None
          /\ h' = [h EXCEPT !.lost = TRUE]
          /\ Report(<<FaultUpdate("session-lost")>>)
          /\ toHost' = toHost
      BY <1>11 DEF LoseSession
    <2>2. h'.phase = h.phase /\ h'.live = h.live /\ h'.opening = h.opening
      BY <1>2, <2>1 DEF Hosts
    <2>3. FaultUpdate("session-lost") \in Update
      BY UpdatesAreTyped DEF HostFaults
    <2>4. toMain' = Append(toMain, FaultUpdate("session-lost"))
      BY <1>2, <2>1, <2>3, ReportsOne
    <2>5. FaultUpdate("session-lost").type # "state"
      BY UpdateFacts
    <2>6. Shows(toMain', v.state, h, Lane)
      BY <1>2, <1>3, <2>3, <2>4, <2>5, ShowsWithOther
    <2>7. h.phase # "absent"
      BY <2>1 DEF Delivered, Ordered
    <2>8. QED
      BY <1>1, <2>1, <2>2, <2>6, <2>7, StandsDelivers
  <1>12. CASE PeerFails
    <2>1. h' = [h EXCEPT !.failed = TRUE] /\ h.phase = "call" /\ UNCHANGED <<toHost, toMain>>
      BY <1>12 DEF PeerFails
    <2>2. h'.phase = h.phase /\ h'.live = h.live /\ h'.opening = h.opening
      BY <1>2, <2>1 DEF Hosts
    <2>3. QED
      BY <1>1, <1>3, <2>1, <2>2, StandsDelivers
  <1>13. CASE Closes
    BY <1>1, <1>13, ClosesDelivers
  <1>14. CASE CloseFails
    <2>1. /\ h.phase \in {"closing", "device", "call"}
          /\ "session-lost" \in HostFaults
          /\ Fails("session-lost", h)
      BY <1>14 DEF CloseFails, HostFaults
    <2>2. QED
      BY <1>1, <2>1, FailsDelivers
  <1>15. QED
    BY <1>4, <1>5, <1>6, <1>7, <1>8, <1>9, <1>10, <1>11, <1>12, <1>13, <1>14
       DEF WindowStep, HostNext, SessionLost, ConnectionFails

LEMMA QuitsDelivers == IInv /\ Delivered /\ Quits => Delivered'
  <1> SUFFICES ASSUME IInv, Delivered, Quits PROVE Delivered'
    OBVIOUS
  <1> DEFINE r == DisposeSession(Draft)
  <1>1. /\ ~v.disposed
        /\ v' = r.s
        /\ toHost' = <<>>
        /\ toMain' = <<>>
        /\ h' = [h EXCEPT !.phase = "absent", !.opening = None, !.live = None,
                          !.lost = FALSE, !.failed = FALSE]
    BY DEF Quits, Dispose
  <1>2. Whole(Draft) /\ Draft.s = v /\ h \in Hosts
    BY Begins
  <1>3. Base(r) /\ r.s.disposed
    <2>1. Base(Draft) /\ ~Draft.s.disposed
      BY <1>1, <1>2, Present DEF Sound
    <2>2. QED
      BY <2>1, DisposeForm
  <1>4. v'.window = "closed" /\ v'.ready = FALSE /\ v'.queued = <<>>
    <2> DEFINE closing == [Draft EXCEPT !.s.disposed = TRUE]
    <2> DEFINE closed == Close(closing)
    <2>1. r = [closed EXCEPT !.s.window = "closed", !.s.ready = FALSE, !.s.queued = <<>>]
      BY <1>1, <1>2 DEF DisposeSession
    <2>2. Whole(closing)
      BY <1>2 DEF Whole
    <2> HIDE DEF closing
    <2>3. Whole(closed)
      BY <2>2, CloseSends DEF Sends
    <2> HIDE DEF closed, r
    <2>4. QED
      BY <1>1, <2>1, <2>3 DEF Whole
  <1>5. v'.disposed /\ v'.state # "ready"
    BY <1>1, <1>3 DEF Base, Ended
  <1>6. h'.phase = "absent" /\ h'.live = None /\ h'.opening = None
    BY <1>1, <1>2 DEF Hosts
  <1>7. Ordered'
    BY <1>1, <1>4, <1>6 DEF Ordered
  <1>8. Meant'
    BY <1>5 DEF Meant
  <1>9. Believed'
    <2>1. ~EndsWith(<<>>, "ready")
      BY DEF EndsWith
    <2>2. Shows(<<>>, v'.state, h', Lane')
      BY <1>5, <1>6, <2>1 DEF Shows
    <2>3. QED
      BY <1>1, <2>2 DEF Believed
  <1>10. QED
    BY <1>7, <1>8, <1>9 DEF Delivered

LEMMA InitDelivered == Init => Delivered
  <1> SUFFICES ASSUME Init PROVE Delivered
    OBVIOUS
  <1>1. /\ v.window = "none"
        /\ v.ready = FALSE
        /\ v.queued = <<>>
        /\ v.state = "idle"
        /\ v.openInstructions = None
        /\ v.timers = {}
        /\ v.mints = {}
        /\ toHost = <<>>
        /\ toMain = <<>>
        /\ h.phase = "absent"
        /\ h.live = None
        /\ h.opening = None
    BY DEF Init, SessionInit, HostInit
  <1>2. Ordered
    BY <1>1 DEF Ordered
  <1>3. Meant
    BY <1>1 DEF Meant, AllFor, LeadsTo, Lane
  <1>4. Believed
    <2>1. ~EndsWith(<<>>, "ready")
      BY DEF EndsWith
    <2>2. QED
      BY <1>1, <2>1 DEF Believed, Shows
  <1>5. QED
    BY <1>2, <1>3, <1>4 DEF Delivered

LEMMA NextDelivers == IInv /\ Delivered /\ [Next]_linkVars => Delivered'
  <1> SUFFICES ASSUME IInv, Delivered, [Next]_linkVars PROVE Delivered'
    OBVIOUS
  <1>1. CASE UNCHANGED linkVars
    BY <1>1 DEF linkVars, Delivered, Ordered, Meant, Believed, Lane, Goal
  <1>2. QED
    BY <1>1, MatchStartsDelivers, MatchEndsDelivers, MintStepDelivers, TimerStepDelivers,
       ReceiveStepDelivers, WindowDelivers, QuitsDelivers DEF Next

\* In every reachable state the directives still to come leave the window with
\* the session of the match that runs, and the updates still to come leave main
\* with the state of that window.
THEOREM DeliveredHolds == Spec => []Delivered
  <1>1. Init => Delivered
    BY InitDelivered
  <1>2. IInv /\ Delivered /\ [Next]_linkVars => Delivered'
    BY NextDelivers
  <1>3. QED
    BY <1>1, <1>2, InvariantHolds, PTL DEF Spec

\* Once everything is delivered main shows the state the window is in: it never
\* claims a session that does not exist nor rests beside one, whatever was lost,
\* renewed, closed or raced on the way. (session.ts:351-373, 563-585, 728-790;
\* voice/host.ts:210-400)
THEOREM StateHolds == Spec => []StateIsTrue
  <1>1. Delivered => StateIsTrue
    <2> SUFFICES ASSUME Delivered, Quiet PROVE /\ v.state = "ready" => h.live # None
                                               /\ v.state = "idle" => h.live = None
      BY DEF StateIsTrue
    <2>1. Mute(toMain)
      BY DEF Quiet, Mute
    <2>2. Lane = <<>>
      BY DEF Quiet, Lane
    <2>3. h.phase # "closing"
      BY DEF Quiet
    <2>4. QED
      BY <2>1, <2>2, <2>3 DEF Delivered, Believed, Shows
  <1>2. QED
    BY <1>1, DeliveredHolds, PTL

\* A match that ended with nothing in flight leaves no session behind, and the
\* session that runs is the one of the match that runs.
\* (shell/index.ts openSession and closeMatch; voice/host.ts:210-400)
THEOREM SessionHolds == Spec => []SessionOfTheMatch
  <1>1. Delivered /\ IInv => SessionOfTheMatch
    <2> SUFFICES ASSUME Delivered, IInv, Quiet, ~raced, h.live # None
                 PROVE  playing /\ h.live = played
      BY DEF SessionOfTheMatch
    <2>1. Lane = <<>> /\ v.window = "open"
      BY DEF Quiet, Lane, Delivered, Ordered
    <2>2. ~v.disposed
      BY <2>1, Begins
    <2>3. h.live \in {None, Goal}
      BY <2>1, <2>2 DEF Delivered, Meant, LeadsTo
    <2>4. QED
      BY <2>3 DEF Goal
  <1>2. QED
    BY <1>1, DeliveredHolds, InvariantHolds, PTL
=============================================================================
