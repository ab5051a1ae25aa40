------------------------------ MODULE PartsProofs ------------------------------
(***************************************************************************)
(* Proofs about the parts that a module of their own describes: of each    *)
(* the invariant of its steps, and what follows from it while the parts    *)
(* run beside each other.                                                  *)
(***************************************************************************)
EXTENDS MCParts, FiniteSetTheorems, WellFoundedInduction, TLAPS

partsVars == <<part, logVars, busVars, httpVars, visionVars, callVars,
    readingVars, timingVars, triggerVars, appVars, convVars, hubVars, windowVars,
    audioVars, configVars, commandVars, silentVars, credVars, wireVars, screenVars, atVars>>

-----------------------------------------------------------------------------
(* Numbers *)

\* A set of numbers has a least one: what an induction on numbers comes to.
LEMMA LeastOf ==
    ASSUME NEW T, T \subseteq Nat, T # {}
    PROVE  \E x \in T : \A y \in T : x <= y
  <1> DEFINE R == {ss \in Nat \X Nat : ss[1] < ss[2]}
  <1>1. IsWellFoundedOn(R, Nat)
    BY NatLessThanWellFounded DEF OpToRel
  <1> HIDE DEF R
  <1>2. PICK x \in T : \A y \in T : ~(<<y, x>> \in R)
    BY <1>1, WFMin
  <1>3. ASSUME NEW y \in T PROVE x <= y
    <2>1. x \in Nat /\ y \in Nat
      OBVIOUS
    <2>2. y < x => <<y, x>> \in R
      BY <2>1 DEF R
    <2>3. QED
      BY <1>2, <2>1, <2>2
  <1>4. QED
    BY <1>3

\* A set that holds 0, and with a number the next, holds all.
LEMMA AllNumbers ==
    ASSUME NEW S, 0 \in S, \A n \in Nat : n \in S => n + 1 \in S
    PROVE  Nat \subseteq S
  <1> DEFINE T == {n \in Nat : n \notin S}
  <1>1. ASSUME T # {} PROVE FALSE
    <2>1. PICK x \in T : \A y \in T : x <= y
      BY <1>1, LeastOf
    <2>2. x \in Nat /\ x # 0 /\ x \notin S
      BY <2>1
    <2>3. x - 1 \in Nat /\ (x - 1) + 1 = x /\ ~(x <= x - 1)
      BY <2>2
    <2>4. x - 1 \in S
      BY <2>1, <2>3
    <2>5. QED
      BY <2>2, <2>3, <2>4
  <1>2. QED
    BY <1>1

LEMMA DivMod ==
    ASSUME NEW q \in Nat, NEW s \in Nat \ {0}, NEW m \in 0 .. s - 1
    PROVE  (q * s + m) \div s = q /\ (q * s + m) % s = m
  OBVIOUS

LEMMA DivBounds ==
    ASSUME NEW n \in Nat, NEW s \in Nat \ {0}, NEW k \in Nat, n < k * s
    PROVE  n \div s \in 0 .. k - 1 /\ n % s \in 0 .. s - 1
  <1>1. n \div s < k
    OBVIOUS
  <1>2. n \div s \in Nat /\ n % s \in 0 .. s - 1
    OBVIOUS
  <1>3. QED
    BY <1>1, <1>2

LEMMA DivOrder ==
    ASSUME NEW m \in Nat, NEW n \in Nat, m < n, NEW s \in Nat \ {0}
    PROVE  m \div s < n \div s \/ (m \div s = n \div s /\ m % s < n % s)
  OBVIOUS

LEMMA Product ==
    ASSUME NEW a \in Nat, NEW b \in Nat, NEW c \in Nat, a <= b
    PROVE  a * c \in Nat /\ b * c \in Nat /\ a * c <= b * c
  OBVIOUS

\* A part of a whole, in hundredths that are begun.
LEMMA Hundredths ==
    ASSUME NEW a \in Nat \ {0}, NEW b \in Nat \ {0}, a <= b
    PROVE  (100 * a + b - 1) \div b \in 1 .. 100
  OBVIOUS

\* A sequence is one of its own elements.
LEMMA OwnElements ==
    ASSUME NEW S, NEW s \in Seq(S)
    PROVE  s \in Seq({s[i] : i \in 1 .. Len(s)})
  OBVIOUS

-----------------------------------------------------------------------------
(* Tool calls *)

Live == {c \in asked : c.session = speaking}

CallsInv ==
    /\ speaking \in Nat /\ opened \in Nat /\ counter \in Nat
    /\ speaking # 0 => speaking = opened
    /\ asked \subseteq Call
    /\ IsFiniteSet(asked)
    /\ \A c \in asked : c.session <= opened
    /\ \A c \in Live : c.nr <= Cardinality(Live)
    /\ DOMAIN outputs = Call
    /\ \A c \in Call \ asked : outputs[c] = <<>>
    /\ \A c \in asked : outputs[c] = <<>> \/ Len(outputs[c]) = 1
    /\ DOMAIN waiting \subseteq 1 .. counter
    /\ \A id \in DOMAIN waiting :
           waiting[id] \in asked /\ waiting[id].session = speaking /\ outputs[waiting[id]] = <<>>
    /\ \A i, j \in DOMAIN waiting : waiting[i] = waiting[j] => i = j
    /\ \A c \in Live : outputs[c] = <<>> => \E id \in DOMAIN waiting : waiting[id] = c

\* The call the model makes next is one it has not made.
LEMMA NextCallIsNew ==
    ASSUME CallsInv, MakesCall
    PROVE  /\ NextCall \in Call /\ NextCall \notin asked
           /\ NextCall.session = speaking
           /\ outputs[NextCall] = <<>>
           /\ asked' = asked \cup {NextCall}
           /\ IsFiniteSet(asked')
           /\ \A c \in asked' : c.session = speaking => c.nr <= Cardinality({x \in asked' : x.session = speaking})
  <1> DEFINE c0 == NextCall
  <1>1. /\ c0 \in Call
        /\ asked' = asked \cup {c0}
        /\ speaking # 0
        /\ c0.session = speaking
        /\ c0.nr = 1 + Cardinality(Live)
    BY DEF MakesCall, NextCall, Live
  <1> HIDE DEF c0
  <1>2. IsFiniteSet(Live) /\ Cardinality(Live) \in Nat
    <2>1. Live \in SUBSET asked
      BY DEF Live
    <2>2. QED
      BY <2>1, FS_Subset, FS_CardinalityType DEF CallsInv
  <1>3. c0 \notin asked
    <2>1. SUFFICES ASSUME c0 \in asked PROVE FALSE
      OBVIOUS
    <2>2. c0 \in Live
      BY <1>1, <2>1 DEF Live
    <2>3. c0.nr <= Cardinality(Live)
      BY <2>2 DEF CallsInv
    <2>4. QED
      BY <1>1, <1>2, <2>3
  <1>4. IsFiniteSet(asked')
    BY <1>1, FS_AddElement DEF CallsInv
  <1>5. {x \in asked' : x.session = speaking} = Live \cup {c0}
    BY <1>1 DEF Live
  <1>6. c0 \notin Live
    BY <1>3 DEF Live
  <1>7. Cardinality(Live \cup {c0}) = Cardinality(Live) + 1
    BY <1>2, <1>6, FS_AddElement
  <1>8. ASSUME NEW c \in asked', c.session = speaking
        PROVE  c.nr <= Cardinality({x \in asked' : x.session = speaking})
    <2>1. CASE c = c0
      <3>1. c.nr = 1 + Cardinality(Live)
        BY <1>1, <2>1
      <3>2. Cardinality({x \in asked' : x.session = speaking}) = Cardinality(Live) + 1
        BY <1>5, <1>7, Zenon
      <3>3. QED
        BY <1>2, <3>1, <3>2
    <2>2. CASE c \in Live
      <3>1. c.nr <= Cardinality(Live) /\ c.nr \in Nat
        BY <2>2 DEF CallsInv, Live, Call
      <3>2. QED
        BY <1>2, <1>5, <1>7, <3>1
    <2>3. QED
      BY <1>1, <1>8, <2>1, <2>2 DEF Live
  <1>9. outputs[c0] = <<>>
    BY <1>1, <1>3 DEF CallsInv
  <1>10. QED
    BY <1>1, <1>3, <1>4, <1>8, <1>9 DEF c0

LEMMA OneAnswer == \A a : Append(<<>>, a) # <<>> /\ Len(Append(<<>>, a)) = 1
  OBVIOUS

\* The one that waits under this id gets its output, and waits no more.
LEMMA AnswerKeeps ==
    ASSUME CallsInv, NEW id \in DOMAIN waiting, NEW answer,
           Output(waiting[id], answer), Take(id),
           UNCHANGED <<speaking, opened, asked, counter>>
    PROVE  CallsInv'
  <1> DEFINE c0 == waiting[id]
  <1>1. /\ c0 \in asked /\ c0 \in Call /\ outputs[c0] = <<>>
        /\ outputs' = [outputs EXCEPT ![c0] = Append(@, answer)]
        /\ waiting' = [x \in DOMAIN waiting \ {id} |-> waiting[x]]
    BY DEF CallsInv, Output, Take, Restrict
  <1>2. \A x \in DOMAIN waiting : waiting[x] = c0 => x = id
    BY DEF CallsInv
  <1> HIDE DEF c0
  <1>3. /\ DOMAIN outputs' = Call
        /\ outputs'[c0] # <<>> /\ Len(outputs'[c0]) = 1
        /\ \A c \in Call : c # c0 => outputs'[c] = outputs[c]
    BY <1>1, OneAnswer DEF CallsInv
  <1>4. /\ DOMAIN waiting' = DOMAIN waiting \ {id}
        /\ \A x \in DOMAIN waiting' : waiting'[x] = waiting[x] /\ waiting[x] # c0
    BY <1>1, <1>2
  <1>5. Live' = Live
    BY DEF Live
  <1>6. \A x \in DOMAIN waiting' :
           waiting'[x] \in asked /\ waiting'[x].session = speaking /\ outputs'[waiting'[x]] = <<>>
    BY <1>3, <1>4 DEF CallsInv
  <1>7. ASSUME NEW c \in Live, outputs'[c] = <<>>
        PROVE  \E x \in DOMAIN waiting' : waiting'[x] = c
    <2>1. c # c0 /\ c \in Call /\ outputs[c] = <<>>
      BY <1>3, <1>7 DEF Live, CallsInv
    <2>2. PICK x \in DOMAIN waiting : waiting[x] = c
      BY <2>1 DEF CallsInv
    <2>3. x # id
      BY <2>1, <2>2 DEF c0
    <2>4. QED
      BY <1>4, <2>2, <2>3
  <1>8. \A c \in Call \ asked : outputs'[c] = <<>>
    BY <1>1, <1>3 DEF CallsInv
  <1>9. \A c \in asked : outputs'[c] = <<>> \/ Len(outputs'[c]) = 1
    BY <1>1, <1>3 DEF CallsInv
  <1>10. \A i, j \in DOMAIN waiting' : waiting'[i] = waiting'[j] => i = j
    BY <1>4 DEF CallsInv
  <1>11. QED
    BY <1>3, <1>4, <1>5, <1>6, <1>7, <1>8, <1>9, <1>10 DEF CallsInv

LEMMA RefusedKeeps == CallsInv /\ Refused => CallsInv'
  <1> SUFFICES ASSUME CallsInv, Refused PROVE CallsInv'
    OBVIOUS
  <1>1. MakesCall /\ Output(NextCall, Unknown)
        /\ UNCHANGED <<speaking, opened, counter, waiting>>
    BY DEF Refused
  <1> DEFINE c0 == NextCall
  <1>2. /\ c0 \in Call /\ c0 \notin asked /\ outputs[c0] = <<>> /\ c0.session = speaking
        /\ asked' = asked \cup {c0}
        /\ IsFiniteSet(asked')
        /\ \A c \in asked' : c.session = speaking => c.nr <= Cardinality({x \in asked' : x.session = speaking})
    BY <1>1, NextCallIsNew
  <1>3. outputs' = [outputs EXCEPT ![c0] = Append(@, Unknown)]
    BY <1>1 DEF Output
  <1> HIDE DEF c0
  <1>4. /\ DOMAIN outputs' = Call
        /\ outputs'[c0] # <<>> /\ Len(outputs'[c0]) = 1
        /\ \A c \in Call : c # c0 => outputs'[c] = outputs[c]
    BY <1>2, <1>3, OneAnswer DEF CallsInv
  <1>5. speaking # 0
    BY <1>1 DEF MakesCall
  <1>6. \A id \in DOMAIN waiting :
           waiting[id] \in asked' /\ waiting[id].session = speaking /\ outputs'[waiting[id]] = <<>>
    BY <1>2, <1>4 DEF CallsInv
  <1>7. \A c \in Live' : outputs'[c] = <<>> => \E id \in DOMAIN waiting : waiting[id] = c
    BY <1>1, <1>2, <1>4 DEF CallsInv, Live
  <1>8. \A c \in Live' : c.nr <= Cardinality(Live')
    BY <1>1, <1>2 DEF Live
  <1>9. \A c \in asked' : c.session <= opened
    BY <1>2, <1>5 DEF CallsInv
  <1>10. /\ \A c \in Call \ asked' : outputs'[c] = <<>>
         /\ \A c \in asked' : outputs'[c] = <<>> \/ Len(outputs'[c]) = 1
    BY <1>2, <1>4 DEF CallsInv
  <1>11. QED
    BY <1>1, <1>2, <1>4, <1>6, <1>7, <1>8, <1>9, <1>10 DEF CallsInv

LEMMA DispatchedKeeps == CallsInv /\ Dispatched => CallsInv'
  <1> SUFFICES ASSUME CallsInv, Dispatched PROVE CallsInv'
    OBVIOUS
  <1> DEFINE c0 == NextCall
  <1>1. /\ MakesCall
        /\ counter' = counter + 1
        /\ waiting' = [id \in DOMAIN waiting \cup {counter + 1} |->
                          IF id = counter + 1 THEN c0 ELSE waiting[id]]
        /\ UNCHANGED <<speaking, opened, outputs>>
    BY DEF Dispatched
  <1>2. /\ c0 \in Call /\ c0 \notin asked /\ outputs[c0] = <<>> /\ c0.session = speaking
        /\ asked' = asked \cup {c0}
        /\ IsFiniteSet(asked')
        /\ \A c \in asked' : c.session = speaking => c.nr <= Cardinality({x \in asked' : x.session = speaking})
    BY <1>1, NextCallIsNew
  <1> HIDE DEF c0
  <1>3. counter \in Nat /\ counter + 1 \notin DOMAIN waiting
    BY DEF CallsInv
  <1>4. /\ DOMAIN waiting' = {counter + 1} \cup DOMAIN waiting
        /\ waiting'[counter + 1] = c0
        /\ \A id \in DOMAIN waiting : waiting'[id] = waiting[id]
    BY <1>1, <1>3
  <1>5. speaking # 0
    BY <1>1 DEF MakesCall
  <1>6. \A id \in DOMAIN waiting' :
           waiting'[id] \in asked' /\ waiting'[id].session = speaking /\ outputs[waiting'[id]] = <<>>
    BY <1>2, <1>4 DEF CallsInv
  <1>7. \A c \in Live' : outputs[c] = <<>> => \E id \in DOMAIN waiting' : waiting'[id] = c
    BY <1>1, <1>2, <1>4 DEF CallsInv, Live
  <1>8. \A c \in Live' : c.nr <= Cardinality(Live')
    BY <1>1, <1>2 DEF Live
  <1>9. \A c \in asked' : c.session <= opened
    BY <1>2, <1>5 DEF CallsInv
  <1>10. /\ \A c \in Call \ asked' : outputs[c] = <<>>
         /\ \A c \in asked' : outputs[c] = <<>> \/ Len(outputs[c]) = 1
    BY <1>2 DEF CallsInv
  <1>11. \A i, j \in DOMAIN waiting' : waiting'[i] = waiting'[j] => i = j
    BY <1>2, <1>4 DEF CallsInv
  <1>12. DOMAIN waiting' \subseteq 1 .. counter'
    BY <1>1, <1>3, <1>4 DEF CallsInv
  <1>14. /\ counter' \in Nat
         /\ outputs' = outputs /\ speaking' = speaking /\ opened' = opened
    BY <1>1, <1>3
  <1>13. QED
    BY <1>14, <1>2, <1>6, <1>7, <1>8, <1>9, <1>10, <1>11, <1>12 DEF CallsInv

LEMMA SessionKeeps == CallsInv /\ (OpenSession \/ CloseSession) => CallsInv'
  <1> SUFFICES ASSUME CallsInv, OpenSession \/ CloseSession PROVE CallsInv'
    OBVIOUS
  <1>1. /\ UNCHANGED <<asked, outputs>>
        /\ waiting' = <<>> /\ DOMAIN waiting' = {}
        /\ counter' \in Nat /\ speaking' \in Nat /\ opened' \in Nat
        /\ speaking' # 0 => speaking' = opened'
        /\ opened <= opened'
        /\ speaking' = 0 \/ speaking' = opened + 1
    BY DEF OpenSession, CloseSession, CallsInv
  <1>2. Live' = {}
    <2>1. \A c \in asked : c.session \in Nat /\ c.session # 0 /\ c.session <= opened
      BY DEF CallsInv, Call
    <2>2. QED
      BY <1>1, <2>1 DEF Live, CallsInv
  <1>3. \A c \in asked : c.session <= opened'
    <2>1. \A c \in asked : c.session \in Nat /\ c.session <= opened
      BY DEF CallsInv, Call
    <2>2. QED
      BY <1>1, <2>1 DEF CallsInv
  <1>4. QED
    BY <1>1, <1>2, <1>3 DEF CallsInv

LEMMA CallsNext == CallsInv /\ [ToolNext]_callVars => CallsInv'
  <1> SUFFICES ASSUME CallsInv, [ToolNext]_callVars PROVE CallsInv'
    OBVIOUS
  <1>1. CASE UNCHANGED <<speaking, opened, asked, counter, waiting, outputs>>
    BY <1>1 DEF CallsInv, Live
  <1>2. CASE Settle
    <2> DEFINE id == Head(answering).id
    <2>1. CASE id \in DOMAIN waiting
      BY <1>2, <2>1, AnswerKeeps DEF Settle
    <2>2. CASE id \notin DOMAIN waiting
      BY <1>1, <1>2, <2>2 DEF Settle
    <2>3. QED
      BY <2>1, <2>2
  <1>3. ASSUME NEW id \in DOMAIN waiting, Deadline(id) PROVE CallsInv'
    BY <1>3, AnswerKeeps DEF Deadline
  <1>4. CASE MainReads \/ \E message \in reading : MainAnswers(message)
    BY <1>1, <1>4 DEF MainReads, MainAnswers
  <1>5. CASE UNCHANGED callVars
    BY <1>1, <1>5 DEF callVars
  <1>6. QED
    BY <1>2, <1>3, <1>4, <1>5, SessionKeeps, RefusedKeeps, DispatchedKeeps DEF ToolNext

LEMMA CallsStart == ToolInit => CallsInv
  <1> SUFFICES ASSUME ToolInit PROVE CallsInv
    OBVIOUS
  <1>1. /\ speaking = 0 /\ opened = 0 /\ counter = 0
        /\ asked = {} /\ waiting = <<>> /\ DOMAIN waiting = {}
        /\ outputs = [c \in Call |-> <<>>]
    BY DEF ToolInit
  <1>2. IsFiniteSet(asked) /\ Live = {}
    BY <1>1, FS_EmptySet DEF Live
  <1>3. QED
    BY <1>1, <1>2 DEF CallsInv

LEMMA CallsImply == CallsInv => AnsweredOnce
  <1> SUFFICES ASSUME CallsInv, NEW c \in asked
               PROVE  /\ Len(outputs[c]) <= 1
                      /\ c.session = speaking /\ outputs[c] = <<>> =>
                             Cardinality({id \in DOMAIN waiting : waiting[id] = c}) = 1
    BY DEF AnsweredOnce
  <1>1. Len(outputs[c]) <= 1
    <2>1. Len(<<>>) = 0
      OBVIOUS
    <2>2. outputs[c] = <<>> \/ Len(outputs[c]) = 1
      BY DEF CallsInv
    <2>3. \A n : n = 0 \/ n = 1 => n <= 1
      OBVIOUS
    <2>4. QED
      BY <2>1, <2>2, <2>3, Zenon
  <1>2. ASSUME c.session = speaking, outputs[c] = <<>>
        PROVE  Cardinality({id \in DOMAIN waiting : waiting[id] = c}) = 1
    <2>1. PICK id \in DOMAIN waiting : waiting[id] = c
      BY <1>2 DEF CallsInv, Live
    <2>2. {x \in DOMAIN waiting : waiting[x] = c} = {id}
      BY <2>1 DEF CallsInv
    <2>3. QED
      BY <2>2, FS_Singleton
  <1>3. QED
    BY <1>1, <1>2

\* Of every call the model makes there is one output or one id that will give it
\* one, for any number of sessions and calls. (renderer/voice/tools.ts)
THEOREM AnswersHold == PartsSpec => []AnsweredOnce
  <1>1. PartsInit => CallsInv
    BY CallsStart DEF PartsInit
  <1>2. PartsNext => [ToolNext]_callVars
    BY DEF PartsNext
  <1>3. CallsInv /\ [PartsNext]_partsVars => CallsInv'
    BY <1>2, CallsNext DEF partsVars, callVars
  <1>4. QED
    BY <1>1, <1>3, CallsImply, PTL DEF PartsSpec, partsVars

-----------------------------------------------------------------------------
(* The talk key *)

TriggerTypes ==
    /\ edges \in BOOLEAN
    /\ key \in BOOLEAN
    /\ gesture \in [kind : {"idle", "deciding", "pushing", "latched"}, held : 0 .. Threshold]
    /\ fuse \in -1 .. Threshold
    /\ capture \in {"idle", "push", "latch", "busy"}

\* Until it is decided, a gesture has the ticks it needs left on its timer.
TriggerInv ==
    /\ TriggerTypes
    /\ PushEndsWithTheKey
    /\ gesture.kind = "deciding" => edges /\ fuse + gesture.held >= Threshold

LEMMA PhaseForm ==
    ASSUME NEW kind \in {"idle", "deciding", "pushing", "latched"}
    PROVE  /\ Phase(kind) \in [kind : {"idle", "deciding", "pushing", "latched"}, held : 0 .. Threshold]
           /\ Phase(kind).kind = kind
           /\ Phase(kind).held = 0
  BY TriggerAssumption DEF Phase

\* The machine's reaction leaves a push only to a push that stays or begins.
LEMMA ReactsForm ==
    ASSUME TriggerInv, NEW event \in {"tap", "down", "up"}, NEW next \in Reacts(event)
    PROVE  /\ next \in {"idle", "push", "latch", "busy"}
           /\ next = "push" => event = "down" \/ (capture = "push" /\ event = "tap")
  BY DEF Reacts, TriggerInv, TriggerTypes

LEMMA ResyncKeeps ==
    ASSUME TriggerInv, NEW next \in {"idle", "push", "latch", "busy"},
           NEW kind \in {"idle", "pushing", "latched"}, NEW ticks \in {-1},
           Resynced(next, Phase(kind), ticks), key' \in BOOLEAN,
           next = "push" => edges /\ key' /\ kind = "pushing"
    PROVE  TriggerInv'
  <1>1. /\ edges' = edges
        /\ capture' = next
        /\ gesture' = IF next = "idle" THEN Phase("idle") ELSE Phase(kind)
        /\ fuse' = -1
    BY DEF Resynced
  <1>2. /\ Phase("idle") \in [kind : {"idle", "deciding", "pushing", "latched"}, held : 0 .. Threshold]
        /\ Phase("idle").kind = "idle"
    BY PhaseForm
  <1>3. /\ Phase(kind) \in [kind : {"idle", "deciding", "pushing", "latched"}, held : 0 .. Threshold]
        /\ Phase(kind).kind = kind
    BY PhaseForm
  <1>4. gesture'.kind # "deciding" /\ (next = "push" => gesture'.kind = "pushing")
    BY <1>1, <1>2, <1>3
  <1>5. TriggerTypes'
    BY <1>1, <1>2, <1>3, TriggerAssumption DEF TriggerInv, TriggerTypes
  <1>6. PushEndsWithTheKey'
    BY <1>1, <1>4 DEF PushEndsWithTheKey
  <1>7. QED
    BY <1>4, <1>5, <1>6 DEF TriggerInv

\* The machine reacts to an edge of the key, or to the threshold.
LEMMA DispatchKeeps ==
    ASSUME TriggerInv, NEW event \in {"tap", "down", "up"},
           NEW kind \in {"idle", "pushing", "latched"}, Dispatch(event, Phase(kind), -1),
           key' \in BOOLEAN,
           event = "down" => edges /\ key' /\ kind = "pushing",
           event = "tap" => capture # "push"
    PROVE  TriggerInv'
  <1>1. PICK next \in Reacts(event) : Resynced(next, Phase(kind), -1)
    BY DEF Dispatch
  <1>2. /\ next \in {"idle", "push", "latch", "busy"}
        /\ next = "push" => event = "down"
    BY ReactsForm
  <1>3. QED
    BY <1>1, <1>2, ResyncKeeps

LEMMA TriggerNextKeeps == TriggerInv /\ [TriggerNext]_triggerVars => TriggerInv'
  <1> SUFFICES ASSUME TriggerInv, [TriggerNext]_triggerVars PROVE TriggerInv'
    OBVIOUS
  <1>1. Threshold \in Nat \ {0} /\ TriggerTypes /\ PushEndsWithTheKey
    BY TriggerAssumption DEF TriggerInv
  <1>2. /\ gesture.kind \in {"idle", "deciding", "pushing", "latched"}
        /\ gesture.held \in 0 .. Threshold
    BY <1>1 DEF TriggerTypes
  <1>3. CASE KeyDown
    <2>1. /\ edges /\ key' = TRUE /\ fuse' = Threshold /\ edges' = edges /\ capture' = capture
          /\ gesture' = IF gesture.kind \in {"idle", "latched"} THEN Phase("deciding") ELSE gesture
      BY <1>3 DEF KeyDown, Quietly
    <2>2. /\ Phase("deciding") \in [kind : {"idle", "deciding", "pushing", "latched"}, held : 0 .. Threshold]
          /\ Phase("deciding").kind = "deciding"
          /\ Phase("deciding").held = 0
      BY PhaseForm
    <2>3. TriggerTypes'
      BY <1>1, <2>1, <2>2 DEF TriggerTypes
    <2>4. gesture'.held \in 0 .. Threshold
      BY <1>2, <2>1, <2>2
    <2>5. PushEndsWithTheKey'
      BY <1>1, <1>2, <2>1, <2>2 DEF PushEndsWithTheKey
    <2>6. QED
      BY <1>1, <2>1, <2>3, <2>4, <2>5 DEF TriggerInv
  <1>4. CASE KeyUp
    <2>1. key /\ key' = FALSE
      BY <1>4 DEF KeyUp
    <2>2. CASE gesture.kind = "deciding" /\ gesture.held < Threshold
      <3>1. Dispatch("tap", Phase("latched"), -1)
        <4> DEFINE T == Dispatch("tap", Phase("latched"), -1)
                   U == Dispatch("up", Phase("idle"), -1)
                   Q == Quietly(gesture, -1)
        <4>1. (CASE gesture.kind = "deciding" /\ gesture.held < Threshold -> T
                 [] gesture.kind = "deciding" /\ gesture.held >= Threshold -> DownThenUp
                 [] gesture.kind = "pushing" -> U
                 [] OTHER -> Q)
          BY <1>4 DEF KeyUp
        <4>2. ~(gesture.held >= Threshold) /\ gesture.kind # "pushing"
          BY <1>1, <1>2, <2>2
        <4> HIDE DEF T, U, Q
        <4>3. T
          BY <2>2, <4>1, <4>2
        <4>4. QED
          BY <4>3 DEF T
      <3>2. capture # "push"
        BY <1>1, <2>2 DEF PushEndsWithTheKey, TriggerTypes
      <3>3. QED
        BY <2>1, <3>1, <3>2, DispatchKeeps
    <2>3. CASE gesture.kind = "deciding" /\ gesture.held >= Threshold
      <3>1. DownThenUp
        BY <1>2, <1>4, <2>3 DEF KeyUp
      <3>2. PICK next \in {"idle", "busy"} \cup ({capture} \cap {"latch"}) :
                Resynced(next, Phase("idle"), -1)
        BY <3>1 DEF DownThenUp
      <3>3. QED
        BY <2>1, <3>2, ResyncKeeps
    <2>4. CASE gesture.kind = "pushing"
      <3>1. Dispatch("up", Phase("idle"), -1)
        BY <1>4, <2>4 DEF KeyUp
      <3>2. QED
        BY <2>1, <3>1, DispatchKeeps
    <2>5. CASE gesture.kind \notin {"deciding", "pushing"}
      <3>1. gesture' = gesture /\ fuse' = -1 /\ edges' = edges /\ capture' = capture
        BY <1>4, <2>5 DEF KeyUp, Quietly
      <3>2. TriggerTypes'
        <4>1. -1 \in -1 .. Threshold
          BY <1>1
        <4>2. QED
          BY <1>1, <2>1, <3>1, <4>1 DEF TriggerTypes
      <3>3. PushEndsWithTheKey'
        BY <1>1, <2>5, <3>1 DEF PushEndsWithTheKey
      <3>4. QED
        BY <2>5, <3>1, <3>2, <3>3 DEF TriggerInv
    <2>6. gesture.held < Threshold \/ gesture.held >= Threshold
      BY <1>1, <1>2
    <2>7. QED
      BY <2>2, <2>3, <2>4, <2>5, <2>6
  <1>5. CASE Press
    <2>1. ~edges /\ Dispatch("tap", Phase("latched"), -1) /\ key' = key
      BY <1>5 DEF Press
    <2>2. capture # "push" /\ key' \in BOOLEAN
      BY <1>1, <2>1 DEF PushEndsWithTheKey, TriggerTypes
    <2>3. QED
      BY <2>1, <2>2, DispatchKeeps
  <1>6. CASE TimerFires
    <2>1. fuse = 0 /\ key' = key /\ key' \in BOOLEAN
      BY <1>1, <1>6 DEF TimerFires, TriggerTypes
    <2>2. CASE gesture.kind = "deciding" /\ gesture.held >= Threshold
      <3>1. Dispatch("down", Phase("pushing"), -1)
        BY <1>6, <2>2 DEF TimerFires
      <3>2. edges /\ key'
        BY <1>1, <2>1, <2>2 DEF TriggerInv, PushEndsWithTheKey
      <3>3. QED
        BY <2>1, <3>1, <3>2, DispatchKeeps
    <2>3. CASE ~(gesture.kind = "deciding" /\ gesture.held >= Threshold)
      <3>1. gesture' = gesture /\ fuse' = -1 /\ edges' = edges /\ capture' = capture
        BY <1>6, <2>3 DEF TimerFires, Quietly
      <3>2. gesture.kind # "deciding"
        BY <1>1, <1>2, <2>1, <2>3 DEF TriggerInv
      <3>3. TriggerTypes'
        BY <1>1, <2>1, <3>1 DEF TriggerTypes
      <3>4. PushEndsWithTheKey'
        BY <1>1, <2>1, <3>1, <3>2 DEF PushEndsWithTheKey
      <3>5. QED
        BY <3>1, <3>2, <3>3, <3>4 DEF TriggerInv
    <2>4. QED
      BY <2>2, <2>3
  <1>7. CASE Escape
    <2>1. Resynced("idle", Phase("idle"), -1) /\ key' \in BOOLEAN
      BY <1>1, <1>7 DEF Escape, TriggerTypes
    <2>2. QED
      BY <2>1, ResyncKeeps
  <1>8. CASE TimePasses
    <2>1. /\ fuse # 0
          /\ fuse' = IF fuse > 0 THEN fuse - 1 ELSE fuse
          /\ gesture' = IF gesture.kind = "deciding" /\ gesture.held < Threshold
                        THEN [gesture EXCEPT !.held = @ + 1] ELSE gesture
          /\ UNCHANGED <<edges, key, capture>>
      BY <1>8 DEF TimePasses
    <2>2. /\ gesture'.kind = gesture.kind
          /\ gesture'.held = IF gesture.kind = "deciding" /\ gesture.held < Threshold
                             THEN gesture.held + 1 ELSE gesture.held
          /\ gesture' \in [kind : {"idle", "deciding", "pushing", "latched"}, held : 0 .. Threshold]
      BY <1>1, <1>2, <2>1 DEF TriggerTypes
    <2>3. fuse \in -1 .. Threshold /\ fuse' \in -1 .. Threshold
      BY <1>1, <2>1 DEF TriggerTypes
    <2>4. TriggerTypes'
      BY <1>1, <2>1, <2>2, <2>3 DEF TriggerTypes
    <2>5. gesture.kind = "deciding" => edges /\ fuse # -1 /\ fuse + gesture.held >= Threshold
      BY DEF TriggerInv, PushEndsWithTheKey
    <2>6. gesture.kind = "deciding" => fuse' # -1 /\ fuse' + gesture'.held >= Threshold
      BY <1>1, <1>2, <2>1, <2>2, <2>3, <2>5
    <2>7. PushEndsWithTheKey'
      BY <1>1, <2>1, <2>2, <2>6 DEF PushEndsWithTheKey
    <2>8. gesture'.kind = "deciding" => edges' /\ fuse' + gesture'.held >= Threshold
      BY <2>1, <2>2, <2>5, <2>6
    <2>9. QED
      BY <2>4, <2>7, <2>8 DEF TriggerInv
  <1>9. CASE MachineSteps
    <2>1. PICK next \in {"idle", "busy"} : Resynced(next, gesture, fuse)
      BY <1>9 DEF MachineSteps
    <2>2. key' = key
      BY <1>9 DEF MachineSteps
    <2>3. CASE next = "idle"
      <3>1. /\ edges' = edges /\ capture' = "idle" /\ gesture' = Phase("idle") /\ fuse' = -1
        BY <2>1, <2>3 DEF Resynced
      <3>2. Resynced("idle", Phase("idle"), -1) /\ key' \in BOOLEAN
        BY <1>1, <2>2, <3>1 DEF Resynced, TriggerTypes
      <3>3. QED
        BY <3>2, ResyncKeeps
    <2>4. CASE next = "busy"
      <3>1. capture' = "busy" /\ UNCHANGED <<edges, gesture, fuse>>
        BY <2>1, <2>4 DEF Resynced
      <3>2. TriggerTypes'
        BY <1>1, <2>2, <3>1 DEF TriggerTypes
      <3>3. PushEndsWithTheKey'
        BY <1>1, <2>2, <3>1 DEF PushEndsWithTheKey
      <3>4. QED
        BY <3>1, <3>2, <3>3 DEF TriggerInv
    <2>5. QED
      BY <2>3, <2>4
  <1>10. CASE UNCHANGED triggerVars
    BY <1>10 DEF triggerVars, TriggerInv, TriggerTypes, PushEndsWithTheKey
  <1>11. QED
    BY <1>3, <1>4, <1>5, <1>6, <1>7, <1>8, <1>9, <1>10 DEF TriggerNext

LEMMA TriggerStart == TriggerInit => TriggerInv
  <1> SUFFICES ASSUME TriggerInit PROVE TriggerInv
    OBVIOUS
  <1>1. /\ Phase("idle") \in [kind : {"idle", "deciding", "pushing", "latched"}, held : 0 .. Threshold]
        /\ Phase("idle").kind = "idle"
    BY PhaseForm
  <1>2. /\ edges \in BOOLEAN /\ key = FALSE /\ gesture = Phase("idle")
        /\ fuse = -1 /\ capture = "idle" /\ fuse \in -1 .. Threshold
    BY TriggerAssumption DEF TriggerInit
  <1>3. TriggerTypes
    BY <1>1, <1>2 DEF TriggerTypes
  <1>4. QED
    BY <1>1, <1>2, <1>3 DEF TriggerInv, PushEndsWithTheKey

-----------------------------------------------------------------------------
(* The sidecar *)

\* A frame whose slot has not been reset since it was planned is cropped for the list its
\* generation stands for.
FrameFits(f, b) ==
    /\ DOMAIN f = {"generation", "cut", "outlived"}
    /\ ~f.outlived => /\ f.generation \in Int /\ f.generation <= b.generation
                      /\ f.generation = b.generation => f.cut = b.regions

\* A session captures only for an app that said hello and configured it, on a stream of its
\* own; what a delegate holds, and what has been published, fits.
VisionInv ==
    /\ DOMAIN session = {"up", "established", "config", "capturing", "acquired"}
    /\ DOMAIN backend = {"stream", "regions", "generation", "latest", "stopped"}
    /\ DOMAIN said = {"reply", "problem", "crops", "asked", "late"}
    /\ DOMAIN stray = {"on", "frame"}
    /\ backend.generation \in Nat
    /\ CapturesOnlyAsTold
    /\ CropsFitTheirRegions
    /\ session.acquired => session.capturing
    /\ FrameFits(backend.latest, backend)
    /\ FrameFits(flight, backend)
    /\ FrameFits(stray.frame, backend)

LEMMA NoFrameFits == ASSUME NEW b, b.generation \in Nat PROVE FrameFits(NoFrame, b)
  BY DEF FrameFits, NoFrame

LEMMA VisionStart == VisionInit => VisionInv
  BY NoFrameFits DEF VisionInit, VisionInv, NoStream, NoStray, Quiet, CapturesOnlyAsTold,
     CropsFitTheirRegions

\* A frame that has been outlived fits any slot.
LEMMA OutlivedFits ==
    ASSUME NEW f, NEW a, FrameFits(f, a), NEW b, b.generation \in Nat
    PROVE  FrameFits(Outlives(f), b)
  <1>1. CASE f = NoFrame
    BY <1>1, NoFrameFits DEF Outlives
  <1>2. CASE f # NoFrame
    <2>1. Outlives(f) = [f EXCEPT !.outlived = TRUE]
      BY <1>2 DEF Outlives
    <2>2. Outlives(f).outlived = TRUE /\ DOMAIN Outlives(f) = {"generation", "cut", "outlived"}
      BY <2>1 DEF FrameFits
    <2>3. QED
      BY <2>2 DEF FrameFits
  <1>3. QED
    BY <1>1, <1>2

\* Whether the stop is waited for or given up on, what is left fits the new slot.
LEMMA StopFits ==
    ASSUME VisionInv, NEW running, BackendStop(running), NEW b, b.generation \in Nat
    PROVE  FrameFits(flight', b) /\ FrameFits(stray'.frame, b) /\ DOMAIN stray' = {"on", "frame"}
  <1>1. FrameFits(flight', b)
    BY NoFrameFits DEF BackendStop
  <1>2. /\ FrameFits(stray.frame, backend) /\ FrameFits(flight, backend)
        /\ DOMAIN stray = {"on", "frame"}
    BY DEF VisionInv
  <1>3. CASE stray' = [stray EXCEPT !.frame = Outlives(stray.frame)]
    <2>1. stray'.frame = Outlives(stray.frame) /\ DOMAIN stray' = {"on", "frame"}
      BY <1>2, <1>3
    <2>2. QED
      BY <1>1, <1>2, <2>1, OutlivedFits
  <1>4. CASE stray' = [on |-> TRUE, frame |-> Outlives(flight)]
    <2>1. stray'.frame = Outlives(flight) /\ DOMAIN stray' = {"on", "frame"}
      BY <1>4
    <2>2. QED
      BY <1>1, <1>2, <2>1, OutlivedFits
  <1>5. QED
    BY <1>3, <1>4 DEF BackendStop

\* The end of a session with the platform.
LEMMA ReleaseKeeps ==
    ASSUME VisionInv, NEW s, session' = s, backend' = NoStream, NEW running, BackendStop(running),
           said'.crops = "none", DOMAIN said' = {"reply", "problem", "crops", "asked", "late"},
           DOMAIN s = {"up", "established", "config", "capturing", "acquired"},
           s.capturing => s.established /\ s.config # "none" /\ s.up,
           s.acquired => s.capturing
    PROVE  VisionInv'
  <1>1. NoStream.generation = 0 /\ NoStream.latest = NoFrame /\ ~NoStream.stream
        /\ DOMAIN NoStream = {"stream", "regions", "generation", "latest", "stopped"}
    BY DEF NoStream
  <1>2. FrameFits(NoFrame, NoStream)
    BY <1>1, NoFrameFits
  <1>3. /\ FrameFits(flight', NoStream) /\ FrameFits(stray'.frame, NoStream)
        /\ DOMAIN stray' = {"on", "frame"}
    BY <1>1, StopFits
  <1>4. QED
    BY <1>1, <1>2, <1>3 DEF VisionInv, CapturesOnlyAsTold, CropsFitTheirRegions

\* A frame that fits the slot fits it still when the list is another.
LEMMA PlannedFits ==
    ASSUME NEW b, NEW list, b.generation \in Nat, NEW f, FrameFits(f, b),
           DOMAIN b = {"stream", "regions", "generation", "latest", "stopped"}
    PROVE  FrameFits(f, Planned(b, list))
  <1>1. CASE b.regions = list
    BY <1>1 DEF Planned
  <1>2. CASE b.regions # list
    <2>1. Planned(b, list).generation = b.generation + 1
      BY <1>2 DEF Planned
    <2>2. QED
      BY <2>1 DEF FrameFits
  <1>3. QED
    BY <1>1, <1>2

LEMMA PlannedForm ==
    ASSUME NEW b, NEW list, DOMAIN b = {"stream", "regions", "generation", "latest", "stopped"},
           b.generation \in Nat, FrameFits(b.latest, b)
    PROVE  LET p == Planned(b, list)
           IN  /\ DOMAIN p = DOMAIN b
               /\ p.stream = b.stream
               /\ p.generation \in Nat
               /\ FrameFits(p.latest, p)
               /\ Crops(p) # "none" => Crops(p) = list \/ p.latest.outlived
  <1>1. CASE b.regions = list
    BY <1>1 DEF Planned, Crops, FrameFits
  <1>2. CASE b.regions # list
    <2>1. /\ DOMAIN Planned(b, list) = DOMAIN b /\ Planned(b, list).stream = b.stream
          /\ Planned(b, list).generation = b.generation + 1 /\ Planned(b, list).latest = NoFrame
      BY <1>2 DEF Planned
    <2>2. FrameFits(NoFrame, Planned(b, list))
      BY <2>1, NoFrameFits
    <2>3. Crops(Planned(b, list)) = "none"
      BY <2>1 DEF Crops, NoFrame
    <2>4. QED
      BY <2>1, <2>2, <2>3
  <1>3. QED
    BY <1>1, <1>2

LEMMA CaptureKeeps ==
    ASSUME VisionInv, NEW acquisition, NEW light, NEW s, Capture(acquisition, light, s),
           DOMAIN s = {"up", "established", "config", "capturing", "acquired"},
           s.capturing /\ s.established /\ s.config # "none" /\ s.up,
           s.acquired => session.acquired
    PROVE  VisionInv'
  <1> DEFINE seeking == ~s.acquired
             found == ~seeking \/ acquisition = "ok"
             b == IF seeking THEN (IF found THEN FreshStream ELSE NoStream) ELSE backend
             h == IF seeking THEN Sought(acquisition) ELSE health
             planned == Planned(b, s.config)
  <1>1. CASE ~found
    <2>1. s.acquired = FALSE \/ ~s.acquired
      BY <1>1
    <2>2. /\ backend' = NoStream /\ session' = s /\ BackendStop(TRUE)
          /\ said' = [Quiet EXCEPT !.problem = h.news]
      BY <1>1 DEF Capture, Says
    <2>3. said'.crops = "none" /\ DOMAIN said' = {"reply", "problem", "crops", "asked", "late"}
      BY <2>2 DEF Quiet
    <2>4. QED
      BY <1>1, <2>2, <2>3, ReleaseKeeps
  <1>2. CASE found /\ b.stopped # "no"
    <2>1. /\ backend' = NoStream /\ session' = [s EXCEPT !.acquired = FALSE] /\ BackendStop(TRUE)
          /\ said' = [Quiet EXCEPT !.problem = health'.news]
      BY <1>2 DEF Capture, Says
    <2>2. said'.crops = "none" /\ DOMAIN said' = {"reply", "problem", "crops", "asked", "late"}
      BY <2>1 DEF Quiet
    <2> DEFINE t == [s EXCEPT !.acquired = FALSE]
    <2>3. /\ DOMAIN t = {"up", "established", "config", "capturing", "acquired"}
          /\ t.capturing => t.established /\ t.config # "none" /\ t.up
          /\ ~t.acquired
      OBVIOUS
    <2>4. session' = t /\ backend' = NoStream /\ BackendStop(TRUE)
      BY <2>1
    <2> HIDE DEF t, b, h, planned, found, seeking
    <2>5. QED
      BY <2>2, <2>3, <2>4, ReleaseKeeps
  <1>3. CASE found /\ b.stopped = "no"
    <2>1. /\ DOMAIN b = {"stream", "regions", "generation", "latest", "stopped"}
          /\ b.generation \in Nat /\ FrameFits(b.latest, b)
      <3>1. CASE seeking
        <4>1. b = FreshStream
          BY <1>3, <3>1
        <4>2. /\ FreshStream.generation = 0 /\ FreshStream.latest.generation = 0
              /\ FreshStream.latest.cut = "none" /\ FreshStream.regions = "none"
              /\ DOMAIN FreshStream.latest = {"generation", "cut", "outlived"}
              /\ DOMAIN FreshStream = {"stream", "regions", "generation", "latest", "stopped"}
          BY DEF FreshStream, NoStream, NoFrame
        <4> HIDE DEF b
        <4>3. QED
          BY <4>1, <4>2 DEF FrameFits
      <3>2. CASE ~seeking
        BY <3>2 DEF VisionInv
      <3>3. QED
        BY <3>1, <3>2
    <2>2. /\ DOMAIN planned = DOMAIN b
          /\ planned.stream = b.stream
          /\ planned.generation \in Nat
          /\ FrameFits(planned.latest, planned)
          /\ Crops(planned) # "none" => Crops(planned) = s.config \/ planned.latest.outlived
      BY <2>1, PlannedForm
    <2>3. /\ backend' = planned
          /\ session' = [s EXCEPT !.acquired = TRUE]
          /\ IF seeking THEN BackendStop(backend.stream) ELSE UNCHANGED <<flight, stray>>
          /\ said' = [Quiet EXCEPT !.problem = health'.news, !.crops = Crops(planned),
                                   !.asked = s.config, !.late = planned.latest.outlived]
      BY <1>3 DEF Capture, Says
    <2>4. /\ DOMAIN said' = {"reply", "problem", "crops", "asked", "late"}
          /\ said'.crops = Crops(planned) /\ said'.asked = s.config
          /\ said'.late = planned.latest.outlived
      BY <2>3 DEF Quiet
    <2>5. /\ FrameFits(flight', planned) /\ FrameFits(stray'.frame, planned)
          /\ DOMAIN stray' = {"on", "frame"}
      <3>1. CASE seeking
        BY <2>2, <2>3, <3>1, StopFits
      <3>2. CASE ~seeking
        <4>1. /\ flight' = flight /\ stray' = stray /\ b = backend
              /\ FrameFits(flight, b) /\ FrameFits(stray.frame, b) /\ DOMAIN stray = {"on", "frame"}
          BY <2>3, <3>2 DEF VisionInv
        <4> HIDE DEF b
        <4>2. FrameFits(flight, planned) /\ FrameFits(stray.frame, planned)
          BY <2>1, <4>1, PlannedFits
        <4>3. QED
          BY <4>1, <4>2
      <3>3. QED
        BY <3>1, <3>2
    <2>6. /\ session'.capturing = s.capturing /\ session'.established = s.established
          /\ session'.config = s.config /\ session'.up = s.up
          /\ DOMAIN session' = {"up", "established", "config", "capturing", "acquired"}
      BY <2>3
    <2> HIDE DEF planned, b, seeking, found
    <2>7. QED
      BY <2>1, <2>2, <2>3, <2>4, <2>5, <2>6 DEF VisionInv, CapturesOnlyAsTold, CropsFitTheirRegions
  <1>4. QED
    BY <1>1, <1>2, <1>3

LEMMA VisionNextKeeps == VisionInv /\ [VisionNext]_visionVars => VisionInv'
  <1> SUFFICES ASSUME VisionInv, [VisionNext]_visionVars PROVE VisionInv'
    OBVIOUS
  <1>1. CASE FrameArrives
    BY <1>1 DEF FrameArrives, Plan, VisionInv, FrameFits, CapturesOnlyAsTold, CropsFitTheirRegions
  <1>2. CASE FramePublished
    <2>1. /\ backend' = [backend EXCEPT !.latest = flight] /\ flight' = NoFrame
          /\ session' = session /\ stray' = stray /\ said' = said
      BY <1>2 DEF FramePublished
    <2>2. /\ FrameFits(flight, backend') /\ FrameFits(stray.frame, backend')
          /\ DOMAIN backend' = DOMAIN backend /\ backend'.generation = backend.generation
          /\ backend'.latest = flight /\ backend'.stream = backend.stream
      BY <2>1 DEF VisionInv, FrameFits
    <2>3. FrameFits(NoFrame, backend')
      BY <2>2, NoFrameFits DEF VisionInv
    <2>4. QED
      BY <2>1, <2>2, <2>3 DEF VisionInv, CapturesOnlyAsTold, CropsFitTheirRegions
  <1>3. CASE StreamStops
    BY <1>3 DEF StreamStops, VisionInv, FrameFits, CapturesOnlyAsTold, CropsFitTheirRegions
  <1>4. CASE CaptureTick
    BY <1>4, CaptureKeeps DEF CaptureTick, VisionInv, CapturesOnlyAsTold
  <1>5. CASE Garbage
    BY <1>5 DEF Garbage, Replies, Says, Quiet, VisionInv, CapturesOnlyAsTold, CropsFitTheirRegions
  <1>6. CASE Hello
    BY <1>6 DEF Hello, Replies, Says, Quiet, VisionInv, CapturesOnlyAsTold, CropsFitTheirRegions
  <1>7. CASE TooEarly
    BY <1>7 DEF TooEarly, Replies, Says, Quiet, VisionInv, CapturesOnlyAsTold, CropsFitTheirRegions
  <1>8. CASE Configure
    <2>1. PICK list \in RegionLists :
            IF session.capturing THEN Released([session EXCEPT !.config = list, !.acquired = FALSE])
            ELSE session' = [session EXCEPT !.config = list] /\ Replies("none")
      BY <1>8 DEF Configure
    <2>2. list # "none"
      BY VisionAssumption
    <2>3. CASE session.capturing
      <3> DEFINE s == [session EXCEPT !.config = list, !.acquired = FALSE]
      <3>1. /\ session' = s /\ backend' = NoStream /\ BackendStop(backend.stream)
            /\ said'.crops = "none" /\ DOMAIN said' = {"reply", "problem", "crops", "asked", "late"}
        BY <2>1, <2>3 DEF Released, Says, Quiet
      <3>2. /\ DOMAIN s = {"up", "established", "config", "capturing", "acquired"}
            /\ s.capturing => s.established /\ s.config # "none" /\ s.up
            /\ s.acquired => s.capturing
        BY <2>2, <2>3 DEF VisionInv, CapturesOnlyAsTold
      <3> HIDE DEF s
      <3>3. QED
        BY <3>1, <3>2, ReleaseKeeps
    <2>4. CASE ~session.capturing
      BY <2>1, <2>4 DEF Replies, Says, Quiet, VisionInv, CapturesOnlyAsTold, CropsFitTheirRegions
    <2>5. QED
      BY <2>3, <2>4
  <1>9. CASE StartCapture
    <2>1. session.up /\ session.established
      BY <1>9 DEF StartCapture, Executes
    <2>2. CASE session.config = "none"
      BY <1>9, <2>2 DEF StartCapture, Replies, Says, Quiet, VisionInv, CapturesOnlyAsTold, CropsFitTheirRegions
    <2>3. CASE session.config # "none"
      <3>1. PICK acquisition \in Acquisitions, light \in BOOLEAN :
                Capture(acquisition, light, [session EXCEPT !.capturing = TRUE, !.acquired = FALSE])
        BY <1>9, <2>3 DEF StartCapture
      <3> DEFINE s == [session EXCEPT !.capturing = TRUE, !.acquired = FALSE]
      <3>2. /\ DOMAIN s = {"up", "established", "config", "capturing", "acquired"}
            /\ s.capturing /\ s.established /\ s.config # "none" /\ s.up
            /\ s.acquired => session.acquired
        BY <2>1, <2>3 DEF VisionInv
      <3>3. Capture(acquisition, light, s)
        BY <3>1
      <3> HIDE DEF s
      <3>4. QED
        BY <3>2, <3>3, CaptureKeeps
    <2>4. QED
      BY <2>2, <2>3
  <1>10. CASE CaptureStop
    <2> DEFINE s == [session EXCEPT !.capturing = FALSE, !.acquired = FALSE]
    <2>1. /\ session' = s /\ backend' = NoStream /\ BackendStop(backend.stream)
          /\ said'.crops = "none" /\ DOMAIN said' = {"reply", "problem", "crops", "asked", "late"}
      BY <1>10 DEF CaptureStop, Released, Says, Quiet
    <2>2. /\ DOMAIN s = {"up", "established", "config", "capturing", "acquired"}
          /\ ~s.capturing /\ ~s.acquired
      BY DEF VisionInv
    <2> HIDE DEF s
    <2>3. QED
      BY <2>1, <2>2, ReleaseKeeps
  <1>11. CASE Ends
    <2>1. /\ session' = Exited /\ backend' = NoStream /\ BackendStop(backend.stream)
          /\ said'.crops = "none" /\ DOMAIN said' = {"reply", "problem", "crops", "asked", "late"}
      BY <1>11 DEF Ends, Released, Says, Quiet
    <2>2. /\ DOMAIN Exited = {"up", "established", "config", "capturing", "acquired"}
          /\ ~Exited.capturing /\ ~Exited.acquired
      BY DEF VisionInv, Exited
    <2>3. QED
      BY <2>1, <2>2, ReleaseKeeps
  <1>12. CASE StrayFrame
    BY <1>12 DEF StrayFrame, Plan, VisionInv, FrameFits, CapturesOnlyAsTold, CropsFitTheirRegions
  <1>13. CASE StrayPublished
    <2>1. /\ backend' = [backend EXCEPT !.latest = stray.frame]
          /\ stray' = [stray EXCEPT !.frame = NoFrame]
          /\ session' = session /\ flight' = flight /\ said' = said
      BY <1>13 DEF StrayPublished
    <2>2. /\ FrameFits(flight, backend') /\ FrameFits(stray.frame, backend')
          /\ DOMAIN backend' = DOMAIN backend /\ backend'.generation = backend.generation
          /\ backend'.latest = stray.frame /\ backend'.stream = backend.stream
      BY <2>1 DEF VisionInv, FrameFits
    <2>3. FrameFits(NoFrame, backend')
      BY <2>2, NoFrameFits DEF VisionInv
    <2>4. stray'.frame = NoFrame /\ DOMAIN stray' = {"on", "frame"}
      BY <2>1 DEF VisionInv
    <2>5. QED
      BY <2>1, <2>2, <2>3, <2>4 DEF VisionInv, CapturesOnlyAsTold, CropsFitTheirRegions
  <1>14. CASE StrayStops
    <2>1. PICK why : backend' = [backend EXCEPT !.stopped = why]
      BY <1>14 DEF StrayStops
    <2>2. /\ stray' = [stray EXCEPT !.on = FALSE]
          /\ session' = session /\ flight' = flight /\ said' = said
      BY <1>14 DEF StrayStops
    <2>3. QED
      BY <2>1, <2>2 DEF VisionInv, FrameFits, CapturesOnlyAsTold, CropsFitTheirRegions
  <1>15. CASE UNCHANGED visionVars
    BY <1>15 DEF visionVars, VisionInv, CapturesOnlyAsTold, CropsFitTheirRegions
  <1>16. QED
    BY <1>1, <1>2, <1>3, <1>4, <1>5, <1>6, <1>7, <1>8, <1>9, <1>10, <1>11, <1>12, <1>13, <1>14, <1>15
       DEF VisionNext

-----------------------------------------------------------------------------
(* The pipe *)

WireFacts == [kind : {"region.digest", "minimap.hero"}, capturedAt : Int, x : Int, y : Int]
WireLines ==
    [v : {"ours", "theirs", "none"}, type : {"ready", "problem", "stray", "cv.detections"},
     emittedAt : Int, facts : Seq(WireFacts), sent : Int]

\* A line's sighting was captured before it was sent, after the app began, and is the hero.
LineIsDated(line) ==
    /\ line.sent \in 0 .. clock
    /\ \A f \in ToSet(line.facts) : f.kind # "region.digest" =>
          /\ f.x = 0 /\ f.y = 25
          /\ line.emittedAt - f.capturedAt \in 0 .. line.sent

SightingIsDated(f) ==
    /\ f.sent \in Int /\ f.took \in Int /\ f.observedAt \in Int /\ f.receivedAt \in Int
    /\ f.sent - f.took <= f.observedAt /\ f.observedAt <= f.receivedAt
    /\ f.observedAt - (f.sent - f.took) = f.receivedAt - f.sent
    /\ f.at.x < 0 /\ f.at.y > 0

WireInv ==
    /\ clock \in Nat
    /\ DOMAIN child = {"state", "backend", "born"} /\ child.born \in Int
    /\ crop \in -1 .. clock
    /\ pipe \in Seq(WireLines)
    /\ \A i \in DOMAIN pipe : LineIsDated(pipe[i])
    /\ DOMAIN codec = {"read", "handled", "undecodable", "mismatched", "facts"}
    /\ \A f \in codec.facts : SightingIsDated(f)

LEMMA WireStart == WireInit => WireInv
  BY DEF WireInit, WireInv

\* Two lists of lines that are dated are dated in a row.
LEMMA SendsKeeps ==
    ASSUME WireInv, NEW lines \in Seq(WireLines), Sends(lines),
           \A i \in DOMAIN lines : LineIsDated(lines[i])
    PROVE  pipe' \in Seq(WireLines) /\ \A i \in DOMAIN pipe' : LineIsDated(pipe'[i])
  <1>1. pipe' = pipe \o lines /\ pipe \in Seq(WireLines)
    BY DEF Sends, WireInv
  <1>2. pipe' \in Seq(WireLines) /\ Len(pipe') = Len(pipe) + Len(lines)
    BY <1>1
  <1>3. ASSUME NEW i \in DOMAIN pipe' PROVE LineIsDated(pipe'[i])
    <2>1. i \in 1 .. Len(pipe) + Len(lines) /\ Len(pipe) \in Nat /\ Len(lines) \in Nat
      BY <1>1, <1>2, <1>3
    <2>2. CASE i <= Len(pipe)
      <3>1. i \in DOMAIN pipe /\ pipe'[i] = pipe[i]
        BY <1>1, <2>1, <2>2
      <3>2. QED
        BY <3>1 DEF WireInv
    <2>3. CASE ~(i <= Len(pipe))
      <3>1. i - Len(pipe) \in DOMAIN lines /\ pipe'[i] = lines[i - Len(pipe)]
        BY <1>1, <2>1, <2>3
      <3>2. QED
        BY <3>1
    <2>4. QED
      BY <2>2, <2>3
  <1>4. QED
    BY <1>2, <1>3

\* What a line's hero becomes in the app.
LEMMA DetectionIsDated ==
    ASSUME WireInv, NEW line \in WireLines, LineIsDated(line),
           NEW f \in ToSet(line.facts), f.kind # "region.digest"
    PROVE  SightingIsDated(ToDetection(f, line))
  <1>1. /\ f.x = 0 /\ f.y = 25 /\ line.sent \in 0 .. clock /\ clock \in Nat
        /\ line.emittedAt - f.capturedAt \in 0 .. line.sent
        /\ Extent \in Nat /\ Extent >= 4
    BY WireAssumption DEF LineIsDated, WireInv
  <1> DEFINE took == line.emittedAt - f.capturedAt
  <1>2. took \in 0 .. line.sent
    BY <1>1
  <1>3. ObservedAt(clock, line.emittedAt, f.capturedAt) = clock - took
    <2>1. AtLeast0(took) = took
      BY <1>1, <1>2 DEF AtLeast0
    <2> HIDE DEF took
    <2>2. AtLeast0(clock - took) = clock - took
      BY <1>1, <1>2 DEF AtLeast0
    <2>3. QED
      BY <2>1, <2>2 DEF ObservedAt, took
  <1>4. ToWorldUnits(f).x < 0 /\ ToWorldUnits(f).y > 0
    <2>1. ((0 - 50) * Extent) \div 100 < 0 /\ ((50 - 25) * Extent) \div 100 > 0
      BY <1>1
    <2>2. QED
      BY <1>1, <2>1 DEF ToWorldUnits
  <1> DEFINE d == ToDetection(f, line)
  <1>5. /\ d.at = ToWorldUnits(f) /\ d.observedAt = clock - took /\ d.receivedAt = clock
        /\ d.took = took /\ d.sent = line.sent
    BY <1>3 DEF ToDetection
  <1> HIDE DEF d, took
  <1>6. SightingIsDated(d)
    BY <1>1, <1>2, <1>4, <1>5 DEF SightingIsDated
  <1>7. QED
    BY <1>6 DEF d

LEMMA DecodeKeeps ==
    ASSUME WireInv, NEW line \in WireLines, LineIsDated(line)
    PROVE  /\ DOMAIN Decode(line) = {"read", "handled", "undecodable", "mismatched", "facts"}
           /\ \A f \in Decode(line).facts : SightingIsDated(f)
  <1> DEFINE what == DecodeLine(line)
             new == {ToDetection(f, line) : f \in {f \in ToSet(line.facts) : f.kind # "region.digest"}}
             read == [codec EXCEPT !.read = @ + 1]
  <1>1. /\ DOMAIN read = {"read", "handled", "undecodable", "mismatched", "facts"}
        /\ read.facts = codec.facts
        /\ \A f \in codec.facts : SightingIsDated(f)
    BY DEF WireInv
  <1>2. \A f \in new : SightingIsDated(f)
    BY DetectionIsDated
  <1>3. Decode(line) = CASE what = "version" -> [read EXCEPT !.undecodable = @ + 1, !.mismatched = @ + 1]
         [] what = "malformed" -> [read EXCEPT !.undecodable = @ + 1]
         [] what \in {"ready", "problem"} -> [read EXCEPT !.handled = @ + 1]
         [] OTHER -> [read EXCEPT !.facts = @ \cup new]
    BY DEF Decode
  <1> HIDE DEF what, new, read
  <1>4. QED
    BY <1>1, <1>2, <1>3

\* Whatever is sent beside, a line stays dated.
LEMMA SentKeeps ==
    ASSUME WireInv, NEW lines \in Seq(WireLines), Sends(lines),
           \A i \in DOMAIN lines : LineIsDated(lines[i]),
           clock' = clock, codec' = codec,
           DOMAIN child' = {"state", "backend", "born"}, child'.born \in Int,
           crop' \in -1 .. clock
    PROVE  WireInv'
  <1>1. pipe' \in Seq(WireLines) /\ \A i \in DOMAIN pipe' : LineIsDated(pipe'[i])
    BY SendsKeeps
  <1>2. \A i \in DOMAIN pipe' : LineIsDated(pipe[i])'
    BY <1>1 DEF LineIsDated
  <1>3. QED
    BY <1>1, <1>2 DEF WireInv

LEMMA WireNextKeeps == WireInv /\ [WireNext]_wireVars => WireInv'
  <1> SUFFICES ASSUME WireInv, [WireNext]_wireVars PROVE WireInv'
    OBVIOUS
  <1>1. CASE SpawnWire
    <2>1. PICK args \in CommandLines : SpawnWire!(args)
      BY <1>1 DEF SpawnWire
    <2> DEFINE usage == args \in {"replay without frames", "unknown"}
               seen == args = "replay" /\ FrameCount > 0
               at0 == [v |-> "ours", type |-> "ready", emittedAt |-> 0, facts |-> <<>>, sent |-> clock]
               last == IF seen THEN <<>> ELSE <<[at0 EXCEPT !.type = "problem"]>>
               lines == <<at0>> \o last
    <2>2. CASE usage
      <3>1. /\ child' = [child EXCEPT !.state = "usage"]
            /\ pipe' = pipe /\ clock' = clock /\ crop' = crop /\ codec' = codec
        BY <2>1, <2>2
      <3>2. QED
        BY <3>1 DEF WireInv, LineIsDated
    <2>3. CASE ~usage
      <3>1. /\ child' = [state |-> "up", backend |-> Backend(args), born |-> clock]
            /\ Sends(lines) /\ clock' = clock /\ crop' = crop /\ codec' = codec
        BY <2>1, <2>3
      <3> DEFINE at1 == [at0 EXCEPT !.type = "problem"]
      <3>2. at0 \in WireLines /\ at1 \in WireLines
        <4>1. <<>> \in Seq(WireFacts) /\ clock \in Int
          BY DEF WireInv
        <4>2. at0 \in WireLines
          BY <4>1 DEF WireLines
        <4>3. at1 = [v |-> "ours", type |-> "problem", emittedAt |-> 0, facts |-> <<>>, sent |-> clock]
          OBVIOUS
        <4>4. QED
          BY <4>1, <4>2, <4>3 DEF WireLines
      <3>3. /\ at0.sent = clock /\ at0.facts = <<>> /\ at1.sent = clock /\ at1.facts = <<>>
            /\ ToSet(<<>>) = {} /\ clock \in 0 .. clock
        BY DEF WireInv, ToSet
      <3> HIDE DEF at0
      <3>4. LineIsDated(at0) /\ LineIsDated(at1)
        BY <3>3 DEF LineIsDated
      <3>5. last = IF seen THEN <<>> ELSE <<at1>>
        OBVIOUS
      <3> HIDE DEF at1, seen, last
      <3>6. lines \in Seq(WireLines) /\ \A i \in DOMAIN lines : LineIsDated(lines[i])
        BY <3>2, <3>4, <3>5
      <3> HIDE DEF lines
      <3>7. QED
        BY <3>1, <3>6, SentKeeps DEF WireInv
    <2>4. QED
      BY <2>2, <2>3
  <1>2. CASE CaptureFrame
    BY <1>2 DEF CaptureFrame, WireInv, LineIsDated
  <1>3. CASE EmitPass
    <2> DEFINE at == crop - child.born
    <2>1. PICK facts \in {<<Digest(at)>>, <<Digest(at), Hero(at)>>} :
            Sends(<<Line("ours", "cv.detections", facts)>>)
      BY <1>3 DEF EmitPass
    <2>2. /\ crop \in 0 .. clock /\ clock \in Nat /\ child.born \in Int /\ at \in Int
          /\ crop' \in -1 .. clock /\ clock' = clock /\ child' = child /\ codec' = codec
          /\ DOMAIN child = {"state", "backend", "born"}
      BY <1>3 DEF EmitPass, WireInv
    <2> DEFINE line == Line("ours", "cv.detections", facts)
    <2>3. /\ Digest(at) \in WireFacts /\ Hero(at) \in WireFacts
          /\ Digest(at).kind = "region.digest"
          /\ Hero(at).x = 0 /\ Hero(at).y = 25 /\ Hero(at).capturedAt = at
      BY <2>2 DEF Digest, Hero, WireFacts
    <2>4. facts \in Seq(WireFacts) /\ ToSet(facts) \subseteq {Digest(at), Hero(at)}
      <3> DEFINE a == Digest(at)
                 b == Hero(at)
      <3>1. a \in WireFacts /\ b \in WireFacts /\ (facts = <<a>> \/ facts = <<a, b>>)
        BY <2>1, <2>3
      <3> HIDE DEF a, b
      <3>2. facts \in Seq(WireFacts) /\ \A i \in DOMAIN facts : facts[i] = a \/ facts[i] = b
        <4>1. CASE facts = <<a>>
          BY <3>1, <4>1
        <4>2. CASE facts = <<a, b>>
          BY <3>1, <4>2
        <4>3. QED
          BY <3>1, <4>1, <4>2
      <3>3. ToSet(facts) \subseteq {a, b}
        BY <3>2 DEF ToSet
      <3>4. QED
        BY <3>2, <3>3 DEF a, b
    <2>5. /\ line \in WireLines /\ line.emittedAt = clock - child.born /\ line.sent = clock
          /\ line.facts = facts
      BY <2>2, <2>4 DEF Line, WireLines
    <2>6. line.emittedAt - at \in 0 .. clock
      BY <2>2, <2>5
    <2> HIDE DEF line, at
    <2>7. LineIsDated(line)
      BY <2>2, <2>3, <2>4, <2>5, <2>6 DEF LineIsDated
    <2>8. <<line>> \in Seq(WireLines) /\ \A i \in DOMAIN <<line>> : LineIsDated(<<line>>[i])
      BY <2>5, <2>7
    <2>9. Sends(<<line>>)
      BY <2>1 DEF line
    <2>10. QED
      BY <2>2, <2>8, <2>9, SentKeeps
  <1>4. CASE Strays
    <2>1. PICK v \in {"ours", "theirs", "none"} : Sends(<<Line(v, "stray", <<>>)>>)
      BY <1>4 DEF Strays
    <2> DEFINE line == Line(v, "stray", <<>>)
    <2>2. /\ crop' = crop /\ clock' = clock /\ child' = child /\ codec' = codec
          /\ crop \in -1 .. clock /\ clock \in Nat
          /\ DOMAIN child = {"state", "backend", "born"} /\ child.born \in Int
      BY <1>4 DEF Strays, WireInv
    <2>3. line \in WireLines /\ LineIsDated(line)
      BY <2>2 DEF Line, WireLines, LineIsDated, ToSet
    <2> HIDE DEF line
    <2>4. <<line>> \in Seq(WireLines) /\ \A i \in DOMAIN <<line>> : LineIsDated(<<line>>[i])
      BY <2>3
    <2>5. Sends(<<line>>)
      BY <2>1 DEF line
    <2>6. QED
      BY <2>2, <2>4, <2>5, SentKeeps
  <1>5. CASE ChildEnds
    BY <1>5 DEF ChildEnds, WireInv, LineIsDated
  <1>6. CASE ReadLine
    <2>1. /\ pipe # <<>> /\ codec' = Decode(Head(pipe)) /\ pipe' = Tail(pipe)
          /\ clock' = clock /\ child' = child /\ crop' = crop
      BY <1>6 DEF ReadLine
    <2>2. Head(pipe) \in WireLines /\ LineIsDated(Head(pipe))
      BY <2>1 DEF WireInv
    <2>3. /\ DOMAIN codec' = {"read", "handled", "undecodable", "mismatched", "facts"}
          /\ \A f \in codec'.facts : SightingIsDated(f)
      BY <2>1, <2>2, DecodeKeeps
    <2>4. pipe' \in Seq(WireLines) /\ Len(pipe') = Len(pipe) - 1 /\ Len(pipe) \in Nat
      BY <2>1 DEF WireInv
    <2>5. \A i \in DOMAIN pipe' : i + 1 \in DOMAIN pipe /\ pipe'[i] = pipe[i + 1]
      BY <2>1, <2>4 DEF WireInv
    <2>6. \A i \in DOMAIN pipe' : LineIsDated(pipe'[i])
      BY <2>5 DEF WireInv
    <2>7. \A i \in DOMAIN pipe' : LineIsDated(pipe[i])'
      BY <2>1, <2>6 DEF LineIsDated
    <2>8. QED
      BY <2>1, <2>3, <2>4, <2>7 DEF WireInv
  <1>7. CASE WireTick
    <2>1. clock' = clock + 1 /\ UNCHANGED <<child, frames, crop, pipe, codec>>
      BY <1>7 DEF WireTick
    <2>2. \A i \in DOMAIN pipe : LineIsDated(pipe[i])'
      BY <2>1 DEF WireInv, LineIsDated
    <2>3. QED
      BY <2>1, <2>2 DEF WireInv
  <1>8. CASE UNCHANGED wireVars
    BY <1>8 DEF wireVars, WireInv, LineIsDated
  <1>9. QED
    BY <1>1, <1>2, <1>3, <1>4, <1>5, <1>6, <1>7, <1>8 DEF WireNext

-----------------------------------------------------------------------------
(* The screen *)

Surfaces == [w : Nat, h : Nat, pad : Nat]
Regions == [x : Nat, y : Nat, w : Nat, h : Nat, coverage : Nat]

\* A region is some of its surface.
FitsIn(r, s) ==
    /\ r.w > 0 /\ r.h > 0
    /\ r.x + r.w <= s.w /\ r.y + r.h <= s.h
    /\ r.coverage \in 1 .. 100

\* Pixels of a region, in the order of the picture.
PicturedIn(pixels, r) ==
    /\ \A i \in DOMAIN pixels : pixels[i].x \in r.x .. r.x + r.w - 1 /\ pixels[i].y \in r.y .. r.y + r.h - 1
    /\ \A i, j \in DOMAIN pixels : i < j =>
          \/ pixels[i].y < pixels[j].y
          \/ pixels[i].y = pixels[j].y /\ pixels[i].x < pixels[j].x

ScreenInv ==
    /\ surface \in Surfaces /\ region \in Regions
    /\ captured = NoWindow => region = NoRegion
    /\ captured # NoWindow => captured.shown /\ captured.app \notin {"browser", "trainer"}
    /\ region = NoRegion => copied = <<>>
    /\ region # NoRegion => FitsIn(region, surface)
    /\ PicturedIn(copied, region)

LEMMA ScreenStart == ScreenInit => ScreenInv
  BY DEF ScreenInit, ScreenInv, NoSurface, NoRegion, Surfaces, Regions, PicturedIn

\* Of numbers that are bounded, up to a place, one is the largest.
LEMMA LargestOf ==
    ASSUME NEW T, T \subseteq Nat, T # {}, NEW top \in Nat, \A x \in T : x <= top
    PROVE  \E x \in T : \A y \in T : y <= x
  <1> DEFINE U == {n \in Nat : n <= top /\ top - n \in T}
  <1>1. PICK t \in T : TRUE
    OBVIOUS
  <1>2. top - t \in U
    BY <1>1
  <1>3. PICK u \in U : \A v \in U : u <= v
    BY <1>2, LeastOf
  <1>4. top - u \in T /\ u \in Nat
    BY <1>3
  <1>5. ASSUME NEW y \in T PROVE y <= top - u
    <2>1. y \in Nat /\ y <= top /\ top - (top - y) = y /\ top - y \in Nat /\ top - y <= top
      OBVIOUS
    <2>2. top - y \in U
      BY <2>1
    <2>3. u <= top - y
      BY <1>3, <2>2
    <2>4. QED
      BY <1>4, <2>1, <2>3
  <1>6. QED
    BY <1>4, <1>5

\* The values of a list have an upper bound.
LEMMA BoundOf ==
    ASSUME NEW n \in Nat, NEW f \in [1 .. n -> Nat]
    PROVE  \E top \in Nat : \A i \in 1 .. n : f[i] <= top
  <1> DEFINE S == {k \in Nat : k <= n => \E top \in Nat : \A i \in 1 .. k : f[i] <= top}
  <1>1. 0 \in S
    OBVIOUS
  <1>2. ASSUME NEW k \in Nat, k \in S PROVE k + 1 \in S
    <2> SUFFICES ASSUME k + 1 <= n PROVE \E top \in Nat : \A i \in 1 .. k + 1 : f[i] <= top
      OBVIOUS
    <2>1. PICK top \in Nat : \A i \in 1 .. k : f[i] <= top
      BY <1>2
    <2>2. f[k + 1] \in Nat
      OBVIOUS
    <2>3. CASE f[k + 1] <= top
      <3>1. \A i \in 1 .. k + 1 : i \in 1 .. k \/ i = k + 1
        OBVIOUS
      <3>2. QED
        BY <2>1, <2>3, <3>1
    <2>4. CASE ~(f[k + 1] <= top)
      <3>1. \A i \in 1 .. k + 1 : i \in 1 .. k \/ i = k + 1
        OBVIOUS
      <3>2. \A i \in 1 .. k : f[i] \in Nat /\ f[i] <= top
        BY <2>1
      <3>3. \A i \in 1 .. k + 1 : f[i] <= f[k + 1]
        BY <2>2, <2>4, <3>1, <3>2
      <3>4. QED
        BY <2>2, <3>3
    <2>5. QED
      BY <2>3, <2>4
  <1> HIDE DEF S
  <1>3. n \in S
    BY <1>1, <1>2, AllNumbers
  <1>4. QED
    BY <1>3 DEF S

\* What is captured is one of the windows that are the game's, or none.
LEMMA SelectForm ==
    ASSUME NEW offer \in Offers
    PROVE  LET picked == Select(offer)
           IN  picked = NoWindow \/ (picked.shown /\ picked.app \notin {"browser", "trainer"})
  <1> DEFINE ours == {i \in DOMAIN offer : IsTheGame(offer[i])}
             better(i, j) == \/ offer[i].area > offer[j].area
                             \/ offer[i].area = offer[j].area /\ i <= j
             areas == [i \in 1 .. Len(offer) |-> offer[i].area]
             sizes == {offer[i].area : i \in ours}
  <1>1. /\ Len(offer) \in Nat /\ DOMAIN offer = 1 .. Len(offer)
        /\ \A i \in DOMAIN offer : offer[i].area \in Nat
    <2> DEFINE windows == [app : STRING, title : STRING, bundle : STRING, area : Nat, shown : BOOLEAN]
    <2>1. offer \in Seq(windows) /\ \A v \in windows : v.area \in Nat
      BY ScreenAssumption
    <2> HIDE DEF windows
    <2>2. QED
      BY <2>1
  <1>2. CASE ours # {}
    <2>1. areas \in [1 .. Len(offer) -> Nat]
      BY <1>1
    <2>2. PICK top \in Nat : \A i \in 1 .. Len(offer) : areas[i] <= top
      BY <1>1, <2>1, BoundOf
    <2>3. sizes \subseteq Nat /\ sizes # {} /\ \A x \in sizes : x <= top
      BY <1>1, <1>2, <2>2
    <2>4. PICK size \in sizes : \A y \in sizes : y <= size
      BY <2>3, LargestOf
    <2> DEFINE first == {i \in ours : offer[i].area = size}
    <2>5. first \subseteq Nat /\ first # {}
      BY <1>1, <2>4
    <2>6. PICK i \in first : \A j \in first : i <= j
      BY <2>5, LeastOf
    <2>7. i \in ours /\ \A j \in ours : better(i, j)
      <3>1. i \in ours /\ offer[i].area = size /\ size \in Nat
        BY <2>3, <2>6
      <3>2. ASSUME NEW j \in ours PROVE better(i, j)
        <4>1. offer[j].area \in Nat /\ offer[j].area <= size
          BY <1>1, <2>4
        <4>2. offer[j].area = size => i <= j
          BY <2>6
        <4>3. QED
          BY <3>1, <4>1, <4>2
      <3>3. QED
        BY <3>1, <3>2
    <2> DEFINE best == CHOOSE k \in ours : \A j \in ours : better(k, j)
    <2> HIDE DEF better
    <2>8. best \in ours
      BY <2>7
    <2>9. Select(offer) = offer[best]
      BY <1>2 DEF Select, better
    <2> HIDE DEF best
    <2>10. IsTheGame(offer[best]) /\ best \in DOMAIN offer
      BY <2>8
    <2>11. QED
      BY <2>9, <2>10, ScreenAssumption DEF IsTheGame, MatchesApplication
  <1>3. CASE ours = {}
    BY <1>3 DEF Select
  <1>4. QED
    BY <1>2, <1>3

\* One axis of a region: what is left of it lies on the surface, and is some of it.
LEMMA AxisForm ==
    ASSUME NEW from \in Nat, NEW wide \in Nat, NEW room \in Nat \ {0}, wide * room # 0
    PROVE  LET end == Least((from + wide) * room, 100 * room)
               x == Floor(from * room)
               w == Least(Ceil100(end) - x, room - x)
           IN  /\ x \in Nat /\ w \in Int /\ end \in Nat
               /\ w <= room - x
               /\ w > 0 => end - from * room \in 1 .. wide * room
  <1> DEFINE start == from * room
             full == (from + wide) * room
             end == Least(full, 100 * room)
             x == Floor(start)
             w == Least(Ceil100(end) - x, room - x)
  <1>1. start \in Nat /\ full \in Nat /\ wide * room \in Nat /\ full = start + wide * room
    OBVIOUS
  <1>2. full > start
    BY <1>1
  <1> HIDE DEF start, full
  <1>3. end \in Nat /\ end <= full /\ (end = full \/ end = 100 * room)
    BY <1>1 DEF Least
  <1>4. x \in Nat /\ 100 * x <= start /\ start < 100 * x + 100
    BY <1>1 DEF Floor
  <1>5. Ceil100(end) \in Nat
    BY <1>3 DEF Ceil100
  <1> HIDE DEF end, x
  <1>6. w \in Int /\ w <= room - x
    BY <1>4, <1>5 DEF Least
  <1>7. w > 0 => end - start \in 1 .. wide * room
    <2> SUFFICES ASSUME w > 0 PROVE end - start \in 1 .. wide * room
      OBVIOUS
    <2>1. x < room
      BY <1>4, <1>6
    <2>2. start < 100 * room
      BY <1>1, <1>4, <2>1
    <2>3. end > start
      BY <1>1, <1>2, <1>3, <2>2
    <2>4. end - start <= wide * room
      BY <1>1, <1>3
    <2>5. QED
      BY <1>1, <1>3, <2>3, <2>4
  <1>8. QED
    BY <1>3, <1>4, <1>6, <1>7 DEF start, end, full, x

LEMMA ResolveForm ==
    ASSUME NEW rect \in Rects, NEW s \in Surfaces
    PROVE  /\ Resolve(rect, s) \in Regions
           /\ Resolve(rect, s) # NoRegion => FitsIn(Resolve(rect, s), s)
  <1> DEFINE right == Least((rect.x + rect.w) * s.w, 100 * s.w)
             bottom == Least((rect.y + rect.h) * s.h, 100 * s.h)
             x == Floor(rect.x * s.w)
             y == Floor(rect.y * s.h)
             w == Least(Ceil100(right) - x, s.w - x)
             h == Least(Ceil100(bottom) - y, s.h - y)
             area == rect.w * s.w * rect.h * s.h
             covered == 100 * (right - rect.x * s.w) * (bottom - rect.y * s.h)
             none == s.w = 0 \/ s.h = 0 \/ area = 0 \/ w <= 0 \/ h <= 0
  <1>1. /\ rect.x \in Nat /\ rect.y \in Nat /\ rect.w \in Nat /\ rect.h \in Nat
        /\ s.w \in Nat /\ s.h \in Nat
    BY ScreenAssumption DEF Surfaces
  <1>2. Resolve(rect, s) = IF none THEN NoRegion
            ELSE [x |-> x, y |-> y, w |-> w, h |-> h, coverage |-> (covered + area - 1) \div area]
    BY DEF Resolve
  <1>3. CASE none
    BY <1>2, <1>3 DEF NoRegion, Regions
  <1>4. CASE ~none
    <2> DEFINE across == rect.w * s.w
               down == rect.h * s.h
               a == right - rect.x * s.w
               b == bottom - rect.y * s.h
    <2>1. across \in Nat /\ down \in Nat /\ area = across * down
      BY <1>1
    <2>2. s.w \in Nat \ {0} /\ s.h \in Nat \ {0} /\ area # 0
      BY <1>1, <1>4
    <2>3. across # 0 /\ down # 0
      <3> HIDE DEF area, across, down
      <3>1. across * down # 0
        BY <2>1, <2>2
      <3>2. QED
        BY <2>1, <3>1
    <2>4. w > 0 => (x \in Nat /\ w \in Int /\ w <= s.w - x /\ a \in 1 .. across)
      BY <1>1, <2>2, <2>3, AxisForm
    <2>5. h > 0 => (y \in Nat /\ h \in Int /\ h <= s.h - y /\ b \in 1 .. down)
      BY <1>1, <2>2, <2>3, AxisForm
    <2>6. w \in Int /\ h \in Int
      <3>1. w \in Int
        BY <1>1, <2>2, <2>3, AxisForm
      <3>2. h \in Int
        BY <1>1, <2>2, <2>3, AxisForm
      <3>3. QED
        BY <3>1, <3>2
    <2>7. w > 0 /\ h > 0
      BY <1>4, <2>6
    <2>8. covered = 100 * (a * b)
      <3>1. a \in Nat /\ b \in Nat
        BY <2>4, <2>5, <2>7
      <3>2. covered = 100 * a * b
        OBVIOUS
      <3> HIDE DEF a, b, covered
      <3>3. QED
        BY <3>1, <3>2
    <2> HIDE DEF x, y, w, h, a, b, across, down, covered, area
    <2>9. a * b \in Nat \ {0} /\ a * b <= across * down /\ across * down \in Nat \ {0}
      <3>1. a \in 1 .. across /\ b \in 1 .. down
        BY <2>4, <2>5, <2>7
      <3>2. a * b \in Nat \ {0}
        BY <2>1, <3>1
      <3>3. a * b <= across * b
        BY <2>1, <3>1, Product
      <3>4. across * b <= across * down /\ across * b \in Nat /\ across * down \in Nat
        BY <2>1, <3>1
      <3>5. QED
        BY <2>1, <2>2, <3>2, <3>3, <3>4
    <2>10. (covered + area - 1) \div area \in 1 .. 100
      BY <2>1, <2>8, <2>9, Hundredths
    <2> DEFINE coverage == (covered + area - 1) \div area
    <2> HIDE DEF coverage
    <2>11. coverage \in 1 .. 100
      BY <2>10 DEF coverage
    <2>12. Resolve(rect, s) = [x |-> x, y |-> y, w |-> w, h |-> h, coverage |-> coverage]
      BY <1>2, <1>4 DEF coverage
    <2>13. QED
      BY <1>1, <2>4, <2>5, <2>6, <2>7, <2>11, <2>12 DEF Regions, FitsIn
  <1>5. QED
    BY <1>3, <1>4

\* The pixels of a region that fits, torn or not, are its own, row by row.
LEMMA CropForm ==
    ASSUME NEW s \in Surfaces, NEW r \in Regions, FitsIn(r, s), NEW rows
    PROVE  PicturedIn(Crop(s, r, rows), r)
  <1> DEFINE stride == s.w + s.pad
             whole == {row \in 0 .. r.h - 1 : (r.y + row) * stride + r.x + r.w <= rows * stride}
             n == Cardinality(whole)
             pixels == Crop(s, r, rows)
             row(i) == (i - 1) \div r.w
             place(i) == (i - 1) % r.w
  <1>1. /\ s.w \in Nat /\ s.h \in Nat /\ s.pad \in Nat
        /\ r.x \in Nat /\ r.y \in Nat /\ r.w \in Nat \ {0} /\ r.h \in Nat \ {0}
        /\ r.x + r.w <= s.w /\ stride \in Nat \ {0}
    BY DEF Surfaces, Regions, FitsIn
  <1>2. n \in Nat /\ n <= r.h
    <2>1. IsFiniteSet(0 .. r.h - 1) /\ Cardinality(0 .. r.h - 1) = r.h
      <3> DEFINE k == r.h - 1
      <3>1. k \in Int /\ k >= 0 /\ (k - 0) + 1 = r.h
        BY <1>1
      <3> HIDE DEF k
      <3>2. IsFiniteSet(0 .. k) /\ Cardinality(0 .. k) = r.h
        BY <3>1, FS_Interval
      <3>3. QED
        BY <3>2 DEF k
    <2>2. whole \subseteq 0 .. r.h - 1
      OBVIOUS
    <2> HIDE DEF whole
    <2>3. QED
      BY <2>1, <2>2, FS_Subset, FS_CardinalityType
  <1>3. pixels = [i \in 1 .. n * r.w |-> PlaceOf(s, (r.y + row(i)) * stride + r.x + place(i))]
    BY DEF Crop
  <1> HIDE DEF pixels, whole
  <1>4. n * r.w \in Nat /\ DOMAIN pixels = 1 .. n * r.w
    BY <1>1, <1>2, <1>3
  <1>5. ASSUME NEW i \in DOMAIN pixels
        PROVE  /\ row(i) \in 0 .. r.h - 1 /\ place(i) \in 0 .. r.w - 1
               /\ pixels[i].x = r.x + place(i) /\ pixels[i].y = r.y + row(i)
    <2>1. i - 1 \in Nat /\ i - 1 < n * r.w
      BY <1>4
    <2>2. row(i) \in 0 .. n - 1 /\ place(i) \in 0 .. r.w - 1
      BY <1>1, <1>2, <2>1, DivBounds
    <2> DEFINE q == r.y + row(i)
               m == r.x + place(i)
    <2>3. q \in Nat /\ m \in 0 .. stride - 1
      BY <1>1, <1>2, <2>2
    <2>4. pixels[i] = PlaceOf(s, (r.y + row(i)) * stride + r.x + place(i))
      BY <1>3, <1>4
    <2> DEFINE offset == (r.y + row(i)) * stride + r.x + place(i)
    <2>5. offset = q * stride + m
      BY <1>1, <2>2, <2>3
    <2> HIDE DEF row, place, stride
    <2>6. pixels[i].x = offset % stride /\ pixels[i].y = offset \div stride
      BY <2>4 DEF PlaceOf, stride
    <2> HIDE DEF q, m, offset
    <2>7. offset % stride = m /\ offset \div stride = q
      BY <1>1, <2>3, <2>5, DivMod
    <2>8. QED
      BY <1>1, <1>2, <2>2, <2>6, <2>7 DEF q, m
  <1>6. ASSUME NEW i \in DOMAIN pixels, NEW j \in DOMAIN pixels, i < j
        PROVE  \/ pixels[i].y < pixels[j].y
               \/ pixels[i].y = pixels[j].y /\ pixels[i].x < pixels[j].x
    <2>1. i - 1 \in Nat /\ j - 1 \in Nat /\ i - 1 < j - 1
      BY <1>4, <1>6
    <2>2. row(i) < row(j) \/ (row(i) = row(j) /\ place(i) < place(j))
      BY <1>1, <2>1, DivOrder
    <2> HIDE DEF row, place
    <2>3. QED
      BY <1>1, <1>5, <2>2
  <1>7. \A i \in DOMAIN pixels :
          pixels[i].x \in r.x .. r.x + r.w - 1 /\ pixels[i].y \in r.y .. r.y + r.h - 1
    <2> HIDE DEF row, place
    <2>1. QED
      BY <1>1, <1>5
  <1>8. PicturedIn(pixels, r)
    BY <1>6, <1>7 DEF PicturedIn
  <1>9. QED
    BY <1>8 DEF pixels

LEMMA ScreenNextKeeps == ScreenInv /\ [ScreenNext]_screenVars => ScreenInv'
  <1> SUFFICES ASSUME ScreenInv, [ScreenNext]_screenVars PROVE ScreenInv'
    OBVIOUS
  <1>1. CASE Acquire
    <2>1. PICK offer \in Offers, size \in Sizes, pad \in Paddings :
            /\ captured = NoWindow /\ captured' = Select(offer)
            /\ surface' = [w |-> size.w, h |-> size.h, pad |-> pad]
            /\ region' = region /\ copied' = copied
      BY <1>1 DEF Acquire
    <2>2. surface' \in Surfaces
      BY <2>1, ScreenAssumption DEF Surfaces
    <2>3. captured' # NoWindow => captured'.shown /\ captured'.app \notin {"browser", "trainer"}
      BY <2>1, SelectForm
    <2>4. QED
      BY <2>1, <2>2, <2>3 DEF ScreenInv
  <1>2. CASE ResolveRegion
    <2>1. PICK rect \in Rects : region' = Resolve(rect, surface)
      BY <1>2 DEF ResolveRegion
    <2>2. captured # NoWindow /\ copied' = <<>> /\ captured' = captured /\ surface' = surface
      BY <1>2 DEF ResolveRegion
    <2>3. region' \in Regions /\ (region' # NoRegion => FitsIn(region', surface'))
      BY <2>1, <2>2, ResolveForm DEF ScreenInv
    <2>4. PicturedIn(copied', region')
      BY <2>2 DEF PicturedIn
    <2>5. QED
      BY <2>2, <2>3, <2>4 DEF ScreenInv
  <1>3. CASE ReadRegion
    <2>1. PICK rows : copied' = Crop(surface, region, rows)
      BY <1>3 DEF ReadRegion
    <2>2. region # NoRegion /\ captured' = captured /\ surface' = surface /\ region' = region
      BY <1>3 DEF ReadRegion
    <2>3. PicturedIn(copied', region')
      BY <2>1, <2>2, CropForm DEF ScreenInv
    <2>4. QED
      BY <2>2, <2>3 DEF ScreenInv
  <1>4. CASE ReleaseWindow
    BY <1>4 DEF ReleaseWindow, ScreenInv, NoSurface, NoRegion, Surfaces, Regions, PicturedIn
  <1>5. CASE UNCHANGED screenVars
    BY <1>5 DEF screenVars, ScreenInv
  <1>6. QED
    BY <1>1, <1>2, <1>3, <1>4, <1>5 DEF ScreenNext

\* What the pixels are to the invariant they are to the property.
LEMMA ScreenShows == ScreenInv => OnlyTheGameIsSeen
  <1> SUFFICES ASSUME ScreenInv PROVE OnlyTheGameIsSeen
    OBVIOUS
  <1>1. region # NoRegion => FitsIn(region, surface)
    BY DEF ScreenInv
  <1>2. \A i \in DOMAIN copied : region # NoRegion
    BY DEF ScreenInv
  <1>3. \A i \in DOMAIN copied : Inside(copied[i])
    BY DEF ScreenInv, PicturedIn, Inside
  <1>4. \A i \in DOMAIN copied : copied[i].x < surface.w
    BY <1>1, <1>2 DEF ScreenInv, PicturedIn, FitsIn, Regions, Surfaces
  <1>5. QED
    BY <1>1, <1>3, <1>4 DEF ScreenInv, PicturedIn, FitsIn, OnlyTheGameIsSeen

SightInv == VisionInv /\ WireInv /\ ScreenInv

\* Nothing is captured but for an app that introduced itself and by its configuration, a crop
\* is reported under the list it was cut for, a sighting is dated by the app's clock whenever
\* the child was born, and the pixels read are those of a region of the game's own window:
\* for every streak, region list, window and size. (riki-vision, riki-capture, protocol-codec.ts)
THEOREM SightHolds == PartsSpec => []SeesAsTold
  <1>1. PartsInit => SightInv
    BY VisionStart, WireStart, ScreenStart DEF PartsInit, SightInv
  <1>2. SightInv /\ [PartsNext]_partsVars => SightInv'
    <2>1. [PartsNext]_partsVars =>
            [VisionNext]_visionVars /\ [WireNext]_wireVars /\ [ScreenNext]_screenVars
      <3>1. PartsNext => [VisionNext]_visionVars /\ [WireNext]_wireVars /\ [ScreenNext]_screenVars
        BY DEF PartsNext
      <3>2. UNCHANGED partsVars => UNCHANGED <<visionVars, wireVars, screenVars>>
        BY DEF partsVars
      <3>3. QED
        BY <3>1, <3>2
    <2>2. QED
      BY <2>1, VisionNextKeeps, WireNextKeeps, ScreenNextKeeps DEF SightInv
  <1>3. SightInv => SeesAsTold
    <2>1. VisionInv => CapturesOnlyAsTold /\ CropsFitTheirRegions
      BY DEF VisionInv
    <2>2. WireInv => SightingsAreDated
      BY DEF WireInv, SightingIsDated, SightingsAreDated
    <2>3. QED
      BY <2>1, <2>2, ScreenShows DEF SightInv, SeesAsTold
  <1>4. QED
    BY <1>1, <1>2, <1>3, PTL DEF PartsSpec, partsVars

-----------------------------------------------------------------------------
(* The launch *)

\* How far start() may be when the quit came at a stage.
BehindStage(at) ==
    CASE at = "warming" -> {"warming", "sources", "done"}
      [] at = "sources" -> {"sources", "done"}
      [] OTHER -> {"done"}

\* What a quit leaves for the process to end with: what start() picked up behind it and,
\* until they have stopped, the sources.
AppQuits ==
    /\ app.quit \in {"not", "warming", "sources", "done"}
    /\ stage \in {"none", "warming", "sources", "done"}
    /\ Quitting => /\ match = 0 /\ stage \in BehindStage(app.quit)
                   /\ held \subseteq PickedUpBehind(app.quit) \cup {"sources"}
    /\ app.process = "quit" => Quitting /\ held \subseteq PickedUpBehind(app.quit)

\* The token of the file has been listened for, or will be, or was never used: each token
\* more than the first was made by a launch that could not read the one before it.
TokenCounts ==
    /\ DOMAIN token = {"file", "used", "refusals"}
    /\ token.file \in Nat /\ token.refusals \in Nat /\ IsFiniteSet(token.used)
    /\ Cardinality(token.used) <= token.refusals + 1
    /\ IF token.file = 0 THEN Cardinality(token.used) <= token.refusals
       ELSE Cardinality(token.used \cup {token.file}) <= token.refusals + 1

AppInv ==
    /\ DOMAIN app = {"nr", "process", "quit"} /\ app.nr \in Nat
    /\ app.process # "none" => app.nr # 0
    /\ match \in Nat
    /\ sessions = IF match = 0 THEN 0 ELSE 1
    /\ AppQuits
    /\ TokenCounts

LEMMA AppStart == AppInit => AppInv
  <1> SUFFICES ASSUME AppInit PROVE AppInv
    OBVIOUS
  <1>1. IsFiniteSet({}) /\ Cardinality({}) = 0
    BY FS_EmptySet
  <1>2. TokenCounts
    BY <1>1 DEF AppInit, TokenCounts
  <1>3. QED
    BY <1>2 DEF AppInit, AppInv, AppQuits, Quitting

\* One token more is at most one more in the count. (FS_AddElement)
LEMMA OneTokenMore ==
    ASSUME NEW S, IsFiniteSet(S), NEW t
    PROVE  /\ IsFiniteSet(S \cup {t}) /\ Cardinality(S) \in Nat
           /\ Cardinality(S \cup {t}) \in Nat
           /\ Cardinality(S \cup {t}) <= Cardinality(S) + 1
  <1>1. Cardinality(S) \in Nat /\ IsFiniteSet(S \cup {t})
    BY FS_CardinalityType, FS_AddElement
  <1>2. Cardinality(S \cup {t}) = Cardinality(S) \/ Cardinality(S \cup {t}) = Cardinality(S) + 1
    <2>1. CASE t \in S
      <3>1. S \cup {t} = S
        BY <2>1
      <3>2. QED
        BY <3>1
    <2>2. CASE t \notin S
      BY <2>2, FS_AddElement
    <2>3. QED
      BY <2>1, <2>2
  <1>3. QED
    BY <1>1, <1>2

\* A launch reads the token it has or counts a refusal for the one it makes, and a write
\* that breaks off leaves a file nobody counts on. (loadOrCreateGsiToken)
LEMMA TokenKept ==
    ASSUME AppInv, BuildShell \/ TokenUnwritten
    PROVE  TokenCounts'
  <1>a. /\ TokenCounts /\ app.nr \in Nat
        /\ app.process # "none" => app.nr # 0
    BY Zenon DEF AppInv
  <1>b. app.process = "alive"
    BY Zenon DEF BuildShell, TokenUnwritten, Alive
  <1>1. TokenCounts /\ app.nr \in Nat /\ app.nr # 0
    <2>1. app.process # "none"
      BY <1>b
    <2>2. QED
      BY <1>a, <2>1, Zenon
  <1> USE DEF TokenCounts
  <1>2. PICK readable \in BOOLEAN :
           \/ token' = [file |-> OwnToken(readable), refusals |-> Refusals(readable),
                        used |-> token.used \cup {OwnToken(readable)}]
           \/ /\ OwnToken(readable) # token.file
              /\ \E file \in {token.file, 0, app.nr} :
                    token' = [token EXCEPT !.file = file, !.refusals = Refusals(readable)]
    <2>1. CASE BuildShell
      BY <2>1, Zenon DEF BuildShell
    <2>2. CASE TokenUnwritten
      <3>1. PICK r \in BOOLEAN, f \in {token.file, 0, app.nr} :
                /\ OwnToken(r) # token.file
                /\ token' = [token EXCEPT !.file = f, !.refusals = Refusals(r)]
        BY <2>2, Zenon DEF TokenUnwritten
      <3>2. QED
        BY <3>1, Zenon
    <2>3. QED
      BY <2>1, <2>2, Zenon
  <1>3. /\ IsFiniteSet(token.used) /\ Cardinality(token.used) \in Nat
        /\ IsFiniteSet(token.used \cup {app.nr}) /\ Cardinality(token.used \cup {app.nr}) \in Nat
        /\ Cardinality(token.used \cup {app.nr}) <= Cardinality(token.used) + 1
        /\ IsFiniteSet(token.used \cup {token.file})
        /\ Cardinality(token.used \cup {token.file}) \in Nat
    BY <1>1, OneTokenMore
  <1>4. CASE token.file # 0 /\ readable
    <2>1. OwnToken(readable) = token.file /\ Refusals(readable) = token.refusals
      BY <1>1, <1>4 DEF OwnToken, Refusals
    <2>2. token' = [file |-> token.file, refusals |-> token.refusals,
                    used |-> token.used \cup {token.file}]
      BY <1>2, <2>1
    <2>3. (token.used \cup {token.file}) \cup {token.file} = token.used \cup {token.file}
      OBVIOUS
    <2>4. /\ token'.file = token.file /\ token'.refusals = token.refusals
          /\ token'.used = token.used \cup {token.file}
          /\ DOMAIN token' = {"file", "used", "refusals"}
      BY <2>2
    <2>5. Cardinality(token.used \cup {token.file}) <= token.refusals + 1
      BY <1>1, <1>4
    <2>6. QED
      BY <1>1, <1>3, <1>4, <2>3, <2>4, <2>5
  <1>5. CASE ~(token.file # 0 /\ readable)
    <2>1. OwnToken(readable) = app.nr
      BY <1>5 DEF OwnToken
    <2>2. /\ Refusals(readable) \in Nat
          /\ Cardinality(token.used) <= Refusals(readable)
      BY <1>1, <1>3, <1>5 DEF Refusals
    <2>3. CASE token' = [file |-> app.nr, refusals |-> Refusals(readable),
                         used |-> token.used \cup {app.nr}]
      <3>1. (token.used \cup {app.nr}) \cup {app.nr} = token.used \cup {app.nr}
        OBVIOUS
      <3>2. Cardinality(token.used \cup {app.nr}) <= Refusals(readable) + 1
        BY <1>3, <2>2
      <3>3. QED
        BY <1>1, <1>3, <2>2, <2>3, <3>1, <3>2
    <2>4. CASE \E file \in {token.file, 0, app.nr} :
                  token' = [token EXCEPT !.file = file, !.refusals = Refusals(readable)]
      <3>1. PICK file \in {token.file, 0, app.nr} :
                  token' = [token EXCEPT !.file = file, !.refusals = Refusals(readable)]
        BY <2>4
      <3>2. /\ token'.file = file /\ token'.refusals = Refusals(readable)
            /\ token'.used = token.used /\ DOMAIN token' = {"file", "used", "refusals"}
        BY <1>1, <3>1
      <3>3. Cardinality(token.used) <= Refusals(readable) + 1
        BY <1>3, <2>2
      <3>4. /\ Cardinality(token.used \cup {file}) \in Nat
            /\ Cardinality(token.used \cup {file}) <= Cardinality(token.used) + 1
        BY <1>3, OneTokenMore
      <3>5. Cardinality(token.used \cup {file}) <= Refusals(readable) + 1
        BY <1>3, <2>2, <3>4
      <3>6. file \in Nat
        BY <1>1
      <3>7. QED
        BY <1>3, <2>2, <3>2, <3>3, <3>5, <3>6
    <2>5. QED
      BY <1>2, <2>1, <2>3, <2>4
  <1>6. QED
    BY <1>4, <1>5

LEMMA AppNextKeeps == AppInv /\ [AppNext]_appVars => AppInv'
  <1> SUFFICES ASSUME AppInv, [AppNext]_appVars PROVE AppInv'
    OBVIOUS
  <1> USE DEF AppQuits, Quitting
  <1>1. CASE Starts
    BY <1>1 DEF Starts, AppInv, TokenCounts
  <1>2. CASE Dies
    BY <1>2 DEF Dies, Gone, Alive, AppInv, TokenCounts
  <1>3. CASE BuildShell
    <2>1. TokenCounts'
      BY <1>3, TokenKept
    <2>2. QED
      BY <1>3, <2>1 DEF BuildShell, Alive, AppInv
  <1>4. CASE TokenUnwritten
    <2>1. TokenCounts'
      BY <1>4, TokenKept
    <2>2. QED
      BY <1>4, <2>1 DEF TokenUnwritten, Gone, Alive, AppInv
  <1>5. CASE Warmed
    BY <1>5 DEF Warmed, Alive, AppInv, TokenCounts, BehindStage, PickedUpBehind
  <1>6. CASE SourcesUp
    BY <1>6 DEF SourcesUp, Alive, AppInv, TokenCounts, BehindStage, PickedUpBehind
  <1>7. CASE \E id \in 1 .. Matches : SessionFor(id)
    <2>1. PICK id \in 1 .. Matches : SessionFor(id)
      BY <1>7
    <2>2. id \in Nat /\ id # 0
      BY AppLifeAssumption
    <2>3. ~Quitting /\ app.process # "quit"
      BY <2>1 DEF SessionFor, AppInv, PickedUpBehind
    <2>4. QED
      BY <2>1, <2>2, <2>3 DEF SessionFor, Closed, AppInv, TokenCounts
  <1>8. CASE MatchOver
    BY <1>8 DEF MatchOver, Closed, AppInv, TokenCounts
  <1>9. CASE BeforeQuit
    <2>1. CASE Quitting \/ stage = "none"
      BY <1>9, <2>1 DEF BeforeQuit, Gone, Alive, AppInv, TokenCounts
    <2>2. CASE ~(Quitting \/ stage = "none")
      <3>1. /\ app' = [app EXCEPT !.quit = stage] /\ held' = held \cap {"sources"}
            /\ match' = 0 /\ sessions' = Closed /\ stage' = stage /\ token' = token
            /\ app.process = "alive"
        BY <1>9, <2>2 DEF BeforeQuit, Alive
      <3>2. sessions' = 0
        BY <3>1 DEF Closed, AppInv
      <3>3. QED
        BY <2>2, <3>1, <3>2 DEF AppInv, TokenCounts, BehindStage
    <2>3. QED
      BY <2>1, <2>2
  <1>10. CASE Drains
    <2>1. CASE app.quit = "warming"
      BY <1>10, <2>1 DEF Drains, Gone, Stopped, Alive, AppInv, TokenCounts, PickedUpBehind
    <2>2. CASE app.quit # "warming"
      BY <1>10, <2>2 DEF Drains, Gone, Stopped, Alive, AppInv, TokenCounts, PickedUpBehind
    <2>3. QED
      BY <2>1, <2>2
  <1>11. CASE UNCHANGED appVars
    BY <1>11 DEF appVars, AppInv, TokenCounts
  <1>12. QED
    BY <1>1, <1>2, <1>3, <1>4, <1>5, <1>6, <1>7, <1>8, <1>9, <1>10, <1>11 DEF AppNext

LEMMA AppLeavesNothing == AppInv => LeavesNothing
  <1> SUFFICES ASSUME AppInv PROVE LeavesNothing
    OBVIOUS
  <1>1. Cardinality(token.used) <= 1 + token.refusals
    <2>1. /\ token.refusals \in Nat /\ IsFiniteSet(token.used)
          /\ Cardinality(token.used) <= token.refusals + 1
      BY DEF AppInv, TokenCounts
    <2>2. Cardinality(token.used) \in Nat
      BY <2>1, FS_CardinalityType
    <2>3. QED
      BY <2>1, <2>2
  <1>2. QED
    BY <1>1 DEF AppInv, AppQuits, Quitting, LeavesNothing

-----------------------------------------------------------------------------
(* The configuration *)

\* The arguments of a command line, and the one that is none of the program's.
ArgumentsOf(argv) == {argv[i] : i \in DOMAIN argv} \cup {ForeignSwitch}

\* The last launch read what it read, of the settings as they are; the player's choice is
\* in them.
ConfigInv ==
    /\ DOMAIN settings = {"json", "keys"}
    /\ chosen # "none" =>
          settings.json /\ "coach" \in DOMAIN settings.keys /\ settings.keys["coach"] = chosen
    /\ launched = NotLaunched \/
          /\ launched.argv \in Argvs /\ launched.dirs \in DotEnvs
          /\ launched.config = LoadConfig(launched.argv, launched.dirs, launched.env, settings)

LEMMA ConfigStart == ConfigInit => ConfigInv
  BY DEF ConfigInit, ConfigInv, File

LEMMA ConfigNextKeeps == ConfigInv /\ [ConfigNext]_configVars => ConfigInv'
  <1> SUFFICES ASSUME ConfigInv, [ConfigNext]_configVars PROVE ConfigInv'
    OBVIOUS
  <1>1. CASE Launch
    <2>1. PICK argv \in Argvs, dirs \in DotEnvs, env \in Envs :
            launched' = [argv |-> argv, dirs |-> dirs, env |-> env,
                         config |-> LoadConfig(argv, dirs, env, settings)]
      BY <1>1 DEF Launch
    <2>2. settings' = settings /\ chosen' = chosen
      BY <1>1 DEF Launch
    <2>3. QED
      BY <2>1, <2>2 DEF ConfigInv
  <1>2. CASE SaveSettings
    BY <1>2 DEF SaveSettings, ConfigInv, File, Layered, Only
  <1>3. CASE HandEdit
    BY <1>3 DEF HandEdit, ConfigInv, File
  <1>4. CASE UNCHANGED configVars
    BY <1>4 DEF configVars, ConfigInv
  <1>5. QED
    BY <1>1, <1>2, <1>3, <1>4 DEF ConfigNext

\* No flag and no variable speaks for the coach.
LEMMA FlagKeys == ASSUME NEW argv PROVE DOMAIN ParseFlags(argv) \subseteq EnvKeys
  <1> DEFINE saying(k) == {i \in DOMAIN argv : \E v \in SaysOf(argv, i) : v[1] = k}
  <1>1. DOMAIN ParseFlags(argv) = {k \in ConfigKeys : saying(k) # {}}
    BY DEF ParseFlags
  <1>2. ASSUME NEW k \in ConfigKeys, NEW i \in DOMAIN argv, NEW v \in SaysOf(argv, i), v[1] = k
        PROVE  k \in EnvKeys
    <2>1. argv[i].key \in EnvKeys /\ v[1] = argv[i].key
      <3>1. argv[i].key \in EnvKeys
        BY DEF SaysOf
      <3>2. \E w : v = <<argv[i].key, w>>
        BY DEF SaysOf
      <3>3. QED
        BY <3>1, <3>2
    <2>2. QED
      BY <1>2, <2>1
  <1>3. QED
    BY <1>1, <1>2

LEMMA CoachIsTheFiles ==
    ASSUME NEW argv, NEW dirs, NEW env, NEW file,
           LoadConfig(argv, dirs, env, file) # NoConfig, "coach" \in DOMAIN file.keys
    PROVE  LoadConfig(argv, dirs, env, file)["coach"] = file.keys["coach"]
  <1> DEFINE flags == ParseFlags(argv)
             over == FromEnv(OverlayEnv(FindEnvFile(dirs), env))
             merged == MergeLayers(flags, over, file.keys)
             raw == Layered(merged, Defaults)
  <1>1. "coach" \notin DOMAIN flags /\ "coach" \notin DOMAIN over
    <2>1. DOMAIN over \subseteq EnvKeys
      BY DEF FromEnv
    <2>2. QED
      BY <2>1, FlagKeys DEF EnvKeys
  <1>2. LoadConfig(argv, dirs, env, file) = raw
    BY DEF LoadConfig, ResolveConfig
  <1> HIDE DEF flags, over
  <1>3. "coach" \in DOMAIN merged /\ merged["coach"] = file.keys["coach"]
    BY <1>1 DEF MergeLayers, Layered
  <1> HIDE DEF merged
  <1>4. raw["coach"] = merged["coach"]
    BY <1>3 DEF Layered
  <1>5. QED
    BY <1>2, <1>3, <1>4

\* The list of the directories' .env files without their blank variables.
Unblanked(dirs) ==
    [i \in DOMAIN dirs |-> IF dirs[i] = NoFile THEN NoFile
                           ELSE Layered(WithoutBlanks(dirs[i], {"", "blank"}), Only("other", "x"))]

LEMMA BlanksSayNothing ==
    ASSUME NEW dirs \in DotEnvs, NEW env
    PROVE  FromEnv(OverlayEnv(FindEnvFile(dirs), env))
              = FromEnv(OverlayEnv(FindEnvFile(Unblanked(dirs)), WithoutBlanks(env, {""})))
  <1> DEFINE there == {i \in DOMAIN dirs : dirs[i] # NoFile}
             thereToo == {i \in DOMAIN Unblanked(dirs) : Unblanked(dirs)[i] # NoFile}
             spoken == [k \in {k \in DOMAIN env : env[k] # ""} |-> env[k]]
             bare == WithoutBlanks(env, {""})
             spokenToo == [k \in {k \in DOMAIN bare : bare[k] # ""} |-> bare[k]]
             base == FindEnvFile(dirs)
             baseToo == FindEnvFile(Unblanked(dirs))
  <1>1. spokenToo = spoken
    <2>1. DOMAIN bare = {k \in DOMAIN env : env[k] \notin {""}} /\ \A k \in DOMAIN bare : bare[k] = env[k]
      BY DEF WithoutBlanks
    <2> HIDE DEF bare
    <2>2. DOMAIN spokenToo = DOMAIN spoken
      BY <2>1
    <2>3. \A k \in DOMAIN spoken : spokenToo[k] = spoken[k]
      BY <2>1, <2>2
    <2>4. QED
      BY <2>2, <2>3
  <1>2. \/ base = <<>> /\ baseToo = <<>>
        \/ baseToo = Layered(WithoutBlanks(base, {"", "blank"}), Only("other", "x"))
    <2>1. DOMAIN Unblanked(dirs) = DOMAIN dirs
      BY DEF Unblanked
    <2>2. \A i \in DOMAIN dirs : dirs[i] # NoFile => Unblanked(dirs)[i] # NoFile
      <3> SUFFICES ASSUME NEW i \in DOMAIN dirs, dirs[i] # NoFile PROVE Unblanked(dirs)[i] # NoFile
        OBVIOUS
      <3> DEFINE u == Layered(WithoutBlanks(dirs[i], {"", "blank"}), Only("other", "x"))
      <3>1. "other" \in DOMAIN u
        BY DEF Layered, Only
      <3>2. u # <<>>
        <4>1. DOMAIN <<>> = {}
          OBVIOUS
        <4> HIDE DEF u
        <4>2. QED
          BY <3>1, <4>1
      <3>3. Unblanked(dirs)[i] = u
        BY DEF Unblanked
      <3>4. QED
        BY <3>2, <3>3 DEF NoFile
    <2>3. \A i \in DOMAIN dirs : dirs[i] = NoFile => Unblanked(dirs)[i] = NoFile
      BY DEF Unblanked
    <2>4. thereToo = there
      BY <2>1, <2>2, <2>3
    <2>5. CASE there = {}
      BY <2>4, <2>5 DEF FindEnvFile
    <2>6. CASE there # {}
      <3>1. there \subseteq Nat
        BY ConfigAssumption
      <3> DEFINE first == CHOOSE i \in there : \A j \in there : i <= j
      <3>2. first \in there
        BY <2>6, <3>1, LeastOf
      <3>3. base = dirs[first]
        BY <2>6 DEF FindEnvFile
      <3>4. baseToo = Unblanked(dirs)[CHOOSE i \in thereToo : \A j \in thereToo : i <= j]
        BY <2>4, <2>6 DEF FindEnvFile
      <3> HIDE DEF thereToo
      <3>5. baseToo = Unblanked(dirs)[first]
        BY <2>4, <3>4
      <3> HIDE DEF first
      <3>6. first \in DOMAIN dirs /\ dirs[first] # NoFile
        BY <3>2
      <3>7. QED
        BY <3>3, <3>5, <3>6 DEF Unblanked
    <2>7. QED
      BY <2>5, <2>6
  <1> DEFINE a == Layered(spoken, base)
             b == Layered(spoken, baseToo)
  <1>3. OverlayEnv(base, env) = a /\ OverlayEnv(baseToo, bare) = b
    BY <1>1 DEF OverlayEnv
  <1> HIDE DEF spoken, spokenToo, base, baseToo, bare
  <1>4. CASE base = <<>> /\ baseToo = <<>>
    BY <1>3, <1>4 DEF base, baseToo, bare
  <1>5. CASE baseToo = Layered(WithoutBlanks(base, {"", "blank"}), Only("other", "x"))
    <2>1. \A k \in EnvKeys : k \in DOMAIN baseToo <=> k \in DOMAIN base /\ base[k] \notin {"", "blank"}
      BY <1>5 DEF Layered, WithoutBlanks, Only, EnvKeys, ConfigKeys
    <2>2. \A k \in EnvKeys : k \in DOMAIN baseToo => baseToo[k] = base[k]
      BY <1>5 DEF Layered, WithoutBlanks, Only, EnvKeys, ConfigKeys
    <2> DEFINE says(c) == {k \in DOMAIN c \cap EnvKeys : c[k] \notin {"", "blank"}}
    <2>3. \A k \in EnvKeys : k \in says(a) <=> k \in says(b)
      BY <2>1, <2>2 DEF Layered
    <2>4. \A k \in EnvKeys : k \in says(a) => a[k] = b[k]
      BY <2>1, <2>2 DEF Layered
    <2>5. says(a) = says(b)
      BY <2>3
    <2>6. FromEnv(a) = [k \in says(a) |-> a[k]] /\ FromEnv(b) = [k \in says(b) |-> b[k]]
      BY DEF FromEnv
    <2>7. \A k \in says(a) : k \in EnvKeys
      OBVIOUS
    <2> HIDE DEF says, a, b
    <2>8. FromEnv(a) = FromEnv(b)
      BY <2>4, <2>5, <2>6, <2>7
    <2>9. QED
      BY <1>3, <2>8 DEF base, baseToo, bare
  <1>6. QED
    BY <1>2, <1>4, <1>5

\* A line that says the same words further on is read the same.
LEMMA SameFlags ==
    ASSUME NEW S, NEW a \in Seq(S), NEW b \in Seq(S), NEW d \in {0, 1},
           \A i \in 1 .. Len(a) : i + d \in 1 .. Len(b) /\ SaysOf(b, i + d) = SaysOf(a, i),
           \A j \in 1 .. Len(b) : j - d \in 1 .. Len(a) \/ SaysOf(b, j) = {}
    PROVE  ParseFlags(b) = ParseFlags(a)
  <1> DEFINE saidA(k) == {i \in DOMAIN a : \E v \in SaysOf(a, i) : v[1] = k}
             saidB(k) == {i \in DOMAIN b : \E v \in SaysOf(b, i) : v[1] = k}
             lastA(k) == CHOOSE i \in saidA(k) : \A j \in saidA(k) : j <= i
             lastB(k) == CHOOSE i \in saidB(k) : \A j \in saidB(k) : j <= i
             keysA == {k \in ConfigKeys : saidA(k) # {}}
             keysB == {k \in ConfigKeys : saidB(k) # {}}
  <1>1. /\ ParseFlags(a) = [k \in keysA |-> (CHOOSE v \in SaysOf(a, lastA(k)) : TRUE)[2]]
        /\ ParseFlags(b) = [k \in keysB |-> (CHOOSE v \in SaysOf(b, lastB(k)) : TRUE)[2]]
    BY DEF ParseFlags
  <1>2. DOMAIN a = 1 .. Len(a) /\ DOMAIN b = 1 .. Len(b) /\ Len(a) \in Nat /\ Len(b) \in Nat
    OBVIOUS
  <1>3. ASSUME NEW k PROVE \A i \in saidA(k) : i + d \in saidB(k)
    BY <1>2
  <1>4. ASSUME NEW k PROVE \A j \in saidB(k) : j - d \in saidA(k)
    <2> SUFFICES ASSUME NEW j \in saidB(k) PROVE j - d \in saidA(k)
      OBVIOUS
    <2>1. j \in 1 .. Len(b) /\ SaysOf(b, j) # {}
      BY <1>2
    <2>2. j - d \in 1 .. Len(a)
      BY <2>1
    <2>3. SaysOf(b, j) = SaysOf(a, j - d)
      <3>1. (j - d) + d = j
        BY <2>1
      <3>2. QED
        BY <2>2, <3>1
    <2>4. QED
      BY <1>2, <2>2, <2>3
  <1>5. ASSUME NEW k PROVE saidA(k) \subseteq 1 .. Len(a) /\ saidB(k) \subseteq 1 .. Len(b)
    BY <1>2
  <1> HIDE DEF saidA, saidB
  <1>6. keysA = keysB
    <2>1. \A k : saidA(k) # {} <=> saidB(k) # {}
      BY <1>3, <1>4
    <2>2. QED
      BY <2>1
  <1>7. ASSUME NEW k, saidA(k) # {} PROVE SaysOf(b, lastB(k)) = SaysOf(a, lastA(k))
    <2>1. PICK m \in saidA(k) : \A j \in saidA(k) : j <= m
      <3>1. saidA(k) \subseteq Nat /\ \A j \in saidA(k) : j <= Len(a)
        BY <1>2, <1>5
      <3>2. QED
        BY <1>2, <1>7, <3>1, LargestOf
    <2>2. m \in 1 .. Len(a)
      BY <1>5
    <2>3. m + d \in saidB(k) /\ \A j \in saidB(k) : j <= m + d
      <3>1. m + d \in saidB(k)
        BY <1>3
      <3>2. ASSUME NEW j \in saidB(k) PROVE j <= m + d
        <4>1. j - d <= m
          BY <1>4, <2>1
        <4>2. j \in Nat /\ m \in Nat
          BY <1>2, <1>5, <2>2
        <4>3. QED
          BY <4>1, <4>2
      <3>3. QED
        BY <3>1, <3>2
    <2>4. lastA(k) = m
      <3>1. lastA(k) \in saidA(k) /\ \A j \in saidA(k) : j <= lastA(k)
        BY <2>1
      <3>2. lastA(k) \in Nat /\ m \in Nat
        BY <1>2, <1>5, <2>2, <3>1
      <3>3. lastA(k) <= m /\ m <= lastA(k)
        BY <2>1, <3>1
      <3> HIDE DEF lastA
      <3>4. QED
        BY <3>2, <3>3
    <2>5. lastB(k) = m + d
      <3>1. lastB(k) \in saidB(k) /\ \A j \in saidB(k) : j <= lastB(k)
        BY <2>3
      <3>2. lastB(k) \in Nat /\ m + d \in Nat
        BY <1>2, <1>5, <2>2, <3>1
      <3>3. lastB(k) <= m + d /\ m + d <= lastB(k)
        BY <2>3, <3>1
      <3> HIDE DEF lastB
      <3>4. QED
        BY <3>2, <3>3
    <2> HIDE DEF lastA, lastB
    <2>6. QED
      BY <2>2, <2>4, <2>5
  <1> HIDE DEF lastA, lastB
  <1>8. \A k \in keysA : SaysOf(b, lastB(k)) = SaysOf(a, lastA(k))
    BY <1>7
  <1> HIDE DEF keysA, keysB
  <1>9. [k \in keysA |-> (CHOOSE v \in SaysOf(a, lastA(k)) : TRUE)[2]]
            = [k \in keysA |-> (CHOOSE v \in SaysOf(b, lastB(k)) : TRUE)[2]]
    <2> DEFINE valueA(k) == (CHOOSE v \in SaysOf(a, lastA(k)) : TRUE)[2]
               valueB(k) == (CHOOSE v \in SaysOf(b, lastB(k)) : TRUE)[2]
    <2>1. \A k \in keysA : valueA(k) = valueB(k)
      BY <1>8
    <2> HIDE DEF valueA, valueB
    <2>2. [k \in keysA |-> valueA(k)] = [k \in keysA |-> valueB(k)]
      BY <2>1
    <2>3. QED
      BY <2>2 DEF valueA, valueB
  <1>10. QED
    BY <1>1, <1>6, <1>9

LEMMA SameSays ==
    ASSUME NEW a, NEW b, NEW i, NEW j, a[i] = b[j], Takes(a, i) <=> Takes(b, j),
           Takes(a, i) => a[i + 1] = b[j + 1]
    PROVE  SaysOf(b, j) = SaysOf(a, i)
  <1>1. CASE Takes(a, i)
    BY <1>1 DEF SaysOf
  <1>2. CASE ~Takes(a, i)
    BY <1>2 DEF SaysOf
  <1>3. QED
    BY <1>1, <1>2

LEMMA ForeignIsNone == ForeignSwitch.dash /\ ForeignSwitch.key \notin EnvKeys
  BY DEF ForeignSwitch, Switch, EnvKeys, ConfigKeys

LEMMA ForeignFirst ==
    ASSUME NEW S, ForeignSwitch \in S, NEW a \in Seq(S)
    PROVE  ParseFlags(<<ForeignSwitch>> \o a) = ParseFlags(a)
  <1> DEFINE b == <<ForeignSwitch>> \o a
  <1>1. ForeignSwitch.dash /\ ForeignSwitch.key \notin EnvKeys
    BY ForeignIsNone
  <1>2. b \in Seq(S) /\ Len(b) = Len(a) + 1 /\ b[1] = ForeignSwitch
    BY <1>1
  <1>3. \A i \in 1 .. Len(a) : b[i + 1] = a[i]
    BY <1>1
  <1> HIDE DEF b
  <1>4. ASSUME NEW i \in 1 .. Len(a) PROVE i + 1 \in 1 .. Len(b) /\ SaysOf(b, i + 1) = SaysOf(a, i)
    <2>1. b[i + 1] = a[i]
      BY <1>3
    <2>2. Takes(a, i) <=> Takes(b, i + 1)
      BY <1>2, <1>3 DEF Takes
    <2>3. Takes(a, i) => b[(i + 1) + 1] = a[i + 1]
      BY <1>2, <1>3 DEF Takes
    <2>4. SaysOf(b, i + 1) = SaysOf(a, i)
      BY <2>1, <2>2, <2>3, SameSays
    <2>5. QED
      BY <1>2, <2>4
  <1>5. ASSUME NEW j \in 1 .. Len(b) PROVE j - 1 \in 1 .. Len(a) \/ SaysOf(b, j) = {}
    <2>1. CASE j = 1
      BY <1>1, <1>2, <2>1 DEF SaysOf
    <2>2. CASE j # 1
      BY <1>2, <2>2
    <2>3. QED
      BY <2>1, <2>2
  <1>6. ParseFlags(b) = ParseFlags(a)
    BY <1>2, <1>4, <1>5, SameFlags
  <1>7. QED
    BY <1>6 DEF b

LEMMA ForeignLast ==
    ASSUME NEW S, ForeignSwitch \in S, NEW a \in Seq(S)
    PROVE  ParseFlags(Append(a, ForeignSwitch)) = ParseFlags(a)
  <1> DEFINE b == Append(a, ForeignSwitch)
  <1>1. ForeignSwitch.dash /\ ForeignSwitch.key \notin EnvKeys
    BY ForeignIsNone
  <1>2. b \in Seq(S) /\ Len(b) = Len(a) + 1 /\ b[Len(a) + 1] = ForeignSwitch
    BY <1>1
  <1>3. \A i \in 1 .. Len(a) : b[i] = a[i]
    BY <1>1
  <1> HIDE DEF b
  <1>4. ASSUME NEW i \in 1 .. Len(a) PROVE i + 0 \in 1 .. Len(b) /\ SaysOf(b, i + 0) = SaysOf(a, i)
    <2>1. b[i] = a[i] /\ i + 0 = i
      BY <1>3
    <2>2. Takes(a, i) <=> Takes(b, i)
      BY <1>1, <1>2, <1>3 DEF Takes
    <2>3. Takes(a, i) => b[i + 1] = a[i + 1]
      BY <1>2, <1>3 DEF Takes
    <2>4. SaysOf(b, i) = SaysOf(a, i)
      BY <2>1, <2>2, <2>3, SameSays
    <2>5. QED
      BY <1>2, <2>1, <2>4
  <1>5. ASSUME NEW j \in 1 .. Len(b) PROVE j - 0 \in 1 .. Len(a) \/ SaysOf(b, j) = {}
    <2>1. CASE j = Len(a) + 1
      BY <1>1, <1>2, <2>1 DEF SaysOf
    <2>2. CASE j # Len(a) + 1
      BY <1>2, <2>2
    <2>3. QED
      BY <2>1, <2>2
  <1>6. ParseFlags(b) = ParseFlags(a)
    BY <1>2, <1>4, <1>5, SameFlags
  <1>7. QED
    BY <1>6 DEF b

LEMMA ConfigSpoken == ConfigInv => ConfigAsSpoken
  <1> SUFFICES ASSUME ConfigInv PROVE ConfigAsSpoken
    OBVIOUS
  <1>1. ChoiceSticks
    <2> SUFFICES ASSUME chosen # "none", launched.config # NoConfig
                 PROVE  launched.config["coach"] = chosen
      BY DEF ChoiceSticks
    <2>1. launched # NotLaunched
      BY DEF NotLaunched
    <2>2. /\ launched.config = LoadConfig(launched.argv, launched.dirs, launched.env, settings)
          /\ "coach" \in DOMAIN settings.keys /\ settings.keys["coach"] = chosen
      BY <2>1 DEF ConfigInv
    <2>3. QED
      BY <2>2, CoachIsTheFiles
  <1>2. ASSUME Ran PROVE /\ launched.argv \in Seq(ArgumentsOf(launched.argv)) /\ launched.dirs \in DotEnvs
                         /\ launched.config = Again(launched.argv, launched.dirs, launched.env)
    <2>1. /\ launched.argv \in Argvs /\ launched.dirs \in DotEnvs
          /\ launched.config = Again(launched.argv, launched.dirs, launched.env)
      BY <1>2 DEF Ran, ConfigInv, Again
    <2> DEFINE a == launched.argv
    <2>2. a \in Seq({a[i] : i \in DOMAIN a})
      BY <2>1, ConfigAssumption
    <2> HIDE DEF a
    <2>3. a \in Seq(ArgumentsOf(a))
      BY <2>2 DEF ArgumentsOf
    <2>4. QED
      BY <2>1, <2>3 DEF a
  <1>3. BlankIsSilent
    <2> SUFFICES ASSUME Ran
                 PROVE  launched.config = Again(launched.argv, Unblanked(launched.dirs),
                                                WithoutBlanks(launched.env, {""}))
      BY DEF BlankIsSilent, Unblanked
    <2>1. FromEnv(OverlayEnv(FindEnvFile(launched.dirs), launched.env))
             = FromEnv(OverlayEnv(FindEnvFile(Unblanked(launched.dirs)), WithoutBlanks(launched.env, {""})))
      BY <1>2, BlanksSayNothing
    <2>2. QED
      BY <1>2, <2>1 DEF Again, LoadConfig
  <1>4. ForeignIsIgnored
    <2> SUFFICES ASSUME Ran
                 PROVE  /\ launched.config = Again(<<ForeignSwitch>> \o launched.argv, launched.dirs, launched.env)
                        /\ launched.config = Again(Append(launched.argv, ForeignSwitch), launched.dirs, launched.env)
      BY DEF ForeignIsIgnored
    <2>1. /\ ParseFlags(<<ForeignSwitch>> \o launched.argv) = ParseFlags(launched.argv)
          /\ ParseFlags(Append(launched.argv, ForeignSwitch)) = ParseFlags(launched.argv)
      BY <1>2, ForeignFirst, ForeignLast DEF ArgumentsOf
    <2>2. QED
      BY <1>2, <2>1 DEF Again, LoadConfig
  <1>5. QED
    BY <1>1, <1>3, <1>4 DEF ConfigAsSpoken

\* A launch runs on what was said -- the coach is the player's choice, a blank variable is
\* silent, a switch of Chromium's is ignored at either end -- and a quit leaves nothing of the
\* app behind: for every command line, .env and environment. (packages/config, main/index.ts)
THEOREM LaunchHolds == PartsSpec => []LaunchIsClean
  <1>1. PartsInit => AppInv /\ ConfigInv
    BY AppStart, ConfigStart DEF PartsInit
  <1>2. AppInv /\ ConfigInv /\ [PartsNext]_partsVars => AppInv' /\ ConfigInv'
    <2>1. [PartsNext]_partsVars => [AppNext]_appVars /\ [ConfigNext]_configVars
      <3>1. PartsNext => [AppNext]_appVars /\ [ConfigNext]_configVars
        BY DEF PartsNext
      <3>2. UNCHANGED partsVars => UNCHANGED <<appVars, configVars>>
        BY DEF partsVars
      <3>3. QED
        BY <3>1, <3>2
    <2>2. QED
      BY <2>1, AppNextKeeps, ConfigNextKeeps
  <1>3. AppInv /\ ConfigInv => LaunchIsClean
    BY AppLeavesNothing, ConfigSpoken DEF LaunchIsClean
  <1>4. QED
    BY <1>1, <1>2, <1>3, PTL DEF PartsSpec, partsVars

-----------------------------------------------------------------------------
(* The reading of the world *)

Opt(limit) == {-1} \cup 0 .. limit

\* A sighting is not younger than the wall clock, nor dated by a match clock that the store
\* does not have.
ClocksInv ==
    /\ DOMAIN game = {"wall", "clock", "paused", "standing", "posts"}
    /\ game.wall \in Nat /\ game.clock \in Nat
    /\ DOMAIN world = {"clock", "buildings", "position"}
    /\ world.clock.value \in Opt(game.clock)
    /\ world.position.observed \in Opt(game.wall)
    /\ world.position.at \in Opt(world.clock.value)

LEMMA ClocksStart == ReadingInit => ClocksInv
  BY DEF ReadingInit, ClocksInv, EmptyWorld, None, Opt

LEMMA ClocksNextKeeps == ClocksInv /\ [ReadingNext]_readingVars => ClocksInv'
  <1> SUFFICES ASSUME ClocksInv, [ReadingNext]_readingVars PROVE ClocksInv'
    OBVIOUS
  <1>1. CASE Second
    BY <1>1 DEF Second, ClocksInv, Opt
  <1>2. CASE Pause
    BY <1>2 DEF Pause, ClocksInv, Opt
  <1>3. CASE Falls
    BY <1>3 DEF Falls, ClocksInv, Opt
  <1>4. CASE Sighting
    BY <1>4 DEF Sighting, ClocksInv, Opt, Stamped, Clock
  <1>5. CASE Reset
    BY <1>5 DEF Reset, ClocksInv, Opt, EmptyWorld, None
  <1>6. ASSUME NEW map \in BOOLEAN, NEW buildings \in BOOLEAN, Post(map, buildings) PROVE ClocksInv'
    <2>1. /\ game' = [game EXCEPT !.posts = @ + 1]
          /\ DOMAIN world' = DOMAIN world
          /\ world'.position = world.position
          /\ world'.clock.value = IF map THEN game.clock ELSE world.clock.value
      BY <1>6 DEF Post, ClocksInv, Stamped
    <2>2. QED
      BY <2>1 DEF ClocksInv, Opt
  <1>7. CASE UNCHANGED readingVars
    BY <1>7 DEF readingVars, ClocksInv, Opt
  <1>8. QED
    BY <1>1, <1>2, <1>3, <1>4, <1>5, <1>6, <1>7 DEF ReadingNext

\* Nothing seen grows younger until it is seen again or forgotten, whichever clock measures
\* it, however the match is paused and however late the clocks arrive. (ageInBasis)
THEOREM AgesHold == PartsSpec => SeenNeverGrowsYounger
  <1>1. PartsInit => ClocksInv
    BY ClocksStart DEF PartsInit
  <1>2. [PartsNext]_partsVars => [ReadingNext]_readingVars
    <2>1. PartsNext => [ReadingNext]_readingVars
      BY DEF PartsNext
    <2>2. UNCHANGED partsVars => UNCHANGED readingVars
      BY DEF partsVars
    <2>3. QED
      BY <2>1, <2>2
  <1>3. ClocksInv /\ [PartsNext]_partsVars => ClocksInv'
    BY <1>2, ClocksNextKeeps
  <1>4. ClocksInv /\ [PartsNext]_partsVars =>
          [ world'.position = world.position /\ Known(world.position) =>
              AgeOf(world.position, game.wall, Clock)
                 <= AgeOf(world'.position, game'.wall, world'.clock.value) ]_readingVars
    <2> SUFFICES ASSUME ClocksInv, ReadingNext,
                        world'.position = world.position, Known(world.position)
                 PROVE  AgeOf(world.position, game.wall, Clock)
                          <= AgeOf(world.position, game'.wall, world'.clock.value)
      BY <1>2
    <2>1. /\ game.wall \in Nat /\ game'.wall \in Nat /\ game.wall <= game'.wall
          /\ \/ world'.clock.value = Clock
             \/ world'.clock.value = game.clock
      <3>1. CASE Second
        BY <3>1 DEF Second, ClocksInv, Clock
      <3>2. CASE Pause \/ Falls
        BY <3>2 DEF Pause, Falls, ClocksInv, Clock
      <3>3. CASE Sighting
        BY <3>3 DEF Sighting, ClocksInv, Clock
      <3>4. CASE Reset
        <4>1. world.position = None
          BY <3>4 DEF Reset, EmptyWorld
        <4>2. QED
          BY <4>1 DEF Known, None
      <3>5. ASSUME NEW map \in BOOLEAN, NEW buildings \in BOOLEAN, Post(map, buildings)
            PROVE  /\ game'.wall = game.wall
                   /\ world'.clock.value = Clock \/ world'.clock.value = game.clock
        BY <3>5 DEF Post, ClocksInv, Clock, Stamped
      <3>6. QED
        BY <3>1, <3>2, <3>3, <3>4, <3>5 DEF ReadingNext, ClocksInv
    <2> DEFINE f == world.position
    <2>2. /\ f.observed \in 0 .. game.wall /\ f.at \in Opt(Clock) /\ Clock \in Opt(game.clock)
          /\ game.clock \in Nat
      BY DEF ClocksInv, Known, Opt, Clock
    <2> HIDE DEF f
    <2>3. QED
      BY <2>1, <2>2 DEF AgeOf, Opt, f
  <1>5. QED
    BY <1>1, <1>3, <1>4, PTL DEF PartsSpec, partsVars, SeenNeverGrowsYounger

-----------------------------------------------------------------------------
(* The losses that are told *)

Slots == [at : Int, wall : Nat, gone : SUBSET Buildings]

LEMMA EndOf ==
    ASSUME NEW S, NEW s \in Seq(S), NEW k \in 1 .. Len(s) + 1
    PROVE  /\ SubSeq(s, k, Len(s)) \in Seq(S) /\ Len(SubSeq(s, k, Len(s))) = Len(s) + 1 - k
           /\ \A i \in 1 .. Len(SubSeq(s, k, Len(s))) : SubSeq(s, k, Len(s))[i] = s[i + k - 1]
  OBVIOUS

LEMMA KeptFrom ==
    ASSUME NEW slots \in Seq(Slots), NEW at \in Int, NEW wall \in Nat
    PROVE  /\ FirstKept(slots, at, wall) \in 1 .. Len(slots) + 1
           /\ \A j \in 1 .. FirstKept(slots, at, wall) - 1 : TooOld(slots[j], at, wall)
  <1> DEFINE young == {i \in DOMAIN slots : ~TooOld(slots[i], at, wall)}
             first == CHOOSE i \in DOMAIN slots :
                         /\ ~TooOld(slots[i], at, wall)
                         /\ \A j \in 1 .. i - 1 : TooOld(slots[j], at, wall)
  <1>1. DOMAIN slots = 1 .. Len(slots) /\ Len(slots) \in Nat
    OBVIOUS
  <1>2. CASE young = {}
    <2>1. FirstKept(slots, at, wall) = Len(slots) + 1
      BY <1>2 DEF FirstKept
    <2>2. \A j \in 1 .. Len(slots) : TooOld(slots[j], at, wall)
      BY <1>1, <1>2
    <2>3. QED
      BY <1>1, <2>1, <2>2
  <1>3. CASE young # {}
    <2>1. young \subseteq Nat
      BY <1>1
    <2>2. PICK m \in young : \A i \in young : m <= i
      BY <1>3, <2>1, LeastOf
    <2>3. \A j \in 1 .. m - 1 : TooOld(slots[j], at, wall)
      <3> SUFFICES ASSUME NEW j \in 1 .. m - 1, ~TooOld(slots[j], at, wall) PROVE FALSE
        OBVIOUS
      <3>1. m \in Nat /\ m <= Len(slots)
        BY <1>1
      <3>2. j \in young /\ j < m /\ j \in Nat
        BY <1>1, <3>1
      <3>3. m <= j
        BY <2>2, <3>2
      <3>4. QED
        BY <3>1, <3>2, <3>3
    <2>4. /\ first \in DOMAIN slots
          /\ \A j \in 1 .. first - 1 : TooOld(slots[j], at, wall)
      BY <2>3
    <2>5. FirstKept(slots, at, wall) = first
      BY <1>3 DEF FirstKept
    <2> HIDE DEF first
    <2>6. QED
      BY <1>1, <2>4, <2>5
  <1>4. QED
    BY <1>2, <1>3

\* What a push leaves is the end of the ring with the new entry; unless it sheds, what it
\* drops is too old.
LEMMA PushForm ==
    ASSUME NEW slots \in Seq(Slots), NEW at \in Int, NEW gone \in SUBSET Buildings,
           game.wall \in Nat, Push(slots, at, gone)
    PROVE  LET all == Append(slots, [at |-> at, wall |-> game.wall, gone |-> gone])
           IN  \E k \in 1 .. Len(all) + 1 :
                 /\ ring' \in Seq(Slots) /\ Len(ring') = Len(all) + 1 - k
                 /\ \A i \in 1 .. Len(ring') : ring'[i] = all[i + k - 1]
                 /\ shed' \/ (~shed /\ \A j \in 1 .. k - 1 : TooOld(all[j], at, game.wall))
  <1> DEFINE new == [at |-> at, wall |-> game.wall, gone |-> gone]
             all == Append(slots, new)
             from == FirstKept(all, at, game.wall)
             kept == SubSeq(all, from, Len(all))
             over == Len(kept) - MaxEntries
  <1>1. new \in Slots
    BY DEF Slots
  <1>2. all \in Seq(Slots)
    BY <1>1
  <1>3. from \in 1 .. Len(all) + 1 /\ \A j \in 1 .. from - 1 : TooOld(all[j], at, game.wall)
    BY <1>2, KeptFrom
  <1>4. /\ ring' = IF over > 0 THEN SubSeq(kept, over + 1, Len(kept)) ELSE kept
        /\ shed' = (shed \/ over > 0)
    BY DEF Push
  <1> HIDE DEF all, from
  <1>5. /\ kept \in Seq(Slots) /\ Len(kept) = Len(all) + 1 - from
        /\ \A i \in 1 .. Len(kept) : kept[i] = all[i + from - 1]
    BY <1>2, <1>3
  <1>6. Len(all) \in Nat /\ Len(kept) \in Nat /\ from \in Nat /\ MaxEntries \in Nat
    BY <1>2, <1>3, <1>5, ReadingAssumption
  <1>7. CASE over > 0
    <2> DEFINE k == from + over
    <2>1. /\ ring' \in Seq(Slots) /\ Len(ring') = Len(kept) - over
          /\ \A i \in 1 .. Len(ring') : ring'[i] = kept[i + over]
      <3>1. over \in Nat /\ over <= Len(kept)
        BY <1>6, <1>7, ReadingAssumption
      <3>2. ring' = SubSeq(kept, over + 1, Len(kept))
        BY <1>4, <1>7
      <3> HIDE DEF kept, over
      <3>3. over + 1 \in 1 .. Len(kept) + 1 /\ kept \in Seq(Slots)
        BY <1>5, <1>6, <3>1
      <3>4. /\ ring' \in Seq(Slots) /\ Len(ring') = Len(kept) + 1 - (over + 1)
            /\ \A i \in 1 .. Len(ring') : ring'[i] = kept[i + (over + 1) - 1]
        BY <3>2, <3>3, EndOf
      <3>5. QED
        BY <1>6, <3>1, <3>4
    <2>2. k \in 1 .. Len(all) + 1 /\ Len(ring') = Len(all) + 1 - k
      BY <1>3, <1>5, <1>6, <1>7, <2>1
    <2>3. \A i \in 1 .. Len(ring') : ring'[i] = all[i + k - 1]
      <3> SUFFICES ASSUME NEW i \in 1 .. Len(ring') PROVE ring'[i] = all[i + k - 1]
        OBVIOUS
      <3>1. over \in Nat /\ i + over \in 1 .. Len(kept)
        BY <1>6, <1>7, <2>1
      <3>2. kept[i + over] = all[(i + over) + from - 1]
        BY <1>5, <3>1
      <3>3. (i + over) + from - 1 = i + k - 1
        BY <1>6, <3>1
      <3>4. QED
        BY <2>1, <3>2, <3>3
    <2>4. shed'
      BY <1>4, <1>7
    <2>5. QED
      BY <2>1, <2>2, <2>3, <2>4 DEF all
  <1>8. CASE ~(over > 0)
    <2>1. ring' = kept /\ (~shed' => ~shed)
      BY <1>4, <1>8
    <2>2. /\ ring' \in Seq(Slots) /\ Len(ring') = Len(all) + 1 - from
          /\ \A i \in 1 .. Len(ring') : ring'[i] = all[i + from - 1]
      BY <1>5, <2>1
    <2>3. QED
      BY <1>3, <2>1, <2>2 DEF all
  <1>9. QED
    BY <1>7, <1>8

\* A ring that tells of losses: each was a loss at the moment of its entry and of nothing
\* that may still stand, the entries are in order, and unless some were shed none of the
\* window's losses is missing.
Tells(slots, sec, alive, when, lossy) ==
    /\ slots \in Seq(Slots)
    /\ \A i \in 1 .. Len(slots) :
          /\ slots[i].at \in Opt(sec)
          /\ \A b \in slots[i].gone : b \notin alive /\ when[b] = slots[i].at
    /\ \A i, j \in 1 .. Len(slots) : i < j => slots[i].at <= slots[j].at
    /\ \/ lossy
       \/ \A b \in Buildings : when[b] # -1 /\ when[b] >= sec - Window =>
             \E i \in 1 .. Len(slots) : b \in slots[i].gone

Moved(when, gone, at) == [b \in Buildings |-> IF b \in gone THEN at ELSE when[b]]

LEMMA PushTells ==
    ASSUME NEW slots, NEW sec \in Int, sec >= -1, NEW at \in Int, sec <= at,
           NEW alive, NEW still, still \subseteq alive,
           NEW gone \in SUBSET Buildings, gone \subseteq alive, gone \cap still = {},
           NEW when \in [Buildings -> Opt(sec)], Tells(slots, sec, alive, when, shed),
           game.wall \in Nat, Push(slots, at, gone)
    PROVE  Tells(ring', at, still, Moved(when, gone, at), shed')
  <1> DEFINE new == [at |-> at, wall |-> game.wall, gone |-> gone]
             all == Append(slots, new)
             then == Moved(when, gone, at)
  <1>1. slots \in Seq(Slots)
    BY DEF Tells
  <1>2. PICK k \in 1 .. Len(all) + 1 :
              /\ ring' \in Seq(Slots) /\ Len(ring') = Len(all) + 1 - k
              /\ \A i \in 1 .. Len(ring') : ring'[i] = all[i + k - 1]
              /\ shed' \/ (~shed /\ \A j \in 1 .. k - 1 : TooOld(all[j], at, game.wall))
    BY <1>1, PushForm
  <1>3. /\ new \in Slots /\ Len(all) = Len(slots) + 1 /\ Len(slots) \in Nat
        /\ \A i \in 1 .. Len(slots) : all[i] = slots[i]
        /\ all[Len(slots) + 1] = new
    BY <1>1 DEF Slots
  <1>4. \A b \in Buildings : then[b] = IF b \in gone THEN at ELSE when[b]
    BY DEF Moved
  <1> HIDE DEF all
  <1>5. ASSUME NEW i \in 1 .. Len(all)
        PROVE  /\ all[i].at \in Opt(at)
               /\ \A b \in all[i].gone : b \notin still /\ then[b] = all[i].at
    <2>1. CASE i = Len(slots) + 1
      <3>1. all[i].at = at /\ all[i].gone = gone
        BY <1>3, <2>1
      <3>2. QED
        BY <1>4, <3>1 DEF Opt
    <2>2. CASE i \in 1 .. Len(slots)
      <3>1. all[i] = slots[i] /\ slots[i] \in Slots
        BY <1>1, <1>3, <2>2
      <3>2. /\ slots[i].at \in Opt(sec)
            /\ \A b \in slots[i].gone : b \notin alive /\ when[b] = slots[i].at
        BY <2>2 DEF Tells
      <3>3. slots[i].at \in Opt(at)
        BY <3>2 DEF Opt
      <3>4. \A b \in slots[i].gone : b \in Buildings
        BY <3>1 DEF Slots
      <3>5. \A b \in slots[i].gone : b \notin still /\ then[b] = slots[i].at
        BY <1>4, <3>2, <3>4
      <3>6. QED
        BY <3>1, <3>3, <3>5
    <2>3. QED
      BY <1>3, <2>1, <2>2
  <1>6. ASSUME NEW i \in 1 .. Len(all), NEW j \in 1 .. Len(all), i < j
        PROVE  all[i].at <= all[j].at
    <2>1. i \in 1 .. Len(slots) /\ all[i] = slots[i]
      BY <1>3, <1>6
    <2>2. CASE j = Len(slots) + 1
      <3>1. slots[i].at \in Opt(sec)
        BY <2>1 DEF Tells
      <3>2. all[j].at = at
        BY <1>3, <2>2
      <3>3. QED
        BY <2>1, <3>1, <3>2 DEF Opt
    <2>3. CASE j \in 1 .. Len(slots)
      <3>1. all[j] = slots[j]
        BY <1>3, <2>3
      <3>2. slots[i].at <= slots[j].at
        BY <1>6, <2>1, <2>3 DEF Tells
      <3>3. QED
        BY <2>1, <3>1, <3>2
    <2>4. QED
      BY <1>3, <2>2, <2>3
  <1>7. ASSUME ~shed', NEW b \in Buildings, then[b] # -1, then[b] >= at - Window
        PROVE  \E i \in 1 .. Len(all) : i >= k /\ b \in all[i].gone
    <2>1. ~shed /\ \A j \in 1 .. k - 1 : TooOld(all[j], at, game.wall)
      BY <1>2, <1>7
    <2>2. \E i \in 1 .. Len(all) : b \in all[i].gone
      <3>1. CASE b \in gone
        BY <1>3, <3>1
      <3>2. CASE b \notin gone
        <4>1. when[b] # -1 /\ when[b] >= at - Window
          BY <1>4, <1>7, <3>2
        <4>2. when[b] \in Int /\ Window \in Int
          BY ReadingAssumption DEF Opt
        <4>3. when[b] >= sec - Window
          BY <4>1, <4>2
        <4>4. PICK i \in 1 .. Len(slots) : b \in slots[i].gone
          BY <2>1, <4>1, <4>3 DEF Tells
        <4>5. QED
          BY <1>3, <4>4
      <3>3. QED
        BY <3>1, <3>2
    <2>3. PICK i \in 1 .. Len(all) : b \in all[i].gone
      BY <2>2
    <2>4. ASSUME i < k PROVE FALSE
      <3>1. TooOld(all[i], at, game.wall)
        BY <1>3, <2>1, <2>4
      <3>2. all[i].at \in Opt(at) /\ then[b] = all[i].at
        BY <1>5, <2>3
      <3>3. all[i].at # -1 /\ at # -1
        BY <1>7, <3>2 DEF Opt
      <3>4. at - all[i].at > Window
        BY <3>1, <3>3 DEF TooOld
      <3>5. QED
        BY <1>7, <3>2, <3>3, <3>4, ReadingAssumption DEF Opt
    <2>5. QED
      BY <1>3, <2>3, <2>4
  <1>8. ASSUME NEW i \in 1 .. Len(ring') PROVE i + k - 1 \in 1 .. Len(all) /\ ring'[i] = all[i + k - 1]
    BY <1>2, <1>3
  <1>9. ASSUME NEW i \in 1 .. Len(ring')
        PROVE  /\ ring'[i].at \in Opt(at)
               /\ \A b \in ring'[i].gone : b \notin still /\ then[b] = ring'[i].at
    <2>1. PICK m \in 1 .. Len(all) : ring'[i] = all[m]
      BY <1>8
    <2>2. /\ all[m].at \in Opt(at)
          /\ \A b \in all[m].gone : b \notin still /\ then[b] = all[m].at
      BY <1>5
    <2>3. QED
      BY <2>1, <2>2
  <1>10. ASSUME NEW i \in 1 .. Len(ring'), NEW j \in 1 .. Len(ring'), i < j
         PROVE  ring'[i].at <= ring'[j].at
    <2>1. i + k - 1 < j + k - 1
      BY <1>10
    <2>2. QED
      BY <1>6, <1>8, <2>1
  <1>11. ASSUME ~shed', NEW b \in Buildings, then[b] # -1, then[b] >= at - Window
         PROVE  \E i \in 1 .. Len(ring') : b \in ring'[i].gone
    <2>1. PICK i \in 1 .. Len(all) : i >= k /\ b \in all[i].gone
      BY <1>7, <1>11
    <2>2. i + 1 - k \in 1 .. Len(ring') /\ (i + 1 - k) + k - 1 = i
      BY <1>2, <1>3, <2>1
    <2>3. ring'[i + 1 - k] = all[i]
      BY <1>2, <2>2
    <2>4. QED
      BY <2>1, <2>2, <2>3
  <1> HIDE DEF then
  <1>12. Tells(ring', at, still, then, shed')
    BY <1>2, <1>9, <1>10, <1>11 DEF Tells
  <1>13. QED
    BY <1>12 DEF then

\* The ring tells of the losses since the reset, and a building that was ever told of stood
\* no later than it stands.
LossInv ==
    /\ ClocksInv
    /\ game.standing \subseteq Buildings /\ world.buildings.value \subseteq Buildings
    /\ fell \in [Buildings -> Opt(world.clock.value)]
    /\ Tells(ring, world.clock.value, world.buildings.value \cup game.standing, fell, shed)

LEMMA LossStart == ReadingInit => LossInv
  <1> SUFFICES ASSUME ReadingInit PROVE LossInv
    OBVIOUS
  <1>1. ClocksInv
    BY ClocksStart
  <1>2. /\ ring = <<>> /\ shed = FALSE /\ world.clock.value = -1 /\ world.buildings.value = {}
        /\ game.standing = Buildings /\ fell = [b \in Buildings |-> -1]
    BY DEF ReadingInit, EmptyWorld, None
  <1>3. ring \in Seq(Slots) /\ Len(ring) = 0
    BY <1>2
  <1>4. fell \in [Buildings -> Opt(-1)]
    BY <1>2 DEF Opt
  <1>5. Tells(ring, -1, Buildings, fell, shed)
    BY <1>2, <1>3 DEF Tells
  <1>6. world.buildings.value \cup game.standing = Buildings
    BY <1>2
  <1>7. QED
    BY <1>1, <1>2, <1>4, <1>5, <1>6 DEF LossInv

LEMMA LossNextKeeps == LossInv /\ [ReadingNext]_readingVars => LossInv'
  <1> SUFFICES ASSUME LossInv, [ReadingNext]_readingVars PROVE LossInv'
    OBVIOUS
  <1> DEFINE sec == world.clock.value
             alive == world.buildings.value \cup game.standing
  <1>1. ClocksInv /\ ClocksInv'
    BY ClocksNextKeeps DEF LossInv
  <1>2. /\ sec \in Int /\ sec >= -1 /\ sec <= game.clock /\ game.clock \in Int
        /\ game.wall \in Nat
    BY <1>1 DEF ClocksInv, Opt
  <1>3. ASSUME UNCHANGED <<world, ring, shed, fell>>, game'.standing \subseteq game.standing
        PROVE  LossInv'
    <2>1. Tells(ring, sec, world.buildings.value \cup game'.standing, fell, shed)
      BY <1>3 DEF LossInv, Tells
    <2>2. QED
      BY <1>1, <1>3, <2>1 DEF LossInv
  <1>4. CASE Second \/ Pause \/ Falls
    BY <1>1, <1>3, <1>4 DEF Second, Pause, Falls, ClocksInv
  <1>5. CASE Sighting
    <2>1. /\ Push(ring, sec, {}) /\ fell' = fell
          /\ world'.clock.value = sec /\ world'.buildings = world.buildings
          /\ game'.standing = game.standing
      BY <1>1, <1>5 DEF Sighting, ClocksInv, Clock
    <2>2. /\ fell \in [Buildings -> Opt(sec)] /\ Tells(ring, sec, alive, fell, shed)
      BY DEF LossInv
    <2> HIDE DEF sec, alive
    <2>3. Tells(ring', sec, alive, Moved(fell, {}, sec), shed')
      BY <1>2, <2>1, <2>2, PushTells
    <2>4. Moved(fell, {}, sec) = fell
      BY <2>2 DEF Moved
    <2>5. QED
      BY <1>1, <2>1, <2>2, <2>3, <2>4 DEF LossInv, sec, alive
  <1>6. CASE Reset
    <2> DEFINE none == [b \in Buildings |-> -1]
    <2>1. /\ Push(<<>>, -1, {}) /\ fell' = none
          /\ world'.clock.value = -1 /\ world'.buildings.value = {}
          /\ game' = game
      BY <1>6 DEF Reset, EmptyWorld, None
    <2>2. /\ none \in [Buildings -> Opt(-1)]
      BY DEF Opt
    <2>3. <<>> \in Seq(Slots)
      OBVIOUS
    <2>4. Tells(<<>>, -1, game.standing, none, shed)
      <3>1. Len(<<>>) = 0
        OBVIOUS
      <3>2. \A b \in Buildings : none[b] = -1
        OBVIOUS
      <3>3. QED
        BY <2>3, <3>1, <3>2 DEF Tells
    <2> HIDE DEF none
    <2>5. Tells(ring', -1, game.standing, Moved(none, {}, -1), shed')
      BY <1>2, <2>1, <2>2, <2>4, PushTells
    <2>6. Moved(none, {}, -1) = none
      BY <2>2 DEF Moved
    <2>7. world'.buildings.value \cup game'.standing = game.standing
      BY <2>1
    <2>8. QED
      BY <1>1, <2>1, <2>2, <2>5, <2>6, <2>7 DEF LossInv
  <1>7. ASSUME NEW map \in BOOLEAN, NEW buildings \in BOOLEAN, Post(map, buildings) PROVE LossInv'
    <2> DEFINE at == IF map THEN game.clock ELSE sec
               gone == IF buildings THEN world.buildings.value \ game.standing ELSE {}
               still == IF buildings THEN game.standing ELSE alive
    <2>1. /\ game'.standing = game.standing
          /\ world'.clock.value = at
          /\ world'.buildings.value = IF buildings THEN game.standing ELSE world.buildings.value
      BY <1>1, <1>7 DEF Post, ClocksInv, Stamped
    <2>2. Push(ring, at, gone)
      BY <1>7, <2>1 DEF Post
    <2>3. fell' = Moved(fell, gone, at)
      BY <1>7, <2>1 DEF Post, Moved
    <2>4. /\ at \in Int /\ sec <= at /\ at >= -1
          /\ gone \in SUBSET Buildings /\ gone \subseteq alive
          /\ gone \cap still = {} /\ still \subseteq alive
          /\ world'.buildings.value \cup game'.standing = still
      BY <1>2, <2>1 DEF LossInv
    <2>5. fell \in [Buildings -> Opt(sec)] /\ Tells(ring, sec, alive, fell, shed)
      BY DEF LossInv
    <2> HIDE DEF at, gone, still, sec, alive
    <2>6. Tells(ring', at, still, fell', shed')
      BY <1>2, <2>2, <2>3, <2>4, <2>5, PushTells
    <2>7. fell' \in [Buildings -> Opt(at)]
      <3>1. \A b \in Buildings : fell[b] \in Opt(at)
        BY <1>2, <2>4, <2>5 DEF Opt
      <3>2. at \in Opt(at)
        BY <2>4 DEF Opt
      <3>3. QED
        BY <2>3, <3>1, <3>2 DEF Moved
    <2>8. world'.buildings.value \subseteq Buildings /\ game'.standing \subseteq Buildings
      BY <2>1 DEF LossInv
    <2>9. QED
      BY <1>1, <2>1, <2>4, <2>6, <2>7, <2>8 DEF LossInv
  <1>8. CASE UNCHANGED readingVars
    <2>1. UNCHANGED <<world, ring, shed, fell>> /\ game' = game
      BY <1>8 DEF readingVars
    <2>2. QED
      BY <1>3, <2>1
  <1>9. QED
    BY <1>4, <1>5, <1>6, <1>7, <1>8 DEF ReadingNext

LEMMA LossesTold == LossInv => LossesAreTold
  <1> SUFFICES ASSUME LossInv PROVE LossesAreTold
    OBVIOUS
  <1> DEFINE alive == world.buildings.value \cup game.standing
             told == IF Clock = -1 THEN DOMAIN ring ELSE Since(Clock - Window)
             back(i) == Len(ring) + 1 - i
             fallen == [i \in DOMAIN ring |-> IF back(i) \in told THEN ring[back(i)].gone ELSE {}]
  <1>1. /\ ring \in Seq(Slots) /\ DOMAIN ring = 1 .. Len(ring) /\ Len(ring) \in Nat
        /\ \A i \in 1 .. Len(ring) : ring[i] \in Slots
    BY DEF LossInv, Tells
  <1>2. /\ \A i \in 1 .. Len(ring) :
             /\ ring[i].at \in Opt(Clock)
             /\ \A b \in ring[i].gone : b \notin alive /\ fell[b] = ring[i].at
        /\ \A i, j \in 1 .. Len(ring) : i < j => ring[i].at <= ring[j].at
        /\ \/ shed
           \/ \A b \in Buildings : fell[b] # -1 /\ fell[b] >= Clock - Window =>
                 \E i \in 1 .. Len(ring) : b \in ring[i].gone
    BY DEF LossInv, Tells, Clock
  <1>3. RecentlyLost = fallen
    BY DEF RecentlyLost
  <1>4. \A i \in 1 .. Len(ring) : back(i) \in 1 .. Len(ring) /\ back(back(i)) = i
    BY <1>1
  <1> HIDE DEF alive, told
  <1>5. ASSUME NEW i \in DOMAIN ring, NEW b \in fallen[i]
        PROVE  back(i) \in told /\ b \in ring[back(i)].gone
    OBVIOUS
  <1>6. ASSUME NEW b \in Lost
        PROVE  \E n \in 1 .. Len(ring) : n \in told /\ b \in ring[n].gone
    <2>1. PICK i \in DOMAIN ring : b \in fallen[i]
      BY <1>3 DEF Lost
    <2>2. QED
      BY <1>1, <1>4, <1>5, <2>1
  <1>7. ASSUME NEW n \in 1 .. Len(ring), n \in told, NEW b \in ring[n].gone PROVE b \in Lost
    <2>1. back(n) \in DOMAIN fallen /\ fallen[back(n)] = ring[n].gone
      BY <1>1, <1>4, <1>7
    <2>2. QED
      BY <1>3, <2>1 DEF Lost
  <1>8. Lost \cap world.buildings.value = {}
    BY <1>2, <1>6 DEF alive
  <1>9. ASSUME Clock # -1 PROVE Lost \subseteq RecentFalls /\ (~shed => RecentFalls \subseteq Lost)
    <2>1. told = {i \in DOMAIN ring : ring[i].at # -1 /\ ring[i].at >= Clock - Window}
      BY <1>9 DEF told, Since
    <2>2. Lost \subseteq RecentFalls
      <3> SUFFICES ASSUME NEW b \in Lost PROVE b \in RecentFalls
        OBVIOUS
      <3>1. PICK n \in 1 .. Len(ring) : n \in told /\ b \in ring[n].gone
        BY <1>6
      <3>2. fell[b] = ring[n].at /\ ring[n].at # -1 /\ ring[n].at >= Clock - Window
        BY <1>2, <2>1, <3>1
      <3>3. b \in Buildings
        BY <1>1, <3>1 DEF Slots
      <3>4. QED
        BY <3>2, <3>3 DEF RecentFalls
    <2>3. ASSUME ~shed, NEW b \in RecentFalls PROVE b \in Lost
      <3>1. b \in Buildings /\ fell[b] # -1 /\ fell[b] >= Clock - Window
        BY DEF RecentFalls
      <3>2. PICK n \in 1 .. Len(ring) : b \in ring[n].gone
        BY <1>2, <2>3, <3>1
      <3>3. fell[b] = ring[n].at
        BY <1>2, <3>2
      <3>4. n \in told
        BY <1>1, <2>1, <3>1, <3>3
      <3>5. QED
        BY <1>7, <3>2, <3>4
    <2>4. QED
      BY <2>2, <2>3
  <1>10. ASSUME NEW i \in DOMAIN RecentlyLost, NEW j \in DOMAIN RecentlyLost, i < j,
                NEW b \in RecentlyLost[i], NEW c \in RecentlyLost[j]
         PROVE  fell[b] >= fell[c]
    <2>1. i \in 1 .. Len(ring) /\ j \in 1 .. Len(ring)
      BY <1>1, <1>3
    <2>2. b \in ring[back(i)].gone /\ c \in ring[back(j)].gone
      BY <1>1, <1>3, <1>5, <2>1
    <2>3. back(j) < back(i) /\ back(i) \in 1 .. Len(ring) /\ back(j) \in 1 .. Len(ring)
      BY <1>1, <1>4, <1>10, <2>1
    <2>4. ring[back(j)].at <= ring[back(i)].at
      BY <1>2, <2>3
    <2>5. fell[b] = ring[back(i)].at /\ fell[c] = ring[back(j)].at
      BY <1>2, <2>2, <2>3
    <2>6. ring[back(i)].at \in Int /\ ring[back(j)].at \in Int
      BY <1>1, <2>3 DEF Slots
    <2> HIDE DEF back
    <2>7. QED
      BY <2>4, <2>5, <2>6
  <1>11. QED
    BY <1>8, <1>9, <1>10 DEF LossesAreTold

-----------------------------------------------------------------------------
(* The timings *)

\* The least multiple of a period that is not before a moment.
LEMMA CeilOf ==
    ASSUME NEW n \in Nat, NEW d \in Nat \ {0}
    PROVE  /\ Ceil(n, d) \in Nat
           /\ Ceil(n, d) * d \in Nat
           /\ n <= Ceil(n, d) * d /\ Ceil(n, d) * d < n + d
           /\ (Ceil(n, d) * d) % d = 0
  <1> DEFINE m == n + d - 1
             q == m \div d
             r == m % d
  <1>1. m \in Nat
    OBVIOUS
  <1>2. q \in Nat /\ r \in 0 .. d - 1 /\ m = q * d + r
    <2> HIDE DEF m
    <2>1. QED
      BY <1>1
  <1>3. q * d \in Nat
    <2> HIDE DEF q
    <2>1. QED
      BY <1>2
  <1>4. (q * d) % d = 0
    <2> HIDE DEF q
    <2>1. 0 \in 0 .. d - 1 /\ q \in Nat
      BY <1>2
    <2>2. (q * d + 0) % d = 0
      BY <2>1, DivMod
    <2>3. QED
      BY <1>3, <2>2
  <1>5. Ceil(n, d) = q
    BY DEF Ceil
  <1> HIDE DEF q, r
  <1>6. QED
    BY <1>2, <1>3, <1>4, <1>5

TimingInv == second \in Nat \cup {-1} /\ died \in Nat \cup {-1}

LEMMA TimingStart == TimingInit => TimingInv
  BY DEF TimingInit, TimingInv

LEMMA TimingNextKeeps == TimingInv /\ [TimingNext]_timingVars => TimingInv'
  <1> SUFFICES ASSUME TimingInv, [TimingNext]_timingVars PROVE TimingInv'
    OBVIOUS
  <1>1. CASE Ticks
    <2>1. second' \in Nat /\ died' \in {died} \cup {second'}
      BY <1>1 DEF Ticks, TimingInv
    <2>2. QED
      BY <2>1 DEF TimingInv
  <1>2. CASE UNCHANGED timingVars
    BY <1>2 DEF timingVars, TimingInv
  <1>3. QED
    BY <1>1, <1>2 DEF TimingNext

LEMMA TimingsTold == TimingInv => NothingIsSkipped
  <1> SUFFICES ASSUME TimingInv, second >= 0 PROVE NothingIsSkipped
    BY DEF NothingIsSkipped
  <1>1. second \in Nat /\ died \in Int
    BY DEF TimingInv
  <1>2. /\ BountyPeriod \in Nat \ {0} /\ PowerPeriod \in Nat \ {0}
        /\ PowerFirst \in Nat /\ RoshanMin \in Nat /\ StackSecond \in 0 .. 59 /\ Waters \subseteq Nat
    BY TimingAssumption
  <1>3. /\ NextBounty(second) > second /\ NextBounty(second) - BountyPeriod <= second
        /\ NextBounty(second) % BountyPeriod = 0
    <2>1. second + 1 \in Nat
      BY <1>1
    <2>2. /\ Ceil(second + 1, BountyPeriod) * BountyPeriod \in Nat
          /\ second + 1 <= Ceil(second + 1, BountyPeriod) * BountyPeriod
          /\ Ceil(second + 1, BountyPeriod) * BountyPeriod < second + 1 + BountyPeriod
          /\ (Ceil(second + 1, BountyPeriod) * BountyPeriod) % BountyPeriod = 0
      BY <1>2, <2>1, CeilOf
    <2> DEFINE next == Ceil(second + 1, BountyPeriod) * BountyPeriod
    <2>3. NextBounty(second) = next
      BY DEF NextBounty
    <2> HIDE DEF next
    <2>4. QED
      BY <1>1, <1>2, <2>2, <2>3 DEF next
  <1>4. /\ NextPower(second) > second
        /\ second >= PowerFirst => NextPower(second) - PowerPeriod <= second
        /\ (NextPower(second) - PowerFirst) % PowerPeriod = 0
    <2>1. CASE second < PowerFirst
      <3>1. NextPower(second) = PowerFirst
        BY <2>1 DEF NextPower
      <3>2. 0 % PowerPeriod = 0
        BY <1>2
      <3>3. QED
        BY <1>1, <1>2, <2>1, <3>1, <3>2
    <2>2. CASE second >= PowerFirst
      <3> DEFINE n == second - PowerFirst + 1
                 c == Ceil(n, PowerPeriod) * PowerPeriod
      <3>1. n \in Nat
        BY <1>1, <1>2, <2>2
      <3> HIDE DEF n
      <3>2. c \in Nat /\ n <= c /\ c < n + PowerPeriod /\ c % PowerPeriod = 0
        BY <1>2, <3>1, CeilOf
      <3>3. NextPower(second) = PowerFirst + c
        BY <1>1, <1>2, <2>2 DEF NextPower, n
      <3> HIDE DEF c
      <3>4. NextPower(second) - PowerFirst = c
        BY <1>2, <3>2, <3>3
      <3>5. NextPower(second) > second /\ NextPower(second) - PowerPeriod <= second
        BY <1>1, <1>2, <3>2, <3>3 DEF n
      <3>6. QED
        BY <3>2, <3>4, <3>5
    <2>3. QED
      BY <1>1, <1>2, <2>1, <2>2
  <1>5. NextWater(second) = -1 <=> \A w \in Waters : w <= second
    <2> DEFINE later == {w \in Waters : w > second}
               first == CHOOSE w \in Waters : w > second /\ \A v \in Waters : v > second => w <= v
    <2>1. CASE later = {}
      <3>1. NextWater(second) = -1
        BY <2>1 DEF NextWater
      <3>2. QED
        BY <1>1, <1>2, <2>1, <3>1
    <2>2. CASE later # {}
      <3>1. PICK w \in later : \A v \in later : w <= v
        BY <1>2, <2>2, LeastOf
      <3>2. first \in Waters /\ first > second
        BY <3>1
      <3>3. NextWater(second) = first
        BY <2>2 DEF NextWater
      <3> HIDE DEF first
      <3>4. QED
        BY <1>1, <1>2, <3>2, <3>3
    <2>3. QED
      BY <2>1, <2>2
  <1>6. NextStack(second) \in second + 1 .. second + 60 /\ NextStack(second) % 60 = StackSecond
    <2>1. PICK q \in Nat, s \in 0 .. 59 : second = q * 60 + s /\ second % 60 = s
      <3>1. second \div 60 \in Nat /\ second % 60 \in 0 .. 59
            /\ second = (second \div 60) * 60 + (second % 60)
        BY <1>1
      <3>2. QED
        BY <3>1
    <2>2. CASE s < StackSecond
      <3>1. NextStack(second) = second + (StackSecond - s)
        BY <2>1, <2>2 DEF NextStack
      <3>2. NextStack(second) = q * 60 + StackSecond
        BY <1>2, <2>1, <3>1
      <3>3. (q * 60 + StackSecond) % 60 = StackSecond
        BY <1>2, DivMod
      <3>4. QED
        BY <1>1, <1>2, <2>1, <2>2, <3>1, <3>2, <3>3
    <2>3. CASE ~(s < StackSecond)
      <3>1. NextStack(second) = second + (60 - s + StackSecond)
        BY <2>1, <2>3 DEF NextStack
      <3>2. NextStack(second) = (q + 1) * 60 + StackSecond
        BY <1>2, <2>1, <3>1
      <3>3. ((q + 1) * 60 + StackSecond) % 60 = StackSecond
        BY <1>2, DivMod
      <3>4. QED
        BY <1>1, <1>2, <2>1, <2>3, <3>1, <3>2, <3>3
    <2>4. QED
      BY <2>2, <2>3
  <1>7. died # -1 /\ MaybeUp => second - died >= RoshanMin
    BY <1>1, <1>2 DEF MaybeUp, RoshanWindow
  <1> HIDE DEF TimingInv
  <1>8. QED
    BY <1>3, <1>4, <1>5, <1>6, <1>7 DEF NothingIsSkipped

-----------------------------------------------------------------------------
(* The memory of the match *)

\* Two lines' live models agree on a leaf.
Agree(f, g, leaf) ==
    /\ leaf \in DOMAIN f <=> leaf \in DOMAIN g
    /\ leaf \in DOMAIN f => f[leaf] = g[leaf]

Facts(f) ==
    /\ DOMAIN f \subseteq Leaves
    /\ \A leaf \in DOMAIN f :
          IsFact(f[leaf]) /\ DOMAIN f[leaf] = {"value", "source", "sure", "at"}

\* A line as it was written, or as the spoilt byte of it leaves it.
SoundLine(line, spoilt) ==
    /\ DOMAIN line = {"kind", "at", "dial", "leaf", "fact", "facts", "saw"}
    /\ Facts(line.saw)
    /\ line.kind \in {"observation", "keyframe", "junk"}
    /\ line.kind = "junk" => spoilt = {"line"}
    /\ line.kind = "observation" =>
          /\ line.leaf \in DOMAIN line.saw /\ line.saw[line.leaf] = line.fact
          /\ DOMAIN line.facts = {}
    /\ line.kind = "keyframe" =>
          /\ DOMAIN line.facts = DOMAIN line.saw
          /\ \A leaf \in DOMAIN line.facts :
                \/ line.facts[leaf] = line.saw[leaf]
                \/ spoilt = {leaf} /\ ~IsFact(line.facts[leaf])

\* Between two lines a leaf is only changed by an observation of it, and a spoilt fact of a
\* keyframe is no fact any more.
TapeInv ==
    /\ tape \in Seq({tape[i] : i \in 1 .. Len(tape)}) /\ Len(tape) # 0
    /\ known = tape[Len(tape)].saw
    /\ moment \in Nat
    /\ harm = {} \/ harm = {"line"} \/ \E leaf \in Leaves : harm = {leaf}
    /\ \A i \in 1 .. Len(tape) : SoundLine(tape[i], harm)
    /\ \A i, k \in 1 .. Len(tape) : i <= k => DOMAIN tape[i].saw \subseteq DOMAIN tape[k].saw
    /\ harm # {"line"} =>
          /\ tape[1].kind = "keyframe"
          /\ \A i, k \in 1 .. Len(tape), leaf \in Leaves :
                i <= k /\ (\A m \in i + 1 .. k : tape[m].kind = "observation" => tape[m].leaf # leaf)
                => Agree(tape[i].saw, tape[k].saw, leaf)

HonestOf(told) ==
    \/ told.kind \in {"none", "ask_for_one", "before_recording", "no_clock_yet"}
    \/ LET then == tape[told.at].saw IN
       /\ told.kind = "answer" => DOMAIN told.facts # {}
       /\ \A topic \in DOMAIN told.facts :
             LET given == told.facts[topic] IN
             /\ \A leaf \in DOMAIN given :
                   /\ leaf \in DOMAIN then
                   /\ given[leaf].sure \in 0..Sure
                   /\ harm = {} => given[leaf].age = told.second - then[leaf].at
             /\ harm = {} =>
                   \A leaf \in LeavesOf(topic) \ DOMAIN given :
                      leaf \notin DOMAIN then \/ (leaf \in Ten /\ ~(Ten \subseteq DOMAIN then))
       /\ \A leaf \in Leaves \ Ten :
             harm = {leaf} /\ leaf # "phase" =>
                \A topic \in DOMAIN told.facts : \A other \in LeavesOf(topic) \ {leaf} :
                   other \in DOMAIN then /\ other \notin Ten => other \in DOMAIN told.facts[topic]
       /\ told.kind \in {"no_match", "nothing_observed"} /\ harm \cap {"line", "phase"} = {} =>
             ~InMatch(then)
       /\ told.kind = "no_enemy" /\ harm = {} => "enemy" \notin DOMAIN then

MemoryInv ==
    /\ TapeInv
    /\ MemoryIsHonest

LEMMA MemoryStart == AtInit => MemoryInv
  <1> SUFFICES ASSUME AtInit PROVE MemoryInv
    OBVIOUS
  <1> DEFINE fact == SerialisedFact("playing", 0)
             line == RecordLine("keyframe", "none", SerialisedFact("none", 0), known, known)
  <1>1. /\ tape = <<line>> /\ harm = {} /\ moment = 0 /\ retold = NotTold
        /\ known = [leaf \in {"phase", "gold"} |-> fact]
    BY DEF AtInit
  <1>2. IsFact(fact) /\ DOMAIN fact = {"value", "source", "sure", "at"}
    BY DEF IsFact, SerialisedFact, Sure
  <1>3. Facts(known)
    <2> HIDE DEF fact
    <2>1. DOMAIN known = {"phase", "gold"} /\ \A leaf \in DOMAIN known : known[leaf] = fact
      BY <1>1
    <2>2. QED
      BY <1>2, <2>1 DEF Facts, Leaves
  <1>4. /\ DOMAIN line = {"kind", "at", "dial", "leaf", "fact", "facts", "saw"}
        /\ line.kind = "keyframe" /\ line.facts = known /\ line.saw = known
    BY DEF RecordLine
  <1> HIDE DEF line, fact
  <1>5. Len(tape) = 1 /\ tape[1] = line /\ tape \in Seq({line})
    BY <1>1
  <1>6. \A i \in 1 .. Len(tape) : i = 1
    BY <1>5
  <1>7. TapeInv
    <2>1. tape \in Seq({tape[i] : i \in 1 .. Len(tape)})
      BY <1>5, OwnElements
    <2>2. QED
      BY <1>1, <1>3, <1>4, <1>5, <1>6, <2>1 DEF TapeInv, SoundLine, Agree
  <1>8. MemoryIsHonest
    BY <1>1 DEF MemoryIsHonest, NotTold
  <1>9. QED
    BY <1>7, <1>8 DEF MemoryInv

\* A line that is written keeps the tape.
LEMMA LineKeepsTape ==
    ASSUME TapeInv, NEW line, tape' = Append(tape, line), harm' = harm, moment' = moment,
           known' = line.saw, Facts(known'), DOMAIN known \subseteq DOMAIN known',
           DOMAIN line = {"kind", "at", "dial", "leaf", "fact", "facts", "saw"},
           \/ /\ line.kind = "observation" /\ line.leaf \in DOMAIN known'
              /\ known'[line.leaf] = line.fact /\ DOMAIN line.facts = {}
              /\ \A leaf \in Leaves \ {line.leaf} : Agree(known, known', leaf)
           \/ line.kind = "keyframe" /\ line.facts = known' /\ known' = known
    PROVE  TapeInv'
  <1> DEFINE n == Len(tape)
             S == {tape[i] : i \in 1 .. n}
             own == {tape'[i] : i \in 1 .. Len(tape')}
  <1>1. /\ tape \in Seq(S) /\ n \in Nat \ {0} /\ known = tape[n].saw
        /\ \A i \in 1 .. n : Facts(tape[i].saw)
    BY DEF TapeInv, SoundLine
  <1>2. /\ Len(tape') = n + 1
        /\ \A i \in 1 .. n : tape'[i] = tape[i]
        /\ tape'[n + 1] = line
        /\ tape' \in Seq(S \cup {line})
    <2> HIDE DEF S
    <2>1. QED
      BY <1>1
  <1>3. tape' \in Seq(own)
    BY <1>2, OwnElements
  <1> HIDE DEF n, S, own
  <1>4. \A i \in 1 .. n + 1 : i \in 1 .. n \/ i = n + 1
    BY <1>1
  <1>5. ASSUME NEW i \in 1 .. n + 1
        PROVE  SoundLine(tape'[i], harm')
    <2>1. CASE i \in 1 .. n
      BY <1>2, <2>1 DEF TapeInv, SoundLine, n
    <2>2. CASE i = n + 1
      <3>1. tape'[i] = line
        BY <1>2, <2>2
      <3>2. QED
        BY <3>1 DEF SoundLine
    <2>3. QED
      BY <1>4, <2>1, <2>2
  <1>6. ASSUME NEW i \in 1 .. n + 1, NEW k \in 1 .. n + 1, i <= k
        PROVE  DOMAIN tape'[i].saw \subseteq DOMAIN tape'[k].saw
    <2>1. CASE k \in 1 .. n
      <3>1. i \in 1 .. n
        BY <1>1, <1>6, <2>1
      <3>2. QED
        BY <1>2, <1>6, <2>1, <3>1 DEF TapeInv, SoundLine, n
    <2>2. CASE k = n + 1
      <3>1. CASE i = n + 1
        BY <2>2, <3>1
      <3>2. CASE i \in 1 .. n
        <4>1. DOMAIN tape[i].saw \subseteq DOMAIN tape[n].saw
          BY <1>1, <3>2 DEF TapeInv, SoundLine, n
        <4>2. tape'[i] = tape[i] /\ tape'[k].saw = known'
          BY <1>2, <2>2, <3>2
        <4>3. QED
          BY <1>1, <4>1, <4>2
      <3>3. QED
        BY <1>4, <3>1, <3>2
    <2>3. QED
      BY <1>4, <2>1, <2>2
  <1>7. ASSUME harm' # {"line"}, NEW i \in 1 .. n + 1, NEW k \in 1 .. n + 1, NEW leaf \in Leaves, i <= k,
               \A m \in i + 1 .. k : tape'[m].kind = "observation" => tape'[m].leaf # leaf
        PROVE  Agree(tape'[i].saw, tape'[k].saw, leaf)
    <2>1. CASE k \in 1 .. n
      <3>1. i \in 1 .. n /\ \A m \in i + 1 .. k : tape'[m] = tape[m]
        BY <1>1, <1>2, <1>7, <2>1
      <3>2. Agree(tape[i].saw, tape[k].saw, leaf)
        BY <1>7, <2>1, <3>1 DEF TapeInv, SoundLine, n
      <3>3. QED
        BY <1>2, <2>1, <3>1, <3>2
    <2>2. CASE k = n + 1
      <3>1. CASE i = n + 1
        BY <2>2, <3>1 DEF Agree
      <3>2. CASE i \in 1 .. n
        <4>1. \A m \in i + 1 .. n : m \in i + 1 .. k /\ tape'[m] = tape[m]
          BY <1>1, <1>2, <2>2, <3>2
        <4>2. Agree(tape[i].saw, tape[n].saw, leaf)
          <5>1. /\ harm # {"line"} /\ i <= n /\ n \in 1 .. n
                /\ \A m \in i + 1 .. n : tape[m].kind = "observation" => tape[m].leaf # leaf
            <6>1. harm # {"line"}
              BY <1>7
            <6>2. i <= n /\ n \in 1 .. n
              BY <1>1, <3>2
            <6>3. \A m \in i + 1 .. n : tape[m].kind = "observation" => tape[m].leaf # leaf
              BY <1>7, <4>1
            <6>4. QED
              BY <6>1, <6>2, <6>3
          <5>2. QED
            BY <3>2, <5>1 DEF TapeInv, SoundLine, n
        <4>3. k \in i + 1 .. k
          BY <1>1, <2>2, <3>2
        <4>4. line.kind = "observation" => line.leaf # leaf
          BY <1>2, <1>7, <2>2, <4>3
        <4>5. Agree(known, known', leaf)
          BY <4>4 DEF Agree
        <4>6. tape'[i] = tape[i] /\ tape'[k].saw = known'
          BY <1>2, <2>2, <3>2
        <4>7. QED
          BY <1>1, <4>2, <4>5, <4>6 DEF Agree
      <3>3. QED
        BY <1>4, <3>1, <3>2
    <2>3. QED
      BY <1>4, <2>1, <2>2
  <1>8. harm' # {"line"} => tape'[1].kind = "keyframe"
    BY <1>1, <1>2 DEF TapeInv, SoundLine
  <1>9. moment' \in Nat /\ (harm' = {} \/ harm' = {"line"} \/ \E leaf \in Leaves : harm' = {leaf})
    BY DEF TapeInv, SoundLine
  <1>10. known' = tape'[Len(tape')].saw
    BY <1>2
  <1>11. Len(tape') = n + 1 /\ n + 1 # 0
    BY <1>1, <1>2
  <1>12. tape' \in Seq({tape'[i] : i \in 1 .. Len(tape')})
    BY <1>3 DEF own
  <1>13. QED
    BY <1>5, <1>6, <1>7, <1>8, <1>9, <1>10, <1>11, <1>12 DEF TapeInv

\* A byte of the disk that is spoilt keeps the tape.
LEMMA HarmKeepsTape ==
    ASSUME TapeInv, NEW i \in 1 .. Len(tape), NEW line,
           harm = {}, tape' = [tape EXCEPT ![i] = line], moment' = moment, known' = known,
           DOMAIN line = {"kind", "at", "dial", "leaf", "fact", "facts", "saw"},
           line.saw = tape[i].saw, line.leaf = tape[i].leaf,
           \/ line.kind = "junk" /\ harm' = {"line"}
           \/ /\ line.kind = "keyframe" /\ tape[i].kind = "keyframe"
              /\ DOMAIN line.facts = DOMAIN tape[i].facts
              /\ \E leaf \in Leaves :
                    /\ harm' = {leaf} /\ ~IsFact(line.facts[leaf])
                    /\ \A other \in DOMAIN line.facts \ {leaf} :
                          line.facts[other] = tape[i].facts[other]
    PROVE  TapeInv'
  <1> DEFINE n == Len(tape)
             S == {tape[k] : k \in 1 .. n}
             own == {tape'[k] : k \in 1 .. Len(tape')}
  <1>1. /\ tape \in Seq(S) /\ n \in Nat \ {0} /\ known = tape[n].saw
    BY DEF TapeInv, SoundLine
  <1>2. /\ Len(tape') = n /\ tape' \in Seq(S \cup {line})
        /\ \A k \in 1 .. n : tape'[k] = IF k = i THEN line ELSE tape[k]
    <2> HIDE DEF S
    <2>1. QED
      BY <1>1
  <1> DEFINE all == S \cup {line}
  <1> HIDE DEF all, S
  <1>3. tape' \in Seq(own)
    <2> DEFINE s == tape'
    <2>1. s \in Seq(all)
      BY <1>2 DEF all
    <2> HIDE DEF s
    <2>2. s \in Seq({s[k] : k \in 1 .. Len(s)})
      BY <2>1, OwnElements
    <2>3. QED
      BY <2>2 DEF s
  <1> HIDE DEF n, own
  <1>4. \A k \in 1 .. n : tape'[k].saw = tape[k].saw /\ tape'[k].leaf = tape[k].leaf
    BY <1>2
  <1>5. ASSUME NEW k \in 1 .. n
        PROVE  SoundLine(tape'[k], harm')
    <2> DEFINE old == tape[k]
    <2>1. /\ DOMAIN old = {"kind", "at", "dial", "leaf", "fact", "facts", "saw"}
          /\ Facts(old.saw)
          /\ old.kind \in {"observation", "keyframe"}
          /\ old.kind = "observation" =>
                /\ old.leaf \in DOMAIN old.saw /\ old.saw[old.leaf] = old.fact
                /\ DOMAIN old.facts = {}
          /\ old.kind = "keyframe" =>
                /\ DOMAIN old.facts = DOMAIN old.saw
                /\ \A leaf \in DOMAIN old.facts : old.facts[leaf] = old.saw[leaf]
      BY DEF TapeInv, SoundLine, n
    <2>2. CASE k # i
      <3>1. tape'[k] = old
        BY <1>2, <2>2
      <3>2. QED
        BY <2>1, <3>1 DEF SoundLine
    <2>3. CASE k = i
      <3>1. tape'[k] = line /\ line.saw = old.saw
        BY <1>2, <2>3
      <3>2. QED
        BY <2>1, <2>3, <3>1 DEF SoundLine
    <2>4. QED
      BY <2>2, <2>3
  <1>6. ASSUME NEW j \in 1 .. n, NEW k \in 1 .. n, j <= k
        PROVE  DOMAIN tape'[j].saw \subseteq DOMAIN tape'[k].saw
    BY <1>4, <1>6 DEF TapeInv, SoundLine, n
  <1>7. ASSUME harm' # {"line"}, NEW j \in 1 .. n, NEW k \in 1 .. n, NEW leaf \in Leaves, j <= k,
               \A m \in j + 1 .. k : tape'[m].kind = "observation" => tape'[m].leaf # leaf
        PROVE  Agree(tape'[j].saw, tape'[k].saw, leaf)
    <2>1. \A m \in 1 .. n : tape'[m].kind = tape[m].kind
      BY <1>2, <1>7
    <2>2. \A m \in j + 1 .. k : m \in 1 .. n
      BY <1>1
    <2>3. \A m \in j + 1 .. k : tape[m].kind = "observation" => tape[m].leaf # leaf
      BY <1>4, <1>7, <2>1, <2>2
    <2>4. harm # {"line"}
      OBVIOUS
    <2>5. Agree(tape[j].saw, tape[k].saw, leaf)
      BY <1>7, <2>3, <2>4 DEF TapeInv, SoundLine, n
    <2>6. QED
      BY <1>4, <2>5
  <1>8. harm' # {"line"} => tape'[1].kind = "keyframe"
    <2>1. harm # {"line"} /\ 1 \in 1 .. n
      BY <1>1
    <2>2. QED
      BY <1>2, <2>1 DEF TapeInv, SoundLine
  <1>9. moment' \in Nat /\ (harm' = {} \/ harm' = {"line"} \/ \E leaf \in Leaves : harm' = {leaf})
    BY DEF TapeInv, SoundLine
  <1>10. known' = tape'[Len(tape')].saw
    BY <1>1, <1>2, <1>4
  <1>11. Len(tape') # 0
    BY <1>1, <1>2
  <1>12. tape' \in Seq({tape'[k] : k \in 1 .. Len(tape')})
    BY <1>3 DEF own
  <1>13. Len(tape') = n
    BY <1>2
  <1>14. harm' # {"line"} =>
            /\ tape'[1].kind = "keyframe"
            /\ \A j, k \in 1 .. Len(tape'), leaf \in Leaves :
                  j <= k /\ (\A m \in j + 1 .. k : tape'[m].kind = "observation" => tape'[m].leaf # leaf)
                  => Agree(tape'[j].saw, tape'[k].saw, leaf)
    BY <1>7, <1>8, <1>13
  <1>15. \A j, k \in 1 .. Len(tape') : j <= k => DOMAIN tape'[j].saw \subseteq DOMAIN tape'[k].saw
    BY <1>6, <1>13
  <1>16. QED
    BY <1>5, <1>9, <1>10, <1>11, <1>12, <1>13, <1>14, <1>15 DEF TapeInv

LEMMA SeesKeeps ==
    ASSUME TapeInv, NEW leaf \in Leaves, NEW value, Sees(leaf, value)
    PROVE  TapeInv'
  <1> DEFINE fact == SerialisedFact(value, moment)
             line == RecordLine("observation", leaf, fact, <<>>, known')
  <1>1. /\ known' = [l \in DOMAIN known \cup {leaf} |-> IF l = leaf THEN fact ELSE known[l]]
        /\ tape' = Append(tape, line) /\ moment' = moment /\ harm' = harm
    BY DEF Sees, Writes
  <1>2. IsFact(fact) /\ DOMAIN fact = {"value", "source", "sure", "at"}
    BY DEF IsFact, SerialisedFact, Sure
  <1>3. /\ DOMAIN line = {"kind", "at", "dial", "leaf", "fact", "facts", "saw"}
        /\ line.kind = "observation" /\ line.leaf = leaf /\ line.fact = fact
        /\ line.facts = <<>> /\ line.saw = known'
    BY DEF RecordLine
  <1>4. Facts(known)
    BY DEF TapeInv, SoundLine
  <1>5. DOMAIN <<>> = {}
    OBVIOUS
  <1> HIDE DEF line, fact
  <1>6. Facts(known') /\ DOMAIN known \subseteq DOMAIN known'
    BY <1>1, <1>2, <1>4 DEF Facts
  <1>7. line.leaf \in DOMAIN known' /\ known'[line.leaf] = line.fact
    BY <1>1, <1>3
  <1>8. \A other \in Leaves \ {line.leaf} : Agree(known, known', other)
    BY <1>1, <1>3 DEF Agree
  <1>9. DOMAIN line.facts = {}
    BY <1>3, <1>5
  <1>10. QED
    BY <1>1, <1>3, <1>6, <1>7, <1>8, <1>9, LineKeepsTape

LEMMA KeyframesKeeps ==
    ASSUME TapeInv, Keyframes
    PROVE  TapeInv'
  <1> DEFINE line == RecordLine("keyframe", "none", SerialisedFact("none", moment), known, known)
  <1>1. tape' = Append(tape, line) /\ moment' = moment /\ harm' = harm /\ known' = known
    BY DEF Keyframes, Writes
  <1>2. /\ DOMAIN line = {"kind", "at", "dial", "leaf", "fact", "facts", "saw"}
        /\ line.kind = "keyframe" /\ line.facts = known /\ line.saw = known
    BY DEF RecordLine
  <1>3. Facts(known)
    BY DEF TapeInv, SoundLine
  <1> HIDE DEF line
  <1>4. QED
    BY <1>1, <1>2, <1>3, LineKeepsTape

LEMMA SpoilsFactKeeps ==
    ASSUME TapeInv, NEW i \in DOMAIN tape, NEW leaf \in DOMAIN tape[i].facts,
           NEW raw, raw \in {[tape[i].facts[leaf] EXCEPT !.sure = 14],
                             [tape[i].facts[leaf] EXCEPT !.source = "disk"]},
           SpoilsFact(i, leaf, raw)
    PROVE  TapeInv'
  <1> DEFINE old == tape[i]
             line == [old EXCEPT !.facts[leaf] = raw]
  <1>1. /\ harm = {} /\ old.kind = "keyframe" /\ harm' = {leaf}
        /\ tape' = [tape EXCEPT ![i].facts[leaf] = raw]
        /\ moment' = moment /\ known' = known
    BY DEF SpoilsFact
  <1>2. i \in 1 .. Len(tape)
    BY DEF TapeInv, SoundLine
  <1>3. /\ DOMAIN old = {"kind", "at", "dial", "leaf", "fact", "facts", "saw"}
        /\ Facts(old.saw) /\ DOMAIN old.facts = DOMAIN old.saw
        /\ \A l \in DOMAIN old.facts : old.facts[l] = old.saw[l]
    BY <1>1, <1>2 DEF TapeInv, SoundLine
  <1>4. tape' = [tape EXCEPT ![i] = line]
    BY <1>1
  <1> HIDE DEF old
  <1>5. /\ DOMAIN line = DOMAIN old /\ line.kind = "keyframe" /\ line.saw = old.saw
        /\ line.leaf = old.leaf /\ line.facts = [old.facts EXCEPT ![leaf] = raw]
    BY <1>1, <1>3
  <1> HIDE DEF line
  <1>6. leaf \in DOMAIN old.facts
    BY DEF old
  <1>7. leaf \in Leaves /\ line.facts[leaf] = raw
    BY <1>3, <1>5, <1>6 DEF Facts
  <1>8. ~IsFact(raw)
    <2>1. DOMAIN old.facts[leaf] = {"value", "source", "sure", "at"}
      BY <1>3, <1>6 DEF Facts
    <2>2. raw.sure = 14 \/ raw.source = "disk"
      BY <2>1 DEF old
    <2>3. QED
      BY <2>2 DEF IsFact, Sure
  <1>9. /\ DOMAIN line.facts = DOMAIN old.facts
        /\ \A other \in DOMAIN line.facts \ {leaf} : line.facts[other] = old.facts[other]
    BY <1>5
  <1>10. \E l \in Leaves :
            /\ harm' = {l} /\ ~IsFact(line.facts[l])
            /\ \A other \in DOMAIN line.facts \ {l} : line.facts[other] = old.facts[other]
    BY <1>1, <1>7, <1>8, <1>9
  <1>11. DOMAIN line = {"kind", "at", "dial", "leaf", "fact", "facts", "saw"}
    BY <1>3, <1>5
  <1>12. QED
    BY <1>1, <1>2, <1>4, <1>5, <1>9, <1>10, <1>11, HarmKeepsTape DEF old

LEMMA SpoilsLineKeeps ==
    ASSUME TapeInv, NEW i \in DOMAIN tape, SpoilsLine(i)
    PROVE  TapeInv'
  <1> DEFINE old == tape[i]
             line == [old EXCEPT !.kind = "junk"]
  <1>1. /\ harm = {} /\ harm' = {"line"} /\ tape' = [tape EXCEPT ![i].kind = "junk"]
        /\ moment' = moment /\ known' = known
    BY DEF SpoilsLine
  <1>2. i \in 1 .. Len(tape)
    BY DEF TapeInv, SoundLine
  <1>3. DOMAIN old = {"kind", "at", "dial", "leaf", "fact", "facts", "saw"}
    BY <1>2 DEF TapeInv, SoundLine
  <1>4. tape' = [tape EXCEPT ![i] = line]
    BY <1>1
  <1> HIDE DEF old
  <1>5. DOMAIN line = DOMAIN old /\ line.kind = "junk" /\ line.saw = old.saw /\ line.leaf = old.leaf
    BY <1>3
  <1> HIDE DEF line
  <1>6. QED
    BY <1>1, <1>2, <1>3, <1>4, <1>5, HarmKeepsTape DEF old

\* The newest line of some is one of them, and none of them is newer.
LEMMA NewestOf ==
    ASSUME NEW T, T # {}, NEW top \in Nat, T \subseteq 1 .. top
    PROVE  Max(T) \in T /\ \A j \in T : j <= Max(T)
  <1>0. T \subseteq Nat /\ \A j \in T : j <= top
    OBVIOUS
  <1>1. PICK m \in T : \A j \in T : j <= m
    BY <1>0, LargestOf
  <1>2. \A j \in T : m >= j
    BY <1>1
  <1>3. Max(T) \in T /\ \A j \in T : Max(T) >= j
    BY <1>2 DEF Max
  <1>4. QED
    BY <1>3

LEMMA AnchorIs ==
    ASSUME TapeInv, NEW i \in ParsedLines
    PROVE  /\ \/ AnchorFor(i) = 0
              \/ /\ AnchorFor(i) \in ParsedLines /\ AnchorFor(i) <= i
                 /\ tape[AnchorFor(i)].kind = "keyframe"
           /\ harm # {"line"} => AnchorFor(i) # 0
  <1> DEFINE keyed == {k \in ParsedLines : k <= i /\ tape[k].kind = "keyframe"}
             old == {k \in keyed : tape[k].at + AnchorWindow <= tape[i].at}
  <1>1. ParsedLines \subseteq 1 .. Len(tape) /\ Len(tape) \in Nat
    BY DEF ParsedLines, TapeInv, SoundLine
  <1>2. AnchorFor(i) = IF old # {} THEN Max(old) ELSE IF keyed # {} THEN Min(keyed) ELSE 0
    BY DEF AnchorFor
  <1>3. harm # {"line"} => keyed # {}
    <2> SUFFICES ASSUME harm # {"line"} PROVE 1 \in keyed
      OBVIOUS
    <2>1. 1 \in DOMAIN tape /\ tape[1].kind = "keyframe" /\ 1 <= i
      BY <1>1 DEF TapeInv, SoundLine, ParsedLines
    <2>2. QED
      BY <2>1 DEF ParsedLines
  <1>4. CASE old # {}
    <2>1. Max(old) \in old
      BY <1>1, <1>4, NewestOf
    <2>2. QED
      BY <1>1, <1>2, <1>4, <2>1
  <1>5. CASE old = {} /\ keyed # {}
    <2> HIDE DEF old
    <2>0. keyed \subseteq Nat
      <3>1. \A k \in keyed : k \in ParsedLines
        OBVIOUS
      <3> HIDE DEF keyed
      <3>2. QED
        <4>1. \A k \in ParsedLines : k \in Nat
          BY <1>1
        <4>2. QED
          BY <3>1, <4>1
    <2>1. PICK m \in keyed : \A k \in keyed : m <= k
      BY <1>5, <2>0, LeastOf
    <2>2. Min(keyed) \in keyed
      BY <2>1 DEF Min
    <2>3. QED
      BY <1>1, <1>2, <1>5, <2>2
  <1>6. CASE old = {} /\ keyed = {}
    BY <1>2, <1>3, <1>6
  <1>7. QED
    BY <1>4, <1>5, <1>6

\* What is rebuilt at a line was live there, and is all that was live there but for the leaf
\* whose record was spoilt.
LEMMA Rebuilt ==
    ASSUME TapeInv, NEW i \in ParsedLines
    PROVE  /\ DOMAIN FactsAt(i) \subseteq DOMAIN tape[i].saw
           /\ \A leaf \in DOMAIN FactsAt(i) : IsFact(FactsAt(i)[leaf])
           /\ harm # {"line"} =>
                 \A leaf \in Leaves : leaf \notin harm => Agree(FactsAt(i), tape[i].saw, leaf)
  <1> DEFINE n == Len(tape)
             a == AnchorFor(i)
             base == IF a = 0 THEN <<>> ELSE Rehydrated(tape[a].facts)
             wrote(leaf) == Wrote(leaf, a, i)
             over == {leaf \in Leaves : wrote(leaf) # {}}
             facts == [leaf \in DOMAIN base \cup over |->
                          IF leaf \in over THEN tape[Max(wrote(leaf))].fact ELSE base[leaf]]
  <1>1. n \in Nat /\ DOMAIN tape = 1 .. n /\ i \in 1 .. n /\ ParsedLines \subseteq 1 .. n
    BY DEF TapeInv, SoundLine, ParsedLines
  <1>2. FactsAt(i) = facts
    BY DEF FactsAt
  <1>3. /\ a = 0 \/ (a \in 1 .. n /\ a <= i /\ tape[a].kind = "keyframe")
        /\ harm # {"line"} => a # 0
    BY <1>1, AnchorIs
  <1> HIDE DEF a
  <1>4. ASSUME NEW leaf \in over
        PROVE  /\ Max(wrote(leaf)) \in 1 .. i /\ a < Max(wrote(leaf))
               /\ tape[Max(wrote(leaf))].kind = "observation" /\ tape[Max(wrote(leaf))].leaf = leaf
               /\ \A j \in wrote(leaf) : j <= Max(wrote(leaf))
    <2>1. wrote(leaf) # {} /\ wrote(leaf) \subseteq 1 .. n
      BY <1>1 DEF Wrote
    <2>2. Max(wrote(leaf)) \in wrote(leaf) /\ \A j \in wrote(leaf) : j <= Max(wrote(leaf))
      BY <1>1, <2>1, NewestOf
    <2> DEFINE m == Max(wrote(leaf))
    <2>3. m \in wrote(leaf)
      BY <2>2
    <2> HIDE DEF m
    <2>4. /\ m \in ParsedLines /\ a < m /\ m <= i
          /\ tape[m].kind = "observation" /\ tape[m].leaf = leaf
      BY <2>3 DEF Wrote
    <2>5. m \in 1 .. i
      BY <1>1, <2>4
    <2>6. QED
      BY <2>2, <2>4, <2>5 DEF m
  <1>5. ASSUME NEW leaf \in over
        PROVE  /\ leaf \in DOMAIN tape[i].saw
               /\ leaf \in DOMAIN tape[Max(wrote(leaf))].saw
               /\ tape[Max(wrote(leaf))].saw[leaf] = tape[Max(wrote(leaf))].fact
               /\ IsFact(tape[Max(wrote(leaf))].fact)
    <2> DEFINE m == Max(wrote(leaf))
    <2>1. m \in 1 .. n /\ m <= i /\ tape[m].kind = "observation" /\ tape[m].leaf = leaf
      BY <1>1, <1>4
    <2> HIDE DEF m
    <2>2. /\ leaf \in DOMAIN tape[m].saw /\ tape[m].saw[leaf] = tape[m].fact
          /\ Facts(tape[m].saw)
      BY <2>1 DEF TapeInv, SoundLine
    <2>3. DOMAIN tape[m].saw \subseteq DOMAIN tape[i].saw
      BY <1>1, <2>1 DEF TapeInv, SoundLine
    <2>4. IsFact(tape[m].fact)
      BY <2>2 DEF Facts
    <2>5. QED
      BY <2>2, <2>3, <2>4 DEF m
  <1>6. CASE a = 0
    <2>1. DOMAIN base = {}
      BY <1>6
    <2>2. DOMAIN facts = over /\ \A leaf \in over : facts[leaf] = tape[Max(wrote(leaf))].fact
      BY <2>1
    <2> HIDE DEF facts, over
    <2>3. QED
      BY <1>2, <1>3, <1>5, <1>6, <2>2
  <1>7. CASE a # 0
    <2>1. a \in 1 .. n /\ a <= i /\ tape[a].kind = "keyframe"
      BY <1>3, <1>7
    <2>2. /\ DOMAIN base = {leaf \in DOMAIN tape[a].facts : leaf \in Leaves /\ IsFact(tape[a].facts[leaf])}
          /\ \A leaf \in DOMAIN base : base[leaf] = tape[a].facts[leaf]
      BY <1>7 DEF Rehydrated, Restrict
    <2>3. /\ DOMAIN tape[a].facts = DOMAIN tape[a].saw
          /\ Facts(tape[a].saw)
          /\ \A leaf \in DOMAIN tape[a].facts :
                \/ tape[a].facts[leaf] = tape[a].saw[leaf]
                \/ harm = {leaf} /\ ~IsFact(tape[a].facts[leaf])
          /\ DOMAIN tape[a].saw \subseteq DOMAIN tape[i].saw
      BY <1>1, <2>1 DEF TapeInv, SoundLine
    <2> HIDE DEF base
    <2>4. /\ DOMAIN facts = DOMAIN base \cup over
          /\ \A leaf \in over : facts[leaf] = tape[Max(wrote(leaf))].fact
          /\ \A leaf \in DOMAIN base \ over : facts[leaf] = base[leaf]
      OBVIOUS
    <2> HIDE DEF facts
    <2>5. DOMAIN facts \subseteq DOMAIN tape[i].saw /\ \A leaf \in DOMAIN facts : IsFact(facts[leaf])
      <3> HIDE DEF over
      <3>1. QED
        BY <1>5, <2>2, <2>3, <2>4
    <2>6. ASSUME harm # {"line"}, NEW leaf \in Leaves, leaf \notin harm
          PROVE  Agree(facts, tape[i].saw, leaf)
      <3>1. \A j \in 1 .. n : j \in ParsedLines
        <4> SUFFICES ASSUME NEW j \in 1 .. n PROVE j \in ParsedLines
          OBVIOUS
        <4>1. tape[j].kind # "junk"
          BY <2>6 DEF TapeInv, SoundLine
        <4>2. QED
          BY <1>1, <4>1 DEF ParsedLines
      <3>2. CASE leaf \in over
        <4> DEFINE m == Max(wrote(leaf))
        <4>1. m \in 1 .. n /\ m <= i /\ a < m /\ \A j \in wrote(leaf) : j <= m
          BY <1>1, <1>4, <3>2
        <4>2. /\ leaf \in DOMAIN tape[m].saw /\ tape[m].saw[leaf] = tape[m].fact
              /\ leaf \in DOMAIN facts /\ facts[leaf] = tape[m].fact
          BY <1>5, <2>4, <3>2
        <4> HIDE DEF m
        <4>3. \A k \in m + 1 .. i : tape[k].kind = "observation" => tape[k].leaf # leaf
          <5> SUFFICES ASSUME NEW k \in m + 1 .. i, tape[k].kind = "observation", tape[k].leaf = leaf
                       PROVE  FALSE
            OBVIOUS
          <5>1. k \in 1 .. n /\ a < k /\ k <= i /\ m < k
            BY <1>1, <2>1, <4>1
          <5>2. k \in wrote(leaf)
            BY <3>1, <5>1 DEF Wrote
          <5>3. QED
            BY <1>1, <4>1, <5>1, <5>2
        <4>4. Agree(tape[m].saw, tape[i].saw, leaf)
          BY <1>1, <2>6, <4>1, <4>3 DEF TapeInv, SoundLine
        <4>5. QED
          BY <4>2, <4>4 DEF Agree
      <3>3. CASE leaf \notin over
        <4>1. \A k \in a + 1 .. i : tape[k].kind = "observation" => tape[k].leaf # leaf
          <5> SUFFICES ASSUME NEW k \in a + 1 .. i, tape[k].kind = "observation", tape[k].leaf = leaf
                       PROVE  FALSE
            OBVIOUS
          <5>1. k \in 1 .. n /\ a < k /\ k <= i
            BY <1>1, <2>1
          <5>2. k \in wrote(leaf)
            BY <3>1, <5>1 DEF Wrote
          <5>3. QED
            BY <3>3, <5>2
        <4>2. Agree(tape[a].saw, tape[i].saw, leaf)
          BY <1>1, <2>1, <2>6, <4>1 DEF TapeInv, SoundLine
        <4>3. leaf \in DOMAIN base <=> leaf \in DOMAIN tape[a].saw
          BY <2>2, <2>3, <2>6 DEF Facts
        <4>4. leaf \in DOMAIN base => base[leaf] = tape[a].saw[leaf]
          BY <2>2, <2>3, <2>6
        <4> HIDE DEF over
        <4>5. Agree(facts, tape[a].saw, leaf)
          BY <2>4, <3>3, <4>3, <4>4 DEF Agree
        <4>6. QED
          BY <4>2, <4>5 DEF Agree
      <3>4. QED
        BY <3>2, <3>3
    <2>7. QED
      BY <1>2, <2>5, <2>6
  <1>8. QED
    BY <1>6, <1>7

LEMMA AnswersHonestly ==
    ASSUME TapeInv, NEW topics \in Questions, NEW target \in Targets
    PROVE  HonestOf(AnswerWorldAt(topics, target))
  <1> DEFINE told == AnswerWorldAt(topics, target)
             found == Instants(target)
             i == Max(found)
             facts == FactsAt(i)
             given == {topic \in topics : HasSection(topic, facts)}
             answer == [kind   |-> IF given = {} THEN WhyNot(topics, facts) ELSE "answer",
                        at     |-> i,
                        second |-> tape[i].at,
                        facts  |-> [topic \in given |-> Section(topic, facts, tape[i].at)]]
  <1>1. \/ told.kind \in {"ask_for_one", "before_recording", "no_clock_yet"}
        \/ told = answer /\ found # {}
    <2>1. \A reason : NoAnswer(reason).kind = reason
      BY DEF NoAnswer, NotTold
    <2>2. \/ told = NoAnswer("ask_for_one") \/ told = NoAnswer("before_recording")
          \/ told = NoAnswer("no_clock_yet") \/ (told = answer /\ found # {})
      BY DEF AnswerWorldAt
    <2> HIDE DEF told, answer, found
    <2>3. QED
      BY <2>1, <2>2
  <1> HIDE DEF told
  <1>2. CASE told.kind \in {"ask_for_one", "before_recording", "no_clock_yet"}
    BY <1>2 DEF HonestOf, told
  <1>3. CASE told = answer /\ found # {}
    <2>1. i \in ParsedLines
      <3>1. found \subseteq ParsedLines /\ ParsedLines \subseteq 1 .. Len(tape) /\ Len(tape) \in Nat
        BY DEF Instants, ParsedLines, TapeInv, SoundLine
      <3>2. QED
        BY <1>3, <3>1, NewestOf
    <2> DEFINE then == tape[i].saw
    <2>2. /\ DOMAIN facts \subseteq DOMAIN then
          /\ \A leaf \in DOMAIN facts : IsFact(facts[leaf])
          /\ harm # {"line"} => \A leaf \in Leaves : leaf \notin harm => Agree(facts, then, leaf)
      BY <2>1, Rebuilt
    <2> HIDE DEF facts, i, found
    <2>3. /\ told.kind = IF given = {} THEN WhyNot(topics, facts) ELSE "answer"
          /\ told.at = i /\ told.second = tape[i].at
          /\ DOMAIN told.facts = given
          /\ \A topic \in given : told.facts[topic] = Section(topic, facts, tape[i].at)
      BY <1>3
    <2> HIDE DEF answer
    <2>4. topics \subseteq Topics
      BY QuestionsAssumption
    <2>5. \A topic \in Topics : LeavesOf(topic) \subseteq Leaves
      BY DEF Topics, LeavesOf, Leaves
    <2>6. harm # {"line"} => "line" \notin harm
      BY AtAssumption DEF TapeInv, SoundLine, Leaves
    <2>7. ASSUME NEW topic \in given
          PROVE  /\ DOMAIN told.facts[topic] = Spoken(topic, facts)
                 /\ \A leaf \in Spoken(topic, facts) : told.facts[topic][leaf] = Envelope(facts[leaf], tape[i].at)
      BY <2>3 DEF Section
    <2>8. ASSUME NEW topic \in given, NEW leaf \in Spoken(topic, facts)
          PROVE  /\ leaf \in DOMAIN facts /\ leaf \in LeavesOf(topic)
                 /\ leaf \in DOMAIN then
                 /\ told.facts[topic][leaf].sure \in 0 .. Sure
                 /\ told.facts[topic][leaf].age = tape[i].at - facts[leaf].at
      <3>1. leaf \in DOMAIN facts /\ leaf \in LeavesOf(topic)
        BY DEF Spoken
      <3>2. leaf \in DOMAIN then /\ facts[leaf].sure \in 0 .. Sure
        BY <2>2, <3>1 DEF IsFact
      <3>3. told.facts[topic][leaf] = Envelope(facts[leaf], tape[i].at)
        BY <2>7
      <3>4. QED
        BY <3>1, <3>2, <3>3 DEF Envelope
    <2> HIDE DEF given
    <2>9. WhyNot(topics, facts) # "answer"
      BY DEF WhyNot
    <2>10. ASSUME harm = {}, NEW topic \in Topics, NEW leaf \in LeavesOf(topic)
           PROVE  Agree(facts, then, leaf)
      BY <2>2, <2>5, <2>10
    <2>11. ASSUME NEW topic \in given
           PROVE  topic \in Topics
      BY <2>4 DEF given
    <2>12. ASSUME harm = {}, NEW topic \in given, NEW leaf \in LeavesOf(topic), leaf \notin Spoken(topic, facts)
           PROVE  leaf \notin DOMAIN then \/ (leaf \in Ten /\ ~(Ten \subseteq DOMAIN then))
      <3>1. leaf \in DOMAIN facts <=> leaf \in DOMAIN then
        BY <2>10, <2>11, <2>12 DEF Agree
      <3>2. \A l \in Ten : l \in DOMAIN facts <=> l \in DOMAIN then
        BY <2>2, <2>12 DEF Agree, Leaves
      <3>3. QED
        BY <2>12, <3>1, <3>2 DEF Spoken
    <2>13. ASSUME NEW leaf \in Leaves, harm = {leaf}, NEW topic \in given,
                  NEW other \in LeavesOf(topic) \ {leaf}, other \in DOMAIN then, other \notin Ten
           PROVE  other \in Spoken(topic, facts)
      <3>1. harm # {"line"}
        BY <2>13, AtAssumption DEF Leaves
      <3>2. other \in Leaves
        BY <2>5, <2>11
      <3>3. other \in DOMAIN facts
        BY <2>2, <2>13, <3>1, <3>2 DEF Agree
      <3>4. QED
        BY <2>13, <3>3 DEF Spoken
    <2>14. ASSUME given = {}, InMatch(facts)
           PROVE  topics = {"enemy"} /\ "enemy" \notin DOMAIN facts
      <3>1. \A topic \in topics : topic = "enemy" /\ "enemy" \notin DOMAIN facts
        BY <2>14 DEF given, HasSection
      <3>2. topics = Topics \/ \E topic \in Topics : topics = {topic}
        BY QuestionsAssumption
      <3>3. QED
        BY <3>1, <3>2 DEF Topics
    <2>15. ASSUME told.kind \in {"no_match", "nothing_observed"}, harm \cap {"line", "phase"} = {}
           PROVE  ~InMatch(then)
      <3>1. given = {} /\ told.kind = WhyNot(topics, facts)
        BY <2>3, <2>15
      <3>2. ~InMatch(facts)
        <4> SUFFICES ASSUME InMatch(facts) PROVE FALSE
          OBVIOUS
        <4>1. topics = {"enemy"}
          BY <2>14, <3>1
        <4>2. Cardinality(topics) = 1
          BY <4>1, FS_Singleton
        <4>3. WhyNot(topics, facts) = "no_enemy"
          BY <4>2 DEF WhyNot
        <4>4. QED
          BY <2>15, <3>1, <4>3
      <3>3. harm # {"line"} /\ "phase" \notin harm /\ "phase" \in Leaves
        BY <2>15 DEF Leaves
      <3>4. Agree(facts, then, "phase")
        BY <2>2, <3>3
      <3>5. QED
        BY <3>2, <3>4 DEF InMatch, Agree
    <2>16. ASSUME told.kind = "no_enemy", harm = {} PROVE "enemy" \notin DOMAIN then
      <3>1. given = {} /\ told.kind = WhyNot(topics, facts)
        BY <2>3, <2>16
      <3>2. InMatch(facts)
        BY <2>16, <3>1 DEF WhyNot
      <3>3. "enemy" \notin DOMAIN facts
        BY <2>14, <3>1, <3>2
      <3>4. Agree(facts, then, "enemy")
        BY <2>2, <2>16 DEF Leaves
      <3>5. QED
        BY <3>3, <3>4 DEF Agree
    <2>17. ASSUME harm = {}, NEW topic \in given, NEW leaf \in Spoken(topic, facts)
           PROVE  told.facts[topic][leaf].age = told.second - then[leaf].at
      <3>1. facts[leaf] = then[leaf]
        BY <2>8, <2>10, <2>11, <2>17 DEF Agree
      <3>2. QED
        BY <2>3, <2>8, <3>1
    <2>18. told.kind = "answer" => DOMAIN told.facts # {}
      BY <2>3, <2>9
    <2> HIDE DEF then
    <2>19. tape[told.at].saw = then
      BY <2>3 DEF then
    <2>20. HonestOf(told)
      BY <2>3, <2>7, <2>8, <2>12, <2>13, <2>15, <2>16, <2>17, <2>18, <2>19 DEF HonestOf
    <2>21. QED
      BY <2>20 DEF told
  <1>4. QED
    BY <1>1, <1>2, <1>3

LEMMA MemoryNextKeeps == MemoryInv /\ [AtNext]_atVars => MemoryInv'
  <1> SUFFICES ASSUME MemoryInv, [AtNext]_atVars PROVE MemoryInv'
    OBVIOUS
  <1>1. TapeInv
    BY DEF MemoryInv
  <1>2. CASE UNCHANGED atVars
    <2>1. /\ tape' = tape /\ moment' = moment /\ dial' = dial /\ known' = known
          /\ harm' = harm /\ retold' = retold
      BY <1>2 DEF atVars
    <2>2. TapeInv'
      BY <1>1, <2>1 DEF TapeInv, SoundLine
    <2>3. MemoryIsHonest'
      BY <2>1 DEF MemoryInv, MemoryIsHonest, Then
    <2>4. QED
      BY <2>1, <2>2, <2>3 DEF MemoryInv
  <1>3. CASE AtNext
    <2>1. retold = NotTold
      BY <1>3 DEF AtNext
    <2>2. ASSUME TapeInv', retold' = retold PROVE MemoryInv'
      BY <2>1, <2>2 DEF MemoryInv, MemoryIsHonest, NotTold
    <2>3. ASSUME NEW leaf \in Leaves, NEW value, Sees(leaf, value) PROVE MemoryInv'
      <3>1. TapeInv'
        BY <1>1, <2>3, SeesKeeps
      <3>2. retold' = retold
        BY <2>3 DEF Sees, Writes
      <3>3. QED
        BY <2>2, <3>1, <3>2
    <2>4. CASE Keyframes
      <3>1. TapeInv'
        BY <1>1, <2>4, KeyframesKeeps
      <3>2. retold' = retold
        BY <2>4 DEF Keyframes, Writes
      <3>3. QED
        BY <2>2, <3>1, <3>2
    <2>5. ASSUME NEW runs \in BOOLEAN, Passes(runs) PROVE MemoryInv'
      <3>1. /\ tape' = tape /\ moment' = moment + 1 /\ known' = known /\ harm' = harm
            /\ retold' = retold
        BY <2>5 DEF Passes
      <3>2. TapeInv'
        BY <1>1, <3>1 DEF TapeInv, SoundLine
      <3>3. QED
        BY <2>2, <3>1, <3>2
    <2>6. ASSUME NEW i \in DOMAIN tape, NEW leaf \in DOMAIN tape[i].facts,
                 NEW raw \in {[tape[i].facts[leaf] EXCEPT !.sure = 14],
                              [tape[i].facts[leaf] EXCEPT !.source = "disk"]},
                 SpoilsFact(i, leaf, raw)
          PROVE  MemoryInv'
      <3>1. TapeInv'
        BY <1>1, <2>6, SpoilsFactKeeps
      <3>2. retold' = retold
        BY <2>6 DEF SpoilsFact
      <3>3. QED
        BY <2>2, <3>1, <3>2
    <2>7. ASSUME NEW i \in DOMAIN tape, SpoilsLine(i) PROVE MemoryInv'
      <3>1. TapeInv'
        BY <1>1, <2>7, SpoilsLineKeeps
      <3>2. retold' = retold
        BY <2>7 DEF SpoilsLine
      <3>3. QED
        BY <2>2, <3>1, <3>2
    <2>8. ASSUME NEW topics \in Questions, NEW target \in Targets, AsksWorldAt(topics, target)
          PROVE  MemoryInv'
      <3>1. /\ tape' = tape /\ moment' = moment /\ dial' = dial /\ known' = known
            /\ harm' = harm /\ retold' = AnswerWorldAt(topics, target)
        BY <2>8 DEF AsksWorldAt
      <3>2. TapeInv'
        BY <1>1, <3>1 DEF TapeInv, SoundLine
      <3>3. HonestOf(retold')
        BY <1>1, <3>1, AnswersHonestly
      <3>4. MemoryIsHonest'
        BY <3>1, <3>3 DEF HonestOf, MemoryIsHonest, Then
      <3>5. QED
        BY <3>2, <3>4 DEF MemoryInv
    <2>9. "playing" \in {"idle", "playing"} /\ "phase" \in Leaves
      BY DEF Leaves
    <2>10. QED
      BY <1>3, <2>3, <2>4, <2>5, <2>6, <2>7, <2>8, <2>9 DEF AtNext
  <1>4. QED
    BY <1>2, <1>3

WorldInv == LossInv /\ TimingInv /\ MemoryInv

\* The losses told are those of the window, the next rune and stack are never skipped, and an
\* answer about a moment that is over says what was live then: for every ring, every period
\* and every recording. (history/ring.ts, tools/buildings.ts, derived/rules, timeline/)
THEOREM WorldHolds == PartsSpec => []WorldIsTold
  <1>1. PartsInit => WorldInv
    BY LossStart, TimingStart, MemoryStart DEF PartsInit, WorldInv
  <1>2. WorldInv /\ [PartsNext]_partsVars => WorldInv'
    <2>1. [PartsNext]_partsVars =>
            [ReadingNext]_readingVars /\ [TimingNext]_timingVars /\ [AtNext]_atVars
      <3>1. PartsNext => [ReadingNext]_readingVars /\ [TimingNext]_timingVars /\ [AtNext]_atVars
        BY DEF PartsNext
      <3>2. UNCHANGED partsVars => UNCHANGED <<readingVars, timingVars, atVars>>
        BY DEF partsVars
      <3>3. QED
        BY <3>1, <3>2
    <2>2. QED
      BY <2>1, LossNextKeeps, TimingNextKeeps, MemoryNextKeeps DEF WorldInv
  <1>3. WorldInv => WorldIsTold
    BY LossesTold, TimingsTold DEF WorldInv, WorldIsTold, MemoryInv
  <1>4. QED
    BY <1>1, <1>2, <1>3, PTL DEF PartsSpec, partsVars

-----------------------------------------------------------------------------
(* The conversation *)

ConvInv ==
    /\ DOMAIN wire = {"kind", "state", "errors"}
    /\ wire.state \in {"connecting", "refused", "open", "failed", "closed"}
    /\ DOMAIN conv = {"closing", "reported", "item", "spent", "fired"}
    /\ DOMAIN toldFaults = {"lost", "other", "warned", "commands"}
    /\ toldFaults.lost = IF conv.reported THEN 1 ELSE 0
    /\ toldFaults.warned = IF conv.fired THEN 1 ELSE 0
    /\ conv.spent \in Nat /\ (conv.spent >= Budget => conv.fired)
    /\ wire.state \in {"failed", "closed"} => conv.reported \/ conv.closing
    /\ \A i \in DOMAIN written :
          /\ DOMAIN written[i] = {"open", "final", "times"}
          /\ written[i].times \in {0, 1}
          /\ written[i].times = 1 => written[i].final \/ conv.closing

LEMMA ConvStart == ConvInit => ConvInv
  <1> SUFFICES ASSUME ConvInit PROVE ConvInv
    OBVIOUS
  <1>1. /\ DOMAIN wire = {"kind", "state", "errors"} /\ wire.state = "connecting"
        /\ conv = [closing |-> FALSE, reported |-> FALSE, item |-> 0, spent |-> 0, fired |-> FALSE]
        /\ toldFaults = [lost |-> 0, other |-> {}, warned |-> 0, commands |-> {}]
    BY DEF ConvInit
  <1>2. \A i \in DOMAIN written : written[i] = [open |-> FALSE, final |-> FALSE, times |-> 0]
    BY DEF ConvInit
  <1>3. Budget \in Nat \ {0}
    BY ConversationAssumption
  <1>4. QED
    BY <1>1, <1>2, <1>3 DEF ConvInv

\* A transcript that becomes final does so once.
WrittenInv(w, closing) ==
    \A i \in DOMAIN w :
        /\ DOMAIN w[i] = {"open", "final", "times"}
        /\ w[i].times \in {0, 1}
        /\ w[i].times = 1 => w[i].final \/ closing

LEMMA FinallyKeeps ==
    ASSUME ConvInv, ~conv.closing, NEW i, Finally(i)
    PROVE  WrittenInv(written', FALSE)
  <1>1. WrittenInv(written, FALSE)
    BY DEF ConvInv, WrittenInv
  <1>2. CASE i \in DOMAIN written /\ ~written[i].final
    BY <1>1, <1>2 DEF Finally, WrittenInv
  <1>3. CASE i \in DOMAIN written /\ written[i].final
    BY <1>1, <1>3 DEF Finally, WrittenInv
  <1>4. CASE i \notin DOMAIN written
    BY <1>1, <1>4 DEF Finally, WrittenInv
  <1>5. QED
    BY <1>2, <1>3, <1>4

LEMMA ConvNextKeeps == ConvInv /\ [ConvNext]_convVars => ConvInv'
  <1> SUFFICES ASSUME ConvInv, [ConvNext]_convVars PROVE ConvInv'
    OBVIOUS
  <1>1. CASE Opens
    BY <1>1 DEF Opens, ConvInv
  <1>2. CASE WireDies
    BY <1>2 DEF WireDies, Subscribed, ConvInv
  <1>3. ASSUME NEW code, ErrorArrives(code) PROVE ConvInv'
    <2>1. /\ DOMAIN wire' = {"kind", "state", "errors"} /\ wire'.state = wire.state
          /\ written' = written
      BY <1>3 DEF ErrorArrives, ConvInv
    <2>2. CASE code = "unhandled"
      BY <1>3, <2>1, <2>2 DEF ErrorArrives, ConvInv
    <2>3. CASE code # "unhandled" /\ FaultFor(code) # "session-lost"
      <3>1. conv' = conv /\ toldFaults' = [toldFaults EXCEPT !.other = @ \cup {FaultFor(code)}]
        BY <1>3, <2>3 DEF ErrorArrives
      <3>2. QED
        BY <2>1, <3>1 DEF ConvInv
    <2>4. CASE code # "unhandled" /\ FaultFor(code) = "session-lost"
      <3>1. /\ conv' = [conv EXCEPT !.reported = TRUE]
            /\ toldFaults' = [toldFaults EXCEPT !.lost = IF conv.reported THEN @ ELSE @ + 1]
        BY <1>3, <2>4 DEF ErrorArrives
      <3>2. QED
        BY <2>1, <3>1 DEF ConvInv
    <2>5. QED
      BY <2>2, <2>3, <2>4
  <1>4. CASE Closes
    <2>1. /\ conv' = [conv EXCEPT !.closing = TRUE] /\ wire' = [wire EXCEPT !.state = "closed"]
          /\ written' = [i \in DOMAIN written |-> [written[i] EXCEPT !.final = FALSE, !.open = FALSE]]
          /\ toldFaults' = toldFaults
      BY <1>4 DEF Closes
    <2>2. WrittenInv(written', TRUE)
      BY <2>1 DEF ConvInv, WrittenInv
    <2>3. conv'.closing = TRUE
      BY <2>1 DEF ConvInv
    <2>4. QED
      BY <2>1, <2>2, <2>3 DEF ConvInv, WrittenInv
  <1>5. CASE AsksFor \/ Speaks \/ \E i \in Items : Frame(i)
    BY <1>5 DEF AsksFor, Speaks, Frame, ConvInv
  <1>6. CASE ItemAdded
    BY <1>6 DEF ItemAdded, ConvInv
  <1>7. CASE ResponseDone
    <2>1. PICK usage \in Usage : Records(conv.spent + usage)
      BY <1>7 DEF ResponseDone
    <2>2. wire' = wire /\ written' = written
      BY <1>7 DEF ResponseDone
    <2> DEFINE spent == conv.spent + usage
    <2>3. spent \in Nat /\ spent >= conv.spent
      BY DEF Usage, ConvInv
    <2> HIDE DEF spent
    <2>4. CASE spent >= Budget /\ ~conv.fired
      <3>1. /\ conv' = [conv EXCEPT !.item = 0, !.spent = spent, !.fired = TRUE]
            /\ toldFaults' = [toldFaults EXCEPT !.warned = @ + 1]
        BY <2>1, <2>4 DEF Records, spent, ConvInv
      <3>2. QED
        BY <2>2, <2>3, <2>4, <3>1 DEF ConvInv
    <2>5. CASE ~(spent >= Budget /\ ~conv.fired)
      <3>1. /\ DOMAIN conv' = DOMAIN conv /\ conv'.closing = conv.closing
            /\ conv'.reported = conv.reported /\ conv'.spent = spent
            /\ conv'.fired <=> conv.fired
        BY <2>1, <2>5 DEF Records, spent, ConvInv
      <3>2. toldFaults' = [toldFaults EXCEPT !.warned = @]
        BY <2>1, <2>5 DEF Records, spent
      <3>3. QED
        BY <2>2, <2>3, <2>5, <3>1, <3>2 DEF ConvInv
    <2>6. QED
      BY <2>4, <2>5
  <1>8. ASSUME UNCHANGED <<wire, conv, toldFaults>>, WrittenInv(written', FALSE) PROVE ConvInv'
    BY <1>8 DEF ConvInv, WrittenInv
  <1>9. ASSUME NEW i, AgentTranscript(i) PROVE ConvInv'
    <2>1. ~conv.closing /\ Finally(i) /\ UNCHANGED <<wire, conv, toldFaults>>
      BY <1>9 DEF AgentTranscript, Subscribed
    <2>2. QED
      BY <1>8, <2>1, FinallyKeeps
  <1>10. CASE PlayerTranscript
    <2>1. ~conv.closing /\ Finally(Utterance) /\ UNCHANGED <<wire, conv>>
      BY <1>10 DEF PlayerTranscript, Subscribed
    <2>2. WrittenInv(written', FALSE)
      BY <2>1, FinallyKeeps
    <2>3. /\ DOMAIN toldFaults' = DOMAIN toldFaults
          /\ toldFaults'.lost = toldFaults.lost /\ toldFaults'.warned = toldFaults.warned
      BY <1>10 DEF PlayerTranscript, ConvInv
    <2>4. QED
      BY <2>1, <2>2, <2>3 DEF ConvInv, WrittenInv
  <1>11. CASE Interrupt \/ Abort
    <2>1. ~conv.closing /\ UNCHANGED <<wire, conv, toldFaults>>
      BY <1>11 DEF Interrupt, Abort, Talking, Subscribed
    <2>2. written' = written \/ Finally(conv.item)
      BY <1>11 DEF Interrupt, Abort, Truncate, CutShort
    <2>3. WrittenInv(written', FALSE)
      BY <2>1, <2>2, FinallyKeeps DEF ConvInv, WrittenInv
    <2>4. QED
      BY <1>8, <2>1, <2>3
  <1>12. CASE UNCHANGED convVars
    BY <1>12 DEF convVars, ConvInv
  <1>13. QED
    BY <1>1, <1>2, <1>3, <1>4, <1>5, <1>6, <1>7, <1>9, <1>10, <1>11, <1>12 DEF ConvNext

LEMMA ConvTold == ConvInv => ToldOnce
  BY DEF ConvInv, ToldOnce

-----------------------------------------------------------------------------
(* The mints *)

\* Requests are spaced from the last one, and a verdict is of an answer that came.
VerdictOf(v, p) ==
    /\ v.post # 0 => v.post \in 1 .. Len(p) /\ p[v.post].done
    /\ v.fault.kind = "auth" => v.post # 0 /\ p[v.post].status \in {401, 403}
    /\ v.fault.kind = "secret" => v.post # 0 /\ p[v.post].status = 200

Spaced(p) == \A i, j \in 1 .. Len(p) : i < j => p[j].at - p[i].at >= MintInterval

CredInv ==
    /\ posts \in Seq({posts[i] : i \in 1 .. Len(posts)})
    /\ \A i \in 1 .. Len(posts) : DOMAIN posts[i] = {"at", "done", "status"} /\ posts[i].at \in Nat
    /\ tick \in Nat
    /\ IF Len(posts) = 0 THEN lastMintAt = -1
       ELSE lastMintAt = posts[Len(posts)].at /\ lastMintAt <= tick
    /\ Spaced(posts)
    /\ \A v \in verdicts : VerdictOf(v, posts)

LEMMA CredStart == CredInit => CredInv
  <1> SUFFICES ASSUME CredInit PROVE CredInv
    OBVIOUS
  <1>1. posts = <<>> /\ tick = 0 /\ lastMintAt = -1 /\ verdicts = {}
    BY DEF CredInit
  <1>2. posts \in Seq({}) /\ Len(posts) = 0
    BY <1>1
  <1>a. posts \in Seq({posts[i] : i \in 1 .. Len(posts)})
    BY <1>2, OwnElements
  <1>3. QED
    BY <1>1, <1>2, <1>a DEF CredInv, Spaced

LEMMA ConcludedKeeps ==
    ASSUME CredInv, NEW i \in DOMAIN posts, ~posts[i].done, NEW status \in Nat, NEW verdict,
           Concluded(i, status, verdict),
           verdict.kind = "auth" => status \in {401, 403},
           verdict.kind = "secret" => status = 200
    PROVE  CredInv'
  <1>1. /\ posts' = [posts EXCEPT ![i].done = TRUE, ![i].status = status]
        /\ verdicts' = verdicts \cup {[post |-> i, fault |-> verdict]}
        /\ tick' = tick /\ lastMintAt' = lastMintAt
    BY DEF Concluded
  <1> DEFINE post == [posts[i] EXCEPT !.done = TRUE, !.status = status]
             S == {posts[k] : k \in 1 .. Len(posts)}
  <1>0. posts \in Seq(S) /\ tick \in Nat
    BY DEF CredInv
  <1> HIDE DEF S
  <1>2. i \in 1 .. Len(posts) /\ DOMAIN posts[i] = {"at", "done", "status"}
    <2>1. i \in 1 .. Len(posts)
      BY <1>0
    <2>2. QED
      BY <2>1 DEF CredInv
  <1>a. posts' = [posts EXCEPT ![i] = post]
    BY <1>1, <1>0, <1>2
  <1>b. /\ DOMAIN post = {"at", "done", "status"} /\ post.done /\ post.status = status
        /\ post.at = posts[i].at
    BY <1>2
  <1> HIDE DEF post
  <1>c. /\ posts' \in Seq(S \cup {post}) /\ Len(posts') = Len(posts) /\ posts'[i] = post
        /\ \A k \in 1 .. Len(posts) : k # i => posts'[k] = posts[k]
    BY <1>0, <1>2, <1>a
  <1>d. posts' \in Seq({posts'[k] : k \in 1 .. Len(posts')})
    BY <1>c, OwnElements
  <1>3. /\ posts'[i].done /\ posts'[i].status = status
        /\ \A k \in 1 .. Len(posts) : posts'[k].at = posts[k].at
        /\ \A k \in 1 .. Len(posts) : DOMAIN posts'[k] = {"at", "done", "status"}
        /\ \A k \in 1 .. Len(posts) : posts[k].at \in Nat
    <2>1. \A k \in 1 .. Len(posts) :
             DOMAIN posts[k] = {"at", "done", "status"} /\ posts[k].at \in Nat
      BY DEF CredInv
    <2>2. \A k \in 1 .. Len(posts) : k = i \/ posts'[k] = posts[k]
      BY <1>c
    <2>3. posts'[i] = post
      BY <1>c
    <2>4. QED
      BY <1>b, <2>1, <2>2, <2>3, SMTT(30)
  <1>4. ASSUME NEW v \in verdicts' PROVE VerdictOf(v, posts')
    <2>1. CASE v \in verdicts
      <3>1. VerdictOf(v, posts)
        BY <2>1 DEF CredInv
      <3>a. v.post # 0 => v.post # i
        BY <3>1 DEF VerdictOf
      <3>2. v.post # 0 => posts'[v.post] = posts[v.post]
        BY <1>c, <3>1, <3>a DEF VerdictOf
      <3>3. QED
        BY <1>c, <3>1, <3>2 DEF VerdictOf
    <2>2. CASE v = [post |-> i, fault |-> verdict]
      <3>1. v.post = i /\ v.fault = verdict /\ i # 0
        BY <1>2, <2>2
      <3>2. QED
        BY <1>2, <1>c, <1>3, <3>1 DEF VerdictOf
    <2>3. QED
      BY <1>1, <2>1, <2>2
  <1>5. /\ tick' \in Nat
        /\ IF Len(posts') = 0 THEN lastMintAt' = -1
           ELSE lastMintAt' = posts'[Len(posts')].at /\ lastMintAt' <= tick'
    <2>1. Len(posts) # 0 /\ Len(posts) \in 1 .. Len(posts)
      BY <1>0, <1>2
    <2>2. posts'[Len(posts)].at = posts[Len(posts)].at
      BY <1>3, <2>1
    <2>3. QED
      BY <1>1, <1>c, <2>1, <2>2 DEF CredInv
  <1>6. Spaced(posts')
    BY <1>c, <1>3 DEF CredInv, Spaced
  <1>7. \A k \in 1 .. Len(posts') : DOMAIN posts'[k] = {"at", "done", "status"} /\ posts'[k].at \in Nat
    BY <1>c, <1>3
  <1>8. QED
    BY <1>7, <1>d, <1>4, <1>5, <1>6 DEF CredInv

LEMMA CredNextKeeps == CredInv /\ [CredNext]_credVars => CredInv'
  <1> SUFFICES ASSUME CredInv, [CredNext]_credVars PROVE CredInv'
    OBVIOUS
  <1> DEFINE S == {posts[i] : i \in 1 .. Len(posts)}
  <1>0. posts \in Seq(S) /\ tick \in Nat /\ MintInterval \in Nat
    BY CredentialsAssumption DEF CredInv
  <1> HIDE DEF S
  <1>1. CASE Mint
    <2>1. CASE lastMintAt # -1 /\ tick - lastMintAt < MintInterval
      <3>1. /\ verdicts' = verdicts \cup {[post |-> 0, fault |-> Fault("offline", TRUE)]}
            /\ UNCHANGED <<tick, lastMintAt, posts>>
        BY <1>1, <2>1 DEF Mint
      <3>2. Fault("offline", TRUE).kind = "offline"
        BY DEF Fault
      <3> DEFINE v == [post |-> 0, fault |-> Fault("offline", TRUE)]
      <3>3. VerdictOf(v, posts)
        BY <3>2 DEF VerdictOf
      <3> HIDE DEF v
      <3>4. verdicts' = verdicts \cup {v}
        BY <3>1 DEF v
      <3>5. QED
        BY <3>1, <3>3, <3>4 DEF CredInv
    <2>2. CASE ~(lastMintAt # -1 /\ tick - lastMintAt < MintInterval)
      <3> DEFINE new == [at |-> tick, done |-> FALSE, status |-> 0]
      <3>1. /\ lastMintAt' = tick /\ posts' = Append(posts, new)
            /\ UNCHANGED <<tick, verdicts>>
        BY <1>1, <2>2 DEF Mint, Stamps
      <3>2. DOMAIN new = {"at", "done", "status"} /\ new.at = tick
        OBVIOUS
      <3> HIDE DEF new
      <3>a. /\ posts' \in Seq(S \cup {new}) /\ Len(posts') = Len(posts) + 1 /\ Len(posts) \in Nat
            /\ posts'[Len(posts) + 1] = new
            /\ \A i \in 1 .. Len(posts) : posts'[i] = posts[i]
        BY <1>0, <3>1
      <3>b. posts' \in Seq({posts'[i] : i \in 1 .. Len(posts')})
        BY <3>a, OwnElements
      <3>3. /\ \A i \in 1 .. Len(posts) : posts'[i] = posts[i] /\ posts[i].at \in Nat
            /\ posts'[Len(posts) + 1].at = tick /\ Len(posts) \in Nat
            /\ Len(posts') = Len(posts) + 1
            /\ \A i \in 1 .. Len(posts') :
                  DOMAIN posts'[i] = {"at", "done", "status"} /\ posts'[i].at \in Nat
        <4>1. \A k \in 1 .. Len(posts) :
                 DOMAIN posts[k] = {"at", "done", "status"} /\ posts[k].at \in Nat
          BY DEF CredInv
        <4>2. \A k \in 1 .. Len(posts') : k \in 1 .. Len(posts) \/ k = Len(posts) + 1
          BY <3>a
        <4>3. QED
          BY <1>0, <3>2, <3>a, <4>1, <4>2
      <3>4. ASSUME NEW i \in 1 .. Len(posts) PROVE tick - posts[i].at >= MintInterval
        <4> DEFINE n == Len(posts)
        <4>1. n # 0 /\ n \in 1 .. n /\ lastMintAt = posts[n].at /\ lastMintAt <= tick
          BY <3>3 DEF CredInv
        <4>a. posts[n].at \in Nat
          BY <3>3, <4>1
        <4>2. tick - posts[n].at >= MintInterval
          BY <2>2, <1>0, <4>a, <4>1
        <4>3. CASE i = n
          BY <4>2, <4>3
        <4>4. CASE i < n
          <5>1. posts[n].at - posts[i].at >= MintInterval
            BY <4>1, <4>4 DEF CredInv, Spaced
          <5>2. QED
            BY <1>0, <3>3, <4>a, <4>2, <5>1
        <4>5. QED
          BY <3>3, <4>3, <4>4
      <3>5. Spaced(posts')
        <4> SUFFICES ASSUME NEW i \in 1 .. Len(posts'), NEW j \in 1 .. Len(posts'), i < j
                     PROVE  posts'[j].at - posts'[i].at >= MintInterval
          BY DEF Spaced
        <4>1. i \in 1 .. Len(posts) /\ posts'[i] = posts[i]
          BY <3>3
        <4>a. posts[i].at \in Nat
          BY <3>3, <4>1
        <4>2. CASE j = Len(posts) + 1
          BY <3>3, <3>4, <4>1, <4>2
        <4>3. CASE j \in 1 .. Len(posts)
          <5>1. posts'[j] = posts[j] /\ Spaced(posts)
            BY <3>3, <4>3 DEF CredInv
          <5>2. posts[j].at - posts[i].at >= MintInterval
            BY <4>1, <4>3, <5>1 DEF Spaced
          <5>3. QED
            BY <4>1, <5>1, <5>2
        <4>b. Len(posts') = Len(posts) + 1 /\ Len(posts) \in Nat
          BY <3>3
        <4>c. j = Len(posts) + 1 \/ j \in 1 .. Len(posts)
          BY <4>b
        <4>4. QED
          BY <4>2, <4>3, <4>c
      <3>6. \A v \in verdicts' : VerdictOf(v, posts')
        <4> SUFFICES ASSUME NEW v \in verdicts PROVE VerdictOf(v, posts')
          BY <3>1
        <4>1. VerdictOf(v, posts)
          BY DEF CredInv
        <4>2. v.post # 0 => v.post \in 1 .. Len(posts') /\ posts'[v.post] = posts[v.post]
          BY <3>3, <4>1 DEF VerdictOf
        <4>3. QED
          BY <4>1, <4>2 DEF VerdictOf
      <3>7. IF Len(posts') = 0 THEN lastMintAt' = -1
            ELSE lastMintAt' = posts'[Len(posts')].at /\ lastMintAt' <= tick'
        BY <1>0, <3>1, <3>3
      <3>8. QED
        BY <1>0, <3>1, <3>3, <3>b, <3>5, <3>6, <3>7 DEF CredInv
    <2>3. QED
      BY <2>1, <2>2
  <1>2. CASE Answers
    <2>1. PICK i \in DOMAIN posts, status \in Statuses, body \in SecretBodies :
            /\ ~posts[i].done
            /\ Concluded(i, IF status = 200 /\ (~body.json \/ "none" \in {body.value, body.id}) THEN 206 ELSE status,
                         IF status = 200 THEN ParseClientSecret(body, posts[i].at) ELSE FaultForStatus(status))
      BY <1>2 DEF Answers
    <2> DEFINE verdict == IF status = 200 THEN ParseClientSecret(body, posts[i].at) ELSE FaultForStatus(status)
               answered == IF status = 200 /\ (~body.json \/ "none" \in {body.value, body.id}) THEN 206 ELSE status
    <2>2. answered \in Nat
      BY DEF Statuses
    <2>3. verdict.kind = "auth" => answered \in {401, 403}
      BY DEF ParseClientSecret, FaultForStatus, Fault
    <2>4. verdict.kind = "secret" => answered = 200
      BY DEF ParseClientSecret, FaultForStatus, Fault
    <2> HIDE DEF verdict, answered
    <2>5. Concluded(i, answered, verdict)
      BY <2>1 DEF verdict, answered
    <2>6. QED
      BY <2>1, <2>2, <2>3, <2>4, <2>5, ConcludedKeeps
  <1>3. CASE Unreachable
    <2>1. PICK i \in DOMAIN posts : ~posts[i].done /\ Concluded(i, 0, Fault("offline", TRUE))
      BY <1>3 DEF Unreachable
    <2>2. Fault("offline", TRUE).kind = "offline"
      BY DEF Fault
    <2> DEFINE fault == Fault("offline", TRUE)
    <2> HIDE DEF fault
    <2>3. fault.kind = "offline" /\ Concluded(i, 0, fault)
      BY <2>1, <2>2 DEF fault
    <2>4. QED
      BY <2>1, <2>3, ConcludedKeeps
  <1>4. CASE CredTick
    <2>1. tick' = tick + 1 /\ UNCHANGED <<lastMintAt, posts, verdicts>>
      BY <1>4 DEF CredTick
    <2>2. Len(posts) # 0 => Len(posts) \in 1 .. Len(posts)
      BY <1>0
    <2>3. Len(posts) # 0 => lastMintAt \in Nat
      BY <2>2 DEF CredInv
    <2>4. QED
      BY <1>0, <2>1, <2>3 DEF CredInv
  <1>5. CASE UNCHANGED credVars
    BY <1>5 DEF credVars, CredInv
  <1>6. QED
    BY <1>1, <1>2, <1>3, <1>4, <1>5 DEF CredNext

LEMMA MintsSpaced == CredInv => MintsAreSpaced
  <1> SUFFICES ASSUME CredInv PROVE MintsAreSpaced
    OBVIOUS
  <1>1. DOMAIN posts = 1 .. Len(posts)
    BY DEF CredInv
  <1>2. QED
    BY <1>1 DEF CredInv, Spaced, VerdictOf, MintsAreSpaced

-----------------------------------------------------------------------------
(* The silent session *)

Places(s, y) == {i \in DOMAIN s : s[i] = y}
Once(T) == \E k : T = {k}

\* An edge is sent once or not at all, and only a turn whose timer runs lacks its second one.
SilentInv ==
    /\ begun \in Nat /\ disposed \in BOOLEAN
    /\ silentEdges \in Seq({silentEdges[i] : i \in 1 .. Len(silentEdges)})
    /\ pending \subseteq heldTurns /\ heldTurns \subseteq 1 .. begun
    /\ disposed => pending = {}
    /\ \A id \in Nat :
          LET started == Places(silentEdges, <<"started", id>>)
              ended == Places(silentEdges, <<"ended", id>>)
          IN /\ id \notin heldTurns => started = {} /\ ended = {}
             /\ id \in pending => Once(started) /\ ended = {}
             /\ id \in heldTurns \ pending =>
                   \/ started = {} /\ ended = {}
                   \/ Once(started) /\ Once(ended)
                   \/ Once(started) /\ ended = {} /\ disposed

LEMMA SilentStart == SilentInit => SilentInv
  <1> SUFFICES ASSUME SilentInit PROVE SilentInv
    OBVIOUS
  <1>1. begun = 0 /\ heldTurns = {} /\ pending = {} /\ silentEdges = <<>> /\ disposed = FALSE
    BY DEF SilentInit
  <1>2. silentEdges \in Seq({}) /\ DOMAIN silentEdges = {}
    BY <1>1
  <1>3. silentEdges \in Seq({silentEdges[i] : i \in 1 .. Len(silentEdges)})
    BY <1>2, OwnElements
  <1>4. \A y : Places(silentEdges, y) = {}
    BY <1>2 DEF Places
  <1>5. QED
    BY <1>1, <1>3, <1>4 DEF SilentInv

LEMMA PlacesAppended ==
    ASSUME NEW S, NEW s \in Seq(S), NEW x
    PROVE  /\ \A y : x # y => Places(Append(s, x), y) = Places(s, y)
           /\ Places(Append(s, x), x) = Places(s, x) \cup {Len(s) + 1}
  <1>1. /\ Append(s, x) \in Seq(S \cup {x}) /\ Len(Append(s, x)) = Len(s) + 1 /\ Len(s) \in Nat
        /\ Append(s, x)[Len(s) + 1] = x
        /\ \A i \in 1 .. Len(s) : Append(s, x)[i] = s[i]
    OBVIOUS
  <1>2. DOMAIN s = 1 .. Len(s) /\ DOMAIN Append(s, x) = 1 .. Len(s) + 1
    BY <1>1
  <1> DEFINE t == Append(s, x)
  <1> HIDE DEF t
  <1>3. \A i : i \in DOMAIN t <=> i \in DOMAIN s \/ i = Len(s) + 1
    BY <1>1, <1>2 DEF t
  <1>4. \A i \in DOMAIN s : t[i] = s[i]
    BY <1>1, <1>2 DEF t
  <1>5. t[Len(s) + 1] = x
    BY <1>1 DEF t
  <1>6. \A y : x # y => Places(t, y) = Places(s, y)
    BY <1>3, <1>4, <1>5 DEF Places
  <1>7. Places(t, x) = Places(s, x) \cup {Len(s) + 1}
    BY <1>3, <1>4, <1>5 DEF Places
  <1>8. QED
    BY <1>6, <1>7 DEF t

LEMMA PlacesJoined ==
    ASSUME NEW S, NEW s \in Seq(S), NEW t \in Seq(S), NEW y
    PROVE  /\ Places(t, y) = {} => Places(s \o t, y) = Places(s, y)
           /\ Places(s \o t, y) = Places(s, y) \cup {Len(s) + k : k \in Places(t, y)}
  <1> DEFINE u == s \o t
  <1>1. /\ Len(s) \in Nat /\ Len(t) \in Nat /\ DOMAIN s = 1 .. Len(s) /\ DOMAIN t = 1 .. Len(t)
        /\ u \in Seq(S) /\ Len(u) = Len(s) + Len(t) /\ DOMAIN u = 1 .. Len(u)
        /\ \A i \in 1 .. Len(s) : u[i] = s[i]
        /\ \A i \in 1 .. Len(t) : u[Len(s) + i] = t[i]
    OBVIOUS
  <1> HIDE DEF u
  <1>2. \A i \in DOMAIN u : i \in DOMAIN s \/ (i - Len(s) \in DOMAIN t /\ i = Len(s) + (i - Len(s)))
    BY <1>1
  <1>3. \A i \in DOMAIN s : i \in DOMAIN u /\ u[i] = s[i]
    BY <1>1
  <1>4. \A i \in DOMAIN t : Len(s) + i \in DOMAIN u /\ u[Len(s) + i] = t[i]
    BY <1>1
  <1>5. ASSUME NEW i \in Places(u, y), i \notin DOMAIN s
        PROVE  i \in {Len(s) + k : k \in Places(t, y)}
    <2>1. i \in DOMAIN u /\ u[i] = y
      BY <1>5 DEF Places
    <2>2. i - Len(s) \in DOMAIN t /\ i = Len(s) + (i - Len(s))
      BY <1>2, <1>5, <2>1
    <2>3. t[i - Len(s)] = y
      BY <1>4, <2>1, <2>2
    <2>4. QED
      BY <2>2, <2>3 DEF Places
  <1>6. \A i \in Places(u, y) : i \in DOMAIN s => i \in Places(s, y)
    BY <1>3 DEF Places
  <1>7. Places(s, y) \subseteq Places(u, y)
    BY <1>3 DEF Places
  <1>8. \A k \in Places(t, y) : Len(s) + k \in Places(u, y)
    BY <1>4 DEF Places
  <1>9. Places(u, y) = Places(s, y) \cup {Len(s) + k : k \in Places(t, y)}
    BY <1>5, <1>6, <1>7, <1>8
  <1>10. QED
    BY <1>9 DEF u

\* The timers that are cancelled each send their second edge.
LEMMA EndingKeeps ==
    ASSUME SilentInv, NEW ids, EndPending(ids), begun' = begun, disposed' = disposed,
           heldTurns \subseteq heldTurns', heldTurns' \subseteq 1 .. begun
    PROVE  SilentInv'
  <1> DEFINE T == ids \cap pending
             n == Cardinality(T)
             S == {silentEdges[i] : i \in 1 .. Len(silentEdges)}
             R == {<<"ended", id>> : id \in T}
  <1>1. silentEdges \in Seq(S) /\ begun \in Nat /\ T \subseteq 1 .. begun /\ pending' = pending \ ids
    BY DEF SilentInv, EndPending
  <1>2. IsFiniteSet(T)
    BY <1>1, FS_Interval, FS_Subset
  <1>3. n \in Nat
    BY <1>2, FS_CardinalityType
  <1>4. PICK order \in [1 .. n -> T] :
          /\ \A i, j \in 1 .. n : i < j => order[i] < order[j]
          /\ silentEdges' = silentEdges \o [i \in 1 .. n |-> <<"ended", order[i]>>]
    BY DEF EndPending
  <1> DEFINE t == [i \in 1 .. n |-> <<"ended", order[i]>>]
  <1> HIDE DEF T, n, S
  <1>5. t \in Seq(S \cup R) /\ silentEdges \in Seq(S \cup R) /\ DOMAIN t = 1 .. n
    BY <1>1, <1>3, <1>4
  <1>6. silentEdges' = silentEdges \o t
    BY <1>4
  <1>7. order \in Surjection(1 .. n, T) /\ \A i, j \in 1 .. n : order[i] = order[j] => i = j
    <2>1. ASSUME NEW i \in 1 .. n, NEW j \in 1 .. n, order[i] = order[j] PROVE i = j
      <3>a. order[i] \in T /\ order[j] \in T
        BY <1>4
      <3>b. \A k \in T : k \in Int
        BY <1>1
      <3>1. order[i] \in Int /\ order[j] \in Int
        BY <3>a, <3>b
      <3>c. i < j \/ j < i \/ i = j
        BY <1>3
      <3>2. QED
        BY <1>4, <2>1, <3>1, <3>c
    <2>2. order \in Injection(1 .. n, T)
      BY <1>4, <2>1 DEF Injection, IsInjective
    <2>3. Cardinality(1 .. n) = n
      BY <1>3, FS_Interval
    <2>4. QED
      BY <1>2, <2>1, <2>2, <2>3, FS_Injection DEF n
  <1>8. \A i \in 1 .. n : t[i] = <<"ended", order[i]>>
    OBVIOUS
  <1> HIDE DEF t, R
  <1>9. silentEdges' \in Seq({silentEdges'[i] : i \in 1 .. Len(silentEdges')})
    <2>1. silentEdges' \in Seq(S \cup R)
      BY <1>5, <1>6
    <2>2. QED
      BY <2>1, OwnElements
  <1>10. \A id : Places(silentEdges', <<"started", id>>) = Places(silentEdges, <<"started", id>>)
    <2> SUFFICES ASSUME NEW id
                 PROVE  Places(silentEdges', <<"started", id>>) = Places(silentEdges, <<"started", id>>)
      OBVIOUS
    <2> DEFINE y == <<"started", id>>
    <2>1. Places(t, y) = {}
      BY <1>5, <1>8 DEF Places
    <2> HIDE DEF y
    <2>2. Places(silentEdges', y) = Places(silentEdges, y)
      BY <1>5, <1>6, <2>1, PlacesJoined
    <2>3. QED
      BY <2>2 DEF y
  <1>11. \A id : id \notin T => Places(silentEdges', <<"ended", id>>) = Places(silentEdges, <<"ended", id>>)
    <2> SUFFICES ASSUME NEW id, id \notin T
                 PROVE  Places(silentEdges', <<"ended", id>>) = Places(silentEdges, <<"ended", id>>)
      OBVIOUS
    <2> DEFINE y == <<"ended", id>>
    <2>1. Places(t, y) = {}
      BY <1>4, <1>5, <1>8 DEF Places
    <2> HIDE DEF y
    <2>2. Places(silentEdges', y) = Places(silentEdges, y)
      BY <1>5, <1>6, <2>1, PlacesJoined
    <2>3. QED
      BY <2>2 DEF y
  <1>12. ASSUME NEW id \in T, Places(silentEdges, <<"ended", id>>) = {}
         PROVE  Once(Places(silentEdges', <<"ended", id>>))
    <2>1. PICK k \in 1 .. n : order[k] = id
      BY <1>7 DEF Surjection
    <2> DEFINE y == <<"ended", id>>
    <2>2. Places(t, y) = {k}
      BY <1>5, <1>7, <1>8, <2>1 DEF Places
    <2>3. Places(silentEdges, y) = {}
      BY <1>12
    <2> HIDE DEF y
    <2>a. Places(silentEdges', y) = Places(silentEdges, y) \cup {Len(silentEdges) + m : m \in Places(t, y)}
      BY <1>5, <1>6, PlacesJoined
    <2>4. Places(silentEdges', y) = Places(silentEdges, y) \cup {Len(silentEdges) + k}
      BY <2>2, <2>a
    <2>5. Once(Places(silentEdges', y))
      BY <2>3, <2>4 DEF Once
    <2>6. QED
      BY <2>5 DEF y
  <1>13. /\ pending' \subseteq heldTurns' /\ heldTurns' \subseteq 1 .. begun'
         /\ disposed' => pending' = {}
         /\ begun' \in Nat /\ disposed' \in BOOLEAN
    BY <1>1 DEF SilentInv
  <1>14. ASSUME NEW id \in Nat
         PROVE  LET started == Places(silentEdges', <<"started", id>>)
                    ended == Places(silentEdges', <<"ended", id>>)
                IN /\ id \notin heldTurns' => started = {} /\ ended = {}
                   /\ id \in pending' => Once(started) /\ ended = {}
                   /\ id \in heldTurns' \ pending' =>
                         \/ started = {} /\ ended = {}
                         \/ Once(started) /\ Once(ended)
                         \/ Once(started) /\ ended = {} /\ disposed'
    <2> DEFINE started == Places(silentEdges, <<"started", id>>)
               ended == Places(silentEdges, <<"ended", id>>)
    <2>1. /\ id \notin heldTurns => started = {} /\ ended = {}
          /\ id \in pending => Once(started) /\ ended = {}
          /\ id \in heldTurns \ pending =>
                \/ started = {} /\ ended = {}
                \/ Once(started) /\ Once(ended)
                \/ Once(started) /\ ended = {} /\ disposed
          /\ pending \subseteq heldTurns
      BY DEF SilentInv
    <2>2. CASE id \in T
      <3>1. id \in pending /\ id \notin pending' /\ id \in heldTurns'
        BY <1>1, <2>1, <2>2 DEF T
      <3>2. QED
        BY <1>10, <1>12, <2>1, <2>2, <3>1
    <2>3. CASE id \notin T
      <3>1. id \in pending <=> id \in pending'
        BY <1>1, <2>3 DEF T
      <3>2. QED
        BY <1>10, <1>11, <2>1, <2>3, <3>1
    <2>4. QED
      BY <2>2, <2>3
  <1>15. QED
    BY <1>9, <1>13, <1>14 DEF SilentInv

LEMMA SilentNextKeeps == SilentInv /\ [SilentNext]_silentVars => SilentInv'
  <1> SUFFICES ASSUME SilentInv, [SilentNext]_silentVars PROVE SilentInv'
    OBVIOUS
  <1> DEFINE S == {silentEdges[i] : i \in 1 .. Len(silentEdges)}
  <1>0. silentEdges \in Seq(S)
    BY DEF SilentInv
  <1> HIDE DEF S
  <1>1. CASE BeginSilent
    <2>1. begun' = begun + 1 /\ UNCHANGED <<heldTurns, pending, silentEdges, disposed>>
      BY <1>1 DEF BeginSilent
    <2>2. begun' \in Nat /\ heldTurns' \subseteq 1 .. begun'
      BY <2>1 DEF SilentInv
    <2>3. QED
      BY <2>1, <2>2 DEF SilentInv
  <1>2. CASE Speak
    <2>1. PICK id \in 1 .. begun :
            /\ ~disposed /\ id \notin heldTurns
            /\ heldTurns' = heldTurns \cup {id} /\ pending' = pending \cup {id}
            /\ silentEdges' = Append(silentEdges, <<"started", id>>)
            /\ UNCHANGED <<begun, disposed>>
      BY <1>2 DEF Speak
    <2> DEFINE x == <<"started", id>>
    <2>2. \A k : x = <<"started", k>> <=> k = id
      OBVIOUS
    <2>3. \A k : x # <<"ended", k>>
      OBVIOUS
    <2>4. silentEdges' = Append(silentEdges, x)
      BY <2>1
    <2> HIDE DEF x
    <2>5. \A k : k # id => Places(silentEdges', <<"started", k>>) = Places(silentEdges, <<"started", k>>)
      BY <1>0, <2>2, <2>4, PlacesAppended
    <2>6. \A k : Places(silentEdges', <<"ended", k>>) = Places(silentEdges, <<"ended", k>>)
      BY <1>0, <2>3, <2>4, PlacesAppended
    <2>7. Places(silentEdges', x) = Places(silentEdges, x) \cup {Len(silentEdges) + 1}
      BY <1>0, <2>4, PlacesAppended
    <2>8. /\ silentEdges' \in Seq({silentEdges'[i] : i \in 1 .. Len(silentEdges')})
      <3>1. silentEdges' \in Seq(S \cup {x})
        BY <1>0, <2>4
      <3>2. QED
        BY <3>1, OwnElements
    <2>9. id \in Nat /\ begun \in Nat
      BY DEF SilentInv
    <2>10. Once(Places(silentEdges', <<"started", id>>))
      <3>1. Places(silentEdges, <<"started", id>>) = {}
        BY <2>1, <2>9 DEF SilentInv
      <3>2. QED
        BY <2>7, <3>1 DEF Once, x
    <2>11. QED
      BY <2>1, <2>5, <2>6, <2>8, <2>9, <2>10 DEF SilentInv
  <1>3. CASE CancelTurn
    <2>1. PICK id \in 1 .. begun :
            EndPending({id}) /\ heldTurns' = heldTurns \cup {id} /\ UNCHANGED <<begun, disposed>>
      BY <1>3 DEF CancelTurn
    <2>2. heldTurns \subseteq heldTurns' /\ heldTurns' \subseteq 1 .. begun
      BY <2>1 DEF SilentInv
    <2>3. QED
      BY <2>1, <2>2, EndingKeeps
  <1>4. CASE AbortAll
    <2>1. EndPending(pending) /\ UNCHANGED <<begun, heldTurns, disposed>>
      BY <1>4 DEF AbortAll
    <2>2. heldTurns \subseteq heldTurns' /\ heldTurns' \subseteq 1 .. begun
      BY <2>1 DEF SilentInv
    <2>3. QED
      BY <2>1, <2>2, EndingKeeps
  <1>5. CASE SpeechTimer
    <2>1. PICK id \in pending :
            /\ pending' = pending \ {id}
            /\ silentEdges' = Append(silentEdges, <<"ended", id>>)
            /\ UNCHANGED <<begun, heldTurns, disposed>>
      BY <1>5 DEF SpeechTimer
    <2> DEFINE x == <<"ended", id>>
    <2>2. \A k : x = <<"ended", k>> <=> k = id
      OBVIOUS
    <2>3. \A k : x # <<"started", k>>
      OBVIOUS
    <2>4. silentEdges' = Append(silentEdges, x)
      BY <2>1
    <2> HIDE DEF x
    <2>5. \A k : k # id => Places(silentEdges', <<"ended", k>>) = Places(silentEdges, <<"ended", k>>)
      BY <1>0, <2>2, <2>4, PlacesAppended
    <2>6. \A k : Places(silentEdges', <<"started", k>>) = Places(silentEdges, <<"started", k>>)
      BY <1>0, <2>3, <2>4, PlacesAppended
    <2>7. Places(silentEdges', x) = Places(silentEdges, x) \cup {Len(silentEdges) + 1}
      BY <1>0, <2>4, PlacesAppended
    <2>8. /\ silentEdges' \in Seq({silentEdges'[i] : i \in 1 .. Len(silentEdges')})
      <3>1. silentEdges' \in Seq(S \cup {x})
        BY <1>0, <2>4
      <3>2. QED
        BY <3>1, OwnElements
    <2>9. id \in Nat /\ begun \in Nat /\ id \in heldTurns
      BY DEF SilentInv
    <2>10. Once(Places(silentEdges', <<"ended", id>>))
      <3>1. Places(silentEdges, <<"ended", id>>) = {}
        BY <2>1, <2>9 DEF SilentInv
      <3>2. QED
        BY <2>7, <3>1 DEF Once, x
    <2>11. QED
      BY <2>1, <2>5, <2>6, <2>8, <2>9, <2>10 DEF SilentInv
  <1>6. CASE DisposeSilent
    <2>1. /\ disposed' = TRUE /\ pending' = {} /\ ~disposed
          /\ UNCHANGED <<begun, heldTurns, silentEdges>>
      BY <1>6 DEF DisposeSilent
    <2>2. QED
      BY <2>1 DEF SilentInv
  <1>7. CASE UNCHANGED silentVars
    BY <1>7 DEF silentVars, SilentInv
  <1>8. QED
    BY <1>1, <1>2, <1>3, <1>4, <1>5, <1>6, <1>7 DEF SilentNext

LEMMA TurnsClose == SilentInv => ClosesEachTurn
  <1> SUFFICES ASSUME SilentInv, NEW id \in 1 .. begun
               PROVE  /\ Times("started", id) <= 1
                      /\ Times("ended", id) <= Times("started", id)
                      /\ id \notin pending /\ ~disposed => Times("ended", id) = Times("started", id)
    BY DEF ClosesEachTurn
  <1> DEFINE started == Places(silentEdges, <<"started", id>>)
             ended == Places(silentEdges, <<"ended", id>>)
  <1>1. Times("started", id) = Cardinality(started) /\ Times("ended", id) = Cardinality(ended)
    BY DEF Times, Places
  <1>2. id \in Nat
    BY DEF SilentInv
  <1>3. \/ started = {} /\ ended = {}
        \/ Once(started) /\ Once(ended)
        \/ Once(started) /\ ended = {} /\ (disposed \/ id \in pending)
    BY <1>2 DEF SilentInv
  <1> HIDE DEF started, ended
  <1>4. \A T : Once(T) => Cardinality(T) = 1
    BY FS_Singleton DEF Once
  <1>5. Cardinality({}) = 0
    BY FS_EmptySet
  <1>6. QED
    BY <1>1, <1>3, <1>4, <1>5

-----------------------------------------------------------------------------
(* The microphone, the ducking and the resampler *)

\* Rounding up, and when a number is what it gives.
LEMMA RoundedUp ==
    ASSUME NEW w \in Nat \ {0}, NEW r \in Nat \ {0}
    PROVE  LET c == (w + r - 1) \div r IN c \in Nat \ {0} /\ (c - 1) * r < w /\ w <= c * r
  <1> DEFINE v == w + r - 1
             c == v \div r
             m == v % r
  <1>1. v \in Nat /\ v >= r
    OBVIOUS
  <1> HIDE DEF v
  <1>2. c \in Nat /\ m \in 0 .. r - 1 /\ v = r * c + m
    BY <1>1
  <1> HIDE DEF c, m
  <1>3. r * c = c * r /\ (c - 1) * r = c * r - r
    BY <1>2
  <1>4. c # 0
    BY <1>1, <1>2
  <1>5. (c - 1) * r < w /\ w <= c * r
    BY <1>2, <1>3 DEF v
  <1>6. QED
    BY <1>2, <1>4, <1>5 DEF c, v

LEMMA RoundedUpIs ==
    ASSUME NEW w \in Nat \ {0}, NEW r \in Nat \ {0}, NEW c \in Nat, (c - 1) * r < w, w <= c * r
    PROVE  (w + r - 1) \div r = c
  <1> DEFINE m == w + r - 1 - c * r
  <1>1. (c - 1) * r = c * r - r /\ c * r \in Nat
    OBVIOUS
  <1>2. m \in 0 .. r - 1
    BY <1>1
  <1>3. w + r - 1 = c * r + m
    BY <1>1
  <1> HIDE DEF m
  <1>4. (c * r + m) \div r = c
    BY <1>2, DivMod
  <1>5. QED
    BY <1>3, <1>4

LEMMA AtLeast ==
    ASSUME NEW a \in Nat, NEW k \in Int, NEW t \in Nat \ {0}, k * t <= a
    PROVE  k <= a \div t
  <1> DEFINE q == a \div t
  <1>1. q \in Nat /\ a < (q + 1) * t
    OBVIOUS
  <1> HIDE DEF q
  <1>2. ASSUME k > q PROVE FALSE
    <2>1. q + 1 <= k /\ q + 1 \in Nat /\ k \in Nat
      BY <1>1, <1>2
    <2>2. (q + 1) * t <= k * t
      BY <2>1, Product
    <2>3. (q + 1) * t \in Nat /\ k * t \in Int
      BY <2>1, Product
    <2>4. QED
      BY <1>1, <2>2, <2>3
  <1>3. QED
    BY <1>1, <1>2 DEF q

LEMMA Distributes ==
    ASSUME NEW a \in Int, NEW b \in Int, NEW c \in Int
    PROVE  (a + b) * c = a * c + b * c /\ a * c \in Int /\ b * c \in Int
  OBVIOUS

MicInv ==
    /\ DOMAIN mic = {"open", "line", "quiet", "silent", "told", "sent", "clipped"}
    /\ mic.quiet \in 0 .. SilenceHold
    /\ mic.silent \in BOOLEAN /\ mic.told \in BOOLEAN
    /\ mic.told <=> mic.silent
    /\ mic.silent <=> mic.quiet = SilenceHold

DuckInv ==
    /\ DOMAIN duck = {"available", "enabled", "ducked", "quiet", "wanted"}
    /\ duck.quiet => duck.available /\ duck.enabled /\ duck.ducked /\ duck.wanted

\* What has come out lies behind what the buffer still holds by as much as has gone in.
StreamInv ==
    LET from == stream.rates.from
        to == stream.rates.to
        whole == (stream.fed - HalfWidth) * to
    IN /\ DOMAIN stream = {"rates", "tail", "phase", "fed", "made"}
       /\ stream.rates \in Rates
       /\ stream.fed \in Nat /\ stream.made \in Nat /\ stream.phase \in Nat /\ stream.tail \in Int
       /\ stream.phase + (stream.fed + HalfWidth - stream.tail) * to
            = HalfWidth * to + stream.made * from
       /\ stream.tail <= 2 * HalfWidth
       /\ stream.made = IF whole <= 0 THEN 0 ELSE (whole + from - 1) \div from

AudioInv == MicInv /\ DuckInv /\ StreamInv

LEMMA AudioStart == AudioInit => AudioInv
  <1> SUFFICES ASSUME AudioInit PROVE AudioInv
    OBVIOUS
  <1>0. SilenceHold \in Nat \ {0} /\ HalfWidth \in Nat
    BY AudioAssumption
  <1>1. MicInv
    BY <1>0 DEF AudioInit, MicInv
  <1>2. DuckInv
    BY DEF AudioInit, DuckInv
  <1>3. StreamInv
    <2>1. PICK r \in Rates : stream = [rates |-> r, tail |-> HalfWidth, phase |-> HalfWidth * r.to,
                                       fed |-> 0, made |-> 0]
      BY DEF AudioInit
    <2> DEFINE to == r.to
    <2>2. to \in Nat \ {0} /\ r.from \in Nat \ {0}
      BY AudioAssumption
    <2> HIDE DEF to
    <2>3. /\ HalfWidth * to \in Nat /\ (0 + HalfWidth - HalfWidth) * to = 0
          /\ (0 - HalfWidth) * to <= 0 /\ 0 * r.from = 0
      BY <1>0, <2>2
    <2>4. stream.rates.to = to
      BY <2>1 DEF to
    <2>5. stream.phase = HalfWidth * to
      BY <2>1 DEF to
    <2>6. QED
      BY <1>0, <2>1, <2>3, <2>4, <2>5 DEF StreamInv
  <1>4. QED
    BY <1>1, <1>2, <1>3 DEF AudioInv

LEMMA MicKeeps == MicInv /\ MicNext => MicInv' /\ UNCHANGED <<duck, stream>>
  <1> SUFFICES ASSUME MicInv, MicNext PROVE MicInv' /\ UNCHANGED <<duck, stream>>
    OBVIOUS
  <1>0. SilenceHold \in Nat \ {0}
    BY AudioAssumption
  <1>1. CASE Open
    BY <1>0, <1>1 DEF Open, Opening, MicInv
  <1>2. CASE Shut
    BY <1>2 DEF Shut, MicInv
  <1>3. ASSUME NEW speech \in BOOLEAN, Frames(speech) PROVE MicInv' /\ UNCHANGED <<duck, stream>>
    <2> DEFINE after == Detected(speech)
               line == IF PreRoll = 0 THEN mic.line
                       ELSE Append(Tail(mic.line), [said |-> speech, held |-> mic.open])
               passed == IF mic.open THEN "outbound" ELSE "nothing"
               clipped == mic.clipped \/ (~mic.open /\ Heard(mic.line, speech).said /\ Heard(mic.line, speech).held)
    <2>1. /\ mic' = [mic EXCEPT !.line = line, !.quiet = after.quiet, !.silent = after.silent,
                         !.told = IF after.silent # mic.silent THEN after.silent ELSE mic.told,
                         !.sent = passed, !.clipped = clipped]
          /\ UNCHANGED <<duck, stream>>
      BY <1>3 DEF Frames
    <2>2. after.silent \in BOOLEAN /\ after.quiet \in 0 .. SilenceHold
      BY <1>0 DEF Detected, MicInv
    <2>3. after.silent <=> after.quiet = SilenceHold
      <3>1. CASE speech
        <4>1. after.quiet = 0 /\ ~after.silent
          BY <3>1 DEF Detected
        <4>2. QED
          BY <1>0, <4>1
      <3>2. CASE ~speech /\ mic.silent
        <4>1. mic.quiet = SilenceHold
          BY <3>2 DEF MicInv
        <4>2. after.quiet = mic.quiet
          BY <1>0, <3>2, <4>1 DEF Detected
        <4>3. after.silent
          BY <3>2 DEF Detected
        <4>4. QED
          BY <4>1, <4>2, <4>3
      <3>3. CASE ~speech /\ ~mic.silent
        <4>1. after.silent <=> after.quiet = SilenceHold
          BY <3>3 DEF Detected
        <4>2. QED
          BY <4>1
      <3>4. QED
        BY <3>1, <3>2, <3>3
    <2> HIDE DEF after, line, passed, clipped
    <2>4. /\ DOMAIN mic' = DOMAIN mic /\ mic'.quiet = after.quiet /\ mic'.silent = after.silent
          /\ mic'.told = IF after.silent # mic.silent THEN after.silent ELSE mic.told
      BY <2>1 DEF MicInv
    <2>5. mic'.told \in BOOLEAN /\ (mic'.told <=> mic'.silent)
      BY <2>2, <2>4 DEF MicInv
    <2>6. QED
      BY <2>1, <2>2, <2>3, <2>4, <2>5 DEF MicInv
  <1>4. QED
    BY <1>1, <1>2, <1>3 DEF MicNext

LEMMA DuckKeeps == DuckInv /\ DuckNext => DuckInv' /\ UNCHANGED <<mic, stream>>
  <1> SUFFICES ASSUME DuckInv, DuckNext PROVE DuckInv' /\ UNCHANGED <<mic, stream>>
    OBVIOUS
  <1>1. ASSUME NEW on \in BOOLEAN, DuckSet(on) PROVE DuckInv'
    BY <1>1 DEF DuckSet, DuckInv, Restored
  <1>2. ASSUME NEW on \in BOOLEAN, DuckEnabled(on) PROVE DuckInv'
    BY <1>2 DEF DuckEnabled, DuckInv, Restored
  <1>3. QED
    BY <1>1, <1>2 DEF DuckNext

LEMMA ChunkKeeps ==
    ASSUME StreamInv, NEW n \in 1 .. MaxChunk, Chunk(n)
    PROVE  StreamInv'
  <1> DEFINE H == HalfWidth
             from == stream.rates.from
             to == stream.rates.to
             fed == stream.fed
             rest == stream.tail
             made == stream.made
             phase == stream.phase
             whole == (fed - H) * to
             ahead == (fed + n - H) * to
             length == rest + n
             room == (length - H) * to - phase
             out == Producible(phase, length)
             moved == phase + out * from
             kept == moved \div to - H
             gone == IF kept < 0 THEN 0 ELSE kept
  <1>1. /\ DOMAIN stream = {"rates", "tail", "phase", "fed", "made"} /\ stream.rates \in Rates
        /\ fed \in Nat /\ made \in Nat /\ phase \in Nat /\ rest \in Int /\ rest <= 2 * H
        /\ phase + (fed + H - rest) * to = H * to + made * from
        /\ made = IF whole <= 0 THEN 0 ELSE (whole + from - 1) \div from
    BY DEF StreamInv
  <1>2. H \in Nat /\ from \in Nat \ {0} /\ to \in Nat \ {0} /\ n \in Nat \ {0}
    BY <1>1, AudioAssumption
  <1>3. out = IF room <= 0 THEN 0 ELSE (room + from - 1) \div from
    BY DEF Producible
  <1>4. stream' = [stream EXCEPT !.tail = length - gone, !.phase = moved - gone * to,
                                 !.fed = fed + n, !.made = made + out]
    BY DEF Chunk
  <1> HIDE DEF H, from, to, fed, rest, made, phase, out
  <1>5. room = ahead - made * from
    <2>1. /\ (fed + H - rest) * to = fed * to + H * to - rest * to
          /\ (length - H) * to = rest * to + n * to - H * to
          /\ ahead = fed * to + n * to - H * to
      BY <1>1, <1>2
    <2>2. /\ fed * to \in Int /\ H * to \in Int /\ rest * to \in Int /\ n * to \in Int
          /\ made * from \in Int
      BY <1>1, <1>2
    <2>3. QED
      BY <1>1, <2>1, <2>2
  <1>6. ahead \in Int /\ whole \in Int /\ whole < ahead /\ made * from \in Nat /\ room \in Int
    <2>1. ahead = whole + n * to /\ whole \in Int /\ n * to \in Nat \ {0} /\ made * from \in Nat
      BY <1>1, <1>2
    <2>2. QED
      BY <1>5, <2>1
  <1> HIDE DEF whole, ahead, room
  <1>7. /\ out \in Nat /\ room <= out * from /\ out * from \in Nat
        /\ (made + out) * from = made * from + out * from
        /\ made + out = IF ahead <= 0 THEN 0 ELSE (ahead + from - 1) \div from
    <2>1. CASE room <= 0
      <3>1. out = 0 /\ out * from = 0 /\ made + out = made
        BY <1>1, <1>2, <1>3, <2>1
      <3>2. ahead <= made * from
        BY <1>5, <1>6, <2>1
      <3>3. CASE ahead <= 0
        <4>1. made = 0
          BY <1>1, <1>6, <3>3
        <4>2. QED
          BY <1>6, <2>1, <3>1, <3>3, <4>1
      <3>4. CASE ahead > 0
        <4>1. made # 0
          <5>1. 0 * from = 0
            BY <1>2
          <5>2. QED
            BY <1>6, <3>2, <3>4, <5>1
        <4>2. whole > 0 /\ made = (whole + from - 1) \div from
          BY <1>1, <1>6, <4>1
        <4>3. (made - 1) * from < whole
          BY <1>2, <1>6, <4>2, RoundedUp
        <4>4. (made - 1) * from < ahead
          <5>1. (made - 1) * from \in Int
            BY <1>1, <1>2
          <5>2. QED
            BY <1>6, <4>3, <5>1
        <4>a. ahead \in Nat \ {0}
          BY <1>6, <3>4
        <4>5. (ahead + from - 1) \div from = made
          BY <4>a, <1>1, <1>2, <1>6, <3>2, <3>4, <4>4, RoundedUpIs
        <4>6. QED
          BY <1>1, <1>6, <2>1, <3>1, <3>4, <4>5
      <3>5. QED
        BY <1>6, <3>3, <3>4
    <2>2. CASE room > 0
      <3>1. out = (room + from - 1) \div from
        BY <1>3, <1>6, <2>2
      <3>2. out \in Nat \ {0} /\ (out - 1) * from < room /\ room <= out * from
        BY <1>2, <1>6, <2>2, <3>1, RoundedUp
      <3>3. /\ (made + out) * from = made * from + out * from
            /\ ((made + out) - 1) * from = made * from + (out - 1) * from
            /\ out * from \in Nat /\ (out - 1) * from \in Int
        <4>1. (made + out) - 1 = made + (out - 1) /\ out - 1 \in Int /\ made \in Int /\ out \in Int /\ from \in Int
          BY <1>1, <1>2, <3>2
        <4>2. (made + (out - 1)) * from = made * from + (out - 1) * from /\ (out - 1) * from \in Int
          BY <4>1, Distributes
        <4>3. (made + out) * from = made * from + out * from
          BY <4>1, Distributes
        <4>4. out * from \in Nat
          BY <1>2, <3>2
        <4>5. QED
          BY <4>1, <4>2, <4>3, <4>4
      <3>4. ((made + out) - 1) * from < ahead /\ ahead <= (made + out) * from /\ ahead > 0
        BY <1>5, <1>6, <2>2, <3>2, <3>3
      <3>5. (ahead + from - 1) \div from = made + out
        <4>1. made + out \in Nat /\ ahead \in Nat \ {0}
          BY <1>1, <1>6, <3>2, <3>4
        <4> DEFINE c == made + out
        <4>2. c \in Nat /\ (c - 1) * from < ahead /\ ahead <= c * from
          BY <3>4, <4>1
        <4> HIDE DEF c
        <4>3. (ahead + from - 1) \div from = c
          BY <1>2, <4>1, <4>2, RoundedUpIs
        <4>4. QED
          BY <4>3 DEF c
      <3>6. QED
        BY <1>6, <3>2, <3>3, <3>4, <3>5
    <2>3. QED
      BY <1>6, <2>1, <2>2
  <1>8. moved \in Nat /\ (length - H) * to <= moved
    <2>1. (length - H) * to = room + phase /\ room \in Int
      <3>1. (length - H) * to \in Int
        BY <1>1, <1>2
      <3>2. QED
        BY <1>1, <1>6, <3>1 DEF room
    <2>2. moved = phase + out * from /\ phase \in Nat
      BY <1>1
    <2> HIDE DEF moved
    <2>3. QED
      BY <1>7, <2>1, <2>2
  <1>9. moved \div to \in Nat /\ (moved \div to) * to <= moved /\ length - H <= moved \div to
    <2>1. length - H \in Int
      BY <1>1, <1>2
    <2>2. length - H <= moved \div to
      BY <1>2, <1>8, <2>1, AtLeast
    <2> HIDE DEF moved
    <2>3. moved \div to \in Nat /\ (moved \div to) * to <= moved
      BY <1>2, <1>8
    <2>4. QED
      BY <2>2, <2>3
  <1> DEFINE q == moved \div to
  <1>10. q \in Nat /\ q * to <= moved /\ length - H <= q /\ kept = q - H
    BY <1>9
  <1> HIDE DEF q, kept
  <1>11. gone \in Nat /\ gone <= q /\ length - gone <= 2 * H
    <2>1. kept \in Int /\ length \in Int /\ length <= 2 * H + kept /\ kept <= q
      BY <1>1, <1>2, <1>10
    <2>2. QED
      BY <1>2, <1>10, <2>1
  <1> HIDE DEF gone
  <1>12. gone * to \in Nat /\ gone * to <= moved
    <2>1. gone * to <= q * to /\ gone * to \in Nat /\ q * to \in Nat
      BY <1>2, <1>10, <1>11, Product
    <2>2. QED
      BY <1>8, <1>10, <2>1
  <1> DEFINE phase2 == moved - gone * to
             tail2 == length - gone
  <1>13. phase2 + (fed + n + H - tail2) * to = H * to + (made + out) * from
    <2>1. /\ (fed + n + H - tail2) * to = (fed + H - rest) * to + gone * to
          /\ (fed + H - rest) * to \in Int /\ H * to \in Int
      BY <1>1, <1>2, <1>11
    <2>2. QED
      BY <1>1, <1>6, <1>7, <1>12, <2>1
  <1>14. phase2 \in Nat /\ tail2 \in Int /\ tail2 <= 2 * H
    BY <1>1, <1>2, <1>8, <1>11, <1>12
  <1>15. fed + n \in Nat /\ made + out \in Nat
    BY <1>1, <1>2, <1>7
  <1>16. stream' = [stream EXCEPT !.tail = tail2, !.phase = phase2, !.fed = fed + n, !.made = made + out]
    BY <1>4
  <1> DEFINE fed2 == fed + n
             made2 == made + out
  <1> HIDE DEF phase2, tail2, fed2, made2
  <1>17. /\ DOMAIN stream' = {"rates", "tail", "phase", "fed", "made"} /\ stream'.rates = stream.rates
         /\ stream'.tail = tail2 /\ stream'.phase = phase2 /\ stream'.fed = fed2 /\ stream'.made = made2
    BY <1>1, <1>16 DEF fed2, made2
  <1>18. /\ phase2 + (fed2 + H - tail2) * to = H * to + made2 * from
         /\ made2 = IF (fed2 - H) * to <= 0 THEN 0 ELSE ((fed2 - H) * to + from - 1) \div from
         /\ fed2 \in Nat /\ made2 \in Nat
    <2>1. phase2 + (fed2 + H - tail2) * to = H * to + made2 * from
      BY <1>13 DEF fed2, made2
    <2>2. made2 = IF (fed2 - H) * to <= 0 THEN 0 ELSE ((fed2 - H) * to + from - 1) \div from
      <3>1. (fed2 - H) * to = ahead
        BY <1>1, <1>2 DEF fed2, ahead
      <3>2. made2 = IF ahead <= 0 THEN 0 ELSE (ahead + from - 1) \div from
        BY <1>7 DEF made2
      <3>3. QED
        BY <3>1, <3>2
    <2>3. fed2 \in Nat /\ made2 \in Nat
      BY <1>15 DEF fed2, made2
    <2>4. QED
      BY <2>1, <2>2, <2>3
  <1>19. QED
    BY <1>1, <1>14, <1>17, <1>18 DEF StreamInv, H, from, to

LEMMA StreamKeeps == StreamInv /\ StreamNext => StreamInv' /\ UNCHANGED <<mic, duck>>
  <1> SUFFICES ASSUME StreamInv, StreamNext PROVE StreamInv' /\ UNCHANGED <<mic, duck>>
    OBVIOUS
  <1>1. CASE Fresh
    <2> DEFINE to == stream.rates.to
               from == stream.rates.from
    <2>1. /\ stream' = [stream EXCEPT !.tail = HalfWidth, !.phase = HalfWidth * to, !.fed = 0, !.made = 0]
          /\ UNCHANGED <<mic, duck>>
      BY <1>1 DEF Fresh
    <2>2. /\ DOMAIN stream = {"rates", "tail", "phase", "fed", "made"} /\ stream.rates \in Rates
      BY DEF StreamInv
    <2>3. to \in Nat \ {0} /\ from \in Nat \ {0} /\ HalfWidth \in Nat
      BY <2>2, AudioAssumption
    <2>4. stream'.rates.to = to /\ stream'.rates.from = from
      BY <2>1, <2>2
    <2>5. /\ DOMAIN stream' = DOMAIN stream /\ stream'.rates = stream.rates /\ stream'.tail = HalfWidth
          /\ stream'.phase = HalfWidth * to /\ stream'.fed = 0 /\ stream'.made = 0
      BY <2>1, <2>2
    <2> HIDE DEF to, from
    <2>6. /\ HalfWidth * to \in Nat /\ (0 + HalfWidth - HalfWidth) * to = 0
          /\ (0 - HalfWidth) * to <= 0 /\ 0 * from = 0
      BY <2>3
    <2>7. QED
      BY <2>1, <2>2, <2>3, <2>4, <2>5, <2>6 DEF StreamInv
  <1>2. ASSUME NEW n \in 1 .. MaxChunk, Chunk(n) PROVE StreamInv' /\ UNCHANGED <<mic, duck>>
    <2>1. UNCHANGED <<mic, duck>>
      BY <1>2 DEF Chunk
    <2>2. QED
      BY <1>2, <2>1, ChunkKeeps
  <1>3. QED
    BY <1>1, <1>2 DEF StreamNext

LEMMA AudioNextKeeps == AudioInv /\ [AudioNext]_audioVars => AudioInv'
  <1> SUFFICES ASSUME AudioInv, [AudioNext]_audioVars PROVE AudioInv'
    OBVIOUS
  <1>1. CASE MicNext
    BY <1>1, MicKeeps DEF AudioInv, DuckInv, StreamInv
  <1>2. CASE DuckNext
    BY <1>2, DuckKeeps DEF AudioInv, MicInv, StreamInv
  <1>3. CASE StreamNext
    BY <1>3, StreamKeeps DEF AudioInv, MicInv, DuckInv
  <1>4. CASE UNCHANGED audioVars
    BY <1>4 DEF audioVars, AudioInv, MicInv, DuckInv, StreamInv
  <1>5. QED
    BY <1>1, <1>2, <1>3, <1>4 DEF AudioNext

LEMMA AudioTold == AudioInv => AudioIsTrue
  BY DEF AudioInv, MicInv, DuckInv, StreamInv, AudioIsTrue

TalkInv == TriggerInv /\ ConvInv /\ AudioInv /\ SilentInv /\ CredInv

\* A microphone that a hold opened closes with the key; a fault is told once and the budget's
\* warning once; an utterance makes the same samples in whatever chunks it comes, out of a
\* buffer that does not grow, and no game is left ducked; a turn that started ends once; and
\* two mints are an interval apart: for every threshold, budget, rate and count of turns.
\* (trigger/, realtime/src, audio/src, silent-session.ts, credentials.ts)
THEOREM TalkHolds == PartsSpec => []TalkIsTrue
  <1>1. PartsInit => TalkInv
    BY TriggerStart, ConvStart, AudioStart, SilentStart, CredStart DEF PartsInit, TalkInv
  <1>2. TalkInv /\ [PartsNext]_partsVars => TalkInv'
    <2>1. [PartsNext]_partsVars =>
            /\ [TriggerNext]_triggerVars /\ [ConvNext]_convVars /\ [AudioNext]_audioVars
            /\ [SilentNext]_silentVars /\ [CredNext]_credVars
      <3>1. PartsNext => [TriggerNext]_triggerVars /\ [ConvNext]_convVars
        BY DEF PartsNext
      <3>2. PartsNext => [SilentNext]_silentVars /\ [CredNext]_credVars
        BY DEF PartsNext
      <3>3. PartsNext => [AudioNext]_audioVars
        <4> SUFFICES ASSUME PartsNext PROVE [AudioNext]_audioVars
          OBVIOUS
        <4>1. CASE part \in {"mic", "duck", "stream"}
          BY <4>1 DEF PartsNext, AudioNext
        <4>2. CASE part \notin {"mic", "duck", "stream"}
          BY <4>2 DEF PartsNext
        <4>3. QED
          BY <4>1, <4>2
      <3>4. UNCHANGED partsVars =>
              UNCHANGED <<triggerVars, convVars, audioVars, silentVars, credVars>>
        BY DEF partsVars
      <3>5. QED
        BY <3>1, <3>2, <3>3, <3>4
    <2>2. QED
      BY <2>1, TriggerNextKeeps, ConvNextKeeps, AudioNextKeeps, SilentNextKeeps, CredNextKeeps
      DEF TalkInv
  <1>3. TalkInv => TalkIsTrue
    <2>1. TriggerInv => PushEndsWithTheKey
      BY DEF TriggerInv
    <2>2. QED
      BY <2>1, ConvTold, AudioTold, TurnsClose, MintsSpaced DEF TalkInv, TalkIsTrue
  <1>4. QED
    BY <1>1, <1>2, <1>3, PTL DEF PartsSpec, partsVars

-----------------------------------------------------------------------------
(* The inspector's window *)

\* Every frame drawn was made, and the script's four moments are behind the clock that passed
\* them: the lead by the last even second but one before the stack, the threshold by the last.
WindowInv ==
    /\ DOMAIN pump = {"armed", "disposed", "revision"}
    /\ DOMAIN view = {"latest", "drawn", "frozen", "torn"}
    /\ DOMAIN scenario = {"running", "clock", "mark"}
    /\ pump.revision \in Nat /\ view.drawn \in Nat /\ view.latest \in Nat
    /\ window \in {"none", "loading", "shown"}
    /\ pump.armed => window # "none" /\ ~pump.disposed
    /\ pump.disposed => window = "none"
    /\ window = "shown" => pump.armed
    /\ view.drawn <= view.latest /\ view.latest <= pump.revision
    /\ scenario.running = {} => ~scenario.mark
    /\ noted \subseteq {"opens", "horn", "lead", "threshold"}
    /\ \E k \in Nat : scenario.clock = WalkFrom + 2 * k
    /\ "match" \in scenario.running =>
          /\ scenario.clock # WalkFrom => "opens" \in noted
          /\ scenario.clock > 0 => "horn" \in noted
          /\ scenario.clock >= StackTarget - 1 => "lead" \in noted
          /\ scenario.clock >= StackTarget + 1 => "threshold" \in noted

\* What the walk's steps come to: the clock stays even, and the stack is odd.
LEMMA WalkSteps ==
    ASSUME NEW c, \E k \in Nat : c = WalkFrom + 2 * k
    PROVE  /\ c \in Int /\ WalkFrom \in Int /\ StackTarget \in Int
           /\ WalkFrom < 0 /\ StackTarget >= 5 /\ c >= WalkFrom
           /\ c # StackTarget /\ c # StackTarget - 2 /\ c + 1 # StackTarget - 1
           /\ c # -1 /\ c # 1
           /\ \E k \in Nat : c + 2 = WalkFrom + 2 * k
  <1>1. PICK k \in Nat : c = WalkFrom + 2 * k
    OBVIOUS
  <1>2. PICK m \in Nat : WalkFrom = -2 - 2 * m
    BY DebugWindowAssumption
  <1>3. PICK n \in Nat : StackTarget = 5 + 2 * n
    BY DebugWindowAssumption
  <1>4. c + 2 = WalkFrom + 2 * (k + 1) /\ k + 1 \in Nat
    BY <1>1, <1>2
  <1>5. QED
    BY <1>1, <1>2, <1>3, <1>4

LEMMA WindowStart == WindowInit => WindowInv
  <1> SUFFICES ASSUME WindowInit PROVE WindowInv
    OBVIOUS
  <1>1. /\ pump = [armed |-> FALSE, disposed |-> FALSE, revision |-> 0]
        /\ view = [latest |-> 0, drawn |-> 0, frozen |-> FALSE, torn |-> FALSE]
        /\ scenario = [running |-> {}, clock |-> WalkFrom, mark |-> FALSE]
        /\ window = "none" /\ noted = {}
    BY DEF WindowInit, Mounted
  <1>2. 0 \in Nat /\ WalkFrom = WalkFrom + 2 * 0
    BY DebugWindowAssumption
  <1>3. QED
    BY <1>1, <1>2 DEF WindowInv

\* What the frames' half of the steps leave alone.
LEMMA FrameKeeps ==
    ASSUME WindowInv, UNCHANGED <<scenario, noted>>,
           DOMAIN pump' = {"armed", "disposed", "revision"},
           DOMAIN view' = {"latest", "drawn", "frozen", "torn"},
           pump'.revision \in Nat, view'.drawn \in Nat, view'.latest \in Nat,
           window' \in {"none", "loading", "shown"},
           pump'.armed => window' # "none" /\ ~pump'.disposed,
           pump'.disposed => window' = "none",
           window' = "shown" => pump'.armed,
           view'.drawn <= view'.latest /\ view'.latest <= pump'.revision
    PROVE  WindowInv'
  BY DEF WindowInv

LEMMA AppliedForm ==
    ASSUME NEW v, DOMAIN v = {"latest", "drawn", "frozen", "torn"}, NEW r \in Nat,
           v.drawn \in Nat, v.latest \in Nat, v.drawn <= v.latest, v.latest <= r
    PROVE  LET w == Applied(v, r) IN
           /\ DOMAIN w = {"latest", "drawn", "frozen", "torn"}
           /\ w.drawn \in Nat /\ w.latest \in Nat /\ w.drawn <= w.latest /\ w.latest <= r
  BY DEF Applied

LEMMA FrameSentKeeps ==
    ASSUME WindowInv, Sent(TRUE), ~pump.disposed, window # "none",
           UNCHANGED <<window, scenario, noted>>
    PROVE  WindowInv'
  <1>1. pump' = [pump EXCEPT !.armed = TRUE, !.revision = pump.revision + 1]
    BY DEF Sent, IsOpen
  <1>2. /\ DOMAIN pump' = {"armed", "disposed", "revision"} /\ pump'.armed /\ ~pump'.disposed
        /\ pump'.revision = pump.revision + 1 /\ pump.revision + 1 \in Nat
    BY <1>1 DEF WindowInv
  <1>3. /\ DOMAIN view' = {"latest", "drawn", "frozen", "torn"}
        /\ view'.drawn \in Nat /\ view'.latest \in Nat
        /\ view'.drawn <= view'.latest /\ view'.latest <= pump.revision + 1
    <2>1. CASE window = "shown"
      <3>1. view' = Applied(view, pump.revision + 1)
        BY <2>1 DEF Sent
      <3>2. view.latest <= pump.revision + 1
        BY DEF WindowInv
      <3>3. QED
        BY <1>2, <3>1, <3>2, AppliedForm DEF WindowInv
    <2>2. CASE window # "shown"
      BY <2>2 DEF Sent, WindowInv
    <2>3. QED
      BY <2>1, <2>2
  <1>4. QED
    BY <1>2, <1>3, FrameKeeps DEF WindowInv

LEMMA MountedForm ==
    ASSUME NEW r \in Nat
    PROVE  LET w == Applied(Mounted, r) IN
           /\ DOMAIN w = {"latest", "drawn", "frozen", "torn"}
           /\ w.drawn \in Nat /\ w.latest \in Nat /\ w.drawn <= w.latest /\ w.latest <= r
  BY DEF Applied, Mounted

LEMMA WindowNextKeeps == WindowInv /\ [WindowNext]_windowVars => WindowInv'
  <1> SUFFICES ASSUME WindowInv, [WindowNext]_windowVars PROVE WindowInv'
    OBVIOUS
  <1>1. CASE Pumps
    <2>1. Sent(TRUE) /\ pump.armed /\ UNCHANGED <<window, scenario, noted>>
      BY <1>1 DEF Pumps
    <2>2. ~pump.disposed /\ window # "none"
      BY <2>1 DEF WindowInv
    <2>3. QED
      BY <2>1, <2>2, FrameSentKeeps
  <1>2. CASE OpenInspector
    <2>1. CASE IsOpen
      <3>1. Sent(TRUE) /\ ~pump.disposed /\ UNCHANGED <<window, scenario, noted>>
        BY <1>2, <2>1 DEF OpenInspector
      <3>2. window # "none"
        BY <2>1 DEF IsOpen
      <3>3. QED
        BY <3>1, <3>2, FrameSentKeeps
    <2>2. CASE ~IsOpen
      <3>1. window' = "loading" /\ view' = Mounted /\ pump' = pump /\ UNCHANGED <<scenario, noted>>
        BY <1>2, <2>2 DEF OpenInspector
      <3>2. /\ view'.drawn = 0 /\ view'.latest = 0 /\ DOMAIN view' = {"latest", "drawn", "frozen", "torn"}
        BY <3>1 DEF Mounted
      <3>3. ~pump.armed /\ ~pump.disposed
        BY <1>2, <2>2 DEF OpenInspector, IsOpen, WindowInv
      <3>4. QED
        BY <3>1, <3>2, <3>3, FrameKeeps DEF WindowInv
    <2>3. QED
      BY <2>1, <2>2
  <1>3. CASE Loaded
    <2>1. /\ window = "loading" /\ window' = "shown" /\ UNCHANGED <<scenario, noted>>
          /\ pump' = [pump EXCEPT !.armed = TRUE, !.revision = pump.revision + 1]
          /\ view' = Applied(Mounted, pump.revision + 1)
      BY <1>3 DEF Loaded
    <2>2. /\ DOMAIN pump' = {"armed", "disposed", "revision"} /\ pump'.armed /\ ~pump'.disposed
          /\ pump'.revision = pump.revision + 1 /\ pump.revision + 1 \in Nat
      BY <2>1 DEF WindowInv
    <2>3. QED
      BY <2>1, <2>2, MountedForm, FrameKeeps
  <1>4. CASE WindowCloses
    BY <1>4 DEF WindowCloses, PumpStops, WindowInv
  <1>5. CASE Remounts
    <2>1. /\ window = "shown" /\ window' = window /\ UNCHANGED <<scenario, noted>>
          /\ pump' = [pump EXCEPT !.revision = pump.revision + 1]
          /\ view' = Applied(Mounted, pump.revision + 1)
      BY <1>5 DEF Remounts
    <2>2. /\ DOMAIN pump' = {"armed", "disposed", "revision"} /\ pump'.armed /\ ~pump'.disposed
          /\ pump'.revision = pump.revision + 1 /\ pump.revision + 1 \in Nat
      BY <2>1 DEF WindowInv
    <2>3. QED
      BY <2>1, <2>2, MountedForm, FrameKeeps
  <1>6. CASE Freezes
    BY <1>6 DEF Freezes, WindowInv
  <1>7. CASE Dispose
    <2>1. /\ pump' = [pump EXCEPT !.armed = FALSE, !.disposed = TRUE] /\ window' = "none"
          /\ view' = [view EXCEPT !.torn = window = "shown"]
          /\ UNCHANGED <<scenario, noted>>
      BY <1>7 DEF Dispose
    <2>2. QED
      BY <2>1 DEF WindowInv
  <1>8. ASSUME UNCHANGED <<window, pump, view>>,
               DOMAIN scenario' = {"running", "clock", "mark"},
               scenario'.running = {} => ~scenario'.mark,
               noted' \subseteq {"opens", "horn", "lead", "threshold"},
               \E k \in Nat : scenario'.clock = WalkFrom + 2 * k,
               "match" \in scenario'.running =>
                  /\ scenario'.clock # WalkFrom => "opens" \in noted'
                  /\ scenario'.clock > 0 => "horn" \in noted'
                  /\ scenario'.clock >= StackTarget - 1 => "lead" \in noted'
                  /\ scenario'.clock >= StackTarget + 1 => "threshold" \in noted'
        PROVE  WindowInv'
    BY <1>8 DEF WindowInv
  <1>9. ASSUME NEW id \in Rows, RunAction(id) PROVE WindowInv'
    <2>1. CASE UNCHANGED <<scenario, noted>>
      BY <1>9, <2>1 DEF RunAction, WindowInv
    <2>2. CASE id = "match" /\ ~UNCHANGED <<scenario, noted>>
      <3>1. /\ scenario' = [scenario EXCEPT !.running = scenario.running \cup {id}, !.mark = TRUE,
                                            !.clock = WalkFrom]
            /\ noted' = {} /\ UNCHANGED <<window, pump, view>>
        BY <1>9, <2>2 DEF RunAction
      <3>2. 0 \in Nat /\ WalkFrom = WalkFrom + 2 * 0 /\ ~(WalkFrom > 0) /\ ~(WalkFrom >= StackTarget - 1)
            /\ ~(WalkFrom >= StackTarget + 1)
        BY WalkSteps, DebugWindowAssumption
      <3>3. /\ DOMAIN scenario' = {"running", "clock", "mark"} /\ scenario'.clock = WalkFrom
            /\ scenario'.running # {}
        BY <3>1 DEF WindowInv
      <3>4. QED
        BY <1>8, <3>1, <3>2, <3>3
    <2>3. CASE id # "match" /\ ~UNCHANGED <<scenario, noted>>
      <3>1. /\ scenario' = [scenario EXCEPT !.running = scenario.running \cup {id}, !.mark = TRUE,
                                            !.clock = scenario.clock]
            /\ noted' = noted /\ UNCHANGED <<window, pump, view>>
        BY <1>9, <2>3 DEF RunAction
      <3>2. /\ DOMAIN scenario' = {"running", "clock", "mark"} /\ scenario'.clock = scenario.clock
            /\ scenario'.running # {} /\ ("match" \in scenario'.running => "match" \in scenario.running)
        BY <2>3, <3>1 DEF WindowInv
      <3>3. QED
        BY <1>8, <3>1, <3>2 DEF WindowInv
    <2>4. QED
      BY <2>1, <2>2, <2>3
  <1>10. ASSUME NEW id, id \in scenario.running, scenario' = Ended(id), noted' = noted,
                UNCHANGED <<window, pump, view>>
         PROVE  WindowInv'
    <2>1. /\ DOMAIN scenario' = {"running", "clock", "mark"} /\ scenario'.clock = scenario.clock
          /\ ~scenario'.mark /\ scenario'.running = scenario.running \ {id}
      BY <1>10 DEF Ended, WindowInv
    <2>2. QED
      BY <1>8, <1>10, <2>1 DEF WindowInv
  <1>11. CASE FramePosted
    <2>1. "match" \in scenario.running /\ UNCHANGED <<window, pump, view>>
      BY <1>11 DEF FramePosted
    <2>2. CASE scenario' = Ended("match") /\ noted' = noted
      BY <1>10, <2>1, <2>2
    <2>3. CASE /\ scenario' = [scenario EXCEPT !.clock = scenario.clock + 2]
               /\ noted' = noted \cup NoteAt(scenario.clock)
      <3> DEFINE c == scenario.clock
      <3>1. /\ c \in Int /\ WalkFrom \in Int /\ StackTarget \in Int
            /\ WalkFrom < 0 /\ StackTarget >= 5 /\ c >= WalkFrom
            /\ c # StackTarget /\ c # StackTarget - 2 /\ c # -1
            /\ \E k \in Nat : c + 2 = WalkFrom + 2 * k
        BY WalkSteps DEF WindowInv
      <3>2. /\ c # WalkFrom => "opens" \in noted
            /\ c > 0 => "horn" \in noted
            /\ c >= StackTarget - 1 => "lead" \in noted
            /\ c >= StackTarget + 1 => "threshold" \in noted
        BY <2>1 DEF WindowInv
      <3>3. /\ DOMAIN scenario' = {"running", "clock", "mark"} /\ scenario'.clock = c + 2
            /\ scenario'.running = scenario.running /\ scenario'.mark = scenario.mark
        BY <2>3 DEF WindowInv
      <3> HIDE DEF c
      <3>4. noted' = noted \cup NoteAt(c)
        BY <2>3 DEF c
      <3>5. "opens" \in noted'
        BY <3>2, <3>4 DEF NoteAt
      <3>6. c + 2 > 0 => "horn" \in noted'
        <4>1. CASE c = 0
          BY <3>1, <3>4, <4>1 DEF NoteAt
        <4>2. CASE c # 0
          BY <3>1, <3>2, <3>4, <4>2
        <4>3. QED
          BY <4>1, <4>2
      <3>7. c + 2 >= StackTarget - 1 => "lead" \in noted'
        <4>1. CASE c >= StackTarget - 1
          BY <3>2, <3>4, <4>1
        <4>2. CASE c = StackTarget - 3
          <5>1. c # WalkFrom /\ c # 0 /\ Until(c) \in 1 .. 12
            BY <3>1, <4>2 DEF Until
          <5>2. QED
            BY <3>4, <5>1 DEF NoteAt
        <4>3. QED
          BY <3>1, <4>1, <4>2
      <3>8. c + 2 >= StackTarget + 1 => "threshold" \in noted'
        <4>1. CASE c >= StackTarget + 1
          BY <3>2, <3>4, <4>1
        <4>2. CASE c = StackTarget - 1
          <5>1. c # WalkFrom /\ c # 0 /\ Until(c) \in 1 .. 5 /\ "lead" \in noted
            BY <3>1, <3>2, <4>2 DEF Until
          <5>2. QED
            BY <3>4, <5>1 DEF NoteAt
        <4>3. QED
          BY <3>1, <4>1, <4>2
      <3>9. noted' \subseteq {"opens", "horn", "lead", "threshold"}
        BY <3>4 DEF NoteAt, WindowInv
      <3>10. QED
        BY <1>8, <2>1, <3>1, <3>3, <3>5, <3>6, <3>7, <3>8, <3>9 DEF WindowInv
    <2>4. QED
      BY <1>11, <2>2, <2>3 DEF FramePosted
  <1>12. CASE Spoke
    BY <1>10, <1>12 DEF Spoke
  <1>13. CASE UNCHANGED windowVars
    BY <1>13 DEF windowVars, WindowInv
  <1>14. QED
    BY <1>1, <1>2, <1>3, <1>4, <1>5, <1>6, <1>7, <1>9, <1>11, <1>12, <1>13 DEF WindowNext

LEMMA WindowFed == WindowInv => InspectorIsFed
  <1> SUFFICES ASSUME WindowInv PROVE InspectorIsFed
    OBVIOUS
  <1>1. ASSUME "match" \in scenario.running, scenario.clock > StackTarget
        PROVE  noted = {"opens", "horn", "lead", "threshold"}
    <2> DEFINE c == scenario.clock
    <2>1. c \in Int /\ WalkFrom < 0 /\ StackTarget >= 5 /\ WalkFrom \in Int /\ StackTarget \in Int
      BY WalkSteps DEF WindowInv
    <2>2. c # WalkFrom /\ c > 0 /\ c >= StackTarget - 1 /\ c >= StackTarget + 1
      BY <1>1, <2>1
    <2>3. QED
      BY <1>1, <2>2 DEF WindowInv
  <1>2. QED
    BY <1>1 DEF WindowInv, InspectorIsFed, IsOpen

-----------------------------------------------------------------------------
(* The inspector's hub *)

TurnOf(t) ==
    /\ DOMAIN t = {"id", "outcome", "calls", "dropped", "said"}
    /\ t.calls \in Seq(Nat) /\ Len(t.calls) <= CallsPerTurn
    /\ t.dropped \in Nat

\* Turns are numbered as they were opened, a call is shown in one place, and a turn's calls and
\* its dropped ones are those made in it.
HubOf(ts, ti, ci, cs, p) ==
    /\ ts \in Seq({ts[i] : i \in 1 .. Len(ts)})
    /\ \A i \in 1 .. Len(ts) :
          /\ TurnOf(ts[i])
          /\ ts[i].id \in 1 .. Len(p.made)
          /\ Len(ts[i].calls) + ts[i].dropped = p.made[ts[i].id]
          /\ \A a \in 1 .. Len(ts[i].calls) : ts[i].calls[a] \in 1 .. Len(cs)
    /\ \A i, j \in 1 .. Len(ts) : ts[i].id = ts[j].id => i = j
    /\ \A i, j \in 1 .. Len(ts) :
          \A a \in 1 .. Len(ts[i].calls), b \in 1 .. Len(ts[j].calls) :
             ts[i].calls[a] = ts[j].calls[b] => i = j /\ a = b
    /\ ti = ShownIds(ts) /\ ci = ShownCalls(ts)
    /\ cs \in Seq({"pending", "ok", "unknown", "failed", "let go"})
    /\ \A seq \in ShownCalls(ts) : cs[seq] # "let go"
    /\ DOMAIN p = {"made", "told", "sent"} /\ p.made \in Seq(Nat)
    /\ p.told \in Nat /\ p.told = p.sent

HubInv == HubOf(turns, turnIndex, callIndex, calls, past)

LEMMA ShownCall ==
    ASSUME NEW list, \A i \in 1 .. Len(list) : list[i].calls \in Seq(Nat), NEW seq
    PROVE  seq \in ShownCalls(list) <=>
             \E i \in 1 .. Len(list) : \E a \in 1 .. Len(list[i].calls) : seq = list[i].calls[a]
  <1>1. \A i \in 1 .. Len(list) : DOMAIN list[i].calls = 1 .. Len(list[i].calls)
    OBVIOUS
  <1>2. QED
    BY <1>1 DEF ShownCalls, ToSet

LEMMA CappedForm ==
    ASSUME NEW S, NEW list \in Seq(S), NEW cap \in Nat \ {0}
    PROVE  LET k == IF Len(list) > cap THEN Len(list) - cap ELSE 0
           IN  /\ Capped(list, cap) \in Seq(S) /\ Len(Capped(list, cap)) = Len(list) - k
               /\ k \in Nat /\ Len(list) - k \in 0 .. cap
               /\ \A i \in 1 .. Len(list) - k : Capped(list, cap)[i] = list[i + k]
  BY DEF Capped

LEMMA HubStart == HubInit => HubInv
  <1> SUFFICES ASSUME HubInit PROVE HubInv
    OBVIOUS
  <1>1. /\ turns = <<>> /\ turnIndex = {} /\ callIndex = {} /\ calls = <<>>
        /\ past = [made |-> <<>>, told |-> 0, sent |-> 0]
    BY DEF HubInit
  <1>2. turns \in Seq({}) /\ Len(turns) = 0
    BY <1>1
  <1>3. turns \in Seq({turns[i] : i \in 1 .. Len(turns)})
    BY <1>2, OwnElements
  <1>4. ShownIds(turns) = {} /\ ShownCalls(turns) = {}
    BY <1>2 DEF ShownIds, ShownCalls
  <1>5. calls \in Seq({"pending", "ok", "unknown", "failed", "let go"})
    BY <1>1
  <1>6. DOMAIN past = {"made", "told", "sent"} /\ past.made \in Seq(Nat) /\ past.told = 0 /\ past.sent = 0
    BY <1>1
  <1>7. \A i : i \notin 1 .. Len(turns)
    BY <1>2
  <1>8. QED
    BY <1>1, <1>3, <1>4, <1>5, <1>6, <1>7 DEF HubInv, HubOf

\* A call that is made is the newest of its turn's, whose oldest makes room for it.
LEMMA CallKeeps ==
    ASSUME HubInv, CallRecorded
    PROVE  HubInv'
  <1> DEFINE seq == Len(calls) + 1
             n == Len(turns)
             S == {turns[i] : i \in 1 .. n}
             Status == {"pending", "ok", "unknown", "failed", "let go"}
  <1>0. calls \in Seq(Status) /\ turns \in Seq(S) /\ past.made \in Seq(Nat)
    BY DEF HubInv, HubOf
  <1>h. \A i \in 1 .. n :
           /\ TurnOf(turns[i])
           /\ turns[i].id \in 1 .. Len(past.made)
           /\ Len(turns[i].calls) + turns[i].dropped = past.made[turns[i].id]
           /\ \A a \in 1 .. Len(turns[i].calls) : turns[i].calls[a] \in 1 .. Len(calls)
    BY DEF HubInv, HubOf
  <1>i. \A i, j \in 1 .. n : turns[i].id = turns[j].id => i = j
    BY DEF HubInv, HubOf
  <1>p. \A i, j \in 1 .. n :
           \A a \in 1 .. Len(turns[i].calls), b \in 1 .. Len(turns[j].calls) :
              turns[i].calls[a] = turns[j].calls[b] => i = j /\ a = b
    BY DEF HubInv, HubOf
  <1>t. DOMAIN past = {"made", "told", "sent"} /\ past.told \in Nat /\ past.told = past.sent
    BY DEF HubInv, HubOf
  <1>x. turnIndex = ShownIds(turns) /\ callIndex = ShownCalls(turns)
    BY DEF HubInv, HubOf
  <1>l. \A k \in ShownCalls(turns) : calls[k] # "let go"
    BY DEF HubInv, HubOf
  <1>s. \A k : k \in ShownCalls(turns) <=>
               \E i \in 1 .. n : \E a \in 1 .. Len(turns[i].calls) : k = turns[i].calls[a]
    <2>1. \A i \in 1 .. n : turns[i].calls \in Seq(Nat)
      BY <1>h DEF TurnOf
    <2>2. QED
      BY <2>1, ShownCall
  <1>w. \A k \in ShownCalls(turns) : k \in 1 .. Len(calls)
    BY <1>h, <1>s
  <1>c. calls' = Append(calls, "pending") /\ turnIndex' = turnIndex
    BY DEF CallRecorded
  <1> HIDE DEF S, Status, n
  <1>n. n \in Nat /\ Len(calls) \in Nat
    BY <1>0 DEF n
  <1>1. /\ calls' \in Seq(Status \cup {"pending"}) /\ Len(calls') = seq
        /\ calls'[seq] = "pending" /\ \A k \in 1 .. Len(calls) : calls'[k] = calls[k]
    BY <1>0, <1>c
  <1>2. calls' \in Seq(Status)
    BY <1>1 DEF Status
  <1>d. seq \in Nat /\ seq \notin 1 .. Len(calls) /\ \A k \in 1 .. Len(calls) : k \in 1 .. seq
    BY <1>n
  <1> HIDE DEF seq
  <1>3. CASE n = 0
    <2>1. UNCHANGED <<turns, callIndex, past>>
      BY <1>3 DEF CallRecorded, n
    <2>2. ShownCalls(turns) = {} /\ \A i : i \notin 1 .. Len(turns)
      BY <1>3, <1>s DEF n
    <2>3. calls' \in Seq({"pending", "ok", "unknown", "failed", "let go"})
      BY <1>2 DEF Status
    <2>4. \A k : k \notin ShownCalls(turns)
      BY <2>2
    <2>5. turns \in Seq({turns[i] : i \in 1 .. Len(turns)}) /\ past.made \in Seq(Nat)
      BY DEF HubInv, HubOf
    <2>6. turns' = turns /\ past' = past /\ turnIndex' = ShownIds(turns) /\ callIndex' = ShownCalls(turns)
      BY <1>c, <1>x, <2>1
    <2>7. /\ \A i \in 1 .. Len(turns') : FALSE
          /\ \A k \in ShownCalls(turns') : FALSE
          /\ turns' \in Seq({turns'[i] : i \in 1 .. Len(turns')}) /\ past'.made \in Seq(Nat)
          /\ turnIndex' = ShownIds(turns') /\ callIndex' = ShownCalls(turns')
          /\ DOMAIN past' = {"made", "told", "sent"} /\ past'.told \in Nat /\ past'.told = past'.sent
      BY <1>t, <2>2, <2>4, <2>5, <2>6
    <2>8. QED
      BY <2>3, <2>7 DEF HubInv, HubOf
  <1>4. CASE n # 0
    <2> DEFINE t == turns[n]
               c == t.calls
               over == Len(c) = CallsPerTurn
               after == Capped(Append(c, seq), CallsPerTurn)
               line == [t EXCEPT !.calls = after, !.dropped = IF over THEN t.dropped + 1 ELSE t.dropped]
    <2>1. n \in 1 .. n /\ TurnOf(t) /\ t.id \in 1 .. Len(past.made)
          /\ Len(c) + t.dropped = past.made[t.id]
          /\ \A a \in 1 .. Len(c) : c[a] \in 1 .. Len(calls)
      <3>1. n \in 1 .. n
        BY <1>n, <1>4
      <3>2. QED
        BY <1>h, <3>1
    <2>2. /\ turns' = [turns EXCEPT ![n] = line]
          /\ callIndex' = (callIndex \cup {seq}) \ (IF over THEN {Head(c)} ELSE {})
          /\ past' = [past EXCEPT !.made[t.id] = past.made[t.id] + 1]
      <3>1. n > 0
        BY <1>n, <1>4
      <3>2. over <=> n > 0 /\ Len(c) = CallsPerTurn
        BY <3>1
      <3>3. /\ turns' = [turns EXCEPT ![n].calls = after, ![n].dropped = IF over THEN turns[n].dropped + 1 ELSE turns[n].dropped]
            /\ callIndex' = (callIndex \cup {seq}) \ (IF over THEN {Head(c)} ELSE {})
            /\ past' = [past EXCEPT !.made[t.id] = past.made[t.id] + 1]
        BY <1>4, <3>1 DEF CallRecorded, n, seq
      <3>4. DOMAIN t = {"id", "outcome", "calls", "dropped", "said"} /\ n \in DOMAIN turns
        BY <1>0, <1>n, <1>4, <2>1 DEF TurnOf, n
      <3>5. turns' = [turns EXCEPT ![n] = line]
        BY <3>3, <3>4
      <3>6. QED
        BY <3>3, <3>5
    <2>3. CallsPerTurn \in Nat \ {0} /\ c \in Seq(Nat) /\ Len(c) \in Nat /\ Len(c) <= CallsPerTurn
      BY <2>1, DebugHubAssumption DEF TurnOf
    <2>4. /\ DOMAIN line = {"id", "outcome", "calls", "dropped", "said"} /\ line.id = t.id
          /\ line.calls = after /\ line.dropped = IF over THEN t.dropped + 1 ELSE t.dropped
      BY <2>1 DEF TurnOf
    <2> HIDE DEF t, c, after, line, over
    <2> DEFINE d == IF Len(c) = CallsPerTurn THEN 1 ELSE 0
    <2>5. /\ after \in Seq(Nat) /\ Len(after) = Len(c) + 1 - d /\ Len(after) <= CallsPerTurn
          /\ \A a \in 1 .. Len(c) - d : after[a] = c[a + d]
          /\ after[Len(c) + 1 - d] = seq
      <3> DEFINE long == Append(c, seq)
      <3>1. /\ long \in Seq(Nat) /\ Len(long) = Len(c) + 1 /\ long[Len(c) + 1] = seq
            /\ \A a \in 1 .. Len(c) : long[a] = c[a]
        BY <1>d, <2>3
      <3> HIDE DEF long
      <3>2. after = Capped(long, CallsPerTurn)
        BY DEF after, long
      <3>3. d = IF Len(long) > CallsPerTurn THEN Len(long) - CallsPerTurn ELSE 0
        BY <2>3, <3>1
      <3> HIDE DEF d
      <3>4. /\ after \in Seq(Nat) /\ Len(after) = Len(long) - d /\ Len(long) - d \in 0 .. CallsPerTurn
            /\ \A a \in 1 .. Len(long) - d : after[a] = long[a + d]
        <4>1. long \in Seq(Nat) /\ CallsPerTurn \in Nat \ {0}
          BY <2>3, <3>1
        <4>2. QED
          BY <4>1, <3>2, <3>3, CappedForm
      <3>5. d \in {0, 1} /\ Len(c) \in Nat
        BY <2>3 DEF d
      <3>6. after[Len(c) + 1 - d] = long[Len(c) + 1]
        <4>1. Len(c) + 1 - d \in 1 .. Len(long) - d /\ (Len(c) + 1 - d) + d = Len(c) + 1
          <5>1. Len(c) + 1 - d # 0
            BY <2>3, <3>5 DEF d
          <5>2. QED
            BY <3>1, <3>5, <5>1
        <4>2. QED
          BY <3>4, <4>1
      <3>7. \A a \in 1 .. Len(c) - d : a \in 1 .. Len(long) - d /\ a + d \in 1 .. Len(c)
        BY <3>1, <3>5
      <3>8. ASSUME NEW a \in 1 .. Len(c) - d PROVE after[a] = c[a + d]
        <4>1. a \in 1 .. Len(long) - d /\ a + d \in 1 .. Len(c)
          BY <3>7
        <4>2. after[a] = long[a + d] /\ long[a + d] = c[a + d]
          BY <3>1, <3>4, <4>1
        <4>3. QED
          BY <4>2
      <3>9. Len(after) = Len(c) + 1 - d /\ Len(after) <= CallsPerTurn
        BY <2>3, <3>1, <3>4, <3>5
      <3>10. QED
        BY <3>1, <3>4, <3>6, <3>8, <3>9
    <2>6. d \in {0, 1} /\ (over <=> d = 1) /\ (d = 1 => Len(c) # 0)
      BY <2>3 DEF over
    <2> HIDE DEF d
    <2>7. /\ turns' \in Seq(S \cup {line}) /\ Len(turns') = n /\ turns'[n] = line
          /\ \A i \in 1 .. n : i # n => turns'[i] = turns[i]
      BY <1>0, <2>1, <2>2 DEF n
    <2>8. turns' \in Seq({turns'[i] : i \in 1 .. Len(turns')})
      BY <2>7, OwnElements
    <2>9. line.dropped \in Nat /\ Len(after) + line.dropped = Len(c) + t.dropped + 1
      <3>1. t.dropped \in Nat
        BY <2>1 DEF TurnOf
      <3>2. line.dropped = t.dropped + d
        BY <2>4, <2>6, <3>1
      <3>3. Len(after) = Len(c) + 1 - d /\ Len(c) \in Nat
        BY <2>3, <2>5
      <3>4. QED
        BY <2>6, <3>1, <3>2, <3>3
    <2>10. /\ DOMAIN past' = {"made", "told", "sent"} /\ past'.told = past.told /\ past'.sent = past.sent
           /\ past'.made = [past.made EXCEPT ![t.id] = past.made[t.id] + 1]
      BY <1>t, <2>2
    <2>11. /\ past'.made \in Seq(Nat) /\ Len(past'.made) = Len(past.made)
           /\ past'.made[t.id] = past.made[t.id] + 1
           /\ \A k \in 1 .. Len(past.made) : k # t.id => past'.made[k] = past.made[k]
      BY <1>0, <2>1, <2>10
    <2>12. \A a \in 1 .. Len(after) : \/ after[a] = seq
                                      \/ \E b \in 1 .. Len(c) : after[a] = c[b] /\ b = a + d
      <3> SUFFICES ASSUME NEW a \in 1 .. Len(after), a # Len(c) + 1 - d
                   PROVE  a \in 1 .. Len(c) - d /\ a + d \in 1 .. Len(c)
        BY <2>5
      <3>1. QED
        BY <2>3, <2>5, <2>6
    <2>13. \A a \in 1 .. Len(after) : after[a] \in 1 .. seq
      <3>1. seq \in 1 .. seq
        BY <1>n, <1>d DEF seq
      <3>2. QED
        BY <1>d, <2>1, <2>12, <3>1
    <2>14. \A a, b \in 1 .. Len(after) : after[a] = after[b] => a = b
      <3> SUFFICES ASSUME NEW a \in 1 .. Len(after), NEW b \in 1 .. Len(after), after[a] = after[b]
                   PROVE  a = b
        OBVIOUS
      <3>1. \A k \in 1 .. Len(c) : c[k] # seq
        BY <1>d, <2>1
      <3>2. \A k, m \in 1 .. Len(c) : c[k] = c[m] => k = m
        BY <1>p, <2>1 DEF c, t
      <3>a. \A x \in 1 .. Len(after) : x = Len(c) + 1 - d \/ x \in 1 .. Len(c) - d
        BY <2>3, <2>5, <2>6
      <3>b. \A x \in 1 .. Len(c) - d : x + d \in 1 .. Len(c)
        BY <2>3, <2>6
      <3>c. \A x \in 1 .. Len(c) - d : after[x] # seq
        BY <2>5, <3>1, <3>b
      <3>3. after[a] = seq => a = Len(c) + 1 - d
        BY <3>a, <3>c
      <3>4. after[b] = seq => b = Len(c) + 1 - d
        BY <3>a, <3>c
      <3>5. CASE after[a] # seq
        <4>1. a + d \in 1 .. Len(c) /\ b + d \in 1 .. Len(c) /\ c[a + d] = c[b + d]
          BY <2>12, <3>5
        <4>2. a + d = b + d
          BY <3>2, <4>1
        <4>3. QED
          BY <2>5, <2>6, <4>2
      <3>6. QED
        BY <3>3, <3>4, <3>5
    <2>15. \A i \in 1 .. n :
              /\ TurnOf(turns'[i])
              /\ turns'[i].id \in 1 .. Len(past'.made)
              /\ turns'[i].id = turns[i].id
              /\ Len(turns'[i].calls) + turns'[i].dropped = past'.made[turns'[i].id]
              /\ \A a \in 1 .. Len(turns'[i].calls) : turns'[i].calls[a] \in 1 .. Len(calls')
      <3> SUFFICES ASSUME NEW i \in 1 .. n
                   PROVE  /\ TurnOf(turns'[i])
                          /\ turns'[i].id \in 1 .. Len(past'.made)
                          /\ turns'[i].id = turns[i].id
                          /\ Len(turns'[i].calls) + turns'[i].dropped = past'.made[turns'[i].id]
                          /\ \A a \in 1 .. Len(turns'[i].calls) : turns'[i].calls[a] \in 1 .. Len(calls')
        OBVIOUS
      <3>1. CASE i = n
        <4>1. turns'[i] = line /\ turns[i] = t
          BY <2>7, <3>1 DEF t
        <4>2. TurnOf(line)
          BY <2>4, <2>5, <2>9 DEF TurnOf
        <4>3. QED
          BY <1>1, <2>1, <2>4, <2>9, <2>11, <2>13, <4>1, <4>2
      <3>2. CASE i # n
        <4>1. turns'[i] = turns[i] /\ turns[i].id # t.id
          BY <1>i, <2>1, <2>7, <3>2 DEF t
        <4>3. \A k \in 1 .. Len(calls) : k \in 1 .. Len(calls')
          BY <1>1, <1>d
        <4>4. QED
          BY <1>h, <2>11, <4>1, <4>3
      <3>3. QED
        BY <3>1, <3>2
    <2>16. \A i, j \in 1 .. n : turns'[i].id = turns'[j].id => i = j
      BY <1>i, <2>15
    <2>17. ASSUME NEW i \in 1 .. n, NEW j \in 1 .. n,
                  NEW a \in 1 .. Len(turns'[i].calls), NEW b \in 1 .. Len(turns'[j].calls),
                  turns'[i].calls[a] = turns'[j].calls[b]
           PROVE  i = j /\ a = b
      <3>1. ASSUME NEW k \in 1 .. n, k # n, NEW x \in 1 .. Len(turns[k].calls), NEW y \in 1 .. Len(after)
            PROVE  turns[k].calls[x] # after[y]
        <4>1. turns[k].calls[x] # seq
          BY <1>d, <1>h
        <4>2. \A m \in 1 .. Len(c) : turns[k].calls[x] # c[m]
          BY <1>p, <2>1, <3>1 DEF c, t
        <4>3. QED
          BY <2>12, <4>1, <4>2
      <3>2. CASE i = n /\ j = n
        BY <2>4, <2>7, <2>14, <2>17, <3>2
      <3>3. CASE i # n /\ j = n
        BY <2>4, <2>7, <2>17, <3>1, <3>3
      <3>4. CASE i = n /\ j # n
        BY <2>4, <2>7, <2>17, <3>1, <3>4
      <3>5. CASE i # n /\ j # n
        <4>1. turns'[i] = turns[i] /\ turns'[j] = turns[j]
          BY <2>7, <3>5
        <4>2. QED
          BY <1>p, <2>17, <4>1
      <3>6. QED
        BY <3>2, <3>3, <3>4, <3>5
    <2>18. ShownIds(turns') = ShownIds(turns)
      BY <2>7, <2>15 DEF ShownIds, n
    <2>19. \A k : k \in ShownCalls(turns') <=> k \in callIndex'
      <3> SUFFICES ASSUME NEW k PROVE k \in ShownCalls(turns') <=> k \in callIndex'
        OBVIOUS
      <3>1. k \in ShownCalls(turns') <=>
              \E i \in 1 .. n : \E a \in 1 .. Len(turns'[i].calls) : k = turns'[i].calls[a]
        <4>1. \A i \in 1 .. Len(turns') : turns'[i].calls \in Seq(Nat)
          BY <2>7, <2>15 DEF TurnOf
        <4>2. QED
          BY <2>7, <4>1, ShownCall
      <3>2. k \in ShownCalls(turns) <=>
              \E i \in 1 .. n : \E a \in 1 .. Len(turns[i].calls) : k = turns[i].calls[a]
        BY <1>s
      <3>3. callIndex = ShownCalls(turns)
        BY <1>x
      <3>4. over => Head(c) = c[1] /\ 1 \in 1 .. Len(c)
        BY <2>3, <2>6
      <3>5. \A m \in 1 .. Len(c) : c[m] # seq
        BY <1>d, <2>1
      <3>6. ASSUME k \in ShownCalls(turns') PROVE k \in callIndex'
        <4>1. PICK i \in 1 .. n : \E a \in 1 .. Len(turns'[i].calls) : k = turns'[i].calls[a]
          BY <3>1, <3>6
        <4>a. PICK a \in 1 .. Len(turns'[i].calls) : k = turns'[i].calls[a]
          BY <4>1
        <4>2. CASE i # n
          <5>1. turns'[i] = turns[i]
            BY <2>7, <4>2
          <5>2. k \in callIndex
            BY <3>2, <3>3, <4>a, <5>1
          <5>3. over => k # Head(c)
            BY <1>p, <2>1, <3>4, <4>a, <4>2, <5>1 DEF c, t
          <5>4. QED
            BY <2>2, <5>2, <5>3
        <4>3. CASE i = n
          <5>1. a \in 1 .. Len(after) /\ k = after[a]
            BY <2>4, <2>7, <4>a, <4>3
          <5>2. CASE k = seq
            BY <2>2, <3>4, <3>5, <5>2
          <5>3. CASE k # seq
            <6>1. PICK b \in 1 .. Len(c) : k = c[b] /\ b = a + d
              BY <2>12, <5>1, <5>3
            <6>2. k \in callIndex
              BY <2>1, <3>2, <3>3, <6>1 DEF c, t
            <6>3. over => k # Head(c)
              <7>1. over => b # 1
                BY <2>5, <2>6, <5>1, <6>1
              <7>2. \A x, y \in 1 .. Len(c) : c[x] = c[y] => x = y
                BY <1>p, <2>1 DEF c, t
              <7>3. QED
                BY <3>4, <6>1, <7>1, <7>2
            <6>4. QED
              BY <2>2, <6>2, <6>3
          <5>4. QED
            BY <5>2, <5>3
        <4>4. QED
          BY <4>2, <4>3
      <3>7. ASSUME k \in callIndex' PROVE k \in ShownCalls(turns')
        <4>1. CASE k = seq
          <5>1. Len(c) + 1 - d \in 1 .. Len(after) /\ after[Len(c) + 1 - d] = k
            BY <2>3, <2>5, <2>6, <4>1
          <5>2. QED
            BY <2>1, <2>4, <2>7, <3>1, <5>1
        <4>2. CASE k # seq
          <5>1. k \in ShownCalls(turns) /\ (over => k # Head(c))
            BY <2>2, <3>3, <3>7, <4>2
          <5>a. PICK i \in 1 .. n : \E a \in 1 .. Len(turns[i].calls) : k = turns[i].calls[a]
            BY <3>2, <5>1
          <5>2. PICK a \in 1 .. Len(turns[i].calls) : k = turns[i].calls[a]
            BY <5>a
          <5>3. CASE i # n
            BY <2>7, <3>1, <5>2, <5>3
          <5>4. CASE i = n
            <6>1. a \in 1 .. Len(c) /\ k = c[a]
              BY <5>2, <5>4 DEF c, t
            <6>2. over => a # 1
              BY <3>4, <5>1, <6>1
            <6>3. a - d \in 1 .. Len(c) - d /\ (a - d) + d = a
              BY <2>3, <2>6, <6>1, <6>2
            <6>a. after[a - d] = c[(a - d) + d]
              BY <2>5, <6>3
            <6>b. a - d \in 1 .. Len(after)
              BY <2>3, <2>5, <2>6, <6>3
            <6>4. after[a - d] = k /\ a - d \in 1 .. Len(after)
              BY <6>1, <6>3, <6>a, <6>b
            <6>5. QED
              BY <2>1, <2>4, <2>7, <3>1, <6>4
          <5>5. QED
            BY <5>3, <5>4
        <4>3. QED
          BY <4>1, <4>2
      <3>8. QED
        BY <3>6, <3>7
    <2>20. \A k \in ShownCalls(turns') : calls'[k] # "let go"
      <3> SUFFICES ASSUME NEW k \in callIndex' PROVE calls'[k] # "let go"
        BY <2>19
      <3>1. CASE k = seq
        BY <1>1, <3>1
      <3>2. CASE k # seq
        <4>1. k \in ShownCalls(turns)
          BY <1>x, <2>2, <3>2
        <4>2. QED
          BY <1>1, <1>l, <1>w, <4>1
      <3>3. QED
        BY <3>1, <3>2
    <2>21. callIndex' = ShownCalls(turns')
      BY <2>19
    <2>22. calls' \in Seq({"pending", "ok", "unknown", "failed", "let go"})
      BY <1>2 DEF Status
    <2>23. turnIndex' = ShownIds(turns')
      BY <1>c, <1>x, <2>18
    <2>24. QED
      BY <1>t, <2>7, <2>8, <2>10, <2>11, <2>15, <2>16, <2>17, <2>20, <2>21, <2>22, <2>23
      DEF HubInv, HubOf
  <1>5. QED
    BY <1>3, <1>4

LEMMA TurnOpens ==
    ASSUME HubInv, TurnOpened
    PROVE  HubInv'
  <1> DEFINE id == Len(past.made) + 1
             new == [id |-> id, outcome |-> "open", calls |-> <<>>, dropped |-> 0, said |-> FALSE]
             S == {turns[i] : i \in 1 .. Len(turns)}
             long == Append(turns, new)
             list == Capped(long, ShownTurns)
             n == Len(turns)
             k == IF Len(long) > ShownTurns THEN Len(long) - ShownTurns ELSE 0
  <1>0. turns \in Seq(S) /\ past.made \in Seq(Nat) /\ ShownTurns \in Nat \ {0} /\ CallsPerTurn \in Nat
    BY DebugHubAssumption DEF HubInv, HubOf
  <1>h. \A i \in 1 .. n :
           /\ TurnOf(turns[i])
           /\ turns[i].id \in 1 .. Len(past.made)
           /\ Len(turns[i].calls) + turns[i].dropped = past.made[turns[i].id]
           /\ \A a \in 1 .. Len(turns[i].calls) : turns[i].calls[a] \in 1 .. Len(calls)
    BY DEF HubInv, HubOf
  <1>i. \A i, j \in 1 .. n : turns[i].id = turns[j].id => i = j
    BY DEF HubInv, HubOf
  <1>p. \A i, j \in 1 .. n :
           \A a \in 1 .. Len(turns[i].calls), b \in 1 .. Len(turns[j].calls) :
              turns[i].calls[a] = turns[j].calls[b] => i = j /\ a = b
    BY DEF HubInv, HubOf
  <1>t. DOMAIN past = {"made", "told", "sent"} /\ past.told \in Nat /\ past.told = past.sent
    BY DEF HubInv, HubOf
  <1>c. /\ turns' = list /\ past' = [past EXCEPT !.made = Append(past.made, 0)] /\ calls' = calls
        /\ turnIndex' = (turnIndex \cup {list[Len(list)].id}) \cap ShownIds(list)
        /\ callIndex' = callIndex \cap ShownCalls(list)
    BY DEF TurnOpened, Prunes
  <1>n. /\ DOMAIN new = {"id", "outcome", "calls", "dropped", "said"} /\ new.id = id
        /\ new.calls = <<>> /\ new.dropped = 0
    OBVIOUS
  <1>e. <<>> \in Seq(Nat) /\ Len(<<>>) = 0 /\ \A a : a \notin 1 .. 0
    OBVIOUS
  <1> HIDE DEF S, new, n, id
  <1>1. n \in Nat /\ Len(past.made) \in Nat
    BY <1>0 DEF n
  <1>2. /\ long \in Seq(S \cup {new}) /\ Len(long) = n + 1 /\ long[n + 1] = new
        /\ \A i \in 1 .. n : long[i] = turns[i]
    BY <1>0 DEF n
  <1> HIDE DEF long
  <1>3. /\ list \in Seq({list[i] : i \in 1 .. Len(list)})
        /\ Len(list) = n + 1 - k /\ k \in Nat /\ n + 1 - k \in 0 .. ShownTurns
        /\ \A i \in 1 .. n + 1 - k : list[i] = long[i + k]
    <2>1. list = Capped(long, ShownTurns) /\ k = IF Len(long) > ShownTurns THEN Len(long) - ShownTurns ELSE 0
      OBVIOUS
    <2> DEFINE T == S \cup {new}
    <2>2. long \in Seq(T) /\ ShownTurns \in Nat \ {0}
      BY <1>0, <1>2
    <2> HIDE DEF list, k, T
    <2>3. /\ list \in Seq(T) /\ Len(list) = Len(long) - k
          /\ k \in Nat /\ Len(long) - k \in 0 .. ShownTurns
          /\ \A i \in 1 .. Len(long) - k : list[i] = long[i + k]
      BY <2>1, <2>2, CappedForm
    <2>4. list \in Seq({list[i] : i \in 1 .. Len(list)})
      BY <2>3, OwnElements
    <2>5. Len(long) = n + 1
      BY <1>2
    <2>6. Len(list) = n + 1 - k /\ k \in Nat /\ n + 1 - k \in 0 .. ShownTurns
      BY <1>1, <2>3, <2>5
    <2>7. \A i \in 1 .. n + 1 - k : list[i] = long[i + k]
      BY <1>1, <2>3, <2>5
    <2>8. QED
      BY <2>4, <2>6, <2>7
  <1>4. n + 1 - k # 0
    BY <1>0, <1>1, <1>2
  <1> HIDE DEF list, k
  <1>5. list \in Seq({list[i] : i \in 1 .. Len(list)})
    BY <1>3
  <1>6. \A i \in 1 .. Len(list) : i + k = n + 1 \/ i + k \in 1 .. n
    BY <1>1, <1>3
  <1>7. \A i \in 1 .. Len(list) : list[i] = IF i + k = n + 1 THEN new ELSE turns[i + k]
    BY <1>2, <1>3, <1>6
  <1>8. /\ DOMAIN past' = {"made", "told", "sent"} /\ past'.told = past.told /\ past'.sent = past.sent
        /\ past'.made = Append(past.made, 0)
    BY <1>c, <1>t
  <1>9. /\ past'.made \in Seq(Nat) /\ Len(past'.made) = id /\ past'.made[id] = 0
        /\ \A m \in 1 .. Len(past.made) : past'.made[m] = past.made[m]
    BY <1>0, <1>8 DEF id
  <1>10. id \in Nat /\ id \in 1 .. id /\ id \notin 1 .. Len(past.made)
         /\ \A m \in 1 .. Len(past.made) : m \in 1 .. id
    BY <1>1 DEF id
  <1>11. \A i \in 1 .. Len(list) :
            /\ TurnOf(list[i])
            /\ list[i].id \in 1 .. Len(past'.made)
            /\ Len(list[i].calls) + list[i].dropped = past'.made[list[i].id]
            /\ \A a \in 1 .. Len(list[i].calls) : list[i].calls[a] \in 1 .. Len(calls)
    <2> SUFFICES ASSUME NEW i \in 1 .. Len(list)
                 PROVE  /\ TurnOf(list[i])
                        /\ list[i].id \in 1 .. Len(past'.made)
                        /\ Len(list[i].calls) + list[i].dropped = past'.made[list[i].id]
                        /\ \A a \in 1 .. Len(list[i].calls) : list[i].calls[a] \in 1 .. Len(calls)
      OBVIOUS
    <2>1. CASE i + k = n + 1
      <3>1. list[i] = new
        BY <1>7, <2>1
      <3>2. TurnOf(new)
        BY <1>0, <1>n, <1>e DEF TurnOf
      <3>3. QED
        BY <1>9, <1>10, <1>n, <1>e, <3>1, <3>2
    <2>2. CASE i + k # n + 1
      <3>1. list[i] = turns[i + k] /\ i + k \in 1 .. n
        BY <1>6, <1>7, <2>2
      <3>2. QED
        BY <1>h, <1>9, <1>10, <3>1
    <2>3. QED
      BY <2>1, <2>2
  <1>12. \A i, j \in 1 .. Len(list) : i + k = j + k => i = j
    BY <1>3
  <1>13. \A i, j \in 1 .. Len(list) : list[i].id = list[j].id => i = j
    <2> SUFFICES ASSUME NEW i \in 1 .. Len(list), NEW j \in 1 .. Len(list), list[i].id = list[j].id
                 PROVE  i + k = j + k
      BY <1>12
    <2>1. \A m \in 1 .. Len(list) : m + k # n + 1 => m + k \in 1 .. n /\ list[m] = turns[m + k] /\ list[m].id # id
      BY <1>6, <1>7, <1>10, <1>h
    <2>2. \A m \in 1 .. Len(list) : m + k = n + 1 => list[m].id = id
      BY <1>7, <1>n
    <2>3. QED
      BY <1>i, <2>1, <2>2
  <1>14. ASSUME NEW i \in 1 .. Len(list), NEW j \in 1 .. Len(list),
                NEW a \in 1 .. Len(list[i].calls), NEW b \in 1 .. Len(list[j].calls),
                list[i].calls[a] = list[j].calls[b]
         PROVE  i = j /\ a = b
    <2>1. \A m \in 1 .. Len(list) : m + k = n + 1 => \A x : x \notin 1 .. Len(list[m].calls)
      BY <1>7, <1>n, <1>e
    <2>2. i + k \in 1 .. n /\ j + k \in 1 .. n /\ list[i] = turns[i + k] /\ list[j] = turns[j + k]
      BY <1>6, <1>7, <2>1
    <2> DEFINE x == i + k
               y == j + k
    <2> HIDE DEF x, y
    <2>3. x \in 1 .. n /\ y \in 1 .. n /\ list[i] = turns[x] /\ list[j] = turns[y]
      BY <2>2 DEF x, y
    <2>4. a \in 1 .. Len(turns[x].calls) /\ b \in 1 .. Len(turns[y].calls)
          /\ turns[x].calls[a] = turns[y].calls[b]
      BY <1>14, <2>3
    <2>5. x = y /\ a = b
      BY <1>p, <2>3, <2>4
    <2>6. QED
      BY <1>12, <2>5 DEF x, y
  <1>15. turnIndex' = ShownIds(list)
    <2>1. ShownIds(list) \subseteq ShownIds(turns) \cup {id}
      BY <1>6, <1>7, <1>n DEF ShownIds, n
    <2>2. list[Len(list)].id = id
      <3>1. Len(list) \in 1 .. Len(list) /\ Len(list) + k = n + 1
        BY <1>1, <1>3, <1>4
      <3>2. QED
        BY <1>7, <1>n, <3>1
    <2>3. turnIndex = ShownIds(turns)
      BY DEF HubInv, HubOf
    <2>4. QED
      BY <1>c, <2>1, <2>2, <2>3
  <1>16. \A q \in ShownCalls(list) : q \in ShownCalls(turns)
    <2> SUFFICES ASSUME NEW q \in ShownCalls(list) PROVE q \in ShownCalls(turns)
      OBVIOUS
    <2>1. \A i \in 1 .. Len(list) : list[i].calls \in Seq(Nat)
      BY <1>11 DEF TurnOf
    <2>2. PICK i \in 1 .. Len(list) : \E a \in 1 .. Len(list[i].calls) : q = list[i].calls[a]
      <3>1. q \in ShownCalls(list) <=>
              \E i \in 1 .. Len(list) : \E a \in 1 .. Len(list[i].calls) : q = list[i].calls[a]
        BY <2>1, ShownCall
      <3>2. QED
        BY <3>1
    <2>3. i + k # n + 1
      BY <1>7, <1>n, <1>e, <2>2
    <2>4. i + k \in 1 .. n /\ list[i] = turns[i + k]
      BY <1>6, <1>7, <2>3
    <2>5. \A m \in 1 .. Len(turns) : turns[m].calls \in Seq(Nat)
      BY <1>h DEF TurnOf, n
    <2>6. QED
      BY <2>2, <2>4, <2>5, ShownCall DEF n
  <1>17. callIndex' = ShownCalls(list) /\ \A q \in ShownCalls(list) : calls[q] # "let go"
    BY <1>c, <1>16 DEF HubInv, HubOf
  <1>18. calls \in Seq({"pending", "ok", "unknown", "failed", "let go"})
    BY DEF HubInv, HubOf
  <1>19. /\ turns' = list /\ calls' = calls
    BY <1>c
  <1>20. /\ past'.told \in Nat /\ past'.told = past'.sent /\ DOMAIN past' = {"made", "told", "sent"}
         /\ past'.made \in Seq(Nat)
    BY <1>t, <1>8, <1>9
  <1>21. \A i, j \in 1 .. Len(list) :
            \A a \in 1 .. Len(list[i].calls), b \in 1 .. Len(list[j].calls) :
               list[i].calls[a] = list[j].calls[b] => i = j /\ a = b
    BY <1>14
  <1>22. HubOf(list, turnIndex', callIndex', calls, past')
    BY <1>5, <1>11, <1>13, <1>15, <1>17, <1>18, <1>20, <1>21 DEF HubOf
  <1>23. QED
    BY <1>19, <1>22 DEF HubInv

LEMMA HubNextKeeps == HubInv /\ [HubNext]_hubVars => HubInv'
  <1> SUFFICES ASSUME HubInv, [HubNext]_hubVars PROVE HubInv'
    OBVIOUS
  <1>1. CASE TurnOpened
    BY <1>1, TurnOpens
  <1>2. ASSUME NEW id, NEW field \in {"outcome", "said"}, NEW value, turns' = Amended(id, field, value),
               UNCHANGED <<turnIndex, callIndex, calls, past>>
        PROVE  HubInv'
    <2> DEFINE S == {turns[i] : i \in 1 .. Len(turns)}
    <2>0. turns \in Seq(S)
      BY DEF HubInv, HubOf
    <2> HIDE DEF S
    <2>1. Len(turns) \in Nat /\ DOMAIN turns = 1 .. Len(turns)
      BY <2>0
    <2>2. turns' = [i \in 1 .. Len(turns) |->
                      IF turns[i].id = id /\ id \in turnIndex
                      THEN [turns[i] EXCEPT ![field] = value] ELSE turns[i]]
      BY <1>2, <2>1 DEF Amended
    <2> DEFINE R == {turns'[i] : i \in 1 .. Len(turns)}
    <2>3. \A i \in 1 .. Len(turns) : turns'[i] \in R
      OBVIOUS
    <2> HIDE DEF R
    <2>4. turns' \in Seq(R) /\ Len(turns') = Len(turns)
      BY <2>1, <2>2, <2>3
    <2>5. turns' \in Seq({turns'[i] : i \in 1 .. Len(turns')})
      BY <2>4, OwnElements
    <2>6. \A i \in 1 .. Len(turns) : TurnOf(turns[i])
      BY DEF HubInv, HubOf
    <2>7. \A i \in 1 .. Len(turns) :
             /\ DOMAIN turns'[i] = DOMAIN turns[i] /\ turns'[i].id = turns[i].id
             /\ turns'[i].calls = turns[i].calls /\ turns'[i].dropped = turns[i].dropped
      BY <2>2, <2>6 DEF TurnOf
    <2>8. \A i \in 1 .. Len(turns) : TurnOf(turns'[i])
      BY <2>6, <2>7 DEF TurnOf
    <2>9. ShownIds(turns') = ShownIds(turns) /\ ShownCalls(turns') = ShownCalls(turns)
      BY <2>4, <2>7 DEF ShownIds, ShownCalls
    <2>10. HubOf(turns', turnIndex, callIndex, calls, past)
      <3>1. HubOf(turns, turnIndex, callIndex, calls, past)
        BY DEF HubInv
      <3>2. \A i \in 1 .. Len(turns') :
               /\ TurnOf(turns'[i])
               /\ turns'[i].id \in 1 .. Len(past.made)
               /\ Len(turns'[i].calls) + turns'[i].dropped = past.made[turns'[i].id]
               /\ \A a \in 1 .. Len(turns'[i].calls) : turns'[i].calls[a] \in 1 .. Len(calls)
        BY <2>4, <2>7, <2>8, <3>1 DEF HubOf
      <3>3. \A i, j \in 1 .. Len(turns') : turns'[i].id = turns'[j].id => i = j
        BY <2>4, <2>7, <3>1 DEF HubOf
      <3>4. \A i, j \in 1 .. Len(turns') :
               \A a \in 1 .. Len(turns'[i].calls), b \in 1 .. Len(turns'[j].calls) :
                  turns'[i].calls[a] = turns'[j].calls[b] => i = j /\ a = b
        <4>1. \A i, j \in 1 .. Len(turns) :
                 \A a \in 1 .. Len(turns[i].calls), b \in 1 .. Len(turns[j].calls) :
                    turns[i].calls[a] = turns[j].calls[b] => i = j /\ a = b
          BY <3>1 DEF HubOf
        <4>2. ASSUME NEW i \in 1 .. Len(turns'), NEW j \in 1 .. Len(turns'),
                     NEW a \in 1 .. Len(turns'[i].calls), NEW b \in 1 .. Len(turns'[j].calls),
                     turns'[i].calls[a] = turns'[j].calls[b]
              PROVE  i = j /\ a = b
          <5>1. turns'[i].calls = turns[i].calls /\ turns'[j].calls = turns[j].calls
            BY <2>4, <2>7
          <5>2. QED
            BY <2>4, <4>1, <4>2, <5>1
        <4>3. QED
          BY <4>2
      <3>5. QED
        BY <2>5, <2>9, <3>1, <3>2, <3>3, <3>4 DEF HubOf
    <2>11. QED
      BY <1>2, <2>10 DEF HubInv
  <1>3. ASSUME NEW id, TurnClosed(id) \/ AgentSaid(id) PROVE HubInv'
    BY <1>2, <1>3 DEF TurnClosed, AgentSaid
  <1>4. CASE CallRecorded
    BY <1>4, CallKeeps
  <1>5. ASSUME NEW seq \in 1 .. Len(calls), ResultRecorded(seq) PROVE HubInv'
    <2>1. PICK status \in {"ok", "unknown", "failed"} :
            calls' = [calls EXCEPT ![seq] = IF seq \in callIndex THEN status ELSE "let go"]
      BY <1>5 DEF ResultRecorded
    <2>2. calls \in Seq({"pending", "ok", "unknown", "failed", "let go"})
      BY DEF HubInv, HubOf
    <2>3. /\ calls' \in Seq({"pending", "ok", "unknown", "failed", "let go"}) /\ Len(calls') = Len(calls)
          /\ \A k \in 1 .. Len(calls) : k # seq => calls'[k] = calls[k]
          /\ seq \in callIndex => calls'[seq] # "let go"
      <3> DEFINE new == IF seq \in callIndex THEN status ELSE "let go"
      <3>1. new \in {"pending", "ok", "unknown", "failed", "let go"} /\ (seq \in callIndex => new # "let go")
        OBVIOUS
      <3>2. calls' = [calls EXCEPT ![seq] = new]
        BY <2>1
      <3> DEFINE T == {"pending", "ok", "unknown", "failed", "let go"}
      <3>3. calls \in Seq(T) /\ new \in T
        BY <2>2, <3>1
      <3> HIDE DEF new, T
      <3>4. /\ calls' \in Seq(T) /\ Len(calls') = Len(calls) /\ calls'[seq] = new
            /\ \A k \in 1 .. Len(calls) : k # seq => calls'[k] = calls[k]
        BY <3>2, <3>3
      <3>5. QED
        BY <3>1, <3>4 DEF T
    <2>4. \A k \in ShownCalls(turns) : k \in 1 .. Len(calls)
      <3>1. \A i \in 1 .. Len(turns) : turns[i].calls \in Seq(Nat)
        BY DEF HubInv, HubOf, TurnOf
      <3>2. \A k : k \in ShownCalls(turns) <=>
                     \E i \in 1 .. Len(turns) : \E a \in 1 .. Len(turns[i].calls) : k = turns[i].calls[a]
        BY <3>1, ShownCall
      <3>3. \A i \in 1 .. Len(turns) : \A a \in 1 .. Len(turns[i].calls) : turns[i].calls[a] \in 1 .. Len(calls)
        BY DEF HubInv, HubOf
      <3>4. QED
        BY <3>2, <3>3
    <2>5. \A k \in ShownCalls(turns) : calls'[k] # "let go"
      BY <2>3, <2>4 DEF HubInv, HubOf
    <2>6. HubOf(turns, turnIndex, callIndex, calls', past)
      BY <2>3, <2>5 DEF HubInv, HubOf
    <2>7. UNCHANGED <<turns, turnIndex, callIndex, past>>
      BY <1>5 DEF ResultRecorded
    <2>8. QED
      BY <2>6, <2>7 DEF HubInv
  <1>6. ASSUME NEW event \in Events, Telemetry(event) PROVE HubInv'
    <2>1. /\ past' = [past EXCEPT !.sent = past.sent + 1, !.told = past.told + 1]
          /\ UNCHANGED <<turns, turnIndex, callIndex, calls>>
      BY <1>6 DEF Telemetry, Delegated
    <2>2. /\ DOMAIN past' = {"made", "told", "sent"} /\ past'.made = past.made
          /\ past'.told \in Nat /\ past'.told = past'.sent
      <3>1. DOMAIN past = {"made", "told", "sent"} /\ past.told \in Nat /\ past.told = past.sent
        BY DEF HubInv, HubOf
      <3>2. QED
        BY <2>1, <3>1
    <2>3. HubOf(turns, turnIndex, callIndex, calls, past')
      BY <2>2 DEF HubInv, HubOf
    <2>4. QED
      BY <2>1, <2>3 DEF HubInv
  <1>7. CASE ResetMatch
    <2>1. turns' = <<>> /\ turnIndex' = {} /\ callIndex' = {} /\ UNCHANGED <<calls, past>>
      BY <1>7 DEF ResetMatch
    <2>2. turns' \in Seq({}) /\ Len(turns') = 0
      BY <2>1
    <2>3. turns' \in Seq({turns'[i] : i \in 1 .. Len(turns')}) /\ \A i : i \notin 1 .. Len(turns')
      BY <2>2, OwnElements
    <2>4. ShownIds(turns') = {} /\ ShownCalls(turns') = {}
      BY <2>3 DEF ShownIds, ShownCalls
    <2>5. HubOf(turns', {}, {}, calls, past)
      BY <2>3, <2>4 DEF HubInv, HubOf
    <2>6. QED
      BY <2>1, <2>5 DEF HubInv
  <1>8. CASE UNCHANGED hubVars
    BY <1>8 DEF hubVars, HubInv
  <1>9. QED
    BY <1>1, <1>3, <1>4, <1>5, <1>6, <1>7, <1>8 DEF HubNext

LEMMA HubJoins == HubInv => JoinsWhatItShows
  BY DEF HubInv, HubOf, JoinsWhatItShows

InspectInv == HubInv /\ WindowInv

\* A late transcript or result finds exactly what the window can show, a turn accounts for
\* every call made in it and the telemetry behind misses nothing; a window that is shown is fed
\* and shows nothing that was not made; and a match scenario that walked past the stack noted
\* all four of its moments: for every cap, and for every walk that starts an even number of
\* seconds before the horn towards a stack at an odd one. (main/debug, renderer/debug)
THEOREM InspectorHolds == PartsSpec => []InspectorIsTrue
  <1>1. PartsInit => InspectInv
    BY HubStart, WindowStart DEF PartsInit, InspectInv
  <1>2. InspectInv /\ [PartsNext]_partsVars => InspectInv'
    <2>1. [PartsNext]_partsVars => [HubNext]_hubVars /\ [WindowNext]_windowVars
      <3>1. PartsNext => [HubNext]_hubVars /\ [WindowNext]_windowVars
        BY DEF PartsNext
      <3>2. UNCHANGED partsVars => UNCHANGED <<hubVars, windowVars>>
        BY DEF partsVars
      <3>3. QED
        BY <3>1, <3>2
    <2>2. QED
      BY <2>1, HubNextKeeps, WindowNextKeeps DEF InspectInv
  <1>3. InspectInv => InspectorIsTrue
    BY HubJoins, WindowFed DEF InspectInv, InspectorIsTrue
  <1>4. QED
    BY <1>1, <1>2, <1>3, PTL DEF PartsSpec, partsVars

-----------------------------------------------------------------------------
(* The bus *)

Observed == [kind : {"gsi", "cv"}, seq : Nat]

Rising(q) == \A i, j \in 1 .. Len(q) : i < j => q[i].seq < q[j].seq

\* A queue of what was sent after all that was delivered or lost.
Waits(q) ==
    /\ q \in Seq(Observed) /\ Rising(q)
    /\ \A k \in 1 .. Len(q) :
          /\ q[k].seq \in 1 .. sent
          /\ \A i \in 1 .. Len(delivered) : delivered[i].seq < q[k].seq
          /\ \A n \in lost : n < q[k].seq

AllSeqs == Seqs(delivered) \cup Seqs(queue) \cup lost

BusInv ==
    /\ sent \in Nat /\ lost \subseteq 1 .. sent
    /\ delivered \in Seq(Observed) /\ Rising(delivered)
    /\ \A i \in 1 .. Len(delivered) : delivered[i].seq \in 1 .. sent
    /\ Waits(queue)
    /\ DOMAIN counts = {"last", "gaps", "dropped"} /\ DOMAIN counts.dropped = {"gsi", "cv"}
    /\ counts.dropped["cv"] \in Nat /\ counts.dropped["gsi"] = 0
    /\ Cardinality(AllSeqs) + counts.dropped["cv"] = sent

LEMMA SeqsOf ==
    ASSUME NEW q \in Seq(Observed)
    PROVE  /\ Seqs(q) = {q[i].seq : i \in 1 .. Len(q)}
           /\ \A i \in 1 .. Len(q) : q[i] \in Observed
  <1>1. DOMAIN q = 1 .. Len(q)
    OBVIOUS
  <1>2. QED
    BY <1>1 DEF Seqs

\* All numbers are of observations that were sent, so there are finitely many.
LEMMA SeqsAreSent ==
    ASSUME BusInv
    PROVE  /\ AllSeqs \subseteq 1 .. sent /\ IsFiniteSet(AllSeqs) /\ Cardinality(AllSeqs) \in Nat
           /\ sent + 1 \notin AllSeqs
  <1>1. AllSeqs \subseteq 1 .. sent
    <2>1. queue \in Seq(Observed) /\ delivered \in Seq(Observed) /\ lost \subseteq 1 .. sent
      BY DEF BusInv, Waits
    <2>2. /\ Seqs(queue) = {queue[i].seq : i \in 1 .. Len(queue)}
          /\ Seqs(delivered) = {delivered[i].seq : i \in 1 .. Len(delivered)}
      BY <2>1, SeqsOf
    <2>3. Seqs(queue) \subseteq 1 .. sent
      BY <2>2 DEF BusInv, Waits
    <2>4. Seqs(delivered) \subseteq 1 .. sent
      BY <2>2 DEF BusInv
    <2>5. QED
      BY <2>1, <2>3, <2>4 DEF AllSeqs
  <1>2. IsFiniteSet(1 .. sent) /\ sent \in Nat
    BY FS_Interval DEF BusInv
  <1>3. IsFiniteSet(AllSeqs)
    BY <1>1, <1>2, FS_Subset
  <1>4. QED
    BY <1>1, <1>2, <1>3, FS_CardinalityType

\* The oldest detection is one.
LEMMA OldestIs ==
    ASSUME NEW q \in Seq(Observed)
    PROVE  \/ OldestSheddable(q) = 0
           \/ OldestSheddable(q) \in 1 .. Len(q) /\ q[OldestSheddable(q)].kind = "cv"
  <1> DEFINE T == {i \in 1 .. Len(q) : Sheddable(q[i])}
  <1>1. CASE T = {}
    BY <1>1 DEF OldestSheddable
  <1>2. CASE T # {}
    <2>0. T \subseteq Nat
      OBVIOUS
    <2> HIDE DEF T
    <2>1. PICK x \in T : \A y \in T : x <= y
      BY <1>2, <2>0, LeastOf
    <2> USE DEF T
    <2>2. x \in DOMAIN q /\ Sheddable(q[x]) /\ \A j \in 1 .. (x - 1) : ~Sheddable(q[j])
      BY <2>1
    <2>3. QED
      BY <2>2 DEF OldestSheddable, Sheddable
  <1>3. QED
    BY <1>1, <1>2

LEMMA JoinedForm ==
    ASSUME NEW S, NEW a \in Seq(S), NEW b \in Seq(S)
    PROVE  /\ a \o b \in Seq(S) /\ Len(a \o b) = Len(a) + Len(b)
           /\ \A k \in 1 .. Len(a) + Len(b) :
                 (a \o b)[k] = IF k <= Len(a) THEN a[k] ELSE b[k - Len(a)]
  OBVIOUS

LEMMA WithoutForm ==
    ASSUME NEW S, NEW q \in Seq(S), NEW i \in 1 .. Len(q)
    PROVE  /\ Without(q, i) \in Seq(S) /\ Len(Without(q, i)) = Len(q) - 1
           /\ \A k \in 1 .. Len(q) - 1 : Without(q, i)[k] = IF k < i THEN q[k] ELSE q[k + 1]
  <1> DEFINE a == SubSeq(q, 1, i - 1)
             b == SubSeq(q, i + 1, Len(q))
  <1>1. a \in Seq(S) /\ Len(a) = i - 1 /\ \A k \in 1 .. i - 1 : a[k] = q[k]
    OBVIOUS
  <1>2. b \in Seq(S) /\ Len(b) = Len(q) - i /\ \A k \in 1 .. Len(q) - i : b[k] = q[i + k]
    OBVIOUS
  <1>3. Without(q, i) = a \o b
    BY DEF Without
  <1> HIDE DEF a, b
  <1>4. /\ a \o b \in Seq(S) /\ Len(a \o b) = Len(q) - 1
        /\ \A k \in 1 .. Len(q) - 1 : (a \o b)[k] = IF k <= i - 1 THEN a[k] ELSE b[k - (i - 1)]
    <2>1. /\ a \o b \in Seq(S) /\ Len(a \o b) = Len(a) + Len(b)
          /\ \A k \in 1 .. Len(a) + Len(b) :
                (a \o b)[k] = IF k <= Len(a) THEN a[k] ELSE b[k - Len(a)]
      BY <1>1, <1>2, JoinedForm
    <2>2. Len(a) + Len(b) = Len(q) - 1
      BY <1>1, <1>2
    <2>3. QED
      BY <1>1, <2>1, <2>2
  <1>5. ASSUME NEW k \in 1 .. Len(q) - 1 PROVE (a \o b)[k] = IF k < i THEN q[k] ELSE q[k + 1]
    <2>1. CASE k < i
      BY <1>1, <1>4, <2>1
    <2>2. CASE ~(k < i)
      <3>1. k - (i - 1) \in 1 .. Len(q) - i /\ i + (k - (i - 1)) = k + 1
        BY <2>2
      <3>2. QED
        BY <1>2, <1>4, <2>2, <3>1
    <2>3. QED
      BY <2>1, <2>2
  <1>6. QED
    BY <1>3, <1>4, <1>5

\* What is left of the queue when one is shed still waits, and lacks its number alone.
LEMMA ShedWaits ==
    ASSUME BusInv, NEW i \in 1 .. Len(queue)
    PROVE  /\ Waits(Without(queue, i))
           /\ Seqs(Without(queue, i)) = Seqs(queue) \ {queue[i].seq}
           /\ queue[i].seq \notin Seqs(delivered) \cup lost
  <1> DEFINE w == Without(queue, i)
             n == Len(queue)
  <1>1. queue \in Seq(Observed) /\ n \in Nat /\ i \in 1 .. n /\ Waits(queue)
    BY DEF BusInv, Waits
  <1>2. /\ w \in Seq(Observed) /\ Len(w) = n - 1
        /\ \A k \in 1 .. n - 1 : w[k] = IF k < i THEN queue[k] ELSE queue[k + 1]
    BY <1>1, WithoutForm
  <1> DEFINE at(k) == IF k < i THEN k ELSE k + 1
  <1>3. \A k \in 1 .. n - 1 : at(k) \in 1 .. n /\ at(k) # i /\ w[k] = queue[at(k)]
    BY <1>1, <1>2
  <1>4. \A k, l \in 1 .. n - 1 : k < l => at(k) < at(l)
    BY <1>1
  <1> HIDE DEF w, n
  <1>5. ASSUME NEW j \in 1 .. n, j # i PROVE \E k \in 1 .. n - 1 : at(k) = j
    <2>1. CASE j < i
      <3>1. j \in 1 .. n - 1 /\ at(j) = j
        BY <1>1, <2>1
      <3>2. QED
        BY <3>1
    <2>2. CASE j > i
      <3>1. j - 1 \in 1 .. n - 1 /\ at(j - 1) = j
        BY <1>1, <2>2
      <3>2. QED
        BY <3>1
    <2>3. QED
      BY <1>1, <1>5, <2>1, <2>2
  <1> HIDE DEF at
  <1>6. Waits(w)
    BY <1>1, <1>2, <1>3, <1>4 DEF Waits, Rising, n
  <1>7. ASSUME NEW j \in 1 .. n, j # i PROVE queue[j].seq # queue[i].seq
    BY <1>1, <1>7 DEF Waits, Rising, n
  <1>8. Seqs(w) = Seqs(queue) \ {queue[i].seq}
    <2>1. Seqs(w) = {w[k].seq : k \in 1 .. n - 1} /\ Seqs(queue) = {queue[j].seq : j \in 1 .. n}
      BY <1>1, <1>2, SeqsOf DEF n
    <2>2. {w[k].seq : k \in 1 .. n - 1} = {queue[j].seq : j \in {j \in 1 .. n : j # i}}
      BY <1>3, <1>5
    <2>3. QED
      BY <1>1, <1>7, <2>1, <2>2
  <1>9. queue[i].seq \notin Seqs(delivered) \cup lost
    <2>1. delivered \in Seq(Observed) /\ lost \subseteq 1 .. sent
      BY DEF BusInv
    <2>2. Seqs(delivered) = {delivered[k].seq : k \in 1 .. Len(delivered)}
      BY <2>1, SeqsOf
    <2>3. \A k \in 1 .. Len(delivered) : delivered[k].seq < queue[i].seq
      BY <1>1 DEF Waits, n
    <2>4. \A k \in lost : k < queue[i].seq
      BY <1>1 DEF Waits, n
    <2>5. \A k \in 1 .. Len(delivered) : delivered[k].seq \in Nat
      BY <2>1, SeqsOf DEF Observed
    <2>6. queue[i].seq \in Nat
      BY <1>1 DEF Waits, n
    <2>7. QED
      BY <2>1, <2>2, <2>3, <2>4, <2>5, <2>6
  <1>10. QED
    BY <1>6, <1>8, <1>9 DEF w

\* What is published comes after all the others.
LEMMA AppendedWaits ==
    ASSUME BusInv, NEW q, Waits(q), NEW o \in Observed, o.seq = sent + 1,
           queue' = Append(q, o), sent' = sent + 1, UNCHANGED <<delivered, lost>>
    PROVE  Waits(queue)' /\ Seqs(queue)' = Seqs(q) \cup {sent + 1}
  <1> DEFINE n == Len(q)
  <1>1. q \in Seq(Observed) /\ n \in Nat /\ sent \in Nat
    BY DEF Waits, BusInv
  <1>2. /\ queue' \in Seq(Observed) /\ Len(queue') = n + 1 /\ queue'[n + 1] = o
        /\ \A k \in 1 .. n : queue'[k] = q[k]
    BY <1>1
  <1>3. \A k \in 1 .. n + 1 : k \in 1 .. n \/ k = n + 1
    BY <1>1
  <1> HIDE DEF n
  <1>4. ASSUME NEW k \in 1 .. n + 1
        PROVE  /\ queue'[k].seq \in 1 .. sent + 1
               /\ \A i \in 1 .. Len(delivered) : delivered[i].seq < queue'[k].seq
               /\ \A m \in lost : m < queue'[k].seq
    <2>1. CASE k \in 1 .. n
      BY <1>1, <1>2, <2>1 DEF Waits, n
    <2>2. CASE k = n + 1
      BY <1>1, <1>2, <2>2 DEF BusInv
    <2>3. QED
      BY <1>3, <2>1, <2>2
  <1>5. ASSUME NEW i \in 1 .. n + 1, NEW j \in 1 .. n + 1, i < j PROVE queue'[i].seq < queue'[j].seq
    <2>1. i \in 1 .. n
      BY <1>1, <1>5
    <2>2. CASE j \in 1 .. n
      BY <1>2, <1>5, <2>1, <2>2 DEF Waits, Rising, n
    <2>3. CASE j = n + 1
      BY <1>1, <1>2, <2>1, <2>3 DEF Waits, n
    <2>4. QED
      BY <1>3, <2>2, <2>3
  <1>6. Waits(queue)'
    BY <1>2, <1>4, <1>5 DEF Waits, Rising
  <1>7. Seqs(queue)' = Seqs(q) \cup {sent + 1}
    <2>1. Seqs(queue') = {queue'[k].seq : k \in 1 .. n + 1} /\ Seqs(q) = {q[k].seq : k \in 1 .. n}
      BY <1>1, <1>2, SeqsOf DEF n
    <2>2. {queue'[k].seq : k \in 1 .. n + 1} = {q[k].seq : k \in 1 .. n} \cup {sent + 1}
      BY <1>1, <1>2, <1>3
    <2>3. QED
      BY <2>1, <2>2 DEF Seqs
  <1>8. QED
    BY <1>6, <1>7

LEMMA BusStart == BusInit => BusInv
  <1> SUFFICES ASSUME BusInit PROVE BusInv
    OBVIOUS
  <1>1. queue = <<>> /\ delivered = <<>> /\ sent = 0 /\ lost = {}
    BY DEF BusInit
  <1>2. AllSeqs = {} /\ Cardinality(AllSeqs) = 0
    BY <1>1, FS_EmptySet DEF AllSeqs, Seqs
  <1>3. Waits(queue) /\ Rising(delivered)
    BY <1>1 DEF Waits, Rising
  <1>4. QED
    BY <1>1, <1>2, <1>3 DEF BusInit, BusInv

\* One published: it waits, or is shed, or another is shed for it.
LEMMA PublishKeeps ==
    ASSUME BusInv, Publish
    PROVE  BusInv'
  <1>1. PICK kind \in {"gsi", "cv"}, number \in {counts.last + 1, counts.last + 2} :
           LET o == [kind |-> kind, seq |-> sent + 1]
           IN  /\ queue' = IF o \in Dropped(o) THEN queue
                           ELSE Append(IF Full(o) THEN Without(queue, OldestSheddable(queue)) ELSE queue, o)
               /\ counts' = [NoteSeq(counts, number) EXCEPT
                                !.dropped = [k \in {"gsi", "cv"} |->
                                   @[k] + Cardinality({d \in Dropped(o) : d.kind = k})]]
    BY DEF Publish
  <1>2. sent' = sent + 1 /\ UNCHANGED <<delivered, lost>> /\ sent \in Nat
    BY DEF Publish, BusInv
  <1>0. /\ counts.dropped["cv"] \in Nat /\ counts.dropped["gsi"] = 0 /\ Cardinality({}) = 0
        /\ Cardinality(AllSeqs) + counts.dropped["cv"] = sent
    BY FS_EmptySet DEF BusInv
  <1> DEFINE o == [kind |-> kind, seq |-> sent + 1]
             i == OldestSheddable(queue)
             gone == Dropped(o)
             lostOf(k) == Cardinality({d \in gone : d.kind = k})
  <1>3. o \in Observed /\ o.seq = sent + 1 /\ o.kind = kind
    BY <1>2 DEF Observed
  <1>4. queue \in Seq(Observed) /\ Waits(queue)
    BY DEF BusInv, Waits
  <1>5. /\ queue' = IF o \in gone THEN queue ELSE Append(IF Full(o) THEN Without(queue, i) ELSE queue, o)
        /\ DOMAIN counts' = {"last", "gaps", "dropped"}
        /\ DOMAIN counts'.dropped = {"gsi", "cv"}
        /\ counts'.dropped["cv"] = counts.dropped["cv"] + lostOf("cv")
        /\ counts'.dropped["gsi"] = counts.dropped["gsi"] + lostOf("gsi")
    <2>1. DOMAIN counts = {"last", "gaps", "dropped"}
      BY DEF BusInv
    <2>2. /\ DOMAIN NoteSeq(counts, number) = {"last", "gaps", "dropped"}
          /\ NoteSeq(counts, number).dropped = counts.dropped
      BY <2>1 DEF NoteSeq
    <2>3. /\ DOMAIN counts' = {"last", "gaps", "dropped"}
          /\ counts'.dropped = [k \in {"gsi", "cv"} |->
                                  counts.dropped[k] + lostOf(k)]
      BY <1>1, <2>2
    <2>4. queue' = IF o \in gone THEN queue ELSE Append(IF Full(o) THEN Without(queue, i) ELSE queue, o)
      BY <1>1
    <2> HIDE DEF gone, lostOf
    <2>5. QED
      BY <2>3, <2>4
  <1>6. i = 0 \/ (i \in 1 .. Len(queue) /\ queue[i].kind = "cv")
    BY <1>4, OldestIs
  <1>7. gone = IF ~Full(o) THEN {} ELSE IF i = 0 THEN {o} ELSE {queue[i]}
    BY DEF Dropped
  <1>8. Full(o) => kind = "cv"
    BY <1>3 DEF Full, Sheddable
  <1> HIDE DEF o, i, gone, lostOf
  <1>9. /\ AllSeqs \subseteq 1 .. sent /\ IsFiniteSet(AllSeqs) /\ Cardinality(AllSeqs) \in Nat
        /\ sent + 1 \notin AllSeqs
    BY SeqsAreSent
  <1>10. Cardinality(AllSeqs \cup {sent + 1}) = Cardinality(AllSeqs) + 1
    BY <1>9, FS_AddElement
  \* The rest follows from what waits then, and from the count.
  <1>11. ASSUME Waits(queue)', DOMAIN counts' = {"last", "gaps", "dropped"}, DOMAIN counts'.dropped = {"gsi", "cv"},
                counts'.dropped["cv"] \in Nat, counts'.dropped["gsi"] = 0,
                Cardinality(AllSeqs') + counts'.dropped["cv"] = sent + 1
         PROVE  BusInv'
    <2>1. /\ sent' \in Nat /\ lost' \subseteq 1 .. sent'
          /\ delivered' \in Seq(Observed) /\ Rising(delivered')
      BY <1>2 DEF BusInv
    <2>2. \A k \in 1 .. Len(delivered') : delivered'[k].seq \in 1 .. sent'
      <3>1. \A k \in 1 .. Len(delivered) : delivered[k].seq \in 1 .. sent
        BY DEF BusInv
      <3>2. QED
        BY <1>2, <3>1
    <2>3. QED
      BY <1>2, <1>11, <2>1, <2>2 DEF BusInv, Rising
  <1>12. CASE ~Full(o)
    <2>1. gone = {} /\ queue' = Append(queue, o)
      BY <1>5, <1>7, <1>12
    <2>2. lostOf("cv") = 0 /\ lostOf("gsi") = 0
      <3>1. {d \in gone : d.kind = "cv"} = {} /\ {d \in gone : d.kind = "gsi"} = {}
        BY <2>1
      <3>2. QED
        BY <1>0, <3>1 DEF lostOf
    <2>3. counts'.dropped["cv"] = counts.dropped["cv"] /\ counts'.dropped["gsi"] = 0
      BY <1>0, <1>5, <2>2
    <2>4. Waits(queue)' /\ Seqs(queue)' = Seqs(queue) \cup {sent + 1}
      BY <1>2, <1>3, <1>4, <2>1, AppendedWaits
    <2>5. AllSeqs' = AllSeqs \cup {sent + 1}
      BY <1>2, <2>4 DEF AllSeqs, Seqs
    <2>6. QED
      BY <1>2, <1>5, <1>0, <1>9, <1>10, <1>11, <2>3, <2>4, <2>5
  <1>13. CASE Full(o) /\ i = 0
    <2>1. gone = {o} /\ queue' = queue
      BY <1>5, <1>7, <1>13
    <2>2. lostOf("cv") = 1 /\ lostOf("gsi") = 0
      <3>1. {d \in gone : d.kind = "cv"} = {o} /\ {d \in gone : d.kind = "gsi"} = {}
        BY <1>3, <1>8, <1>13, <2>1
      <3>2. QED
        BY <1>0, <3>1, FS_Singleton DEF lostOf
    <2>3. counts'.dropped["cv"] = counts.dropped["cv"] + 1 /\ counts'.dropped["gsi"] = 0
      BY <1>0, <1>5, <2>2
    <2>4. Waits(queue)'
      <3>1. \A k \in 1 .. Len(queue) : queue[k].seq \in 1 .. sent + 1
        BY <1>2, <1>4 DEF Waits
      <3>2. QED
        BY <1>2, <1>4, <2>1, <3>1 DEF Waits, Rising
    <2>5. AllSeqs' = AllSeqs
      BY <1>2, <2>1 DEF AllSeqs, Seqs
    <2>6. QED
      BY <1>2, <1>5, <1>0, <1>9, <1>11, <2>3, <2>4, <2>5, SMTT(30)
  <1>14. CASE Full(o) /\ i # 0
    <2> DEFINE n == queue[i].seq
    <2>1. i \in 1 .. Len(queue) /\ queue[i].kind = "cv" /\ n \in 1 .. sent /\ queue[i] \in Observed
      BY <1>4, <1>6, <1>14, SeqsOf DEF Waits
    <2>2. gone = {queue[i]} /\ o \notin gone /\ queue' = Append(Without(queue, i), o)
      <3>1. gone = {queue[i]}
        BY <1>7, <1>14
      <3>2. o # queue[i]
        BY <1>2, <1>3, <2>1
      <3>3. QED
        BY <1>5, <1>14, <3>1, <3>2
    <2>3. lostOf("cv") = 1 /\ lostOf("gsi") = 0
      <3>1. {d \in gone : d.kind = "cv"} = {queue[i]} /\ {d \in gone : d.kind = "gsi"} = {}
        BY <2>1, <2>2
      <3>2. QED
        BY <1>0, <3>1, FS_Singleton DEF lostOf
    <2>4. counts'.dropped["cv"] = counts.dropped["cv"] + 1 /\ counts'.dropped["gsi"] = 0
      BY <1>0, <1>5, <2>3
    <2>5. /\ Waits(Without(queue, i))
          /\ Seqs(Without(queue, i)) = Seqs(queue) \ {n}
          /\ n \notin Seqs(delivered) \cup lost
      BY <2>1, ShedWaits
    <2>6. Waits(queue)' /\ Seqs(queue)' = Seqs(Without(queue, i)) \cup {sent + 1}
      BY <1>2, <1>3, <2>2, <2>5, AppendedWaits
    <2>7. n \in AllSeqs
      BY <1>4, <2>1, SeqsOf DEF AllSeqs
    <2>8. AllSeqs' = (AllSeqs \ {n}) \cup {sent + 1}
      BY <1>2, <2>5, <2>6 DEF AllSeqs, Seqs
    <2> HIDE DEF n
    <2>9. IsFiniteSet(AllSeqs \ {n}) /\ Cardinality(AllSeqs \ {n}) = Cardinality(AllSeqs) - 1
      BY <1>9, <2>7, FS_RemoveElement
    <2>10. sent + 1 \notin AllSeqs \ {n}
      BY <1>9
    <2>11. Cardinality(AllSeqs') = Cardinality(AllSeqs)
      <3>1. Cardinality((AllSeqs \ {n}) \cup {sent + 1}) = Cardinality(AllSeqs \ {n}) + 1
        BY <2>9, <2>10, FS_AddElement
      <3>2. QED
        BY <1>9, <2>8, <2>9, <3>1
    <2>12. QED
      BY <1>2, <1>5, <1>0, <1>9, <1>11, <2>4, <2>6, <2>11
  <1>15. QED
    BY <1>12, <1>13, <1>14

\* The head of the queue moves on to the subscribers.
LEMMA DeliverKeeps ==
    ASSUME BusInv, Deliver
    PROVE  BusInv'
  <1> DEFINE n == Len(queue)
             m == Len(delivered)
  <1>1. /\ queue # <<>> /\ queue' = Tail(queue) /\ delivered' = Append(delivered, Head(queue))
        /\ UNCHANGED <<counts, sent, lost>>
    BY DEF Deliver
  <1>2. /\ queue \in Seq(Observed) /\ delivered \in Seq(Observed) /\ n \in Nat \ {0} /\ m \in Nat
        /\ Waits(queue) /\ Rising(delivered) /\ sent \in Nat
    BY <1>1 DEF BusInv, Waits
  <1>3. /\ queue' \in Seq(Observed) /\ Len(queue') = n - 1
        /\ \A k \in 1 .. n - 1 : queue'[k] = queue[k + 1] /\ k + 1 \in 1 .. n
        /\ Head(queue) = queue[1] /\ 1 \in 1 .. n /\ queue[1] \in Observed
    BY <1>1, <1>2
  <1>4. /\ delivered' \in Seq(Observed) /\ Len(delivered') = m + 1 /\ delivered'[m + 1] = queue[1]
        /\ \A k \in 1 .. m : delivered'[k] = delivered[k]
        /\ \A k \in 1 .. m + 1 : k \in 1 .. m \/ k = m + 1
    BY <1>1, <1>2, <1>3
  <1> HIDE DEF n, m
  <1>5. \A k \in 1 .. n : \A i \in 1 .. m : delivered[i].seq < queue[k].seq
    BY <1>2 DEF Waits, n, m
  <1>6. \A k \in 1 .. n - 1 : queue[1].seq < queue[k + 1].seq
    BY <1>2, <1>3 DEF Waits, Rising, n
  <1>7. Rising(delivered)'
    <2>1. ASSUME NEW i \in 1 .. m + 1, NEW j \in 1 .. m + 1, i < j PROVE delivered'[i].seq < delivered'[j].seq
      <3>1. i \in 1 .. m
        BY <1>2, <2>1
      <3>2. CASE j \in 1 .. m
        BY <1>2, <1>4, <2>1, <3>1, <3>2 DEF Rising, m
      <3>3. CASE j = m + 1
        BY <1>3, <1>4, <1>5, <3>1, <3>3
      <3>4. QED
        BY <1>4, <3>2, <3>3
    <2>2. QED
      BY <1>4, <2>1 DEF Rising
  <1>8. \A k \in 1 .. m + 1 : delivered'[k].seq \in 1 .. sent
    <2>1. queue[1].seq \in 1 .. sent
      BY <1>2, <1>3 DEF Waits, n
    <2>2. \A k \in 1 .. m : delivered[k].seq \in 1 .. sent
      BY DEF BusInv, m
    <2>3. QED
      BY <1>4, <2>1, <2>2
  <1>9. Waits(queue)'
    <2>1. ASSUME NEW k \in 1 .. n - 1
          PROVE  /\ queue'[k].seq \in 1 .. sent
                 /\ \A i \in 1 .. m + 1 : delivered'[i].seq < queue'[k].seq
                 /\ \A l \in lost : l < queue'[k].seq
      <3>1. queue[k + 1].seq \in 1 .. sent /\ \A l \in lost : l < queue[k + 1].seq
        BY <1>2, <1>3 DEF Waits, n
      <3>2. \A i \in 1 .. m + 1 : delivered'[i].seq < queue[k + 1].seq
        BY <1>3, <1>4, <1>5, <1>6
      <3>3. QED
        BY <1>3, <3>1, <3>2
    <2>2. \A i, j \in 1 .. n - 1 : i < j => queue'[i].seq < queue'[j].seq
      <3>1. \A i, j \in 1 .. n : i < j => queue[i].seq < queue[j].seq
        BY <1>2 DEF Waits, Rising, n
      <3>2. QED
        BY <1>3, <3>1
    <2>3. QED
      BY <1>1, <1>3, <1>4, <2>1, <2>2 DEF Waits, Rising
  <1>10. AllSeqs' = AllSeqs
    <2>1. /\ Seqs(queue') = {queue'[k].seq : k \in 1 .. n - 1}
          /\ Seqs(queue) = {queue[k].seq : k \in 1 .. n}
          /\ Seqs(delivered') = {delivered'[k].seq : k \in 1 .. m + 1}
          /\ Seqs(delivered) = {delivered[k].seq : k \in 1 .. m}
      BY <1>2, <1>3, <1>4, SeqsOf DEF n, m
    <2>2. Seqs(delivered') = Seqs(delivered) \cup {queue[1].seq}
      <3>1. m + 1 \in 1 .. m + 1 /\ \A k \in 1 .. m : k \in 1 .. m + 1
        BY <1>2
      <3>2. QED
        BY <1>4, <2>1, <3>1
    <2>3. Seqs(queue) = Seqs(queue') \cup {queue[1].seq}
      <3>1. \A k \in 1 .. n : k = 1 \/ (k - 1 \in 1 .. n - 1 /\ (k - 1) + 1 = k)
        BY <1>2
      <3>2. \A k \in 1 .. n : queue[k].seq = queue[1].seq \/ queue[k].seq \in Seqs(queue')
        BY <1>3, <2>1, <3>1
      <3>3. QED
        BY <1>3, <2>1, <3>2
    <2>4. QED
      BY <1>1, <2>2, <2>3 DEF AllSeqs, Seqs
  <1>11. QED
    BY <1>1, <1>4, <1>7, <1>8, <1>9, <1>10 DEF BusInv

LEMMA BusNextKeeps == BusInv /\ [BusNext]_busVars => BusInv'
  <1> SUFFICES ASSUME BusInv, [BusNext]_busVars PROVE BusInv'
    OBVIOUS
  <1>1. CASE Publish
    BY <1>1, PublishKeeps
  <1>2. CASE Deliver
    BY <1>2, DeliverKeeps
  <1>3. CASE Throw
    <2>1. /\ lost' = lost \cup {queue[i].seq : i \in DOMAIN queue} /\ queue' = <<>>
          /\ UNCHANGED <<counts, delivered, sent>>
      BY <1>3 DEF Throw
    <2>2. lost' = lost \cup Seqs(queue) /\ Seqs(queue)' = {}
      BY <2>1 DEF Seqs
    <2>3. AllSeqs' = AllSeqs
      BY <2>1, <2>2 DEF AllSeqs, Seqs
    <2>4. lost' \subseteq 1 .. sent
      BY <2>2, SeqsAreSent DEF AllSeqs
    <2>5. Waits(queue)'
      BY <2>1 DEF Waits, Rising
    <2>6. QED
      BY <2>1, <2>3, <2>4, <2>5 DEF BusInv, Rising
  <1>4. CASE Drained \/ UNCHANGED busVars
    <2>1. UNCHANGED <<queue, counts, delivered, sent, lost>>
      BY <1>4 DEF Drained, busVars
    <2>2. QED
      BY <2>1 DEF BusInv, Waits, Rising, AllSeqs, Seqs
  <1>5. QED
    BY <1>1, <1>2, <1>3, <1>4 DEF BusNext

LEMMA BusCounts == BusInv => InOrderOrCounted
  <1> SUFFICES ASSUME BusInv PROVE InOrderOrCounted
    OBVIOUS
  <1>1. DOMAIN delivered = 1 .. Len(delivered)
    BY DEF BusInv
  <1>2. QED
    BY <1>1 DEF BusInv, InOrderOrCounted, AllSeqs, Rising

-----------------------------------------------------------------------------
(* The listener *)

PostRecord == [state : {"new", "open", "done", "gone"}, size : Nat, answer : Nat]
CountRecord ==
    [received : Nat, accepted : Nat, rejectedAuth : Nat, rejectedParse : Nat, rejectedTooLarge : Nat]
HandedRecord == [post : Posts, token : Tokens]

Granted(record) == record.answer = 200

HalfSent == {p \in Posts : request[p].state \in {"open", "gone"}}
Answered200 == {p \in Posts : request[p].answer = 200}

HttpInv ==
    /\ request \in [Posts -> PostRecord] /\ stats \in CountRecord /\ handed \in Seq(HandedRecord)
    /\ \A p \in Posts : request[p].answer = 200 => request[p].state = "done"
    /\ stats.received = stats.accepted + stats.rejectedAuth + stats.rejectedParse
            + stats.rejectedTooLarge + Cardinality(HalfSent)
    /\ {handed[i].post : i \in 1 .. Len(handed)} = Answered200
    /\ Len(handed) = stats.accepted
    /\ \A i \in 1 .. Len(handed) : handed[i].token = "ok"

LEMMA HalfSentIs ==
    /\ IsFiniteSet(HalfSent) /\ Cardinality(HalfSent) \in Nat
    /\ \A p : /\ p \in HalfSent => Cardinality(HalfSent \ {p}) = Cardinality(HalfSent) - 1
              /\ p \notin HalfSent => Cardinality(HalfSent \cup {p}) = Cardinality(HalfSent) + 1
  <1>1. HalfSent \subseteq Posts /\ IsFiniteSet(Posts)
    BY GsiHttpAssumption DEF HalfSent
  <1>2. IsFiniteSet(HalfSent)
    BY <1>1, FS_Subset
  <1> HIDE DEF HalfSent
  <1>3. QED
    BY <1>2, FS_CardinalityType, FS_AddElement, FS_RemoveElement

\* The answer ends a post.
LEMMA AnsweredRecord ==
    ASSUME NEW old \in PostRecord, NEW status \in Nat
    PROVE  [old EXCEPT !.state = "done", !.answer = status]
               = [state |-> "done", size |-> old.size, answer |-> status]
  <1> DEFINE a == [old EXCEPT !.state = "done"]
             b == [a EXCEPT !.answer = status]
  <1>1. a = [state |-> "done", size |-> old.size, answer |-> old.answer]
    BY DEF PostRecord
  <1> HIDE DEF a
  <1>2. b = [state |-> "done", size |-> old.size, answer |-> status]
    BY <1>1
  <1>3. [old EXCEPT !.state = "done", !.answer = status] = b
    BY DEF a
  <1>4. QED
    BY <1>2, <1>3

\* What of the counts is one post's end.
LEMMA CountsOf ==
    ASSUME stats \in CountRecord, NEW field \in {"accepted", "rejectedAuth", "rejectedParse", "rejectedTooLarge"},
           Count(field)
    PROVE  /\ stats' \in CountRecord /\ stats'.received = stats.received
           /\ stats'.accepted = IF field = "accepted" THEN stats.accepted + 1 ELSE stats.accepted
           /\ stats'.accepted + stats'.rejectedAuth + stats'.rejectedParse + stats'.rejectedTooLarge
                = stats.accepted + stats.rejectedAuth + stats.rejectedParse + stats.rejectedTooLarge + 1
  <1>1. stats' = [stats EXCEPT ![field] = stats[field] + 1]
    BY DEF Count
  <1>2. /\ stats.received \in Nat /\ stats.accepted \in Nat /\ stats.rejectedAuth \in Nat
        /\ stats.rejectedParse \in Nat /\ stats.rejectedTooLarge \in Nat
    BY DEF CountRecord
  <1>3. CASE field = "accepted"
    <2>1. stats' = [stats EXCEPT !.accepted = stats.accepted + 1]
      BY <1>1, <1>3
    <2>2. QED
      BY <1>2, <1>3, <2>1 DEF CountRecord
  <1>4. CASE field = "rejectedAuth"
    <2>1. stats' = [stats EXCEPT !.rejectedAuth = stats.rejectedAuth + 1]
      BY <1>1, <1>4
    <2>2. QED
      BY <1>2, <1>4, <2>1 DEF CountRecord
  <1>5. CASE field = "rejectedParse"
    <2>1. stats' = [stats EXCEPT !.rejectedParse = stats.rejectedParse + 1]
      BY <1>1, <1>5
    <2>2. QED
      BY <1>2, <1>5, <2>1 DEF CountRecord
  <1>6. CASE field = "rejectedTooLarge"
    <2>1. stats' = [stats EXCEPT !.rejectedTooLarge = stats.rejectedTooLarge + 1]
      BY <1>1, <1>6
    <2>2. QED
      BY <1>2, <1>6, <2>1 DEF CountRecord
  <1>7. QED
    BY <1>3, <1>4, <1>5, <1>6

\* A count that goes up as a post leaves those half sent keeps the sum.
LEMMA SumKeeps ==
    ASSUME HttpInv, stats' \in CountRecord, stats'.received = stats.received,
           Cardinality(HalfSent') = Cardinality(HalfSent) - 1, Cardinality(HalfSent) \in Nat,
           stats'.accepted + stats'.rejectedAuth + stats'.rejectedParse + stats'.rejectedTooLarge
                = stats.accepted + stats.rejectedAuth + stats.rejectedParse + stats.rejectedTooLarge + 1
    PROVE  stats'.received = stats'.accepted + stats'.rejectedAuth + stats'.rejectedParse
                + stats'.rejectedTooLarge + Cardinality(HalfSent')
  <1>1. stats.received = stats.accepted + stats.rejectedAuth + stats.rejectedParse
            + stats.rejectedTooLarge + Cardinality(HalfSent)
    BY DEF HttpInv
  <1>2. stats \in CountRecord
    BY DEF HttpInv
  <1>3. /\ stats.received \in Nat /\ stats.accepted \in Nat /\ stats.rejectedAuth \in Nat
        /\ stats.rejectedParse \in Nat /\ stats.rejectedTooLarge \in Nat
    BY <1>2 DEF CountRecord
  <1>4. /\ stats'.accepted \in Nat /\ stats'.rejectedAuth \in Nat
        /\ stats'.rejectedParse \in Nat /\ stats'.rejectedTooLarge \in Nat
    BY DEF CountRecord
  <1>5. QED
    BY <1>1, <1>3, <1>4

LEMMA HttpStart == HttpInit => HttpInv
  <1> SUFFICES ASSUME HttpInit PROVE HttpInv
    OBVIOUS
  <1>1. /\ request \in [Posts -> PostRecord] /\ stats \in CountRecord
        /\ \A p \in Posts : request[p].state = "new" /\ request[p].answer = 0
    BY DEF HttpInit, PostRecord, CountRecord
  <1>2. handed = <<>> /\ handed \in Seq(HandedRecord) /\ Len(handed) = 0
    BY DEF HttpInit
  <1>3. HalfSent = {} /\ Answered200 = {} /\ Cardinality(HalfSent) = 0
    <2>1. HalfSent = {} /\ Answered200 = {}
      BY <1>1 DEF HalfSent, Answered200
    <2> HIDE DEF HalfSent
    <2>2. QED
      BY <2>1, FS_EmptySet
  <1>4. {handed[i].post : i \in 1 .. Len(handed)} = {}
    BY <1>2
  <1>5. QED
    BY <1>1, <1>2, <1>3, <1>4 DEF HttpInit, HttpInv

\* One post moves and the others stay.
LEMMA PostMoves ==
    ASSUME HttpInv, NEW post \in Posts, NEW r \in PostRecord, request' = [request EXCEPT ![post] = r]
    PROVE  /\ request' \in [Posts -> PostRecord] /\ request'[post] = r
           /\ \A p \in Posts : p # post => request'[p] = request[p]
           /\ r.state \in {"open", "gone"} => HalfSent' = HalfSent \cup {post}
           /\ r.state \notin {"open", "gone"} => HalfSent' = HalfSent \ {post}
           /\ Granted(r) => Answered200' = Answered200 \cup {post}
           /\ ~Granted(r) => Answered200' = Answered200 \ {post}
  <1>1. /\ request' \in [Posts -> PostRecord] /\ request'[post] = r
        /\ \A p \in Posts : p # post => request'[p] = request[p]
    BY DEF HttpInv
  <1>2. HalfSent' = IF r.state \in {"open", "gone"} THEN HalfSent \cup {post} ELSE HalfSent \ {post}
    BY <1>1 DEF HalfSent
  <1>3. /\ Granted(r) => Answered200' = Answered200 \cup {post}
        /\ ~Granted(r) => Answered200' = Answered200 \ {post}
    BY <1>1 DEF Answered200, Granted
  <1>4. QED
    BY <1>1, <1>2, <1>3

\* A post that is not handed on: it is counted where it goes.
LEMMA Unhanded ==
    ASSUME HttpInv, NEW post \in Posts, NEW r \in PostRecord, request' = [request EXCEPT ![post] = r],
           request[post].state # "done", r.answer # 200, UNCHANGED handed, stats' \in CountRecord,
           stats'.accepted = stats.accepted,
           stats'.received = stats'.accepted + stats'.rejectedAuth + stats'.rejectedParse
                + stats'.rejectedTooLarge + Cardinality(HalfSent')
    PROVE  HttpInv'
  <1>1. /\ request' \in [Posts -> PostRecord] /\ request'[post] = r
        /\ \A p \in Posts : p # post => request'[p] = request[p]
        /\ Answered200' = Answered200 \ {post}
    BY PostMoves DEF Granted
  <1>2. post \notin Answered200
    BY DEF HttpInv, Answered200
  <1>3. \A p \in Posts : request'[p].answer = 200 => request'[p].state = "done"
    BY <1>1 DEF HttpInv
  <1>4. {handed'[i].post : i \in 1 .. Len(handed')} = Answered200'
    BY <1>1, <1>2 DEF HttpInv
  <1>5. \A i \in 1 .. Len(handed') : handed'[i].token = "ok"
    BY DEF HttpInv
  <1>6. handed' \in Seq(HandedRecord) /\ Len(handed') = stats'.accepted
    BY DEF HttpInv
  <1>7. QED
    BY <1>1, <1>3, <1>4, <1>5, <1>6 DEF HttpInv

\* A post that is: the observation and the answer go together.
LEMMA HandedOn ==
    ASSUME HttpInv, NEW post \in Posts, request[post].state = "open",
           request' \in [Posts -> PostRecord], request'[post].state = "done",
           \A p \in Posts : p # post => request'[p] = request[p],
           Answered200' = Answered200 \cup {post}, HalfSent' = HalfSent \ {post},
           handed' = Append(handed, [post |-> post, token |-> "ok"]),
           Count("accepted")
    PROVE  HttpInv'
  <1>2. post \in HalfSent /\ Cardinality(HalfSent') = Cardinality(HalfSent) - 1
        /\ Cardinality(HalfSent) \in Nat
    <2>1. post \in HalfSent
      BY DEF HalfSent
    <2>2. QED
      BY <2>1, HalfSentIs
  <1> DEFINE n == Len(handed)
             entry == [post |-> post, token |-> "ok"]
  <1>3. handed \in Seq(HandedRecord) /\ entry \in HandedRecord /\ n \in Nat
    BY DEF HttpInv, HandedRecord, Tokens
  <1> HIDE DEF entry
  <1>4. /\ handed' \in Seq(HandedRecord) /\ Len(handed') = n + 1 /\ handed'[n + 1] = entry
        /\ \A i \in 1 .. n : handed'[i] = handed[i]
    BY <1>3 DEF entry
  <1> HIDE DEF n
  <1>5. \A i \in 1 .. n + 1 : i \in 1 .. n \/ i = n + 1
    BY <1>3
  <1>6. \A i \in 1 .. n : i \in 1 .. n + 1
    BY <1>3
  <1>7. {handed'[i].post : i \in 1 .. n + 1} = {handed[i].post : i \in 1 .. n} \cup {post}
    <2>1. n + 1 \in 1 .. n + 1 /\ handed'[n + 1].post = post
      BY <1>3, <1>4 DEF entry
    <2>2. QED
      BY <1>4, <1>5, <1>6, <2>1
  <1>8. {handed'[i].post : i \in 1 .. Len(handed')} = Answered200'
    BY <1>4, <1>7 DEF HttpInv, n
  <1>9. \A i \in 1 .. n + 1 : handed'[i].token = "ok"
    BY <1>4, <1>5 DEF HttpInv, n, entry
  <1>10. \A p \in Posts : request'[p].answer = 200 => request'[p].state = "done"
    BY DEF HttpInv
  <1>11. /\ stats' \in CountRecord /\ n + 1 = stats'.accepted
         /\ stats'.received = stats'.accepted + stats'.rejectedAuth + stats'.rejectedParse
                + stats'.rejectedTooLarge + Cardinality(HalfSent')
    <2>1. stats \in CountRecord /\ n = stats.accepted
      BY DEF HttpInv, n
    <2>2. /\ stats' \in CountRecord /\ stats'.received = stats.received
          /\ stats'.accepted = stats.accepted + 1
          /\ stats'.accepted + stats'.rejectedAuth + stats'.rejectedParse + stats'.rejectedTooLarge
                = stats.accepted + stats.rejectedAuth + stats.rejectedParse + stats.rejectedTooLarge + 1
      BY <2>1, CountsOf
    <2>3. QED
      BY <1>2, <2>1, <2>2, SumKeeps
  <1>12. QED
    BY <1>4, <1>8, <1>9, <1>10, <1>11 DEF HttpInv

\* A post that is refused after its body, with an answer that is not 200.
LEMMA RefusedPost ==
    ASSUME HttpInv, NEW post \in Posts, request[post].state = "open", NEW status \in Nat, status # 200,
           Answer(post, status), UNCHANGED handed,
           NEW field \in {"rejectedAuth", "rejectedParse", "rejectedTooLarge"}, Count(field)
    PROVE  HttpInv'
  <1> DEFINE r == [state |-> "done", size |-> request[post].size, answer |-> status]
  <1>1. request[post] \in PostRecord /\ r \in PostRecord
    BY DEF HttpInv, PostRecord
  <1>2. request' = [request EXCEPT ![post] = r]
    <2>1. [request[post] EXCEPT !.state = "done", !.answer = status] = r
      BY <1>1, AnsweredRecord
    <2>2. QED
      BY <2>1 DEF Answer, HttpInv
  <1>3. r.state = "done" /\ r.answer = status
    OBVIOUS
  <1> HIDE DEF r
  <1>4. HalfSent' = HalfSent \ {post}
    BY <1>1, <1>2, <1>3, PostMoves
  <1>5. Cardinality(HalfSent') = Cardinality(HalfSent) - 1 /\ Cardinality(HalfSent) \in Nat
    <2>1. post \in HalfSent
      BY DEF HalfSent
    <2>2. QED
      BY <1>4, <2>1, HalfSentIs
  <1>6. stats \in CountRecord
    BY DEF HttpInv
  <1>7. /\ stats' \in CountRecord /\ stats'.accepted = stats.accepted
        /\ stats'.received = stats'.accepted + stats'.rejectedAuth + stats'.rejectedParse
                + stats'.rejectedTooLarge + Cardinality(HalfSent')
    <2>1. /\ stats' \in CountRecord /\ stats'.received = stats.received
          /\ stats'.accepted = stats.accepted
          /\ stats'.accepted + stats'.rejectedAuth + stats'.rejectedParse + stats'.rejectedTooLarge
                = stats.accepted + stats.rejectedAuth + stats.rejectedParse + stats.rejectedTooLarge + 1
      BY <1>6, CountsOf
    <2>2. QED
      BY <1>5, <2>1, SumKeeps
  <1>8. QED
    BY <1>1, <1>2, <1>3, <1>7, Unhanded

LEMMA BodyChunkKeeps ==
    ASSUME HttpInv, NEW post \in Posts, BodyChunk(post)
    PROVE  HttpInv'
  <1>1. request[post].state = "open" /\ UNCHANGED handed
    BY DEF BodyChunk
  <1>2. CASE request[post].size + 1 > MaxBody
    <2>1. Answer(post, 413) /\ Count("rejectedTooLarge")
      BY <1>2 DEF BodyChunk
    <2>2. QED
      BY <1>1, <2>1, RefusedPost
  <1>3. CASE ~(request[post].size + 1 > MaxBody)
    <2> DEFINE r == [state |-> "open", size |-> request[post].size + 1, answer |-> request[post].answer]
    <2>1. request[post] \in PostRecord /\ r \in PostRecord
      BY <1>1 DEF HttpInv, PostRecord
    <2>2. request' = [request EXCEPT ![post] = r]
      <3>1. [request[post] EXCEPT !.size = request[post].size + 1] = r
        BY <1>1, <2>1 DEF PostRecord
      <3>2. request' = [request EXCEPT ![post].size = request[post].size + 1]
        BY <1>3 DEF BodyChunk, HttpInv
      <3>3. QED
        BY <3>1, <3>2 DEF HttpInv
    <2>3. r.state = "open" /\ r.answer # 200
      BY <1>1 DEF HttpInv
    <2> HIDE DEF r
    <2>4. HalfSent' = HalfSent
      <3>1. post \in HalfSent
        BY <1>1 DEF HalfSent
      <3>2. HalfSent' = HalfSent \cup {post}
        BY <2>1, <2>2, <2>3, PostMoves
      <3>3. QED
        BY <3>1, <3>2
    <2>5. UNCHANGED stats
      BY <1>3 DEF BodyChunk
    <2>6. QED
      BY <1>1, <2>1, <2>2, <2>3, <2>4, <2>5, Unhanded DEF HttpInv
  <1>4. QED
    BY <1>2, <1>3

LEMMA BodyEndsKeeps ==
    ASSUME HttpInv, NEW post \in Posts, BodyEnds(post)
    PROVE  HttpInv'
  <1>1. request[post].state = "open"
    BY DEF BodyEnds
  <1>2. PICK body \in Bodies, bearer \in Tokens :
            \/ Answer(post, 400) /\ Count("rejectedParse") /\ UNCHANGED handed
            \/ Answer(post, 403) /\ Count("rejectedAuth") /\ UNCHANGED handed
            \/ /\ bearer = "ok" /\ Answer(post, 200) /\ Count("accepted")
               /\ handed' = Append(handed, [post |-> post, token |-> bearer])
    BY DEF BodyEnds, Verdict, Bodies
  <1>3. CASE Answer(post, 400) /\ Count("rejectedParse") /\ UNCHANGED handed
    BY <1>1, <1>3, RefusedPost
  <1>4. CASE Answer(post, 403) /\ Count("rejectedAuth") /\ UNCHANGED handed
    BY <1>1, <1>4, RefusedPost
  <1>5. CASE /\ bearer = "ok" /\ Answer(post, 200) /\ Count("accepted")
             /\ handed' = Append(handed, [post |-> post, token |-> bearer])
    <2> DEFINE r == [state |-> "done", size |-> request[post].size, answer |-> 200]
    <2>1. request[post] \in PostRecord /\ r \in PostRecord
      BY DEF HttpInv, PostRecord
    <2>2. request' = [request EXCEPT ![post] = r]
      <3>1. [request[post] EXCEPT !.state = "done", !.answer = 200] = r
        BY <2>1, AnsweredRecord
      <3>2. QED
        BY <1>5, <3>1 DEF Answer, HttpInv
    <2>3. r.state = "done" /\ Granted(r)
      BY DEF Granted
    <2> HIDE DEF r
    <2>4. /\ request' \in [Posts -> PostRecord] /\ request'[post].state = "done"
          /\ \A p \in Posts : p # post => request'[p] = request[p]
          /\ Answered200' = Answered200 \cup {post} /\ HalfSent' = HalfSent \ {post}
      BY <2>1, <2>2, <2>3, PostMoves
    <2>5. QED
      BY <1>1, <1>5, <2>4, HandedOn
  <1>6. QED
    BY <1>2, <1>3, <1>4, <1>5

\* Refuse, Accept and HangUp: the post is not handed on.
LEMMA PostComesOrGoes ==
    ASSUME HttpInv, NEW post \in Posts, Refuse(post) \/ Accept(post) \/ HangUp(post)
    PROVE  HttpInv'
  <1> DEFINE old == request[post]
  <1>1. old \in PostRecord /\ UNCHANGED handed /\ stats \in CountRecord
    BY DEF HttpInv, Refuse, Accept, HangUp
  <1>2. old.state # "done" => old.answer # 200
    BY DEF HttpInv
  <1>3. CASE Refuse(post)
    <2> DEFINE r == [state |-> "done", size |-> old.size, answer |-> 405]
    <2>1. r \in PostRecord /\ old.state = "new"
      BY <1>1, <1>3 DEF PostRecord, Refuse
    <2>2. request' = [request EXCEPT ![post] = r]
      <3>1. [old EXCEPT !.state = "done", !.answer = 405] = r
        <4>1. 405 \in Nat
          OBVIOUS
        <4> HIDE DEF old
        <4>2. [old EXCEPT !.state = "done", !.answer = 405]
                = [state |-> "done", size |-> old.size, answer |-> 405]
          BY <1>1, <4>1, AnsweredRecord
        <4>3. QED
          BY <4>2
      <3>2. QED
        BY <1>3, <3>1, ZenonT(60) DEF Refuse, Answer, HttpInv
    <2>3. r.state = "done" /\ r.answer # 200
      OBVIOUS
    <2> HIDE DEF r
    <2>4. HalfSent' = HalfSent
      <3>1. post \notin HalfSent
        BY <2>1 DEF HalfSent
      <3>2. HalfSent' = HalfSent \ {post}
        BY <2>1, <2>2, <2>3, PostMoves
      <3>3. QED
        BY <3>1, <3>2
    <2>5. UNCHANGED stats
      BY <1>3 DEF Refuse
    <2>6. QED
      BY <1>1, <2>1, <2>2, <2>3, <2>4, <2>5, Unhanded DEF HttpInv
  <1>4. CASE Accept(post)
    <2> DEFINE r == [state |-> "open", size |-> old.size, answer |-> old.answer]
    <2>1. r \in PostRecord /\ old.state = "new"
      BY <1>1, <1>4 DEF PostRecord, Accept
    <2>2. request' = [request EXCEPT ![post] = r]
      <3>1. [old EXCEPT !.state = "open"] = r
        BY <1>1 DEF PostRecord
      <3>2. QED
        BY <1>4, <3>1 DEF Accept, HttpInv
    <2>3. r.state = "open" /\ r.answer # 200
      BY <1>2, <2>1
    <2> HIDE DEF r
    <2>4. HalfSent' = HalfSent \cup {post}
      BY <2>1, <2>2, <2>3, PostMoves
    <2>5. Cardinality(HalfSent') = Cardinality(HalfSent) + 1 /\ Cardinality(HalfSent) \in Nat
      <3>1. post \notin HalfSent
        BY <2>1 DEF HalfSent
      <3>2. QED
        BY <2>4, <3>1, HalfSentIs
    <2>6. stats' = [stats EXCEPT !.received = stats.received + 1]
      BY <1>4 DEF Accept, Count
    <2>7. /\ stats' \in CountRecord /\ stats'.accepted = stats.accepted
          /\ stats'.received = stats'.accepted + stats'.rejectedAuth + stats'.rejectedParse
                  + stats'.rejectedTooLarge + Cardinality(HalfSent')
      BY <1>1, <2>5, <2>6, SMTT(30) DEF CountRecord, HttpInv
    <2>8. QED
      BY <1>1, <2>1, <2>2, <2>3, <2>7, Unhanded
  <1>5. CASE HangUp(post)
    <2> DEFINE r == [state |-> "gone", size |-> old.size, answer |-> old.answer]
    <2>1. r \in PostRecord /\ old.state = "open"
      BY <1>1, <1>5 DEF PostRecord, HangUp
    <2>2. request' = [request EXCEPT ![post] = r]
      <3>1. [old EXCEPT !.state = "gone"] = r
        BY <1>1 DEF PostRecord
      <3>2. QED
        BY <1>5, <3>1 DEF HangUp, HttpInv
    <2>3. r.state = "gone" /\ r.answer # 200
      BY <1>2, <2>1
    <2> HIDE DEF r
    <2>4. HalfSent' = HalfSent
      <3>1. post \in HalfSent
        BY <2>1 DEF HalfSent
      <3>2. HalfSent' = HalfSent \cup {post}
        BY <2>1, <2>2, <2>3, PostMoves
      <3>3. QED
        BY <3>1, <3>2
    <2>5. UNCHANGED stats
      BY <1>5 DEF HangUp
    <2>6. QED
      BY <1>1, <2>1, <2>2, <2>3, <2>4, <2>5, Unhanded DEF HttpInv
  <1>6. QED
    BY <1>3, <1>4, <1>5

LEMMA CloseKeeps ==
    ASSUME HttpInv, Close
    PROVE  HttpInv'
  <1>1. /\ UNCHANGED <<stats, handed>> /\ request \in [Posts -> PostRecord]
        /\ request' = [p \in Posts |-> IF request[p].state = "open"
                                       THEN [request[p] EXCEPT !.state = "gone"] ELSE request[p]]
    BY DEF Close, HttpInv
  <1>2. request' \in [Posts -> PostRecord]
    BY <1>1 DEF PostRecord
  <1>3. ASSUME NEW p \in Posts
        PROVE  /\ request'[p].answer = request[p].answer
               /\ request'[p].state \in {"open", "gone"} <=> request[p].state \in {"open", "gone"}
               /\ request'[p].state = "done" <=> request[p].state = "done"
    <2>1. request[p] \in PostRecord
      BY <1>1
    <2>2. CASE request[p].state = "open"
      <3>1. request'[p] = [request[p] EXCEPT !.state = "gone"]
        BY <1>1, <2>2
      <3>2. QED
        BY <2>1, <2>2, <3>1 DEF PostRecord
    <2>3. CASE request[p].state # "open"
      BY <1>1, <2>3
    <2>4. QED
      BY <2>2, <2>3
  <1>4. HalfSent' = HalfSent /\ Answered200' = Answered200
    BY <1>3 DEF HalfSent, Answered200
  <1>5. \A p \in Posts : request'[p].answer = 200 => request'[p].state = "done"
    BY <1>3 DEF HttpInv
  <1>6. QED
    BY <1>1, <1>2, <1>4, <1>5 DEF HttpInv

LEMMA HttpNextKeeps == HttpInv /\ [HttpNext]_httpVars => HttpInv'
  <1> SUFFICES ASSUME HttpInv, [HttpNext]_httpVars PROVE HttpInv'
    OBVIOUS
  <1>1. CASE Listen \/ UNCHANGED httpVars
    <2>1. UNCHANGED <<request, stats, handed>>
      BY <1>1 DEF Listen, httpVars
    <2>2. QED
      BY <2>1 DEF HttpInv, HalfSent, Answered200
  <1>2. CASE Close
    BY <1>2, CloseKeeps
  <1>3. ASSUME NEW post \in Posts,
               Refuse(post) \/ Accept(post) \/ BodyChunk(post) \/ BodyEnds(post) \/ HangUp(post)
        PROVE  HttpInv'
    BY <1>3, PostComesOrGoes, BodyChunkKeeps, BodyEndsKeeps
  <1>4. QED
    BY <1>1, <1>2, <1>3 DEF HttpNext

LEMMA HttpCounts == HttpInv => EveryPostAccounted
  <1> SUFFICES ASSUME HttpInv PROVE EveryPostAccounted
    OBVIOUS
  <1>1. DOMAIN handed = 1 .. Len(handed)
    BY DEF HttpInv
  <1>2. QED
    BY <1>1 DEF HttpInv, EveryPostAccounted, HalfSent, Answered200

-----------------------------------------------------------------------------
(* The console log *)

Piece == [line : Nat, part : {"head", "end"}]
HeadOf(n) == [line |-> n, part |-> "head"]
TailOf(n) == [line |-> n, part |-> "end"]

\* The newlines of what is read from the start of a line (r = 0) or from its second
\* piece (r = 1): the places of the ends of n lines, and of the n-th of them.
Newlines(r, n) == {0} \cup {2 * j - r : j \in 1 .. n}
Nth(r, n) == IF n = 0 THEN 0 ELSE 2 * n - r

LEMMA NewlinesCount ==
    ASSUME NEW r \in {0, 1}
    PROVE  \A n \in Nat : IsFiniteSet(Newlines(r, n)) /\ Cardinality(Newlines(r, n)) = n + 1
  <1> DEFINE S == {n \in Nat : IsFiniteSet(Newlines(r, n)) /\ Cardinality(Newlines(r, n)) = n + 1}
  <1>1. 0 \in S
    <2>1. Newlines(r, 0) = {0}
      BY DEF Newlines
    <2>2. IsFiniteSet({0}) /\ Cardinality({0}) = 1
      BY FS_Singleton
    <2>3. IsFiniteSet(Newlines(r, 0)) /\ Cardinality(Newlines(r, 0)) = 0 + 1
      BY <2>1, <2>2
    <2>4. QED
      BY <2>3
  <1>2. ASSUME NEW n \in Nat, n \in S PROVE n + 1 \in S
    <2>1. Newlines(r, n + 1) = Newlines(r, n) \cup {2 * (n + 1) - r}
      <3>1. \A j \in 1 .. n + 1 : j \in 1 .. n \/ j = n + 1
        OBVIOUS
      <3>2. n + 1 \in 1 .. n + 1 /\ \A j \in 1 .. n : j \in 1 .. n + 1
        OBVIOUS
      <3>3. QED
        BY <3>1, <3>2 DEF Newlines
    <2>2. 2 * (n + 1) - r \notin Newlines(r, n)
      BY DEF Newlines
    <2> HIDE DEF S
    <2>3. IsFiniteSet(Newlines(r, n)) /\ Cardinality(Newlines(r, n)) = n + 1
      BY <1>2 DEF S
    <2>4. /\ IsFiniteSet(Newlines(r, n) \cup {2 * (n + 1) - r})
          /\ Cardinality(Newlines(r, n) \cup {2 * (n + 1) - r}) = (n + 1) + 1
      BY <2>2, <2>3, FS_AddElement
    <2>5. n + 1 \in Nat /\ IsFiniteSet(Newlines(r, n + 1)) /\ Cardinality(Newlines(r, n + 1)) = (n + 1) + 1
      BY <2>1, <2>4
    <2>6. QED
      BY <2>5 DEF S
  <1> HIDE DEF S
  <1>3. Nat \subseteq S
    BY <1>1, <1>2, AllNumbers
  <1>4. QED
    BY <1>3 DEF S

LEMMA NthEnd ==
    ASSUME NEW r \in {0, 1}, NEW c \in Nat, NEW n \in 0 .. c
    PROVE  (CHOOSE e \in Newlines(r, c) : Cardinality({x \in Newlines(r, c) : x < e}) = n) = Nth(r, n)
  <1> DEFINE Below(e) == Cardinality({x \in Newlines(r, c) : x < e})
  <1>1. ASSUME NEW j \in 0 .. c PROVE Below(Nth(r, j)) = j /\ Nth(r, j) \in Newlines(r, c)
    <2>1. CASE j = 0
      <3>1. {x \in Newlines(r, c) : x < 0} = {}
        BY DEF Newlines
      <3>2. Nth(r, j) = 0 /\ 0 \in Newlines(r, c)
        BY <2>1 DEF Nth, Newlines
      <3>3. Below(Nth(r, j)) = 0
        BY <3>1, <3>2, FS_EmptySet
      <3> HIDE DEF Below
      <3>4. QED
        BY <2>1, <3>2, <3>3
    <2>2. CASE j # 0
      <3>1. j \in Nat /\ j - 1 \in Nat /\ Nth(r, j) = 2 * j - r
        BY <2>2 DEF Nth
      <3>2. {x \in Newlines(r, c) : x < 2 * j - r} = Newlines(r, j - 1)
        <4>1. ASSUME NEW x \in Newlines(r, c), x < 2 * j - r PROVE x \in Newlines(r, j - 1)
          <5>1. CASE x = 0
            BY <5>1 DEF Newlines
          <5>2. CASE x # 0
            <6>1. PICK i \in 1 .. c : x = 2 * i - r
              BY <5>2 DEF Newlines
            <6>2. i \in 1 .. j - 1
              BY <3>1, <4>1, <6>1
            <6>3. QED
              BY <6>1, <6>2 DEF Newlines
          <5>3. QED
            BY <5>1, <5>2
        <4>2. ASSUME NEW x \in Newlines(r, j - 1) PROVE x \in Newlines(r, c) /\ x < 2 * j - r
          <5>1. CASE x = 0
            BY <3>1, <5>1, <2>2 DEF Newlines
          <5>2. CASE x # 0
            <6>1. PICK i \in 1 .. j - 1 : x = 2 * i - r
              BY <5>2 DEF Newlines
            <6>2. i \in 1 .. c /\ 2 * i - r < 2 * j - r
              BY <3>1, <6>1
            <6>3. QED
              BY <6>1, <6>2 DEF Newlines
          <5>3. QED
            BY <5>1, <5>2
        <4>3. QED
          BY <4>1, <4>2
      <3>3. Cardinality(Newlines(r, j - 1)) = (j - 1) + 1
        BY <3>1, NewlinesCount
      <3>4. 2 * j - r \in Newlines(r, c)
        BY <2>2 DEF Newlines
      <3>5. Below(2 * j - r) = Cardinality(Newlines(r, j - 1))
        BY <3>2
      <3> HIDE DEF Below
      <3>6. Below(2 * j - r) = j
        BY <3>1, <3>3, <3>5
      <3>7. QED
        BY <3>1, <3>4, <3>6
    <2>3. QED
      BY <2>1, <2>2
  <1>2. ASSUME NEW e \in Newlines(r, c) PROVE \E j \in 0 .. c : e = Nth(r, j)
    <2>1. CASE e = 0
      BY <2>1 DEF Nth
    <2>2. CASE e # 0
      <3>1. PICK j \in 1 .. c : e = 2 * j - r
        BY <2>2 DEF Newlines
      <3>2. j \in 0 .. c /\ e = Nth(r, j)
        BY <3>1 DEF Nth
      <3>3. QED
        BY <3>2
    <2>3. QED
      BY <2>1, <2>2
  <1> HIDE DEF Below
  <1>3. ASSUME NEW e \in Newlines(r, c), Below(e) = n PROVE e = Nth(r, n)
    <2>1. PICK j \in 0 .. c : e = Nth(r, j)
      BY <1>2
    <2>2. j = n
      BY <1>1, <1>3, <2>1
    <2>3. QED
      BY <2>1, <2>2
  <1>4. Nth(r, n) \in Newlines(r, c) /\ Below(Nth(r, n)) = n
    BY <1>1
  <1>5. (CHOOSE e \in Newlines(r, c) : Below(e) = n) = Nth(r, n)
    BY <1>3, <1>4
  <1>6. QED
    BY <1>5 DEF Below

\* What consume makes of pieces whose newlines are these.
LEMMA SplitAt ==
    ASSUME NEW all, NEW r \in {0, 1}, NEW c \in Nat, LineEnds(all) = Newlines(r, c)
    PROVE  /\ Lines(all) = [n \in 1 .. c |-> SubSeq(all, Nth(r, n - 1) + 1, Nth(r, n))]
           /\ Rest(all) = SubSeq(all, Nth(r, c) + 1, Len(all))
  <1>1. Cardinality(Newlines(r, c)) - 1 = c
    BY NewlinesCount
  <1> DEFINE nth(n) == CHOOSE e \in Newlines(r, c) : Cardinality({x \in Newlines(r, c) : x < e}) = n
  <1>2. Lines(all) = [n \in 1 .. (Cardinality(Newlines(r, c)) - 1) |-> SubSeq(all, nth(n - 1) + 1, nth(n))]
    BY DEF Lines
  <1>3. \A n \in 1 .. c : nth(n - 1) = Nth(r, n - 1) /\ nth(n) = Nth(r, n)
    <2>1. ASSUME NEW n \in 1 .. c PROVE n - 1 \in 0 .. c /\ n \in 0 .. c
      OBVIOUS
    <2>2. QED
      BY <2>1, NthEnd
  <1> HIDE DEF nth
  <1>4. Lines(all) = [n \in 1 .. c |-> SubSeq(all, Nth(r, n - 1) + 1, Nth(r, n))]
    BY <1>1, <1>2, <1>3
  <1>5. (CHOOSE e \in Newlines(r, c) : \A x \in Newlines(r, c) : x <= e) = Nth(r, c)
    <2>1. Nth(r, c) \in Newlines(r, c) /\ \A x \in Newlines(r, c) : x <= Nth(r, c)
      BY DEF Nth, Newlines
    <2>2. \A e \in Newlines(r, c) : e \in Int
      BY DEF Newlines
    <2>3. \A e \in Newlines(r, c) : (\A x \in Newlines(r, c) : x <= e) => e = Nth(r, c)
      BY <2>1, <2>2
    <2>4. QED
      BY <2>1, <2>3
  <1>6. Rest(all) = SubSeq(all, Nth(r, c) + 1, Len(all))
    BY <1>5 DEF Rest
  <1>7. QED
    BY <1>4, <1>6

\* A part line alone is held back.
LEMMA HeldBack ==
    ASSUME NEW all, all = <<>> \/ \E x \in Nat : all = <<HeadOf(x)>>
    PROVE  Lines(all) = <<>> /\ Rest(all) = all
  <1>1. all \in Seq(Piece)
    <2>1. CASE all = <<>>
      BY <2>1
    <2>2. CASE \E x \in Nat : all = <<HeadOf(x)>>
      <3>1. PICK x \in Nat : all = <<HeadOf(x)>>
        BY <2>2
      <3>2. HeadOf(x) \in Piece
        BY DEF Piece, HeadOf
      <3>3. QED
        BY <3>1, <3>2
    <2>3. QED
      BY <2>1, <2>2
  <1>2. \A i \in DOMAIN all : all[i].part # "end"
    BY DEF HeadOf
  <1>3. LineEnds(all) = Newlines(0, 0)
    BY <1>2 DEF LineEnds, Newlines
  <1>4. Lines(all) = [n \in 1 .. 0 |-> SubSeq(all, Nth(0, n - 1) + 1, Nth(0, n))] /\ Rest(all) = SubSeq(all, 1, Len(all))
    BY <1>3, SplitAt DEF Nth
  <1>5. Lines(all) = <<>>
    BY <1>4
  <1>6. SubSeq(all, 1, Len(all)) = all
    BY <1>1
  <1>7. QED
    BY <1>4, <1>5, <1>6

\* A file of k lines after b others, the last of them perhaps unfinished.
FileHolds(pieces, b, k) ==
    /\ pieces \in Seq(Piece)
    /\ Len(pieces) = 2 * k \/ (k > 0 /\ Len(pieces) = 2 * k - 1)
    /\ \A n \in 1 .. k : pieces[2 * n - 1] = HeadOf(b + n)
    /\ \A n \in 1 .. k : 2 * n <= Len(pieces) => pieces[2 * n] = TailOf(b + n)

PieceOfLine(piece, i, n, b) ==
    (i = 2 * n - 1 /\ piece = HeadOf(b + n)) \/ (i = 2 * n /\ piece = TailOf(b + n))

LEMMA PieceIs ==
    ASSUME NEW b \in Nat, NEW k \in Nat, NEW pieces, FileHolds(pieces, b, k), NEW i \in 1 .. Len(pieces)
    PROVE  \E n \in 1 .. k : PieceOfLine(pieces[i], i, n, b)
  <1>1. Len(pieces) \in Nat /\ i \in Nat
    BY DEF FileHolds
  <1>2. PICK q \in Nat : i = 2 * q \/ i = 2 * q + 1
    <2>1. i \div 2 \in Nat /\ (i = 2 * (i \div 2) \/ i = 2 * (i \div 2) + 1)
      BY <1>1
    <2>2. QED
      BY <2>1
  <1>3. CASE i = 2 * q
    <2>1. q \in 1 .. k
      BY <1>1, <1>3 DEF FileHolds
    <2>2. QED
      BY <1>1, <1>3, <2>1 DEF FileHolds, PieceOfLine
  <1>4. CASE i = 2 * q + 1
    <2>1. q + 1 \in 1 .. k /\ i = 2 * (q + 1) - 1
      BY <1>1, <1>4 DEF FileHolds
    <2>2. QED
      BY <2>1 DEF FileHolds, PieceOfLine
  <1>5. QED
    BY <1>2, <1>3, <1>4

LEMMA AsSequence ==
    ASSUME NEW T, NEW n \in Nat, NEW f \in [1 .. n -> T]
    PROVE  f \in Seq(T) /\ Len(f) = n
  OBVIOUS

LEMMA Single ==
    ASSUME NEW S, NEW t \in Seq(S), Len(t) = 1
    PROVE  t = <<t[1]>>
  OBVIOUS

LEMMA OnePiece ==
    ASSUME NEW S, NEW s \in Seq(S), NEW i \in 1 .. Len(s)
    PROVE  SubSeq(s, i, i) = <<s[i]>> /\ s[i] \in S
  <1>1. Len(SubSeq(s, i, i)) = 1 /\ SubSeq(s, i, i)[1] = s[i] /\ SubSeq(s, i, i) \in Seq(S) /\ s[i] \in S
    OBVIOUS
  <1>2. SubSeq(s, i, i) = <<SubSeq(s, i, i)[1]>>
    <2> DEFINE t == SubSeq(s, i, i)
    <2>1. t \in Seq(S) /\ Len(t) = 1
      BY <1>1
    <2> HIDE DEF t
    <2>2. t = <<t[1]>>
      BY <2>1, Single
    <2>3. QED
      BY <2>2 DEF t
  <1>3. QED
    BY <1>1, <1>2

\* Where n lines end in what is read.
LEMMA EndsWithin ==
    ASSUME NEW m \in Nat, NEW k \in Nat, NEW r \in {0, 1}, NEW size \in Nat, NEW p \in Nat, NEW c \in Nat,
           2 * m + r + size <= p, p <= 2 * k, size = 2 * c - r \/ size = 2 * c - r + 1, NEW n \in 1 .. c
    PROVE  /\ 2 * n - r \in 1 .. size /\ m + n \in 1 .. k /\ 2 * (m + n) <= p
           /\ ~(n = 1 /\ r = 1) => 2 * n - r - 1 \in 1 .. size
  <1>1. CASE r = 0
    BY <1>1
  <1>2. CASE r = 1
    BY <1>2
  <1>3. QED
    BY <1>1, <1>2

\* After s lines of a file that follows b, what is read up to upTo ends c lines, of which the
\* first may be half (r = 1), and at most the first piece of the next is held back.
EndsLines(all, upTo, b, s, r, c) ==
    /\ Lines(all) \in Seq(Seq(Piece)) /\ Len(Lines(all)) = c
    /\ \A n \in 1 .. c : /\ Lines(all)[n] # <<>> /\ Lines(all)[n][1].line = b + s + n
                         /\ Whole(Lines(all)[n]) \/ (n = 1 /\ r = 1)
    /\ \/ upTo = 2 * (s + c) /\ Rest(all) = <<>>
       \/ upTo = 2 * (s + c + 1) - 1 /\ Rest(all) = <<HeadOf(b + (s + c + 1))>>

\* It is read from there, after s lines or after the first piece of the next.
Reads(all, pieces, upTo, s, r) ==
    /\ upTo \in 0 .. Len(pieces) /\ 2 * s + r <= upTo
    /\ all \in Seq(Piece) /\ Len(all) = upTo - (2 * s + r) /\ (r = 1 => Len(all) > 0)
    /\ \A i \in 1 .. Len(all) : all[i] = pieces[2 * s + r + i]

LEMMA ReadOn ==
    ASSUME NEW b \in Nat, NEW k \in Nat, NEW pieces, FileHolds(pieces, b, k),
           NEW all, NEW upTo, NEW m \in Nat, NEW r \in {0, 1}, Reads(all, pieces, upTo, m, r)
    PROVE  \E c \in Nat : EndsLines(all, upTo, b, m, r, c)
  <1> DEFINE size == Len(all)
             p == Len(pieces)
  <1>1. /\ p \in Nat /\ size \in Nat /\ upTo = 2 * m + r + size /\ upTo \in Nat /\ upTo <= p /\ p <= 2 * k
        /\ r = 1 => size > 0
    BY DEF FileHolds, Reads
  <1>2. /\ \A n \in 1 .. k : pieces[2 * n - 1] = HeadOf(b + n)
        /\ \A n \in 1 .. k : 2 * n <= p => pieces[2 * n] = TailOf(b + n)
    BY DEF FileHolds
  <1>3. all \in Seq(Piece) /\ \A i \in 1 .. size : all[i] = pieces[2 * m + r + i]
    BY DEF Reads
  <1> HIDE DEF size, p
  <1>4. PICK c \in Nat : (size = 2 * c - r \/ size = 2 * c - r + 1) /\ (r = 1 => c > 0)
    <2> DEFINE q == (size + r) \div 2
    <2>1. q \in Nat /\ (size + r = 2 * q \/ size + r = 2 * q + 1)
      BY <1>1
    <2> HIDE DEF q
    <2>2. (size = 2 * q - r \/ size = 2 * q - r + 1) /\ (r = 1 => q > 0)
      BY <1>1, <2>1
    <2>3. QED
      BY <2>1, <2>2
  <1>5. ASSUME NEW n \in 1 .. c
        PROVE  /\ 2 * n - r \in 1 .. size /\ all[2 * n - r] = TailOf(b + m + n)
               /\ ~(n = 1 /\ r = 1) => 2 * n - r - 1 \in 1 .. size /\ all[2 * n - r - 1] = HeadOf(b + m + n)
    <2>1. /\ 2 * n - r \in 1 .. size /\ m + n \in 1 .. k /\ 2 * (m + n) <= p
          /\ ~(n = 1 /\ r = 1) => 2 * n - r - 1 \in 1 .. size
      BY <1>1, <1>4, EndsWithin
    <2>2. all[2 * n - r] = pieces[2 * m + r + (2 * n - r)] /\ 2 * m + r + (2 * n - r) = 2 * (m + n)
      <3>1. all[2 * n - r] = pieces[2 * m + r + (2 * n - r)]
        <4> DEFINE i == 2 * n - r
        <4>1. i \in 1 .. size
          BY <2>1
        <4> HIDE DEF i
        <4>2. all[i] = pieces[2 * m + r + i]
          BY <1>3, <4>1
        <4>3. QED
          BY <4>2 DEF i
      <3>2. QED
        BY <3>1
    <2>3. all[2 * n - r] = TailOf(b + (m + n))
      BY <1>2, <2>1, <2>2
    <2>4. ASSUME ~(n = 1 /\ r = 1)
          PROVE  2 * n - r - 1 \in 1 .. size /\ all[2 * n - r - 1] = HeadOf(b + (m + n))
      <3>1. 2 * n - r - 1 \in 1 .. size
        BY <2>1, <2>4
      <3>2. /\ all[2 * n - r - 1] = pieces[2 * m + r + (2 * n - r - 1)]
            /\ 2 * m + r + (2 * n - r - 1) = 2 * (m + n) - 1
        BY <1>3, <3>1, SMTT(30)
      <3>3. QED
        BY <1>2, <2>1, <3>1, <3>2
    <2>5. b + (m + n) = b + m + n
      OBVIOUS
    <2>6. QED
      BY <2>1, <2>3, <2>4, <2>5
  <1>6. LineEnds(all) = Newlines(r, c)
    <2>1. DOMAIN all = 1 .. size
      BY <1>3 DEF size
    <2>2. ASSUME NEW i \in 1 .. size, all[i].part = "end" PROVE \E n \in 1 .. c : i = 2 * n - r
      <3>1. all[i] = pieces[2 * m + r + i] /\ 2 * m + r + i \in 1 .. p
        BY <1>1, <1>3
      <3> DEFINE at == 2 * m + r + i
      <3>2. PICK n \in 1 .. k : at = 2 * n \/ (at = 2 * n - 1 /\ all[i] = HeadOf(b + n))
        <4>1. at \in 1 .. Len(pieces) /\ all[i] = pieces[at]
          BY <3>1 DEF p
        <4> HIDE DEF at
        <4>2. PICK n \in 1 .. k : PieceOfLine(pieces[at], at, n, b)
          BY <4>1, PieceIs
        <4>3. QED
          BY <4>1, <4>2 DEF PieceOfLine
      <3>3. all[i] # HeadOf(b + n)
        BY <2>2 DEF HeadOf
      <3>4. n - m \in 1 .. c /\ i = 2 * (n - m) - r
        BY <1>1, <1>4, <3>2, <3>3
      <3>5. QED
        BY <3>4
    <2>3. ASSUME NEW n \in 1 .. c PROVE 2 * n - r \in 1 .. size /\ all[2 * n - r].part = "end"
      <3>1. 2 * n - r \in 1 .. size /\ all[2 * n - r] = TailOf(b + m + n)
        BY <1>5
      <3>2. QED
        BY <3>1 DEF TailOf
    <2>4. QED
      BY <2>1, <2>2, <2>3 DEF LineEnds, Newlines
  <1>7. /\ Lines(all) = [n \in 1 .. c |-> SubSeq(all, Nth(r, n - 1) + 1, Nth(r, n))]
        /\ Rest(all) = SubSeq(all, Nth(r, c) + 1, size)
    BY <1>6, SplitAt DEF size
  <1>8. ASSUME NEW n \in 1 .. c
        PROVE  /\ Lines(all)[n] \in Seq(Piece)
               /\ Lines(all)[n] # <<>> /\ Lines(all)[n][1].line = b + m + n
               /\ Whole(Lines(all)[n]) \/ (n = 1 /\ r = 1)
    <2>1. CASE n = 1 /\ r = 1
      <3>1. Lines(all)[n] = SubSeq(all, 1, 1) /\ 1 \in 1 .. size /\ all[1] = TailOf(b + m + n)
        BY <1>5, <1>7, <2>1 DEF Nth
      <3>2. Lines(all)[n] = <<all[1]>> /\ all[1] \in Piece
        BY <1>3, <3>1, OnePiece DEF size
      <3> DEFINE t == Lines(all)[n]
                 e == TailOf(b + m + n)
      <3> HIDE DEF t, e
      <3>3. t = <<e>> /\ e \in Piece
        BY <3>1, <3>2 DEF t, e
      <3>4. t \in Seq(Piece)
        BY <3>3
      <3>5. t = <<TailOf(b + m + n)>> /\ t \in Seq(Piece)
        BY <3>3, <3>4 DEF e
      <3>6. t # <<>> /\ t[1] = TailOf(b + m + n)
        BY <3>5
      <3>7. t[1].line = b + m + n
        BY <3>6 DEF TailOf
      <3>8. QED
        BY <2>1, <3>5, <3>6, <3>7 DEF t
    <2>2. CASE ~(n = 1 /\ r = 1)
      <3> DEFINE l == 2 * n - r - 1
      <3>1. Nth(r, n - 1) + 1 = l /\ Nth(r, n) = l + 1
        BY <2>2 DEF Nth
      <3>2. /\ l \in 1 .. size /\ l + 1 \in 1 .. size
            /\ all[l] = HeadOf(b + m + n) /\ all[l + 1] = TailOf(b + m + n)
        BY <1>5, <2>2
      <3> HIDE DEF l
      <3>3. Lines(all)[n] = SubSeq(all, l, l + 1)
        BY <1>7, <3>1
      <3>4. /\ Lines(all)[n] \in Seq(Piece) /\ Len(Lines(all)[n]) = 2
            /\ Lines(all)[n][1] = all[l] /\ Lines(all)[n][2] = all[l + 1]
        BY <1>3, <3>2, <3>3 DEF size
      <3>5. Lines(all)[n][1] = HeadOf(b + m + n) /\ Lines(all)[n][2] = TailOf(b + m + n)
        BY <3>2, <3>4
      <3>6. Lines(all)[n] # <<>> /\ Whole(Lines(all)[n])
        BY <3>4, <3>5 DEF Whole, HeadOf, TailOf
      <3>7. Lines(all)[n][1].line = b + m + n
        BY <3>5 DEF HeadOf
      <3>8. QED
        BY <3>4, <3>6, <3>7
    <2>3. QED
      BY <2>1, <2>2
  <1>9. Lines(all) \in Seq(Seq(Piece)) /\ Len(Lines(all)) = c
    <2> DEFINE f == [n \in 1 .. c |-> SubSeq(all, Nth(r, n - 1) + 1, Nth(r, n))]
    <2>1. Lines(all) = f /\ \A n \in 1 .. c : f[n] \in Seq(Piece)
      BY <1>7, <1>8
    <2>2. f = [n \in 1 .. c |-> f[n]]
      OBVIOUS
    <2> HIDE DEF f
    <2>3. f \in Seq(Seq(Piece)) /\ Len(f) = c
      <3>1. f \in [1 .. c -> Seq(Piece)]
        BY <2>1, <2>2
      <3>2. QED
        BY <3>1, AsSequence
    <2>4. QED
      BY <2>1, <2>3
  <1>10. \/ upTo = 2 * (m + c) /\ Rest(all) = <<>>
         \/ upTo = 2 * (m + c + 1) - 1 /\ Rest(all) = <<HeadOf(b + (m + c + 1))>>
    <2>1. Nth(r, c) = IF c = 0 THEN 0 ELSE 2 * c - r
      BY DEF Nth
    <2>2. Nth(r, c) = 2 * c - r
      BY <1>4, <2>1
    <2>3. CASE size = 2 * c - r
      <3>1. Rest(all) = SubSeq(all, size + 1, size)
        BY <1>7, <2>2, <2>3
      <3>2. Rest(all) = <<>>
        BY <1>3, <3>1 DEF size
      <3>3. QED
        BY <1>1, <2>3, <3>2
    <2>4. CASE size = 2 * c - r + 1
      <3>0. size \in 1 .. size /\ Nth(r, c) + 1 = size
        <4>1. CASE r = 0
          BY <1>1, <2>2, <2>4, <4>1
        <4>2. CASE r = 1
          BY <1>1, <1>4, <2>2, <2>4, <4>2
        <4>3. QED
          BY <4>1, <4>2
      <3>1. Rest(all) = SubSeq(all, size, size) /\ size \in 1 .. size
        BY <1>7, <3>0
      <3>2. Rest(all) = <<all[size]>>
        BY <1>3, <3>1, OnePiece DEF size
      <3>3. m + c + 1 \in 1 .. k /\ 2 * m + r + size = 2 * (m + c + 1) - 1
        BY <1>1, <2>4
      <3>4. all[size] = HeadOf(b + (m + c + 1))
        BY <1>2, <1>3, <3>1, <3>3
      <3>5. QED
        BY <1>1, <3>2, <3>3, <3>4
    <2>5. QED
      BY <1>4, <2>3, <2>4
  <1>11. QED
    BY <1>8, <1>9, <1>10 DEF EndsLines

LogTypes ==
    /\ DOMAIN log = {"inode", "files", "lines", "pieces"}
    /\ log.inode \in Nat /\ log.files \in Nat /\ log.lines \in Nat /\ log.pieces \in Seq(Piece)
    /\ DOMAIN tail = {"running", "inode", "offset", "pending", "seq"}
    /\ tail.inode \in Nat /\ tail.offset \in Nat /\ tail.pending \in Seq(Piece)
    /\ toRead \in Nat /\ cut \in BOOLEAN /\ anchored \in BOOLEAN
    /\ log.inode <= log.files /\ tail.inode <= log.files /\ log.files > 0
    /\ log.inode = 0 => log.pieces = <<>>
    /\ cut => tail.inode = log.inode /\ tail.offset > 0
    /\ tail.inode = 0 => tail.offset = 0 /\ tail.pending = <<>> /\ published = <<>> /\ toRead = 0

\* Whole lines, of rising numbers; the first may be half.
Told(told, half) ==
    /\ told \in Seq(Seq(Piece))
    /\ \A i \in 1 .. Len(told) : told[i] # <<>> /\ (Whole(told[i]) \/ (i = 1 /\ half))
    /\ \A i, j \in 1 .. Len(told) : i < j => told[i][1].line < told[j][1].line

Under(told, n) == \A i \in 1 .. Len(told) : told[i][1].line <= n

Held(piece) == piece = <<>> \/ \E x \in Nat : piece = <<HeadOf(x)>>

\* Where the tailer is in a file that follows b lines: after m lines of it, in the
\* middle of the m-th with its first piece held back, or anchored there.
Placed(t, told, half, b, m) ==
    \/ t.offset = 2 * m /\ t.pending = <<>> /\ Under(told, b + m)
    \/ /\ m > 0 /\ t.offset = 2 * m - 1 /\ t.pending = <<HeadOf(b + m)>>
       /\ Under(told, b + m - 1)
    \/ m > 0 /\ t.offset = 2 * m - 1 /\ t.pending = <<>> /\ half /\ told = <<>>

Follows(b, k) ==
    /\ FileHolds(log.pieces, b, k) /\ log.lines = b + k
    /\ tail.inode # log.inode \/ cut => Under(published, b)
    /\ tail.inode = log.inode /\ ~cut =>
          /\ tail.offset <= Len(log.pieces)
          /\ \E m \in Nat : Placed(tail, published, anchored, b, m)

LogHolds ==
    /\ LogTypes /\ Held(tail.pending) /\ Told(published, anchored)
    /\ \E b, k \in Nat : Follows(b, k)

LogInv == misread \/ LogHolds

LEMMA LogStart == LogInit => LogInv
  <1> SUFFICES ASSUME LogInit PROVE LogHolds
    BY DEF LogInv
  <1>1. /\ log = [inode |-> 1, files |-> 1, lines |-> 0, pieces |-> <<>>] /\ cut = FALSE
        /\ tail = [running |-> TRUE, inode |-> 0, offset |-> 0, pending |-> <<>>, seq |-> 0]
        /\ toRead = 0 /\ anchored = FALSE /\ published = <<>>
    BY DEF LogInit
  <1>2. LogTypes
    <2>1. /\ DOMAIN log = {"inode", "files", "lines", "pieces"}
          /\ log.inode = 1 /\ log.files = 1 /\ log.lines = 0 /\ log.pieces = <<>>
      BY <1>1
    <2>2. /\ DOMAIN tail = {"running", "inode", "offset", "pending", "seq"}
          /\ tail.inode = 0 /\ tail.offset = 0 /\ tail.pending = <<>>
      BY <1>1
    <2>3. <<>> \in Seq(Piece)
      OBVIOUS
    <2>4. /\ log.inode \in Nat /\ log.files \in Nat /\ log.lines \in Nat /\ log.pieces \in Seq(Piece)
          /\ log.inode <= log.files /\ tail.inode <= log.files /\ log.files > 0 /\ log.inode # 0
      BY <2>1, <2>2, <2>3
    <2>5. tail.inode \in Nat /\ tail.offset \in Nat /\ tail.pending \in Seq(Piece)
      BY <2>2, <2>3
    <2>6. QED
      BY <1>1, <2>1, <2>2, <2>4, <2>5 DEF LogTypes
  <1>3. Held(tail.pending) /\ Told(published, anchored)
    BY <1>1 DEF Held, Told
  <1>4. Follows(0, 0)
    BY <1>1 DEF Follows, FileHolds, Under
  <1>5. QED
    BY <1>2, <1>3, <1>4 DEF LogHolds

LEMMA UnderMore ==
    ASSUME NEW told, NEW half, Told(told, half), NEW n \in Nat, NEW l \in Nat, n <= l, Under(told, n)
    PROVE  Under(told, l)
  <1>1. ASSUME NEW i \in 1 .. Len(told) PROVE told[i][1].line \in Nat
    <2>1. told[i] \in Seq(Piece) /\ told[i] # <<>>
      BY DEF Told
    <2>2. told[i][1] \in Piece
      BY <2>1
    <2>3. QED
      BY <2>2 DEF Piece
  <1>2. QED
    BY <1>1 DEF Under

\* Nothing was published that was not written.
LEMMA UnderLines ==
    ASSUME LogHolds
    PROVE  Under(published, log.lines) /\ log.lines \in Nat
  <1>1. PICK b \in Nat, k \in Nat : Follows(b, k)
    BY DEF LogHolds
  <1>2. /\ log.lines = b + k /\ Told(published, anchored) /\ cut \in BOOLEAN
        /\ tail.offset \in Nat /\ Len(log.pieces) \in Nat /\ Len(log.pieces) <= 2 * k
    BY <1>1 DEF LogHolds, LogTypes, Follows, FileHolds
  <1>3. CASE tail.inode # log.inode \/ cut
    <2>1. Under(published, b)
      BY <1>1, <1>3 DEF Follows
    <2>2. QED
      BY <1>2, <2>1, UnderMore
  <1>4. CASE tail.inode = log.inode /\ ~cut
    <2>1. PICK m \in Nat : Placed(tail, published, anchored, b, m)
      BY <1>1, <1>4 DEF Follows
    <2>2. tail.offset <= Len(log.pieces)
      BY <1>1, <1>4 DEF Follows
    <2>3. CASE tail.offset = 2 * m /\ Under(published, b + m)
      <3>1. b + m \in Nat /\ b + m <= b + k
        BY <1>2, <2>2, <2>3
      <3>2. QED
        BY <1>2, <2>3, <3>1, UnderMore
    <2>4. CASE m > 0 /\ tail.offset = 2 * m - 1 /\ Under(published, b + m - 1)
      <3>1. b + m - 1 \in Nat /\ b + m - 1 <= b + k
        BY <1>2, <2>2, <2>4
      <3>2. QED
        BY <1>2, <2>4, <3>1, UnderMore
    <2>5. CASE published = <<>>
      BY <1>2, <2>5 DEF Under
    <2>6. QED
      BY <2>1, <2>3, <2>4, <2>5 DEF Placed
  <1>5. QED
    BY <1>2, <1>3, <1>4

\* One more piece, of the line that is unfinished or of the next.
LEMMA WriteKeeps ==
    ASSUME LogHolds, Write
    PROVE  LogHolds'
  <1>1. PICK b \in Nat, k \in Nat : Follows(b, k)
    BY DEF LogHolds
  <1> DEFINE p == Len(log.pieces)
  <1>2. /\ FileHolds(log.pieces, b, k) /\ log.lines = b + k /\ p \in Nat /\ Exists
        /\ DOMAIN log = {"inode", "files", "lines", "pieces"}
        /\ UNCHANGED <<cut, tail, toRead, anchored, published>>
    BY <1>1 DEF Follows, Write, FileHolds, LogHolds, LogTypes
  <1>3. Unfinished <=> k > 0 /\ p = 2 * k - 1
    <2>1. CASE p = 2 * k
      <3>1. CASE k = 0
        BY <1>2, <2>1, <3>1 DEF Unfinished, FileHolds
      <3>2. CASE k # 0
        <4>1. log.pieces[2 * k] = TailOf(b + k)
          BY <1>2, <2>1, <3>2 DEF FileHolds
        <4>2. ~Unfinished
          BY <2>1, <4>1 DEF Unfinished, TailOf
        <4>3. QED
          BY <2>1, <4>2
      <3>3. QED
        BY <3>1, <3>2
    <2>2. CASE k > 0 /\ p = 2 * k - 1
      <3>1. log.pieces[2 * k - 1] = HeadOf(b + k)
        BY <1>2, <2>2 DEF FileHolds
      <3>2. log.pieces # <<>>
        BY <1>2, <2>2
      <3>3. QED
        BY <2>2, <3>1, <3>2 DEF Unfinished, HeadOf
    <2>3. QED
      BY <1>2, <2>1, <2>2 DEF FileHolds
  <1>4. PICK piece \in Piece, l \in Nat :
           /\ DOMAIN log' = {"inode", "files", "lines", "pieces"} /\ log'.inode = log.inode
           /\ log'.files = log.files /\ log'.lines = b + l /\ log'.pieces = Append(log.pieces, piece)
           /\ \/ k > 0 /\ p = 2 * k - 1 /\ l = k /\ piece = TailOf(b + k)
              \/ p = 2 * k /\ l = k + 1 /\ piece = HeadOf(b + l)
    <2>1. CASE Unfinished
      <3>1. log' = [log EXCEPT !.pieces = Append(log.pieces, TailOf(b + k))]
        BY <1>2, <2>1 DEF Write, TailOf
      <3>2. /\ DOMAIN log' = {"inode", "files", "lines", "pieces"} /\ log'.inode = log.inode
            /\ log'.files = log.files /\ log'.lines = b + k
            /\ log'.pieces = Append(log.pieces, TailOf(b + k))
        BY <1>2, <3>1
      <3>3. TailOf(b + k) \in Piece
        BY DEF Piece, TailOf
      <3>4. QED
        BY <1>3, <2>1, <3>2, <3>3
    <2>2. CASE ~Unfinished
      <3> DEFINE l == k + 1
      <3>1. b + k + 1 = b + l /\ l \in Nat /\ b + l \in Nat
        OBVIOUS
      <3>2. log' = [log EXCEPT !.lines = log.lines + 1, !.pieces = Append(log.pieces, HeadOf(log.lines + 1))]
        BY <2>2 DEF Write, HeadOf
      <3>3. /\ DOMAIN log' = {"inode", "files", "lines", "pieces"} /\ log'.inode = log.inode
            /\ log'.files = log.files /\ log'.lines = log.lines + 1
            /\ log'.pieces = Append(log.pieces, HeadOf(log.lines + 1))
        BY <1>2, <3>2
      <3>4. log.lines + 1 = b + l
        BY <1>2, <3>1
      <3>5. HeadOf(b + l) \in Piece
        BY <3>1 DEF Piece, HeadOf
      <3>6. p = 2 * k
        BY <1>2, <1>3, <2>2 DEF FileHolds
      <3>7. QED
        BY <3>1, <3>3, <3>4, <3>5, <3>6
    <2>3. QED
      BY <2>1, <2>2
  <1>6. /\ log'.pieces \in Seq(Piece) /\ Len(log'.pieces) = p + 1 /\ log'.pieces[p + 1] = piece
        /\ \A i \in 1 .. p : log'.pieces[i] = log.pieces[i]
    <2>1. log'.pieces = Append(log.pieces, piece) /\ log.pieces \in Seq(Piece)
      BY <1>2, <1>4 DEF FileHolds
    <2>2. QED
      BY <2>1
  <1> HIDE DEF p
  <1>7. FileHolds(log'.pieces, b, l)
    <2>0. /\ \A n \in 1 .. k : log.pieces[2 * n - 1] = HeadOf(b + n)
          /\ \A n \in 1 .. k : 2 * n <= p => log.pieces[2 * n] = TailOf(b + n)
      BY <1>2 DEF FileHolds, p
    <2>1. CASE k > 0 /\ p = 2 * k - 1 /\ l = k /\ piece = TailOf(b + k)
      <3>1. ASSUME NEW n \in 1 .. k
            PROVE  log'.pieces[2 * n - 1] = HeadOf(b + n) /\ log'.pieces[2 * n] = TailOf(b + n)
        <4>1. log'.pieces[2 * n - 1] = HeadOf(b + n)
          <5>1. 2 * n - 1 \in 1 .. p
            BY <2>1
          <5>2. QED
            BY <1>6, <2>0, <5>1
        <4>2. CASE n = k
          <5>1. 2 * n = p + 1
            BY <2>1, <4>2
          <5>2. QED
            BY <1>6, <2>1, <4>1, <4>2, <5>1
        <4>3. CASE n # k
          <5>1. 2 * n \in 1 .. p
            BY <2>1, <4>3
          <5>2. QED
            BY <1>6, <2>0, <4>1, <5>1
        <4>4. QED
          BY <4>2, <4>3
      <3>2. QED
        BY <1>6, <2>1, <3>1 DEF FileHolds
    <2>2. CASE p = 2 * k /\ l = k + 1 /\ piece = HeadOf(b + l)
      <3>1. ASSUME NEW n \in 1 .. l
            PROVE  /\ log'.pieces[2 * n - 1] = HeadOf(b + n)
                   /\ 2 * n <= p + 1 => log'.pieces[2 * n] = TailOf(b + n)
        <4>1. CASE n = l
          BY <1>6, <2>2, <4>1
        <4>2. CASE n # l
          <5>1. n \in 1 .. k /\ 2 * n \in 1 .. p /\ 2 * n - 1 \in 1 .. p
            BY <2>2, <4>2
          <5>2. QED
            BY <1>6, <2>0, <5>1
        <4>3. QED
          BY <4>1, <4>2
      <3>2. l > 0 /\ p + 1 = 2 * l - 1
        BY <2>2
      <3>3. QED
        BY <1>6, <3>1, <3>2 DEF FileHolds
    <2>3. QED
      BY <1>4, <2>1, <2>2
  <1>8. tail.inode = log.inode /\ ~cut => tail.offset <= p + 1
    <2>1. tail.inode = log.inode /\ ~cut => tail.offset <= p
      BY <1>1 DEF Follows, p
    <2>2. tail.offset \in Nat /\ p \in Nat
      BY <1>2 DEF LogHolds, LogTypes, p
    <2>3. QED
      BY <2>1, <2>2
  <1>9. Follows(b, l)'
    BY <1>1, <1>2, <1>4, <1>6, <1>7, <1>8 DEF Follows
  <1>10. LogTypes'
    BY <1>2, <1>4, <1>6, SMTT(30) DEF LogHolds, LogTypes, Exists
  <1>11. Held(tail.pending)' /\ Told(published, anchored)'
    BY <1>2 DEF LogHolds
  <1>12. QED
    BY <1>9, <1>10, <1>11 DEF LogHolds

\* An empty file at the path, after all the lines there were: another one, the one that
\* was there, or none.
LEMMA EmptiedKeeps ==
    ASSUME LogHolds, UNCHANGED <<tail, toRead, anchored, published>>,
           NEW inode \in Nat, NEW files \in Nat, files >= log.files, inode <= files,
           DOMAIN log' = DOMAIN log, log'.inode = inode, log'.files = files,
           log'.lines = log.lines, log'.pieces = <<>>,
           cut' \in BOOLEAN, cut' => tail.inode = inode /\ tail.offset > 0,
           tail.inode = inode /\ ~cut' => tail.offset = 0 /\ tail.pending = <<>>
    PROVE  LogHolds'
  <1>2. log'.inode = inode /\ log'.files = files /\ log'.lines = log.lines /\ log'.pieces = <<>>
    OBVIOUS
  <1>3. FileHolds(log'.pieces, log.lines, 0)
    BY <1>2 DEF FileHolds
  <1>4. Under(published, log.lines) /\ log.lines \in Nat
    BY UnderLines
  <1>5. ASSUME tail.inode = inode, ~cut'
        PROVE  tail.offset <= 0 /\ Placed(tail, published, anchored, log.lines, 0)
    BY <1>4, <1>5 DEF Placed
  <1>6. Follows(log.lines, 0)'
    <2>1. Len(log'.pieces) = 0
      BY <1>2
    <2>2. QED
      BY <1>2, <1>3, <1>4, <1>5, <2>1 DEF Follows
  <1>7. LogTypes'
    <2>1. LogTypes
      BY DEF LogHolds
    <2>2. tail.inode <= files /\ files > 0
      BY <2>1 DEF LogTypes
    <2>3. QED
      BY <1>2, <2>1, <2>2 DEF LogTypes
  <1>8. QED
    BY <1>4, <1>6, <1>7 DEF LogHolds

LEMMA RotateKeeps ==
    ASSUME LogHolds, Rotate
    PROVE  LogHolds'
  <1> DEFINE inode == IF Exists THEN 0 ELSE log.files + 1
             files == IF Exists THEN log.files ELSE log.files + 1
  <1>1. /\ DOMAIN log = {"inode", "files", "lines", "pieces"} /\ log.inode \in Nat /\ log.files \in Nat
        /\ tail.inode \in Nat /\ tail.inode <= log.files
        /\ tail.inode = 0 => tail.offset = 0 /\ tail.pending = <<>>
    BY DEF LogHolds, LogTypes
  <1>2. /\ DOMAIN log' = DOMAIN log /\ log'.inode = inode /\ log'.files = files
        /\ log'.lines = log.lines /\ log'.pieces = <<>>
    <2> HIDE DEF inode, files
    <2>1. log' = [log EXCEPT !.inode = inode, !.files = files, !.pieces = <<>>]
      BY DEF Rotate, inode, files
    <2>2. QED
      BY <1>1, <2>1
  <1>3. inode \in Nat /\ files \in Nat /\ files >= log.files /\ inode <= files
    BY <1>1
  <1>4. tail.inode = inode => tail.offset = 0 /\ tail.pending = <<>>
    BY <1>1
  <1>5. UNCHANGED <<tail, toRead, anchored, published>> /\ cut' = FALSE
    BY DEF Rotate
  <1> HIDE DEF inode, files
  <1>6. QED
    BY <1>2, <1>3, <1>4, <1>5, EmptiedKeeps

LEMMA TruncateKeeps ==
    ASSUME LogHolds, TruncateFile
    PROVE  LogHolds'
  <1>1. /\ DOMAIN log = {"inode", "files", "lines", "pieces"} /\ log.inode \in Nat /\ log.files \in Nat
        /\ tail.offset \in Nat
        /\ log.inode <= log.files /\ cut \in BOOLEAN
        /\ cut => tail.offset > 0
    BY DEF LogHolds, LogTypes
  <1>2. /\ DOMAIN log' = DOMAIN log /\ log'.inode = log.inode /\ log'.files = log.files
        /\ log'.lines = log.lines /\ log'.pieces = <<>>
    <2>1. log' = [log EXCEPT !.pieces = <<>>]
      BY DEF TruncateFile
    <2>2. QED
      BY <1>1, <2>1
  <1>3. UNCHANGED <<tail, toRead, anchored, published>> /\ cut' = (tail.inode = log.inode /\ tail.offset > 0)
    BY DEF TruncateFile
  <1>4. ASSUME tail.inode = log.inode, ~cut' PROVE tail.offset = 0 /\ tail.pending = <<>>
    <2>1. tail.offset = 0 /\ ~cut
      <3>1. ~(tail.offset > 0)
        BY <1>3, <1>4
      <3>2. QED
        BY <1>1, <3>1
    <2>2. PICK b \in Nat, k \in Nat : Follows(b, k)
      BY DEF LogHolds
    <2>3. PICK m \in Nat : Placed(tail, published, anchored, b, m)
      BY <1>4, <2>1, <2>2 DEF Follows
    <2>4. tail.pending = <<>>
      BY <2>1, <2>3 DEF Placed
    <2>5. QED
      BY <2>1, <2>4
  <1>5. log.inode \in Nat /\ log.files \in Nat /\ log.files >= log.files
    BY <1>1
  <1>6. QED
    BY <1>1, <1>2, <1>3, <1>4, <1>5, EmptiedKeeps

\* The look: the tailer is placed in the file it found.
LEMMA PollStatKeeps ==
    ASSUME LogHolds, PollStat, ~misread'
    PROVE  LogHolds'
  <1> DEFINE t == Looked(tail)
             p == Len(log.pieces)
  <1>1. /\ Exists /\ tail' = t /\ toRead' = p - t.offset /\ cut' = FALSE /\ UNCHANGED <<log, published>>
        /\ anchored' = (anchored \/ (tail.inode = 0 /\ ~FromStart /\ Unfinished))
        /\ cut => p < tail.offset
    <2>1. PollStat /\ misread' = (misread \/ (cut /\ p >= tail.offset))
      BY DEF PollStat
    <2>2. p \in Nat /\ tail.offset \in Nat
      BY DEF LogHolds, LogTypes
    <2>3. ~(cut /\ p >= tail.offset)
      BY <2>1, Zenon
    <2>5. cut => p < tail.offset
      BY <2>2, <2>3
    <2>4. QED
      BY <2>1, <2>5 DEF PollStat
  <1>2. PICK b \in Nat, k \in Nat : Follows(b, k)
    BY DEF LogHolds
  <1>3. /\ DOMAIN tail = {"running", "inode", "offset", "pending", "seq"} /\ log.inode \in Nat /\ p \in Nat
        /\ tail.inode \in Nat /\ tail.offset \in Nat /\ tail.pending \in Seq(Piece) /\ anchored \in BOOLEAN
        /\ cut \in BOOLEAN /\ log.inode # 0
        /\ tail.inode = 0 => tail.offset = 0 /\ tail.pending = <<>> /\ published = <<>>
    BY <1>1 DEF LogHolds, LogTypes, Exists
  <1>4. anchored' \in BOOLEAN /\ (anchored => anchored')
    BY <1>1, <1>3
  <1> DEFINE TPlaced == /\ DOMAIN t = {"running", "inode", "offset", "pending", "seq"}
                        /\ t.inode = log.inode /\ t.offset \in Nat /\ t.offset <= p
                        /\ t.pending \in Seq(Piece) /\ Held(t.pending)
                        /\ \E m \in Nat : Placed(t, published, anchored', b, m)
  <1>5. TPlaced
    <2> HIDE DEF t
    <2>1. CASE tail.inode = 0
      <3>1. t = [tail EXCEPT !.inode = log.inode, !.offset = IF FromStart THEN 0 ELSE p]
        BY <1>3, <2>1 DEF Looked, t
      <3>2. /\ DOMAIN t = {"running", "inode", "offset", "pending", "seq"} /\ t.inode = log.inode
            /\ t.offset = (IF FromStart THEN 0 ELSE p) /\ t.pending = <<>>
        BY <1>3, <2>1, <3>1
      <3>3. published = <<>> /\ \A n : Under(published, n)
        BY <1>3, <2>1 DEF Under
      <3>4. CASE FromStart
        <4>1. Placed(t, published, anchored', b, 0)
          BY <3>2, <3>3, <3>4 DEF Placed
        <4>2. QED
          BY <1>3, <3>2, <3>4, <4>1 DEF Held
      <3>5. CASE ~FromStart
        <4>1. FileHolds(log.pieces, b, k)
          BY <1>2 DEF Follows
        <4>2. Placed(t, published, anchored', b, k)
          <5>1. CASE p = 2 * k
            BY <3>2, <3>3, <3>5, <5>1 DEF Placed
          <5>2. CASE k > 0 /\ p = 2 * k - 1
            <6>1. log.pieces[p] = HeadOf(b + k) /\ log.pieces # <<>>
              BY <1>3, <4>1, <5>2 DEF FileHolds
            <6>2. Unfinished
              BY <6>1 DEF Unfinished, HeadOf
            <6>3. anchored'
              BY <1>1, <2>1, <3>5, <6>2
            <6>4. QED
              BY <3>2, <3>3, <3>5, <5>2, <6>3 DEF Placed
          <5>3. QED
            BY <4>1, <5>1, <5>2 DEF FileHolds
        <4>3. QED
          BY <1>3, <3>2, <3>5, <4>2 DEF Held
      <3>6. QED
        BY <3>4, <3>5
    <2>2. CASE tail.inode # 0 /\ (tail.inode # log.inode \/ p < tail.offset)
      <3>2. /\ DOMAIN t = {"running", "inode", "offset", "pending", "seq"} /\ t.inode = log.inode
            /\ t.offset = 0 /\ t.pending = <<>>
        <4>1. CASE tail.inode # log.inode
          <5>1. t = [tail EXCEPT !.inode = log.inode, !.offset = 0, !.pending = <<>>]
            BY <2>2, <4>1 DEF Looked, t
          <5>2. QED
            BY <1>3, <5>1
        <4>2. CASE tail.inode = log.inode
          <5>1. t = [tail EXCEPT !.offset = 0, !.pending = <<>>]
            BY <1>3, <2>2, <4>2 DEF Looked, t
          <5>2. QED
            BY <1>3, <4>2, <5>1
        <4>3. QED
          BY <4>1, <4>2
      <3>3. Under(published, b)
        <4>1. tail.inode = log.inode /\ ~cut => tail.offset <= p
          BY <1>2 DEF Follows
        <4>2. tail.inode # log.inode \/ cut
          BY <1>3, <2>2, <4>1
        <4>3. QED
          BY <1>2, <4>2 DEF Follows
      <3>4. Placed(t, published, anchored', b, 0)
        BY <3>2, <3>3 DEF Placed
      <3>5. QED
        BY <1>3, <3>2, <3>4 DEF Held
    <2>3. CASE tail.inode # 0 /\ tail.inode = log.inode /\ ~(p < tail.offset)
      <3>1. t = tail
        BY <2>3 DEF Looked, t
      <3>2. ~cut /\ tail.offset <= p
        BY <1>1, <1>3, <2>3
      <3>3. PICK m \in Nat : Placed(tail, published, anchored, b, m)
        BY <1>2, <2>3, <3>2 DEF Follows
      <3>4. Placed(t, published, anchored', b, m)
        BY <1>4, <3>1, <3>3 DEF Placed
      <3>5. Held(tail.pending)
        BY DEF LogHolds
      <3>6. QED
        BY <1>3, <2>3, <3>1, <3>2, <3>4, <3>5
    <2>4. QED
      BY <2>1, <2>2, <2>3
  <1> HIDE DEF t
  <1>6. Follows(b, k)'
    <2>1. FileHolds(log.pieces, b, k) /\ log.lines = b + k
      BY <1>2 DEF Follows
    <2>2. \E m \in Nat : Placed(tail', published', anchored', b, m)
      BY <1>1, <1>5
    <2>3. QED
      BY <1>1, <1>5, <2>1, <2>2 DEF Follows
  <1>7. LogTypes'
    <2>1. LogTypes
      BY DEF LogHolds
    <2>2. toRead' \in Nat
      BY <1>1, <1>3, <1>5
    <2>3. tail'.inode <= log'.files /\ tail'.inode # 0
      BY <1>1, <1>3, <1>5, <2>1 DEF LogTypes
    <2>4. QED
      BY <1>1, <1>4, <1>5, <2>1, <2>2, <2>3 DEF LogTypes
  <1>8. Told(published, anchored)'
    BY <1>1, <1>4 DEF LogHolds, Told
  <1>9. QED
    BY <1>1, <1>5, <1>6, <1>7, <1>8 DEF LogHolds

\* What was held back stands before what is read on.
LEMMA HeldThenRead ==
    ASSUME NEW S, NEW s \in Seq(S), NEW i \in 1 .. Len(s), NEW upTo \in i .. Len(s)
    PROVE  /\ <<s[i]>> \o SubSeq(s, i + 1, upTo) \in Seq(S)
           /\ Len(<<s[i]>> \o SubSeq(s, i + 1, upTo)) = upTo - i + 1
           /\ \A j \in 1 .. upTo - i + 1 : (<<s[i]>> \o SubSeq(s, i + 1, upTo))[j] = s[i - 1 + j]
  <1> DEFINE a == <<s[i]>>
             d == SubSeq(s, i + 1, upTo)
  <1>1. a \in Seq(S) /\ Len(a) = 1 /\ a[1] = s[i]
    OBVIOUS
  <1>2. d \in Seq(S) /\ Len(d) = upTo - i /\ \A j \in 1 .. upTo - i : d[j] = s[i + j]
    OBVIOUS
  <1> HIDE DEF a, d
  <1>3. /\ a \o d \in Seq(S) /\ Len(a \o d) = Len(a) + Len(d)
        /\ \A j \in 1 .. Len(a) + Len(d) : (a \o d)[j] = IF j <= Len(a) THEN a[j] ELSE d[j - Len(a)]
    BY <1>1, <1>2, JoinedForm
  <1>4. ASSUME NEW j \in 1 .. upTo - i + 1 PROVE (a \o d)[j] = s[i - 1 + j]
    <2>1. CASE j = 1
      BY <1>1, <1>2, <1>3, <2>1
    <2>2. CASE j # 1
      <3>1. j - 1 \in 1 .. upTo - i /\ i + (j - 1) = i - 1 + j
        BY <2>2
      <3>2. (a \o d)[j] = d[j - 1]
        BY <1>1, <1>2, <1>3, <2>2
      <3>3. QED
        BY <1>2, <3>1, <3>2
    <2>3. QED
      BY <2>1, <2>2
  <1>5. QED
    BY <1>1, <1>2, <1>3, <1>4, SMTT(30) DEF a, d

\* Lines after those that were told.
LEMMA ToldMore ==
    ASSUME NEW told, NEW half \in BOOLEAN, Told(told, half), NEW n \in Nat, Under(told, n),
           NEW more \in Seq(Seq(Piece)), NEW first \in BOOLEAN, first => half /\ told = <<>>,
           \A i \in 1 .. Len(more) : /\ more[i] # <<>> /\ more[i][1].line = n + i
                                     /\ Whole(more[i]) \/ (i = 1 /\ first)
    PROVE  Told(told \o more, half) /\ Under(told \o more, n + Len(more))
  <1> DEFINE s == told \o more
             c == Len(told)
             d == Len(more)
  <1>1. told \in Seq(Seq(Piece)) /\ c \in Nat /\ d \in Nat
    BY DEF Told
  <1>2. /\ s \in Seq(Seq(Piece)) /\ Len(s) = c + d
        /\ \A i \in 1 .. c + d : s[i] = IF i <= c THEN told[i] ELSE more[i - c]
    BY <1>1, JoinedForm
  <1> HIDE DEF s
  <1>3. first => c = 0
    BY <1>1
  <1>4. \A i \in 1 .. c : told[i][1].line \in Nat
    <2>1. ASSUME NEW i \in 1 .. c PROVE told[i][1].line \in Nat
      <3>1. told[i] \in Seq(Piece) /\ told[i] # <<>>
        BY DEF Told
      <3>2. told[i][1] \in Piece
        BY <3>1
      <3>3. QED
        BY <3>2 DEF Piece
    <2>2. QED
      BY <2>1
  <1>5. \A i \in 1 .. c : /\ told[i] # <<>> /\ (Whole(told[i]) \/ (i = 1 /\ half)) /\ told[i][1].line <= n
    BY DEF Told, Under
  <1>6. \A i, j \in 1 .. c : i < j => told[i][1].line < told[j][1].line
    BY DEF Told
  <1>7. \A i \in 1 .. d : /\ more[i] # <<>> /\ more[i][1].line = n + i /\ (Whole(more[i]) \/ (i = 1 /\ first))
    OBVIOUS
  <1> HIDE DEF c, d
  <1>8. ASSUME NEW i \in 1 .. c + d
        PROVE  s[i] # <<>> /\ (Whole(s[i]) \/ (i = 1 /\ half)) /\ s[i][1].line <= n + d
    <2>1. CASE i <= c
      <3>1. i \in 1 .. c /\ s[i] = told[i]
        BY <1>1, <1>2, <2>1
      <3>2. told[i][1].line <= n + d
        BY <1>1, <1>4, <1>5, <3>1
      <3>3. QED
        BY <1>5, <3>1, <3>2
    <2>2. CASE i > c
      <3>1. i - c \in 1 .. d /\ s[i] = more[i - c]
        BY <1>1, <1>2, <2>2
      <3>2. /\ more[i - c] # <<>> /\ more[i - c][1].line = n + (i - c)
            /\ Whole(more[i - c]) \/ (i - c = 1 /\ first)
        BY <1>7, <3>1
      <3>3. n + (i - c) <= n + d
        BY <1>1, <3>1
      <3>4. i - c = 1 /\ first => i = 1 /\ half
        BY <1>1, <1>3, <3>1
      <3>5. QED
        BY <3>1, <3>2, <3>3, <3>4
    <2>3. QED
      BY <1>1, <2>1, <2>2
  <1>9. ASSUME NEW i \in 1 .. c + d, NEW j \in 1 .. c + d, i < j PROVE s[i][1].line < s[j][1].line
    <2>1. CASE j <= c
      <3>1. i \in 1 .. c /\ j \in 1 .. c /\ s[i] = told[i] /\ s[j] = told[j]
        BY <1>1, <1>2, <1>9, <2>1, SMTT(30)
      <3>2. QED
        BY <1>6, <1>9, <3>1
    <2>2. CASE j > c
      <3>0. j - c \in 1 .. d /\ s[j] = more[j - c] /\ n + (j - c) > n /\ n + (j - c) \in Nat
        BY <1>1, <1>2, <2>2, SMTT(30)
      <3>1. s[j][1].line = n + (j - c)
        BY <1>7, <3>0
      <3>2. CASE i <= c
        <4>1. i \in 1 .. c /\ s[i] = told[i]
          BY <1>1, <1>2, <3>2
        <4>2. told[i][1].line \in Nat /\ told[i][1].line <= n
          BY <1>4, <1>5, <4>1
        <4>3. QED
          BY <3>0, <3>1, <4>1, <4>2
      <3>3. CASE i > c
        <4>0. i - c \in 1 .. d /\ s[i] = more[i - c] /\ n + (i - c) < n + (j - c)
          BY <1>1, <1>2, <1>9, <3>3, SMTT(30)
        <4>1. s[i][1].line = n + (i - c)
          BY <1>7, <4>0
        <4>2. QED
          BY <3>1, <4>0, <4>1
      <3>4. QED
        BY <1>1, <3>2, <3>3
    <2>3. QED
      BY <1>1, <2>1, <2>2
  <1>10. Told(s, half) /\ Under(s, n + d)
    BY <1>2, <1>8, <1>9 DEF Told, Under
  <1>11. QED
    BY <1>10 DEF s, d

\* What the tailer knows stays as it is.
LEMMA KnownStays ==
    ASSUME LogHolds, UNCHANGED <<log, cut, anchored, published>>, toRead' \in Nat, tail.inode = 0 => toRead' = 0,
           DOMAIN tail' = DOMAIN tail, tail'.inode = tail.inode, tail'.offset = tail.offset,
           tail'.pending = tail.pending
    PROVE  LogHolds'
  <1>1. LogTypes'
    BY DEF LogHolds, LogTypes
  <1>2. Held(tail.pending)' /\ Told(published, anchored)'
    BY DEF LogHolds
  <1>3. PICK b \in Nat, k \in Nat : Follows(b, k)
    BY DEF LogHolds
  <1>4. \A m : Placed(tail, published, anchored, b, m) => Placed(tail', published', anchored', b, m)
    BY DEF Placed
  <1>5. Follows(b, k)'
    BY <1>3, <1>4 DEF Follows
  <1>6. QED
    BY <1>1, <1>2, <1>5 DEF LogHolds

\* What is told so far comes before what is read on.
Begins(all, upTo, b, s, r) ==
    /\ Reads(all, log.pieces, upTo, s, r) /\ Under(published, b + s)
    /\ r = 1 => anchored /\ published = <<>>

\* The read: what it brings is read on from where the tailer is, and the lines that end in
\* it are told. A read of another file brings nothing, or is one that misreads.
LEMMA PollReadKeeps ==
    ASSUME LogHolds, PollRead, ~misread'
    PROVE  LogHolds'
  <1> DEFINE p == Len(log.pieces)
             upTo == IF tail.offset + toRead < p THEN tail.offset + toRead ELSE p
             chunk == SubSeq(log.pieces, tail.offset + 1, upTo)
             all == tail.pending \o chunk
  <1>1. /\ toRead > 0 /\ toRead' = 0 /\ UNCHANGED <<log, cut, anchored>>
        /\ tail' = [tail EXCEPT !.offset = @ + Len(chunk), !.pending = Rest(all), !.seq = @ + Len(Lines(all))]
        /\ published' = published \o Lines(all)
        /\ misread' = (misread \/ (chunk # <<>> /\ (cut \/ tail.inode # log.inode)))
    BY DEF PollRead
  <1>2. ~(chunk # <<>> /\ (cut \/ tail.inode # log.inode))
    <2> HIDE DEF chunk, all
    <2>1. QED
      BY <1>1, Zenon
  <1>3. /\ DOMAIN tail = {"running", "inode", "offset", "pending", "seq"} /\ log.pieces \in Seq(Piece)
        /\ tail.inode \in Nat /\ tail.offset \in Nat /\ tail.pending \in Seq(Piece) /\ toRead \in Nat /\ p \in Nat
        /\ anchored \in BOOLEAN /\ Held(tail.pending) /\ Told(published, anchored)
    BY DEF LogHolds, LogTypes
  <1>4. upTo \in Nat /\ upTo <= p /\ (p <= tail.offset => upTo = p) /\ (p > tail.offset => upTo > tail.offset)
    BY <1>1, <1>3
  <1> HIDE DEF upTo, all
  <1>5. /\ DOMAIN tail' = DOMAIN tail /\ tail'.inode = tail.inode /\ tail'.offset = tail.offset + Len(chunk)
        /\ tail'.pending = Rest(all)
    <2> HIDE DEF chunk
    <2>1. QED
      BY <1>1, <1>3
  <1>6. CASE p <= tail.offset
    <2>1. chunk = <<>>
      BY <1>3, <1>4, <1>6
    <2> HIDE DEF chunk
    <2>2. all = tail.pending
      BY <1>3, <2>1 DEF all
    <2>3. Lines(all) = <<>> /\ Rest(all) = tail.pending
      BY <1>3, <2>2, HeldBack DEF Held
    <2>4. published' = published
      BY <1>1, <1>3, <2>3 DEF Told
    <2>5. tail'.offset = tail.offset
      BY <1>3, <1>5, <2>1
    <2>6. QED
      BY <1>1, <1>5, <2>3, <2>4, <2>5, KnownStays
  <1>7. CASE p > tail.offset
    <2>1. /\ chunk \in Seq(Piece) /\ Len(chunk) = upTo - tail.offset
          /\ \A i \in 1 .. upTo - tail.offset : chunk[i] = log.pieces[tail.offset + i]
      BY <1>3, <1>4, <1>7, SMTT(30)
    <2>2. chunk # <<>> /\ upTo \in tail.offset + 1 .. p
      <3>1. upTo \in tail.offset + 1 .. p /\ upTo - tail.offset # 0
        BY <1>3, <1>4, <1>7
      <3> HIDE DEF chunk
      <3>2. QED
        BY <2>1, <3>1
    <2> HIDE DEF chunk
    <2>3. ~cut /\ tail.inode = log.inode
      BY <1>2, <2>2
    <2>4. PICK b \in Nat, k \in Nat : Follows(b, k)
      BY DEF LogHolds
    <2>5. PICK m \in Nat : Placed(tail, published, anchored, b, m)
      BY <2>3, <2>4 DEF Follows
    <2>6. FileHolds(log.pieces, b, k) /\ p <= 2 * k /\ log.lines = b + k
      BY <1>3, <2>4 DEF Follows, FileHolds
    \* Where the lines begin in what is read, and what has been told before them.
    <2>7. \E s \in Nat, r \in {0, 1} : Begins(all, upTo, b, s, r)
      <3>1. CASE tail.offset = 2 * m /\ tail.pending = <<>> /\ Under(published, b + m)
        <4>1. all = chunk
          BY <2>1, <3>1 DEF all
        <4>2. 2 * m + 0 <= upTo /\ upTo - tail.offset = upTo - (2 * m + 0)
          BY <1>4, <2>2, <3>1
        <4>3. \A i \in 1 .. Len(all) : all[i] = log.pieces[2 * m + 0 + i]
          BY <2>1, <3>1, <4>1
        <4>4. upTo \in 0 .. Len(log.pieces)
          BY <1>4
        <4>5. all \in Seq(Piece) /\ Len(all) = upTo - (2 * m + 0)
          BY <2>1, <4>1, <4>2
        <4>6. Reads(all, log.pieces, upTo, m, 0)
          BY <4>2, <4>3, <4>4, <4>5 DEF Reads
        <4>7. Begins(all, upTo, b, m, 0)
          BY <3>1, <4>6 DEF Begins
        <4>8. QED
          BY <4>7
      <3>2. CASE /\ m > 0 /\ tail.offset = 2 * m - 1 /\ tail.pending = <<HeadOf(b + m)>>
                 /\ Under(published, b + m - 1)
        <4> DEFINE s == m - 1
                   i == 2 * m - 1
        <4>1. /\ s \in Nat /\ m = s + 1 /\ i \in 1 .. p /\ upTo \in i .. p /\ m \in 1 .. k
              /\ 2 * s + 0 <= upTo /\ upTo - i + 1 = upTo - (2 * s + 0)
          BY <1>3, <1>4, <1>7, <2>2, <2>6, <3>2
        <4>2. log.pieces[i] = HeadOf(b + m) /\ Under(published, b + s)
          <5>1. b + m - 1 = b + s
            BY <4>1
          <5>2. QED
            BY <2>6, <3>2, <4>1, <5>1 DEF FileHolds
        <4>3. all = <<log.pieces[i]>> \o SubSeq(log.pieces, i + 1, upTo)
          BY <3>2, <4>2 DEF all, chunk
        <4>4. 2 * s + 0 = i - 1
          BY <4>1
        <4> HIDE DEF i, s
        <4>5. /\ all \in Seq(Piece) /\ Len(all) = upTo - i + 1
              /\ \A j \in 1 .. upTo - i + 1 : all[j] = log.pieces[i - 1 + j]
          BY <1>3, <4>1, <4>3, HeldThenRead
        <4>6. Begins(all, upTo, b, s, 0)
          BY <4>1, <4>2, <4>4, <4>5 DEF Begins, Reads
        <4>7. QED
          BY <4>1, <4>6
      <3>3. CASE m > 0 /\ tail.offset = 2 * m - 1 /\ tail.pending = <<>> /\ anchored /\ published = <<>>
        <4> DEFINE s == m - 1
        <4>1. s \in Nat /\ 2 * s + 1 = tail.offset
          BY <3>3
        <4>2. all = chunk
          BY <2>1, <3>3 DEF all
        <4>3. Under(published, b + s)
          BY <3>3 DEF Under
        <4> HIDE DEF s
        <4>4. 2 * s + 1 <= upTo /\ Len(all) = upTo - (2 * s + 1) /\ Len(all) > 0
          BY <1>4, <2>1, <2>2, <4>1, <4>2
        <4>5. \A i \in 1 .. Len(all) : all[i] = log.pieces[2 * s + 1 + i]
          BY <2>1, <4>1, <4>2
        <4>6. upTo \in 0 .. Len(log.pieces) /\ all \in Seq(Piece)
          BY <1>4, <2>1, <4>2
        <4>7. Reads(all, log.pieces, upTo, s, 1)
          BY <4>4, <4>5, <4>6 DEF Reads
        <4>8. Begins(all, upTo, b, s, 1)
          BY <3>3, <4>3, <4>7 DEF Begins
        <4>9. QED
          BY <4>1, <4>8
      <3>4. QED
        BY <2>5, <3>1, <3>2, <3>3 DEF Placed
    <2>8. PICK s \in Nat, r \in {0, 1} : Begins(all, upTo, b, s, r)
      BY <2>7
    <2>9. PICK c \in Nat : EndsLines(all, upTo, b, s, r, c)
      BY <2>6, <2>8, ReadOn DEF Begins
    <2>10. Told(published', anchored) /\ Under(published', b + s + c)
      <3> DEFINE first == r = 1
                 more == Lines(all)
      <3>1. first \in BOOLEAN /\ (first => anchored /\ published = <<>>)
        BY <2>8 DEF Begins
      <3>2. /\ more \in Seq(Seq(Piece)) /\ Len(more) = c
            /\ \A i \in 1 .. Len(more) : /\ more[i] # <<>> /\ more[i][1].line = (b + s) + i
                                         /\ Whole(more[i]) \/ (i = 1 /\ first)
        BY <2>9 DEF EndsLines
      <3> HIDE DEF more, first
      <3>3. b + s \in Nat
        OBVIOUS
      <3>4. Told(published \o more, anchored) /\ Under(published \o more, (b + s) + Len(more))
        BY <1>3, <2>8, <3>1, <3>2, <3>3, ToldMore DEF Begins
      <3>5. QED
        BY <1>1, <3>2, <3>4 DEF more
    <2>11. tail'.offset = upTo
      BY <1>3, <1>4, <1>5, <2>1
    <2>12. Held(tail'.pending) /\ tail'.pending \in Seq(Piece) /\ \E n \in Nat : Placed(tail', published', anchored', b, n)
      <3>1. CASE upTo = 2 * (s + c) /\ Rest(all) = <<>>
        <4> DEFINE n == s + c
        <4>1. n \in Nat /\ b + s + c = b + n
          OBVIOUS
        <4>2. Placed(tail', published', anchored', b, n)
          BY <1>5, <2>10, <2>11, <3>1, <4>1 DEF Placed
        <4>3. QED
          BY <1>5, <3>1, <4>1, <4>2 DEF Held
      <3>2. CASE upTo = 2 * (s + c + 1) - 1 /\ Rest(all) = <<HeadOf(b + (s + c + 1))>>
        <4> DEFINE n == s + c + 1
        <4>1. n \in Nat /\ n > 0 /\ b + s + c = b + n - 1 /\ b + n \in Nat
          OBVIOUS
        <4>2. tail'.pending = <<HeadOf(b + n)>> /\ tail'.offset = 2 * n - 1
          BY <1>5, <2>11, <3>2
        <4> HIDE DEF n
        <4>3. Placed(tail', published', anchored', b, n)
          BY <2>10, <4>1, <4>2 DEF Placed
        <4>4. HeadOf(b + n) \in Piece
          BY <4>1 DEF Piece, HeadOf
        <4>5. QED
          BY <4>1, <4>2, <4>3, <4>4 DEF Held
      <3>3. QED
        BY <2>9, <3>1, <3>2 DEF EndsLines
    <2>13. Follows(b, k)'
      <3>1. tail'.offset <= Len(log'.pieces)
        BY <1>1, <1>4, <2>11
      <3>2. ~cut' /\ tail'.inode = log'.inode
        BY <1>1, <1>5, <2>3
      <3>3. FileHolds(log'.pieces, b, k) /\ log'.lines = b + k
        BY <1>1, <2>6
      <3>4. QED
        BY <2>12, <3>1, <3>2, <3>3 DEF Follows
    <2>14. LogTypes'
      <3>1. LogTypes
        BY DEF LogHolds
      <3>2. tail.inode # 0
        BY <1>1, <3>1 DEF LogTypes
      <3>3. tail'.offset \in Nat
        BY <1>4, <2>11
      <3>4. QED
        BY <1>1, <1>5, <2>3, <2>12, <3>1, <3>2, <3>3 DEF LogTypes
    <2>15. QED
      BY <1>1, <2>10, <2>12, <2>13, <2>14 DEF LogHolds
  <1>8. QED
    BY <1>3, <1>6, <1>7

LEMMA LogNextKeeps == LogInv /\ [LogNext]_logVars => LogInv'
  <1>1. ASSUME LogInv, [LogNext]_logVars, ~misread' PROVE LogHolds'
    <2>1. LogHolds
      <3>1. misread => misread'
        BY <1>1 DEF LogNext, logVars, Write, Rotate, TruncateFile, PollStat, PollRead, StopTail
      <3>2. QED
        BY <1>1, <3>1 DEF LogInv
    <2>2. CASE Write
      BY <2>1, <2>2, WriteKeeps
    <2>3. CASE Rotate
      BY <2>1, <2>3, RotateKeeps
    <2>4. CASE TruncateFile
      BY <2>1, <2>4, TruncateKeeps
    <2>5. CASE PollStat
      BY <1>1, <2>1, <2>5, PollStatKeeps
    <2>6. CASE PollRead
      BY <1>1, <2>1, <2>6, PollReadKeeps
    <2>7. CASE StopTail \/ UNCHANGED logVars
      <3>1. DOMAIN tail = {"running", "inode", "offset", "pending", "seq"} /\ toRead \in Nat
            /\ (tail.inode = 0 => toRead = 0)
        BY <2>1 DEF LogHolds, LogTypes
      <3>2. /\ UNCHANGED <<log, cut, anchored, published, toRead>>
            /\ tail' = tail \/ tail' = [tail EXCEPT !.running = FALSE]
        BY <2>7 DEF StopTail, logVars
      <3>3. /\ DOMAIN tail' = DOMAIN tail /\ tail'.inode = tail.inode /\ tail'.offset = tail.offset
            /\ tail'.pending = tail.pending
        BY <3>1, <3>2
      <3>4. QED
        BY <2>1, <3>1, <3>2, <3>3, KnownStays
    <2>8. QED
      BY <1>1, <2>2, <2>3, <2>4, <2>5, <2>6, <2>7 DEF LogNext
  <1>2. QED
    BY <1>1 DEF LogInv

LEMMA LogTold == LogInv => EachLineOnce
  <1> SUFFICES ASSUME LogHolds, ~misread PROVE EachLineOnce
    BY DEF LogInv, EachLineOnce
  <1>1. Told(published, anchored) /\ DOMAIN published = 1 .. Len(published)
    BY DEF LogHolds, Told
  <1>2. QED
    BY <1>1 DEF Told, EachLineOnce

-----------------------------------------------------------------------------
(* What comes in *)

IngestInv == LogInv /\ BusInv /\ HttpInv

\* Every line of the console log that reaches the matchers does so whole, once and in order,
\* for files of any length, however they are rotated, cut and read in the middle of a line,
\* unless a file was taken for the one before; the bus delivers each observation once, in order
\* or counted as dropped, and drops detections alone, at every bound; and every post that was
\* counted has one fate, handed on exactly if it was answered 200, with the token.
\* (pollOnce, publish, handle)
THEOREM IngestHolds == PartsSpec => []IngestIsAccounted
  <1>1. PartsInit => IngestInv
    BY LogStart, BusStart, HttpStart DEF PartsInit, IngestInv
  <1>2. IngestInv /\ [PartsNext]_partsVars => IngestInv'
    <2>1. [PartsNext]_partsVars => [LogNext]_logVars /\ [BusNext]_busVars /\ [HttpNext]_httpVars
      <3>1. PartsNext => [LogNext]_logVars /\ [BusNext]_busVars /\ [HttpNext]_httpVars
        BY DEF PartsNext
      <3>2. UNCHANGED partsVars => UNCHANGED <<logVars, busVars, httpVars>>
        BY DEF partsVars
      <3>3. QED
        BY <3>1, <3>2
    <2>2. QED
      BY <2>1, LogNextKeeps, BusNextKeeps, HttpNextKeeps DEF IngestInv
  <1>3. IngestInv => IngestIsAccounted
    BY LogTold, BusCounts, HttpCounts DEF IngestInv, IngestIsAccounted
  <1>4. QED
    BY <1>1, <1>2, <1>3, PTL DEF PartsSpec, partsVars

=============================================================================
