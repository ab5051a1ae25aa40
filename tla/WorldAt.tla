-------------------------------- MODULE WorldAt --------------------------------
(***************************************************************************)
(* `world_at', the tool that answers about a moment of the match which is  *)
(* over: the file of the recording is parsed line by line, the timeline    *)
(* finds the moment and rebuilds its facts from a keyframe and what        *)
(* follows it, and the four projections of the live tools describe it.     *)
(* (packages/world-model/src: timeline/world-at.ts, timeline/reader.ts,    *)
(* record/keyframe.ts, record/format.ts, tools/)                           *)
(*                                                                         *)
(* The disk may have spoilt a fact of a keyframe or a whole line, and the  *)
(* process may have died in the middle of the last one.  MatchRecord       *)
(* follows the recorder and what a reset does to a replay; here a match    *)
(* has one run of its clock, which a pause freezes.                        *)
(***************************************************************************)
EXTENDS Naturals, Sequences, FiniteSetsExt, Functions

CONSTANTS
    Ten,            \* the leaves that hold the net worths of the ten heroes
    Questions,      \* what is asked for: one topic, or all of them
    AnchorWindow,   \* historyWindowSeconds
    LastMoment,     \* bound: the seconds of the match
    TapeLength      \* bound: the lines of its file

ASSUME AtAssumption ==
    /\ {AnchorWindow, LastMoment} \subseteq Nat
    /\ TapeLength \in Nat
    /\ Ten \cap {"line", "none", "phase", "gold", "clock", "enemy"} = {}

Topics == {"my_state", "enemy", "objectives", "economy"}
ASSUME QuestionsAssumption == Questions \subseteq {Topics} \cup {{topic} : topic \in Topics}

Leaves == {"phase", "gold", "clock", "enemy"} \cup Ten
Sure == 10      \* confidence 1, in tenths
NoDial == LastMoment + 1   \* a moment before the horn

NotTold == [kind |-> "none", at |-> 0, second |-> 0, facts |-> <<>>]
NoAnswer(reason) == [NotTold EXCEPT !.kind = reason]

VARIABLES
    tape,       \* the lines of the file, each with what was live when it was written
    moment,     \* seconds since the header
    dial,       \* the match clock, NoDial before the horn
    known,      \* the facts of the live model, by leaf
    harm,       \* the leaves whose record was spoilt, "line" for a line that was
    retold        \* the last answer: topic -> what its section says of each leaf

atVars == <<tape, moment, dial, known, harm, retold>>

\* serialiseFact, and a line of the file; `saw' is an observer.
SerialisedFact(value, at) == [value |-> value, source |-> "gsi", sure |-> Sure, at |-> at]

RecordLine(kind, leaf, fact, facts, saw) ==
    [kind |-> kind, at |-> fact.at, dial |-> dial, leaf |-> leaf, fact |-> fact,
     facts |-> facts, saw |-> saw]

AtInit ==
    /\ dial \in {NoDial, 0}
    /\ known = [leaf \in {"phase", "gold"} |-> SerialisedFact("playing", 0)]
    /\ tape = <<RecordLine("keyframe", "none", SerialisedFact("none", 0), known, known)>>   \* open
    /\ harm = {} /\ moment = 0 /\ retold = NotTold

-----------------------------------------------------------------------------
(* What a line of the file is read as *)

\* Mutant: a confidence above 1 is taken from the disk.
AnyConfidence(raw) == raw.source \in {"gsi", "log", "cv", "api", "derived"}

\* deserialiseFact.
IsFact(raw) ==
    /\ raw.source \in {"gsi", "log", "cv", "api", "derived"}
    /\ raw.sure \in 0..Sure

\* deserialiseWorldState: a fact that is not one, or whose path names no
\* leaf, costs itself.
Rehydrated(facts) ==
    Restrict(facts, {leaf \in DOMAIN facts : leaf \in Leaves /\ IsFact(facts[leaf])})

\* parseRecordLines: the lines that are read; an unreadable one costs itself,
\* whether the file ends in it or not.
ParsedLines == {i \in DOMAIN tape : tape[i].kind # "junk"}

-----------------------------------------------------------------------------
(* The timeline *)

\* anchorFor: the newest keyframe a window old, else the first, else none.
AnchorFor(i) ==
    LET frames == {k \in ParsedLines : k <= i /\ tape[k].kind = "keyframe"}
        old    == {k \in frames : tape[k].at + AnchorWindow <= tape[i].at}
    IN IF old # {} THEN Max(old) ELSE IF frames # {} THEN Min(frames) ELSE 0

\* The observations of a leaf after one line and up to another.
Wrote(leaf, a, i) ==
    {j \in ParsedLines : a < j /\ j <= i /\ tape[j].kind = "observation" /\ tape[j].leaf = leaf}

\* reconstruct: the facts of the keyframe, and over each the last that followed it.
FactsAt(i) ==
    LET a    == AnchorFor(i)
        base == IF a = 0 THEN <<>> ELSE Rehydrated(tape[a].facts)
        over == {leaf \in Leaves : Wrote(leaf, a, i) # {}}
    IN [leaf \in DOMAIN base \cup over |->
           IF leaf \in over THEN tape[Max(Wrote(leaf, a, i))].fact ELSE base[leaf]]

\* at: the last moment that is not after the target, on the axis asked for.
Instants(target) ==
    {i \in ParsedLines :
        IF target.by = "clock" THEN tape[i].dial # NoDial /\ tape[i].dial <= target.n
        ELSE tape[i].at + target.n <= tape[Max(ParsedLines)].at}

Clockless == \A i \in ParsedLines : tape[i].dial = NoDial

-----------------------------------------------------------------------------
(* The projections and the answer *)

\* Mutant: ages are counted from the moment of the question.
AgedNow(fact, at) == [value |-> fact.value, age |-> moment - fact.at, sure |-> fact.sure]

\* enveloped: a fact travels with its age at the instant, and its confidence.
Envelope(fact, at) == [value |-> fact.value, age |-> at - fact.at, sure |-> fact.sure]

InMatch(facts) == "phase" \in DOMAIN facts /\ facts["phase"].value # "idle"

\* The leaves that a section speaks of.
LeavesOf(topic) ==
    CASE topic = "my_state"   -> {"gold"}
      [] topic = "enemy"      -> {"enemy"}
      [] topic = "objectives" -> {"clock"}
      [] topic = "economy"    -> {"gold"} \cup Ten

\* teamNetWorth: all ten or none.
Spoken(topic, facts) ==
    {leaf \in LeavesOf(topic) \cap DOMAIN facts : leaf \in Ten => Ten \subseteq DOMAIN facts}

\* enemy has nothing to say without a roster, the others fill a section with
\* what was never observed.
HasSection(topic, facts) ==
    InMatch(facts) /\ (topic = "enemy" => "enemy" \in DOMAIN facts)

Section(topic, facts, at) ==
    [leaf \in Spoken(topic, facts) |-> Envelope(facts[leaf], at)]

WhyNot(topics, facts) ==
    IF Cardinality(topics) > 1 THEN "nothing_observed"
    ELSE IF ~InMatch(facts) THEN "no_match" ELSE "no_enemy"

\* answerWorldAt; `topics' is one topic, or all of them.
AnswerWorldAt(topics, target) ==
    LET found == Instants(target)
        i     == Max(found)
        facts == FactsAt(i)
        given == {topic \in topics : HasSection(topic, facts)}
    IN IF target.by = "both" THEN NoAnswer("ask_for_one")
       ELSE IF ParsedLines = {} THEN NoAnswer("before_recording")
       ELSE IF target.by = "clock" /\ Clockless THEN NoAnswer("no_clock_yet")
       ELSE IF found = {} THEN NoAnswer("before_recording")
       ELSE IF tape[i].dial = NoDial THEN NoAnswer("no_clock_yet")
       ELSE [kind   |-> IF given = {} THEN WhyNot(topics, facts) ELSE "answer",
             at     |-> i,
             second |-> tape[i].at,
             facts  |-> [topic \in given |-> Section(topic, facts, tape[i].at)]]

-----------------------------------------------------------------------------
(* The match, the disk and the question *)

Writes(line) ==
    /\ Len(tape) < TapeLength
    /\ tape' = Append(tape, line)
    /\ UNCHANGED <<moment, dial, harm, retold>>

Sees(leaf, value) ==
    LET fact == SerialisedFact(value, moment) IN
    /\ known' = [l \in DOMAIN known \cup {leaf} |-> IF l = leaf THEN fact ELSE known[l]]
    /\ known' # known   \* bound: no line that says nothing new
    /\ Writes(RecordLine("observation", leaf, fact, <<>>, known'))

Keyframes ==
    /\ Writes(RecordLine("keyframe", "none", SerialisedFact("none", moment), known, known))
    /\ UNCHANGED known

\* A second passes; `runs' says whether the clock did.
Passes(runs) ==
    /\ moment < LastMoment
    /\ moment' = moment + 1
    /\ dial' = IF ~runs THEN dial ELSE IF dial = NoDial THEN 0 ELSE dial + 1
    /\ UNCHANGED <<tape, known, harm, retold>>

\* A byte of a keyframe: its confidence, its source, or the name of its leaf.
SpoilsFact(i, leaf, raw) ==
    /\ harm = {} /\ tape[i].kind = "keyframe" /\ leaf \in DOMAIN tape[i].facts
    /\ tape' = [tape EXCEPT ![i].facts[leaf] = raw]
    /\ harm' = {leaf}
    /\ UNCHANGED <<moment, dial, known, retold>>

\* A line that is no record line; the last one may be cut short by a kill.
SpoilsLine(i) ==
    /\ harm = {}
    /\ tape' = [tape EXCEPT ![i].kind = "junk"]
    /\ harm' = {"line"}
    /\ UNCHANGED <<moment, dial, known, retold>>

AsksWorldAt(topics, target) ==
    /\ retold' = AnswerWorldAt(topics, target)
    /\ UNCHANGED <<tape, moment, dial, known, harm>>

Targets == [by : {"clock", "ago"}, n : 0..LastMoment] \cup [by : {"both"}, n : {0}]

AtNext ==
    /\ retold = NotTold   \* bound: one question, whose answer changes nothing
    /\ \/ \E leaf \in Leaves \ {"phase"} : Sees(leaf, "seen")
       \/ \E value \in {"idle", "playing"} : Sees("phase", value)
       \/ Keyframes
       \/ \E runs \in BOOLEAN : Passes(runs)
       \/ \E i \in DOMAIN tape : \E leaf \in DOMAIN tape[i].facts :
             \E raw \in {[tape[i].facts[leaf] EXCEPT !.sure = 14],
                         [tape[i].facts[leaf] EXCEPT !.source = "disk"]} :
                SpoilsFact(i, leaf, raw)
       \/ \E i \in DOMAIN tape : SpoilsLine(i)
       \/ \E topics \in Questions, target \in Targets :
             AsksWorldAt(topics, target)

AtSpec == AtInit /\ [][AtNext]_atVars

-----------------------------------------------------------------------------
(* What the live model held when the line of the answer was written. *)
Then == tape[retold.at].saw

\* The memory of the match is honest: a section says of a leaf what was live
\* at its moment, with the age it had then and a confidence that is one, and
\* keeps quiet about a live leaf only if its record was spoilt or, for the net
\* worths, if one of the ten is missing; an answer always has a section, and a
\* refusal for want of a match or of an enemy was true then or is the price of
\* a byte the disk lost.  (timeline/world-at.ts:99-137, keyframe.ts:137-177,
\* tools/context.ts:61-90, tools/economy.ts:45-63)
MemoryIsHonest ==
    \/ retold.kind \in {"none", "ask_for_one", "before_recording", "no_clock_yet"}
    \/ /\ retold.kind = "answer" => DOMAIN retold.facts # {}
       /\ \A topic \in DOMAIN retold.facts :
             LET said == retold.facts[topic] IN
             /\ \A leaf \in DOMAIN said :
                   /\ leaf \in DOMAIN Then
                   /\ said[leaf].sure \in 0..Sure
                   /\ harm = {} => said[leaf].age = retold.second - Then[leaf].at
             /\ harm = {} =>
                   \A leaf \in LeavesOf(topic) \ DOMAIN said :
                      leaf \notin DOMAIN Then \/ (leaf \in Ten /\ ~(Ten \subseteq DOMAIN Then))
       /\ \A leaf \in Leaves \ Ten :
             harm = {leaf} /\ leaf # "phase" =>
                \A topic \in DOMAIN retold.facts : \A other \in LeavesOf(topic) \ {leaf} :
                   other \in DOMAIN Then /\ other \notin Ten => other \in DOMAIN retold.facts[topic]
       /\ retold.kind \in {"no_match", "nothing_observed"} /\ harm \cap {"line", "phase"} = {} =>
             ~InMatch(Then)
       /\ retold.kind = "no_enemy" /\ harm = {} => "enemy" \notin DOMAIN Then
=============================================================================
