------------------------------ MODULE Commands ------------------------------
(***************************************************************************)
(* The commands that need no model (packages/realtime/src/commands.ts): a  *)
(* phrase of the table that is the whole transcript or its last clause,    *)
(* heard exactly, heard with a "for ..." after it, or nearly heard.  The   *)
(* transcript is a sequence of words; the marks and conjunctions that end  *)
(* a clause are words of it, the marks ones that normalise drops.          *)
(***************************************************************************)
EXTENDS Integers, Sequences, SequencesExt, FiniteSets

CONSTANTS
    Utterances,  \* bound: the transcripts heard, sequences of words
    Edits        \* how a whole clause is misheard: records of the clause heard,
                 \* the phrase, their edit distance and the length of each

Marks == {","}
Conjunctions == {"and", "but", "so", "then", "okay", "ok"}
Negations == {"don't", "dont", "never", "stop", "no", "not", "didn't", "didnt"}

(* LOCAL_COMMANDS: the phrases, what they ask, the least score in percent. *)
Rule(phrases, command, least) == [phrases |-> phrases, command |-> command, least |-> least]
LocalCommands == <<
    Rule(<< <<"stop">>, <<"stop", "it">>, <<"that's", "enough">>, <<"enough">>, <<"shut", "up">>,
            <<"be", "quiet">> >>, "stop", 78),
    Rule(<< <<"never", "mind">>, <<"nevermind">>, <<"cancel", "that">>, <<"forget", "it">> >>, "cancel", 82),
    Rule(<< <<"mute">>, <<"mute", "yourself">> >>, "mute", 88),
    Rule(<< <<"quiet", "mode">>, <<"stop", "talking", "unprompted">> >>, "quiet-mode", 88) >>

VARIABLES
    heard,    \* the transcript of a turn, or <<>> before it
    command   \* what was made of it: a record, NoMatch if it is the model's
commandVars == <<heard, command>>

NoMatch == [command |-> "none", score |-> 0, minutes |-> "none"]

Normalise(words) == SelectSeq(words, LAMBDA w : w \notin Marks)

(* clauses(...).at(-1): what follows the last separator with a word after it. *)
LastClause(words) ==
    LET separator(i) == words[i] \in Marks \cup Conjunctions
        last == {i \in DOMAIN words : ~separator(i)}
        end == CHOOSE i \in last : \A j \in last : j <= i
        before == {i \in 1 .. end : separator(i)}
        start == IF before = {} THEN 1 ELSE 1 + (CHOOSE i \in before : \A j \in before : j <= i)
    IN IF last = {} THEN <<>> ELSE SubSeq(words, start, end)

(* matchPhrase: as a score in percent, 0 for no match.  One edit is allowed  *)
(* for each five letters of the phrase.                                      *)
Near(candidate, phrase) == {e \in Edits : e.heard = candidate /\ e.meant = phrase
                                          /\ e.distance <= e.letters \div 5}
Extends(candidate, phrase) == IsPrefix(phrase, candidate) /\ Len(candidate) > Len(phrase)
Score(candidate, phrase) ==
    CASE candidate = phrase -> 100
      [] Extends(candidate, phrase) -> IF candidate[Len(phrase) + 1] = "for" THEN 100 ELSE 0
      [] OTHER -> IF Near(candidate, phrase) = {} THEN 0
                  ELSE LET e == CHOOSE e \in Near(candidate, phrase) : TRUE
                       IN 100 - (100 * e.distance) \div e.longest

(* Mutant: the anchors alone keep a negation out. *)
NeverNegated(clause, phrase) == FALSE

(* hasLeadingNegation: the two words before the phrase, or the last two of a *)
(* clause that does not hold it.                                             *)
LeadingNegation(clause, phrase) ==
    LET at == {i \in 0 .. Len(clause) - Len(phrase) : SubSeq(clause, i + 1, i + Len(phrase)) = phrase}
        before == IF at = {} THEN clause
                  ELSE SubSeq(clause, 1, CHOOSE i \in at : \A j \in at : i <= j)
    IN \E i \in DOMAIN before : i >= Len(before) - 1 /\ before[i] \in Negations

Minutes(words) ==
    LET counted == {i \in 1 .. Len(words) - 1 : words[i] \in {"ten", "10"} /\ words[i + 1] = "minutes"}
    IN IF counted = {} THEN "none" ELSE "ten"

MatchPhrase(candidate, phrase) ==
    IF LeadingNegation(candidate, phrase) THEN 0 ELSE Score(candidate, phrase)

(* parseLocalCommand: the best of the table over the whole utterance, then   *)
(* over its last clause; the first of equals.                                *)
Parse(transcript) ==
    LET clause(c) == IF c = 1 THEN Normalise(transcript) ELSE LastClause(transcript)
        score(h) == MatchPhrase(clause(h[1]), LocalCommands[h[2]].phrases[h[3]])
        hits == {h \in UNION {{1, 2} \X {r} \X DOMAIN LocalCommands[r].phrases : r \in DOMAIN LocalCommands} :
                    score(h) >= LocalCommands[h[2]].least}
        rank(h) == 1000 * (100 - score(h)) + 100 * h[1] + 10 * h[2] + h[3]
        best == CHOOSE h \in hits : \A g \in hits : rank(h) <= rank(g)
    IN IF transcript = <<>> \/ hits = {} THEN NoMatch
       ELSE [command |-> LocalCommands[best[2]].command, score |-> score(best),
             minutes |-> IF LocalCommands[best[2]].command = "mute"
                         THEN Minutes(Normalise(transcript)) ELSE "none"]

CommandInit == heard = <<>> /\ command = NoMatch

Hears == \E words \in Utterances : heard' = words /\ command' = Parse(words)

CommandNext == Hears
CommandSpec == CommandInit /\ [][CommandNext]_commandVars

-----------------------------------------------------------------------------

Phrases == UNION {ToSet(LocalCommands[r].phrases) : r \in DOMAIN LocalCommands}
Clause(words) == \A i \in DOMAIN words : words[i] \notin Marks \cup Conjunctions

(* "Don't mute" is not a weak mute: a phrase right after a negation is no   *)
(* command, however the clause began.                                       *)
NegatedSaysNothing == \A n \in Negations \ {"stop"}, p \in Phrases :
    \/ command = NoMatch
    \/ ~IsSuffix(<<n>> \o p, LastClause(heard))

(* What was said first is context: a clause put before the utterance changes *)
(* nothing, and one put after it takes the command away, except of an        *)
(* utterance that goes on with "for".                                        *)
LastClauseDecides == heard # <<>> /\ Clause(heard) =>
    /\ Parse(<<"listen", ",">> \o heard).command = command.command
    /\ \/ Parse(heard \o <<",", "push", "mid">>) = NoMatch
       \/ \E p \in Phrases : Extends(heard, p)

(* CommandIsMeant: the player is silenced only by what they said last and    *)
(* meant (packages/realtime/src/commands.ts:241-254).                        *)
CommandIsMeant == NegatedSaysNothing /\ LastClauseDecides
=============================================================================
