-------------------------------- MODULE LogTail --------------------------------
(***************************************************************************)
(* Following console.log while Dota 2 writes, rotates and truncates it: a  *)
(* poll is a stat, then an open and a read of whatever the path names by   *)
(* then; whole lines go to the matchers, the last part line is held back.  *)
(* A line is written in two pieces, and the second ends in its newline.    *)
(* (packages/log-tail/src/tailer.ts)                                       *)
(***************************************************************************)
EXTENDS Integers, Sequences, FiniteSets

CONSTANTS
    MaxLines,       \* bound: lines written
    MaxFiles,       \* bound: files the path names
    FromStart       \* fromStart: the file is read from its beginning

ASSUME LogTailAssumption ==
    /\ MaxLines \in Nat
    /\ MaxFiles \in Nat
    /\ FromStart \in BOOLEAN

VARIABLES
    log,        \* the file at the path: its inode (0: missing), its pieces; the lines so far
    cut,        \* has it shrunk below the offset since it was last looked at?
    tail,       \* running, inode, offset, pending, seq
    toRead,     \* the length a poll found to read, 0 when none is under way
    anchored,   \* observer: was the tailer anchored in the middle of a line?
    misread,    \* observer: was a file taken for the one that was looked at before?
    published   \* the lines that went to the matchers

logVars == <<log, cut, tail, toRead, anchored, misread, published>>

-----------------------------------------------------------------------------
(* Dota 2 *)

Exists == log.inode # 0

Unfinished == log.pieces # <<>> /\ log.pieces[Len(log.pieces)].part = "head"

Write ==
    /\ Exists
    /\ IF Unfinished
       THEN log' = [log EXCEPT !.pieces = Append(@, [line |-> log.lines, part |-> "end"])]
       ELSE /\ log.lines < MaxLines
            /\ log' = [log EXCEPT !.lines = @ + 1,
                                  !.pieces = Append(@, [line |-> log.lines + 1, part |-> "head"])]
    /\ UNCHANGED <<cut, tail, toRead, anchored, misread, published>>

\* The file is replaced, and for a while there is none.
Rotate ==
    /\ log.files < MaxFiles
    /\ log' = [log EXCEPT !.inode = IF Exists THEN 0 ELSE log.files + 1,
                          !.files = IF Exists THEN @ ELSE @ + 1,
                          !.pieces = <<>>]
    /\ cut' = FALSE
    /\ UNCHANGED <<tail, toRead, anchored, misread, published>>

TruncateFile ==
    /\ Exists
    /\ Len(log.pieces) > 0
    /\ log' = [log EXCEPT !.pieces = <<>>]
    /\ cut' = (tail.inode = log.inode /\ tail.offset > 0)
    /\ UNCHANGED <<tail, toRead, anchored, misread, published>>

-----------------------------------------------------------------------------
(* The tailer *)

\* Mutant: the part line of the old file is kept for the new one.
KeepsPending(t) ==
    CASE t.inode = 0 ->
            [t EXCEPT !.inode = log.inode, !.offset = IF FromStart THEN 0 ELSE Len(log.pieces)]
      [] t.inode # 0 /\ t.inode # log.inode -> [t EXCEPT !.inode = log.inode, !.offset = 0]
      [] t.inode = log.inode /\ Len(log.pieces) < t.offset -> [t EXCEPT !.offset = 0]
      [] OTHER -> t

\* The part of pollOnce before the read: anchor, rotation, truncation.
Looked(t) ==
    CASE t.inode = 0 ->
            [t EXCEPT !.inode = log.inode, !.offset = IF FromStart THEN 0 ELSE Len(log.pieces)]
      [] t.inode # 0 /\ t.inode # log.inode ->
            [t EXCEPT !.inode = log.inode, !.offset = 0, !.pending = <<>>]
      [] t.inode = log.inode /\ Len(log.pieces) < t.offset ->
            [t EXCEPT !.offset = 0, !.pending = <<>>]
      [] OTHER -> t

\* What shrank and has grown past the offset since looks like the file it was.
PollStat ==
    /\ tail.running
    /\ toRead = 0
    /\ Exists
    /\ LET t == Looked(tail)
       IN  /\ tail' = t
           /\ toRead' = Len(log.pieces) - t.offset
    /\ anchored' = (anchored \/ (tail.inode = 0 /\ ~FromStart /\ Unfinished))
    /\ misread' = (misread \/ (cut /\ Len(log.pieces) >= tail.offset))
    /\ cut' = FALSE
    /\ UNCHANGED <<log, published>>

\* The places of the newlines of a sequence of pieces, from 0.
LineEnds(pieces) == {0} \cup {i \in DOMAIN pieces : pieces[i].part = "end"}

\* consume: split at the newlines, and hold the rest back.
Lines(pieces) ==
    LET ends == LineEnds(pieces)
        nth(n) == CHOOSE e \in ends : Cardinality({x \in ends : x < e}) = n
    IN  [n \in 1..(Cardinality(ends) - 1) |-> SubSeq(pieces, nth(n - 1) + 1, nth(n))]

Rest(pieces) ==
    LET last == CHOOSE e \in LineEnds(pieces) : \A x \in LineEnds(pieces) : x <= e
    IN  SubSeq(pieces, last + 1, Len(pieces))

\* Open, read, consume and publish: whatever is at the path by now, from the
\* offset in what was looked at. The read of a file that is gone fails.
PollRead ==
    /\ toRead > 0
    /\ toRead' = 0
    /\ LET upTo  == IF tail.offset + toRead < Len(log.pieces) THEN tail.offset + toRead ELSE Len(log.pieces)
           chunk == SubSeq(log.pieces, tail.offset + 1, upTo)
           all   == tail.pending \o chunk
       IN  /\ tail' = [tail EXCEPT !.offset = @ + Len(chunk), !.pending = Rest(all),
                                   !.seq = @ + Len(Lines(all))]
           /\ published' = published \o Lines(all)
           /\ misread' = (misread \/ (chunk # <<>> /\ (cut \/ tail.inode # log.inode)))
    /\ UNCHANGED <<log, cut, anchored>>

\* stop: a poll under way still publishes what it reads.
StopTail ==
    /\ tail.running
    /\ tail' = [tail EXCEPT !.running = FALSE]
    /\ UNCHANGED <<log, cut, toRead, anchored, misread, published>>

-----------------------------------------------------------------------------

LogInit ==
    /\ log = [inode |-> 1, files |-> 1, lines |-> 0, pieces |-> <<>>]
    /\ cut = FALSE
    /\ tail = [running |-> TRUE, inode |-> 0, offset |-> 0, pending |-> <<>>, seq |-> 0]
    /\ toRead = 0
    /\ anchored = FALSE
    /\ misread = FALSE
    /\ published = <<>>

LogNext == Write \/ Rotate \/ TruncateFile \/ PollStat \/ PollRead \/ StopTail

-----------------------------------------------------------------------------
(* Properties *)

Whole(line) ==
    /\ Len(line) = 2
    /\ line[1].line = line[2].line
    /\ line[1].part = "head" /\ line[2].part = "end"

\* Every line that reaches the matchers is a line that was written, complete,
\* once and in order, through rotation, truncation and reads in the middle of
\* a line; only the first can be half, when the tailer started in the middle
\* of it. Exempt is a file that was swapped or cut between a stat and its read,
\* or cut and regrown between two polls, and was read for the one before: what
\* follows is half a line, and lines twice. (pollOnce, consume)
EachLineOnce ==
    misread \/
        /\ \A i \in DOMAIN published : Whole(published[i]) \/ (i = 1 /\ anchored)
        /\ \A i, j \in DOMAIN published : i < j => published[i][1].line < published[j][1].line
===============================================================================
