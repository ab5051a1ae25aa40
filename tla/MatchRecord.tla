------------------------------ MODULE MatchRecord ------------------------------
(***************************************************************************)
(* The recording of a match and how it is read back: the recorder, which   *)
(* appends observations and keyframes to a file until a write fails, or    *)
(* the process dies in one and leaves half a line, and the timeline, which *)
(* replays the file to the model as it was.                                *)
(* (packages/world-model/src: record/recorder.ts, record/keyframe.ts,      *)
(* record/file-sink.ts, timeline/reader.ts)                                *)
(*                                                                         *)
(* Operators of the recorder take the state subsystem `d' and return it    *)
(* changed; `d.lived' is an observer, the facts of the live model when     *)
(* each line of the file was written.                                      *)
(***************************************************************************)
EXTENDS MatchTracker, WorldFusion, Sequences

CONSTANTS
    KeyframeInterval,   \* keyframeIntervalMs
    HistoryWindow,      \* historyWindowSeconds
    Disks               \* bound: what becomes of the first writes; those after are taken

\* What is left of a line by a write that does not return: nothing of it, a part, all but
\* its newline, or, when the process dies after it, the whole.
Broken == [left : {"nothing", "part", "unended"}, then : {"fails"}]
          \cup [left : {"nothing", "part", "unended", "whole"}, then : {"dies"}]

Taken == [left |-> "whole", then |-> "returns"]

ASSUME RecordAssumption ==
    /\ KeyframeInterval \in Nat
    /\ HistoryWindow \in Nat
    /\ Disks \subseteq Seq(Broken \cup {Taken})

Nobody == [source |-> "gsi", field |-> "meta", observedAt |-> 0,
           confidence |-> Certain]

HeaderLine(now) ==
    [kind |-> "header", atMs |-> 0, startedAt |-> now,
     reason |-> "none", facts |-> EmptyState, o |-> Nobody]

KeyframeLine(d, now, reason) ==
    [kind |-> "keyframe", atMs |-> now - d.startedAt, startedAt |-> 0,
     reason |-> reason, facts |-> d.facts, o |-> Nobody]

ObservationLine(d, o, now) ==
    [kind |-> "observation", atMs |-> now - d.startedAt, startedAt |-> 0,
     reason |-> "none", facts |-> EmptyState, o |-> o]

\* What the reader drops: the first part of a line, or one glued to such a part.
Malformed == [HeaderLine(0) EXCEPT !.kind = "malformed"]

-----------------------------------------------------------------------------
(* The recorder *)

Abandon(d) == [d EXCEPT !.recording = NoMatch]

\* A line is appended to whatever the file ends with: without a newline before it the
\* two are one line that cannot be read.
Landed(d, line, left) ==
    IF left = "nothing" THEN d
    ELSE IF d.torn
    THEN [d EXCEPT !.lines = [@ EXCEPT ![Len(@)] = Malformed], !.torn = (left # "whole")]
    ELSE [d EXCEPT !.lines = Append(@, IF left = "part" THEN Malformed ELSE line),
                   !.lived = Append(@, d.facts),
                   !.torn = (left # "whole")]

Fate(d) == IF d.disk = <<>> THEN Taken ELSE Head(d.disk)

\* The line that the disk is asked to take, and the disk it will be next.
Struck(d, line) ==
    [Landed(d, line, Fate(d).left) EXCEPT !.disk = IF @ = <<>> THEN @ ELSE Tail(@)]

\* Mutant: a line that fails ends the recording and nobody is told.
WriteSilently(d, line) ==
    IF d.recording = NoMatch THEN d
    ELSE IF Fate(d) = Taken THEN Struck(d, line)
    ELSE Abandon(Struck(d, line))

\* The one place where a line reaches the file; the first that fails ends the recording,
\* and the first in which the process dies ends all.
Write(d, line) ==
    IF d.recording = NoMatch THEN d
    ELSE IF Fate(d) = Taken THEN Struck(d, line)
    ELSE IF Fate(d).then = "fails"
    THEN Abandon([Struck(d, line) EXCEPT !.failed = @ \cup {d.recording}])
    ELSE Abandon([Struck(d, line) EXCEPT !.died = TRUE])

WriteKeyframe(d, now, reason) ==
    [Write(d, KeyframeLine(d, now, reason)) EXCEPT !.lastKeyframeAt = now]

CloseRecording(d, now, reason) ==
    IF d.recording = NoMatch THEN d ELSE Abandon(WriteKeyframe(d, now, reason))

\* The file of a match is appended to when it exists.
OpenSink(d, id, now) ==
    LET resumed == d.fileOf = id
    IN  [d EXCEPT !.recording = id,
                  !.fileOf = id,
                  !.lines = IF resumed THEN @ ELSE <<>>,
                  !.lived = IF resumed THEN @ ELSE <<>>,
                  !.torn = resumed /\ @,
                  !.startedAt = now,
                  !.lastKeyframeAt = now]

\* Mutant: no opening keyframe.
OpenWithoutKeyframe(d, id, now, refused) ==
    LET closed == CloseRecording(d, now, "superseded")
    IN  IF closed.died THEN closed
        ELSE IF refused THEN [closed EXCEPT !.failed = @ \cup {id}]
        ELSE Write(OpenSink(closed, id, now), HeaderLine(now))

\* `refused': the directory or the file cannot be opened.
OpenRecording(d, id, now, refused) ==
    LET closed == CloseRecording(d, now, "superseded")
        opened == OpenSink(closed, id, now)
    IN  IF closed.died THEN closed
        ELSE IF refused THEN [closed EXCEPT !.failed = @ \cup {id}]
        ELSE WriteKeyframe(Write(opened, HeaderLine(now)), now, "open")

Record(d, o, now) ==
    LET written == Write(d, ObservationLine(d, o, now))
    IN  IF /\ written.recording # NoMatch
           /\ now - d.lastKeyframeAt >= KeyframeInterval
        THEN WriteKeyframe(written, now, "interval")
        ELSE written

Keyframe(d, now, reason) ==
    IF d.recording = NoMatch THEN d ELSE WriteKeyframe(d, now, reason)

-----------------------------------------------------------------------------
(* The timeline *)

\* The last entry that holds, 0 for none, by the binary search of the code: right when
\* what holds is a prefix.
LastWhere(holds) ==
    LET n == Len(holds)
        search[s \in [low : 1 .. n + 1, high : 0 .. n, found : 0 .. n]] ==
            LET mid == (s.low + s.high) \div 2
            IN  IF s.low > s.high THEN s.found
                ELSE IF holds[mid] THEN search[[s EXCEPT !.low = mid + 1, !.found = mid]]
                ELSE search[[s EXCEPT !.high = mid - 1]]
    IN  search[[low |-> 1, high |-> n, found |-> 0]]

Is(kind, line) == line.kind = kind

\* The lines of these kinds, in the order of the file.
IndicesOf(lines, kinds) ==
    LET upTo[k \in 0 .. Len(lines)] ==
            IF k = 0 THEN <<>>
            ELSE IF lines[k].kind \in kinds THEN Append(upTo[k - 1], k)
            ELSE upTo[k - 1]
    IN  upTo[Len(lines)]

\* The keyframe to replay line i from, 0 for none: the newest that is older than the
\* history, and the first of the file when none is.
AnchorFor(lines, i, notAfter) ==
    LET keyframes == IndicesOf(lines, {"keyframe"})
        found == LastWhere([k \in 1 .. Len(keyframes) |->
                               /\ keyframes[k] <= i
                               /\ lines[keyframes[k]].atMs <= notAfter])
    IN  IF found # 0 THEN keyframes[found]
        ELSE IF keyframes # <<>> /\ keyframes[1] <= i THEN keyframes[1]
        ELSE 0

AnchorOf(lines, i) == AnchorFor(lines, i, lines[i].atMs - HistoryWindow)

\* The reading that `atMs' counts from, by the first header that can be read.
StartedAt(lines) ==
    LET headers == {i \in 1 .. Len(lines) : Is("header", lines[i])}
    IN  IF headers = {} THEN 0
        ELSE lines[CHOOSE i \in headers : \A j \in headers : i <= j].startedAt

\* Mutant: a replay ages every fact at the moment asked about.
ReplayedAtOnce(lines, anchor, i) ==
    LET after[k \in anchor .. i] ==
            IF k = anchor THEN (IF anchor = 0 THEN EmptyState ELSE lines[anchor].facts)
            ELSE IF Is("observation", lines[k])
                 THEN Fuse(after[k - 1], lines[k].o, StartedAt(lines) + lines[i].atMs)
                 ELSE after[k - 1]
    IN  after[i]

\* The facts of the anchor, and every observation after it fused as of its own time.
Replayed(lines, anchor, i) ==
    LET after[k \in anchor .. i] ==
            IF k = anchor THEN (IF anchor = 0 THEN EmptyState ELSE lines[anchor].facts)
            ELSE IF Is("observation", lines[k])
                 THEN Fuse(after[k - 1], lines[k].o, StartedAt(lines) + lines[k].atMs)
                 ELSE after[k - 1]
    IN  after[i]

Reconstruct(lines, i) == Replayed(lines, AnchorOf(lines, i), i)
=============================================================================
