--------------------------- MODULE MatchStateProofs ---------------------------
(***************************************************************************)
(* What TLAPS checks of MatchState, for every number of matches, every     *)
(* disk and every window: the tracker, the subsystem, the shell and the    *)
(* recorder agree; a recording goes on or is reported; the kill feed is    *)
(* trusted.  One inductive invariant, IInv, carries all of them. The later *)
(* sections are about the file: how each part of a recording begins; what  *)
(* the loops of its reader compute; that a replay gives the model as it    *)
(* was; and how long a replay can be.                                      *)
(***************************************************************************)
EXTENDS MatchState, SequenceTheorems, WellFoundedInduction, TLAPS

Keys == {"matchId", "shell", "facts", "paused", "recording", "startedAt",
         "lastKeyframeAt", "failed", "died", "fileOf", "lines", "lived", "torn", "disk"}

Shaped(s) == DOMAIN s = Keys

\* The recorder leaves to the subsystem what is the subsystem's.
Same(s, r) ==
    /\ Shaped(r)
    /\ r.matchId = s.matchId /\ r.shell = s.shell /\ r.facts = s.facts

\* A recording goes on, or its failure was reported, or the process is dead.
Survives(s, r) ==
    /\ s.failed \subseteq r.failed
    /\ s.died => r.died
    /\ \/ r.recording = s.recording
       \/ r.recording = NoMatch /\ (r.died \/ s.recording \in r.failed)

-----------------------------------------------------------------------------
(* The recorder *)

\* What a write leaves in the file: this line behind the last, or one line that cannot
\* be read out of the last and this one.
Behind(s, r, line) ==
    r.lines = Append(s.lines, line) /\ r.lived = Append(s.lived, s.facts)

Glued(s, r) ==
    r.lines = [s.lines EXCEPT ![Len(s.lines)] = Malformed] /\ r.lived = s.lived

Kept(s, r) ==
    /\ Same(s, r)
    /\ r.fileOf = s.fileOf /\ r.startedAt = s.startedAt
    /\ r.lastKeyframeAt = s.lastKeyframeAt

\* The disk took the line.
Wrote(s, r, line) ==
    /\ s.recording # NoMatch /\ r.recording = s.recording
    /\ r.failed = s.failed /\ r.died = s.died
    /\ r.torn = FALSE
    /\ s.torn => Glued(s, r)
    /\ ~s.torn => Behind(s, r, line)

\* The recording is over, and the disk has nothing, the line or a part of it.
Broke(s, r, line) ==
    /\ s.recording # NoMatch /\ r.recording = NoMatch
    /\ s.failed \subseteq r.failed /\ (s.died => r.died)
    /\ r.died \/ s.recording \in r.failed
    /\ \/ r.lines = s.lines /\ r.lived = s.lived /\ r.torn = s.torn
       \/ s.torn /\ Glued(s, r)
       \/ ~s.torn /\ (Behind(s, r, line) \/ Behind(s, r, Malformed))

LEMMA StruckForm ==
    ASSUME NEW s, Shaped(s), NEW line
    PROVE  LET r == Struck(s, line)
           IN  /\ Kept(s, r) /\ r.recording = s.recording
               /\ r.failed = s.failed /\ r.died = s.died
               /\ \/ /\ Fate(s) # Taken
                     /\ r.lines = s.lines /\ r.lived = s.lived /\ r.torn = s.torn
                  \/ s.torn /\ Glued(s, r)
                  \/ ~s.torn /\ Behind(s, r, line)
                  \/ Fate(s) # Taken /\ ~s.torn /\ Behind(s, r, Malformed)
               /\ Fate(s) = Taken => r.torn = FALSE
  <1> DEFINE left == Fate(s).left
             l == Landed(s, line, left)
             r == Struck(s, line)
  <1>1. Fate(s) = Taken => left = "whole"
    BY DEF Taken
  <1>2. r = [l EXCEPT !.disk = IF @ = <<>> THEN @ ELSE Tail(@)]
    BY DEF Struck
  <1> HIDE DEF left, r
  <1>3. /\ Kept(s, l) /\ l.recording = s.recording
        /\ l.failed = s.failed /\ l.died = s.died
        /\ \/ /\ left = "nothing"
              /\ l.lines = s.lines /\ l.lived = s.lived /\ l.torn = s.torn
           \/ s.torn /\ Glued(s, l)
           \/ ~s.torn /\ Behind(s, l, line)
           \/ left = "part" /\ ~s.torn /\ Behind(s, l, Malformed)
        /\ left = "whole" => l.torn = FALSE
    <2>1. CASE left = "nothing"
      <3>1. l = s
        BY <2>1 DEF Landed
      <3> HIDE DEF l
      <3>2. QED
        BY <2>1, <3>1 DEF Kept, Same
    <2>2. CASE left # "nothing" /\ s.torn
      <3>1. l = [s EXCEPT !.lines = [@ EXCEPT ![Len(@)] = Malformed],
                          !.torn = (left # "whole")]
        BY <2>2 DEF Landed
      <3> HIDE DEF l
      <3>2. /\ DOMAIN l = Keys /\ l.matchId = s.matchId /\ l.shell = s.shell
            /\ l.facts = s.facts /\ l.fileOf = s.fileOf /\ l.startedAt = s.startedAt
            /\ l.lastKeyframeAt = s.lastKeyframeAt /\ l.recording = s.recording
            /\ l.failed = s.failed /\ l.died = s.died /\ l.torn = (left # "whole")
            /\ l.lines = [s.lines EXCEPT ![Len(s.lines)] = Malformed]
            /\ l.lived = s.lived
        BY <3>1 DEF Shaped, Keys
      <3>3. QED
        BY <2>2, <3>2 DEF Kept, Same, Shaped, Glued
    <2>3. CASE left # "nothing" /\ ~s.torn
      <3> DEFINE this == IF left = "part" THEN Malformed ELSE line
      <3>1. l = [s EXCEPT !.lines = Append(@, this), !.lived = Append(@, s.facts),
                          !.torn = (left # "whole")]
        BY <2>3 DEF Landed
      <3> HIDE DEF l, this
      <3>2. /\ DOMAIN l = Keys /\ l.matchId = s.matchId /\ l.shell = s.shell
            /\ l.facts = s.facts /\ l.fileOf = s.fileOf /\ l.startedAt = s.startedAt
            /\ l.lastKeyframeAt = s.lastKeyframeAt /\ l.recording = s.recording
            /\ l.failed = s.failed /\ l.died = s.died /\ l.torn = (left # "whole")
            /\ l.lines = Append(s.lines, this) /\ l.lived = Append(s.lived, s.facts)
        BY <3>1 DEF Shaped, Keys
      <3>3. QED
        BY <2>3, <3>2 DEF Kept, Same, Shaped, Behind, this
    <2>4. QED
      BY <2>1, <2>2, <2>3
  <1> HIDE DEF l
  <1>4. /\ DOMAIN r = Keys /\ r.matchId = l.matchId /\ r.shell = l.shell
        /\ r.facts = l.facts /\ r.fileOf = l.fileOf /\ r.startedAt = l.startedAt
        /\ r.lastKeyframeAt = l.lastKeyframeAt /\ r.recording = l.recording
        /\ r.failed = l.failed /\ r.died = l.died /\ r.torn = l.torn
        /\ r.lines = l.lines /\ r.lived = l.lived
    BY <1>2, <1>3 DEF Kept, Same, Shaped, Keys
  <1>5. Kept(s, r) /\ r.recording = s.recording /\ r.failed = s.failed /\ r.died = s.died
    BY <1>3, <1>4 DEF Kept, Same, Shaped
  <1>6. /\ \/ /\ left = "nothing"
              /\ r.lines = s.lines /\ r.lived = s.lived /\ r.torn = s.torn
           \/ s.torn /\ Glued(s, r)
           \/ ~s.torn /\ Behind(s, r, line)
           \/ left = "part" /\ ~s.torn /\ Behind(s, r, Malformed)
        /\ left = "whole" => r.torn = FALSE
    BY <1>3, <1>4 DEF Glued, Behind
  <1>7. QED
    BY <1>1, <1>5, <1>6 DEF r

\* The three things that can become of a line.
LEMMA WriteOutcome ==
    ASSUME NEW s, Shaped(s), NEW line
    PROVE  LET r == Write(s, line)
           IN  /\ Kept(s, r)
               /\ \/ s.recording = NoMatch /\ r = s
                  \/ Wrote(s, r, line)
                  \/ Broke(s, r, line)
  <1> DEFINE k == Struck(s, line)
             r == Write(s, line)
  <1>1. CASE s.recording = NoMatch
    BY <1>1 DEF Write, Kept, Same
  <1>2. CASE s.recording # NoMatch
    <2>1. /\ Kept(s, k) /\ k.recording = s.recording /\ k.failed = s.failed
          /\ k.died = s.died
          /\ \/ /\ Fate(s) # Taken
                /\ k.lines = s.lines /\ k.lived = s.lived /\ k.torn = s.torn
             \/ s.torn /\ Glued(s, k)
             \/ ~s.torn /\ Behind(s, k, line)
             \/ Fate(s) # Taken /\ ~s.torn /\ Behind(s, k, Malformed)
          /\ Fate(s) = Taken => k.torn = FALSE
      BY StruckForm
    <2>2. CASE Fate(s) = Taken
      <3>1. r = k
        BY <1>2, <2>2 DEF Write
      <3> HIDE DEF k, r
      <3>2. QED
        BY <1>2, <2>1, <2>2, <3>1 DEF Wrote, r
    <2>3. CASE Fate(s) # Taken
      <3>1. \/ r = [[k EXCEPT !.failed = @ \cup {s.recording}] EXCEPT !.recording = NoMatch]
            \/ r = [[k EXCEPT !.died = TRUE] EXCEPT !.recording = NoMatch]
        BY <1>2, <2>3 DEF Write, Abandon
      <3> HIDE DEF k, r
      <3>2. /\ DOMAIN r = Keys /\ r.matchId = k.matchId /\ r.shell = k.shell
            /\ r.facts = k.facts /\ r.fileOf = k.fileOf /\ r.startedAt = k.startedAt
            /\ r.lastKeyframeAt = k.lastKeyframeAt /\ r.recording = NoMatch
            /\ r.torn = k.torn /\ r.lines = k.lines /\ r.lived = k.lived
        BY <2>1, <3>1 DEF Kept, Same, Shaped, Keys
      <3>3. \/ r.failed = k.failed \cup {s.recording} /\ r.died = k.died
            \/ r.failed = k.failed /\ r.died = TRUE
        BY <2>1, <3>1 DEF Kept, Same, Shaped, Keys
      <3>4. Kept(s, r)
        BY <2>1, <3>2 DEF Kept, Same, Shaped
      <3>5. \/ r.lines = s.lines /\ r.lived = s.lived /\ r.torn = s.torn
            \/ s.torn /\ Glued(s, r)
            \/ ~s.torn /\ (Behind(s, r, line) \/ Behind(s, r, Malformed))
        BY <2>1, <3>2 DEF Glued, Behind
      <3>6. Broke(s, r, line)
        BY <1>2, <2>1, <3>2, <3>3, <3>5 DEF Broke
      <3>7. QED
        BY <3>4, <3>6 DEF r
    <2>4. QED
      BY <2>2, <2>3
  <1>3. QED
    BY <1>1, <1>2

LEMMA WriteForm ==
    ASSUME NEW s, Shaped(s), NEW line
    PROVE  Same(s, Write(s, line)) /\ Survives(s, Write(s, line))
  BY WriteOutcome DEF Kept, Wrote, Broke, Survives

LEMMA WriteKeyframeForm ==
    ASSUME NEW s, Shaped(s), NEW now_, NEW reason
    PROVE  /\ Same(s, WriteKeyframe(s, now_, reason))
           /\ Survives(s, WriteKeyframe(s, now_, reason))
  <1> DEFINE w == Write(s, KeyframeLine(s, now_, reason))
             r == WriteKeyframe(s, now_, reason)
  <1>1. Same(s, w) /\ Survives(s, w)
    BY WriteForm
  <1>2. r = [w EXCEPT !.lastKeyframeAt = now_]
    BY DEF WriteKeyframe
  <1> HIDE DEF w, r
  <1>3. /\ DOMAIN r = Keys /\ r.failed = w.failed /\ r.recording = w.recording
        /\ r.matchId = w.matchId /\ r.shell = w.shell /\ r.facts = w.facts
        /\ r.died = w.died
    BY <1>1, <1>2 DEF Same, Shaped, Keys
  <1>4. QED
    BY <1>1, <1>3 DEF Same, Survives, Shaped, r

LEMMA CloseForm ==
    ASSUME NEW s, Shaped(s), NEW now_, NEW reason
    PROVE  /\ Same(s, CloseRecording(s, now_, reason))
           /\ CloseRecording(s, now_, reason).recording = NoMatch
           /\ s.failed \subseteq CloseRecording(s, now_, reason).failed
           /\ s.died => CloseRecording(s, now_, reason).died
  <1> DEFINE w == WriteKeyframe(s, now_, reason)
             r == CloseRecording(s, now_, reason)
  <1>1. CASE s.recording = NoMatch
    BY <1>1 DEF CloseRecording, Same
  <1>2. CASE s.recording # NoMatch
    <2>1. Same(s, w) /\ Survives(s, w)
      BY WriteKeyframeForm
    <2>2. r = [w EXCEPT !.recording = NoMatch]
      BY <1>2 DEF CloseRecording, Abandon
    <2> HIDE DEF w, r
    <2>3. /\ DOMAIN r = Keys /\ r.failed = w.failed /\ r.recording = NoMatch
          /\ r.matchId = w.matchId /\ r.shell = w.shell /\ r.facts = w.facts
          /\ r.died = w.died
      BY <2>1, <2>2 DEF Same, Shaped, Keys
    <2>4. QED
      BY <2>1, <2>3 DEF Same, Survives, Shaped, r
  <1>3. QED
    BY <1>1, <1>2

\* Opening begins a recording, or reports that it could not, unless the process dies.
LEMMA OpenForm ==
    ASSUME NEW s, Shaped(s), NEW id, NEW now_, NEW refused
    PROVE  LET r == OpenRecording(s, id, now_, refused)
           IN  /\ Same(s, r)
               /\ s.died => r.died
               /\ \/ r.recording = id
                  \/ r.recording = NoMatch /\ (r.died \/ id \in r.failed)
  <1> DEFINE closed == CloseRecording(s, now_, "superseded")
             opened == OpenSink(closed, id, now_)
             headed == Write(opened, HeaderLine(now_))
             r == OpenRecording(s, id, now_, refused)
  <1>1. Same(s, closed) /\ closed.recording = NoMatch /\ (s.died => closed.died)
    BY CloseForm
  <1>2. CASE ~closed.died /\ refused
    <2>1. r = [closed EXCEPT !.failed = @ \cup {id}]
      BY <1>2 DEF OpenRecording
    <2> HIDE DEF closed, r
    <2>2. /\ DOMAIN r = Keys /\ r.failed = closed.failed \cup {id}
          /\ r.recording = NoMatch
          /\ r.matchId = closed.matchId /\ r.shell = closed.shell
          /\ r.facts = closed.facts /\ r.died = closed.died
      BY <1>1, <2>1 DEF Same, Shaped, Keys
    <2>3. QED
      BY <1>1, <2>2 DEF Same, Shaped, r
  <1>3. CASE ~closed.died /\ ~refused
    <2>1. Same(closed, opened) /\ opened.recording = id /\ opened.died = closed.died
      <3>1. opened = [closed EXCEPT !.recording = id, !.fileOf = id,
                          !.lines = IF closed.fileOf = id THEN closed.lines ELSE <<>>,
                          !.lived = IF closed.fileOf = id THEN closed.lived ELSE <<>>,
                          !.torn = (closed.fileOf = id) /\ @,
                          !.startedAt = now_, !.lastKeyframeAt = now_]
        BY DEF OpenSink
      <3> HIDE DEF closed, opened
      <3>2. /\ DOMAIN opened = Keys /\ opened.recording = id
            /\ opened.matchId = closed.matchId /\ opened.shell = closed.shell
            /\ opened.facts = closed.facts /\ opened.died = closed.died
        BY <1>1, <3>1 DEF Same, Shaped, Keys
      <3>3. QED
        BY <3>2 DEF Same, Shaped
    <2>2. Same(opened, headed) /\ Survives(opened, headed)
      <3> HIDE DEF opened
      <3>1. QED
        BY <2>1, WriteForm DEF Same
    <2>3. r = WriteKeyframe(headed, now_, "open")
      BY <1>3 DEF OpenRecording
    <2> HIDE DEF closed, opened, headed
    <2>4. Same(headed, r) /\ Survives(headed, r)
      BY <2>2, <2>3, WriteKeyframeForm DEF Same
    <2> HIDE DEF r
    <2>5. QED
      BY <1>1, <2>1, <2>2, <2>4 DEF Same, Survives, r
  <1>4. CASE closed.died
    <2>1. r = closed
      BY <1>4 DEF OpenRecording
    <2> HIDE DEF closed, r
    <2>2. QED
      BY <1>1, <1>4, <2>1 DEF r
  <1>5. QED
    BY <1>2, <1>3, <1>4

LEMMA RecordForm ==
    ASSUME NEW s, Shaped(s), NEW o, NEW now_
    PROVE  Same(s, Record(s, o, now_)) /\ Survives(s, Record(s, o, now_))
  <1> DEFINE w == Write(s, ObservationLine(s, o, now_))
             k == WriteKeyframe(w, now_, "interval")
             r == Record(s, o, now_)
  <1>1. Same(s, w) /\ Survives(s, w)
    BY WriteForm
  <1>2. r = k \/ r = w
    BY DEF Record
  <1> HIDE DEF w, r
  <1>3. Same(w, k) /\ Survives(w, k)
    BY <1>1, WriteKeyframeForm DEF Same
  <1> HIDE DEF k
  <1>4. CASE r = w
    BY <1>1, <1>4 DEF r
  <1>5. CASE r = k
    BY <1>1, <1>3, <1>5 DEF Same, Survives, r
  <1>6. QED
    BY <1>2, <1>4, <1>5

LEMMA KeyframeForm ==
    ASSUME NEW s, Shaped(s), NEW now_, NEW reason
    PROVE  Same(s, Keyframe(s, now_, reason)) /\ Survives(s, Keyframe(s, now_, reason))
  <1>1. CASE s.recording = NoMatch
    BY <1>1 DEF Keyframe, Same, Survives
  <1>2. CASE s.recording # NoMatch
    BY <1>2, WriteKeyframeForm DEF Keyframe
  <1>3. QED
    BY <1>1, <1>2

-----------------------------------------------------------------------------
(* The edges *)

\* Subsystem, shell and recorder speak of one match, which is recorded or reported as
\* long as the process lives.
Agrees(s) ==
    /\ Shaped(s)
    /\ s.shell = s.matchId
    /\ s.recording \in {s.matchId, NoMatch}
    /\ s.matchId # NoMatch /\ ~s.died => s.recording = s.matchId \/ s.matchId \in s.failed

LEMMA ResetForm ==
    ASSUME NEW s, Agrees(s)
    PROVE  /\ Agrees(ResetWorld(s))
           /\ ResetWorld(s).matchId = s.matchId
           /\ ResetWorld(s).facts = EmptyState
  <1> DEFINE r == ResetWorld(s)
  <1>1. r = [s EXCEPT !.facts = EmptyState]
    BY DEF ResetWorld
  <1> HIDE DEF r
  <1>2. /\ DOMAIN r = Keys /\ r.facts = EmptyState
        /\ r.matchId = s.matchId /\ r.shell = s.shell
        /\ r.recording = s.recording /\ r.failed = s.failed /\ r.died = s.died
    BY <1>1 DEF Agrees, Shaped, Keys
  <1>3. QED
    BY <1>2 DEF Agrees, Shaped, r

LEMMA StartedForm ==
    ASSUME NEW s, Shaped(s), NEW id \in Matches, NEW at, NEW refused
    PROVE  LET r == Started(s, id, at, refused)
           IN  Agrees(r) /\ r.matchId = id /\ r.facts = EmptyState
  <1> DEFINE named == [s EXCEPT !.matchId = id]
             reset == ResetWorld(named)
             opened == OpenRecording(reset, id, at, refused)
             r == Started(s, id, at, refused)
  <1>1. DOMAIN named = Keys /\ named.matchId = id
    BY DEF Shaped, Keys
  <1>2. reset = [named EXCEPT !.facts = EmptyState]
    BY DEF ResetWorld
  <1>3. r = [opened EXCEPT !.shell = id]
    BY DEF Started
  <1> HIDE DEF named, reset
  <1>4. Shaped(reset) /\ reset.matchId = id /\ reset.facts = EmptyState
    BY <1>1, <1>2 DEF Shaped, Keys
  <1>5. /\ Same(reset, opened)
        /\ \/ opened.recording = id
           \/ opened.recording = NoMatch /\ (opened.died \/ id \in opened.failed)
    BY <1>4, OpenForm
  <1> HIDE DEF opened, r
  <1>6. /\ DOMAIN r = Keys /\ r.shell = id /\ r.matchId = id /\ r.facts = EmptyState
        /\ r.recording = opened.recording /\ r.failed = opened.failed
        /\ r.died = opened.died
    BY <1>3, <1>4, <1>5 DEF Same, Shaped, Keys
  <1>7. QED
    BY <1>5, <1>6 DEF Agrees, Shaped, r

LEMMA EndedForm ==
    ASSUME NEW s, Agrees(s), NEW at
    PROVE  /\ Agrees(Ended(s, at))
           /\ Ended(s, at).matchId = NoMatch
           /\ Ended(s, at).facts = s.facts
  <1> DEFINE ended == [s EXCEPT !.matchId = NoMatch]
             closed == CloseRecording(ended, at, "match_ended")
             r == Ended(s, at)
  <1>1. Shaped(ended) /\ ended.matchId = NoMatch /\ ended.facts = s.facts
    BY DEF Agrees, Shaped, Keys
  <1>2. r = [closed EXCEPT !.shell = NoMatch]
    BY DEF Ended
  <1> HIDE DEF ended
  <1>3. Same(ended, closed) /\ closed.recording = NoMatch
    BY <1>1, CloseForm
  <1> HIDE DEF closed, r
  <1>4. /\ DOMAIN r = Keys /\ r.shell = NoMatch /\ r.matchId = NoMatch
        /\ r.facts = s.facts /\ r.recording = NoMatch
    BY <1>1, <1>2, <1>3 DEF Same, Shaped, Keys
  <1>5. QED
    BY <1>4 DEF Agrees, Shaped, r

LEMMA TurnedForm ==
    ASSUME NEW s, Agrees(s), NEW edge
    PROVE  /\ Agrees(Turned(s, edge))
           /\ Turned(s, edge).matchId = s.matchId
           /\ Turned(s, edge).facts = s.facts
  <1>1. CASE edge = "none"
    BY <1>1 DEF Turned
  <1>2. CASE edge # "none"
    <2> DEFINE r == Turned(s, edge)
    <2>1. r = [s EXCEPT !.paused = (edge = "paused")]
      BY <1>2 DEF Turned
    <2> HIDE DEF r
    <2>2. /\ DOMAIN r = Keys /\ r.facts = s.facts
          /\ r.matchId = s.matchId /\ r.shell = s.shell
          /\ r.recording = s.recording /\ r.failed = s.failed /\ r.died = s.died
      BY <2>1 DEF Agrees, Shaped, Keys
    <2>3. QED
      BY <2>2 DEF Agrees, Shaped, r
  <1>3. QED
    BY <1>1, <1>2

\* What the recorder does between edges keeps the agreement.
LEMMA AgreementSurvives ==
    ASSUME NEW s, NEW r, Agrees(s), Same(s, r), Survives(s, r)
    PROVE  Agrees(r)
  BY DEF Agrees, Same, Survives

LEMMA ResyncForm ==
    ASSUME NEW s, Agrees(s), NEW at
    PROVE  /\ Agrees(Resync(s, at))
           /\ Resync(s, at).matchId = s.matchId
           /\ Resync(s, at).facts = EmptyState
  <1> DEFINE reset == ResetWorld(s)
             r == Keyframe(reset, at, "clock_discontinuity")
  <1>1. Agrees(reset) /\ reset.matchId = s.matchId /\ reset.facts = EmptyState
    BY ResetForm
  <1> HIDE DEF reset
  <1>2. Same(reset, r) /\ Survives(reset, r)
    BY <1>1, KeyframeForm DEF Agrees
  <1> HIDE DEF r
  <1>3. Agrees(r) /\ r.matchId = s.matchId /\ r.facts = EmptyState
    BY <1>1, <1>2, AgreementSurvives DEF Same
  <1>4. QED
    BY <1>3 DEF Resync, r, reset

\* The match after the edges of one snapshot, and whether the model forgot.
LEMMA LifecycleForm ==
    ASSUME NEW s, Agrees(s), NEW e, e.started \in MatchOrNone, NEW at, NEW refused
    PROVE  LET r == OnLifecycle(s, e, at, refused)
           IN  /\ Agrees(r)
               /\ r.matchId = IF e.over THEN NoMatch
                              ELSE IF e.started # NoMatch THEN e.started
                              ELSE IF e.superseded THEN NoMatch ELSE s.matchId
               /\ r.facts = IF e.jumped \/ e.started # NoMatch THEN EmptyState
                            ELSE s.facts
  <1> DEFINE s1 == IF e.superseded THEN Ended(s, at) ELSE s
             s2 == IF e.started # NoMatch THEN Started(s1, e.started, at, refused) ELSE s1
             s3 == IF e.over THEN Ended(s2, at) ELSE s2
             s4 == Turned(s3, e.turned)
             r == IF e.jumped THEN Resync(s4, at) ELSE s4
  <1>1. /\ Agrees(s1)
        /\ s1.matchId = IF e.superseded THEN NoMatch ELSE s.matchId
        /\ s1.facts = s.facts
    BY EndedForm
  <1> HIDE DEF s1
  <1>2. /\ Agrees(s2)
        /\ s2.matchId = IF e.started # NoMatch THEN e.started ELSE s1.matchId
        /\ s2.facts = IF e.started # NoMatch THEN EmptyState ELSE s1.facts
    <2>1. CASE e.started = NoMatch
      BY <1>1, <2>1
    <2>2. CASE e.started # NoMatch
      <3>1. e.started \in Matches
        BY <2>2 DEF MatchOrNone
      <3>2. QED
        BY <1>1, <2>2, <3>1, StartedForm DEF Agrees
    <2>3. QED
      BY <2>1, <2>2
  <1> HIDE DEF s2
  <1>3. /\ Agrees(s3)
        /\ s3.matchId = IF e.over THEN NoMatch ELSE s2.matchId
        /\ s3.facts = s2.facts
    BY <1>2, EndedForm
  <1> HIDE DEF s3
  <1>4. Agrees(s4) /\ s4.matchId = s3.matchId /\ s4.facts = s3.facts
    BY <1>3, TurnedForm
  <1> HIDE DEF s4
  <1>5. /\ Agrees(r) /\ r.matchId = s4.matchId
        /\ r.facts = IF e.jumped THEN EmptyState ELSE s4.facts
    BY <1>4, ResyncForm
  <1>6. r = OnLifecycle(s, e, at, refused)
    BY DEF OnLifecycle, s1, s2, s3, s4
  <1> HIDE DEF r
  <1>7. QED
    BY <1>1, <1>2, <1>3, <1>4, <1>5, <1>6

\* An observation changes the facts and nothing that the agreement is about.
LEMMA ObservationForm ==
    ASSUME NEW s, Agrees(s), NEW o, NEW at
    PROVE  /\ Agrees(OnObservation(s, o, at))
           /\ OnObservation(s, o, at).matchId = s.matchId
           /\ OnObservation(s, o, at).facts = Fuse(s.facts, o, at)
  <1> DEFINE f == [s EXCEPT !.facts = Fuse(@, o, at)]
             r == OnObservation(s, o, at)
  <1>1. /\ DOMAIN f = Keys /\ f.facts = Fuse(s.facts, o, at)
        /\ f.matchId = s.matchId /\ f.shell = s.shell
        /\ f.recording = s.recording /\ f.failed = s.failed /\ f.died = s.died
    BY DEF Agrees, Shaped, Keys
  <1>2. r = Record(f, o, at)
    BY DEF OnObservation
  <1> HIDE DEF f, r
  <1>3. Agrees(f)
    BY <1>1 DEF Agrees, Shaped
  <1>4. Same(f, r) /\ Survives(f, r)
    BY <1>2, <1>3, RecordForm DEF Agrees
  <1>5. QED
    BY <1>1, <1>3, <1>4, AgreementSurvives DEF Same, r

-----------------------------------------------------------------------------
(* Fusion *)

\* Nothing was observed later than now, and the kill feed is certain.
FactsSound(facts, at) ==
    /\ facts \in Facts
    /\ facts["alive"] # NoFact =>
           /\ facts["alive"].source \in {"log", "cv"}
           /\ facts["alive"].observedAt <= at
           /\ facts["alive"].source = "log" => facts["alive"].confidence = Certain

\* The last kill is what the model says, for as long as the window is open.
KillStands(facts, kill, at) ==
    kill # NoKill =>
        /\ kill \in Nat /\ kill <= at
        /\ at - kill < ShadowWindow =>
               facts["alive"].source = "log" /\ facts["alive"].observedAt = kill

LEMMA CertainIsNat == Certain \in Nat
  BY DEF Certain

LEMMA EmptyIsSound ==
    ASSUME NEW at
    PROVE  FactsSound(EmptyState, at) /\ KillStands(EmptyState, NoKill, at)
  BY DEF FactsSound, KillStands, EmptyState, Facts, Fields

\* Facts stay sound, and a kill stands, as time passes.
LEMMA TimeIsSound ==
    ASSUME NEW facts, NEW kill, NEW at \in Nat,
           FactsSound(facts, at), KillStands(facts, kill, at)
    PROVE  FactsSound(facts, at + 1) /\ KillStands(facts, kill, at + 1)
  <1>1. facts["alive"] # NoFact => facts["alive"].observedAt \in Nat
    BY DEF FactsSound, Facts, Fact, Fields
  <1>2. FactsSound(facts, at + 1)
    BY <1>1 DEF FactsSound
  <1>3. KillStands(facts, kill, at + 1)
    BY FusionAssumption DEF KillStands
  <1>4. QED
    BY <1>2, <1>3

LEMMA PayloadIsSound ==
    ASSUME NEW facts, NEW kill, NEW o, o.source = "gsi", o.field = "meta",
           o.observedAt \in Nat, o.confidence \in Nat, NEW at \in Nat,
           FactsSound(facts, at), KillStands(facts, kill, at)
    PROVE  FactsSound(Fuse(facts, o, at), at) /\ KillStands(Fuse(facts, o, at), kill, at)
  <1> DEFINE c == CandidateOf(o)
             r == Fuse(facts, o, at)
  <1>1. r = facts \/ r = [facts EXCEPT !["meta"] = c]
    BY DEF Fuse
  <1>2. c \in Fact
    BY DEF CandidateOf, Fact, Sources
  <1> HIDE DEF c, r
  <1>3. r \in Facts /\ r["alive"] = facts["alive"]
    BY <1>1, <1>2 DEF FactsSound, Facts, Fields
  <1>4. QED
    BY <1>3 DEF FactsSound, KillStands, r

\* A kill of a known hero is always taken.
LEMMA KillIsTaken ==
    ASSUME NEW facts, NEW o, o.source = "log", o.field = "alive",
           NEW at \in Nat, o.observedAt = at, o.confidence = Certain,
           FactsSound(facts, at), Known(facts)
    PROVE  FactsSound(Fuse(facts, o, at), at) /\ KillStands(Fuse(facts, o, at), at, at)
  <1> DEFINE c == CandidateOf(o)
             a == facts["alive"]
             r == Fuse(facts, o, at)
  <1>1. /\ c.source = "log" /\ c.observedAt = at /\ c.confidence = Certain
        /\ c \in Fact
    BY CertainIsNat DEF CandidateOf, Fact, Sources
  <1>2. CanWrite("alive", c, a, at)
    <2>1. RankFor("alive", c.source) = 3
      BY <1>1 DEF RankFor, RANKS, ClassOf
    <2>2. CASE a = NoFact
      BY <2>1, <2>2 DEF CanWrite
    <2>3. CASE a # NoFact
      <3>1. /\ a.source \in {"log", "cv"} /\ a.observedAt <= at
            /\ a.source = "log" => a.confidence = Certain
        BY <2>3 DEF FactsSound
      <3>2. RankFor("alive", a.source) \in {2, 3}
        BY <3>1 DEF RankFor, RANKS, ClassOf
      <3>3. \/ c.source # a.source
            \/ c.confidence >= a.confidence
        BY <1>1, <3>1, CertainIsNat
      <3> HIDE DEF c, a
      <3>4. QED
        BY <1>1, <2>1, <3>1, <3>2, <3>3 DEF CanWrite
    <2>4. QED
      BY <2>2, <2>3
  <1>3. r = [facts EXCEPT !["alive"] = c]
    BY <1>2 DEF Fuse, IsCandidate
  <1> HIDE DEF c, r
  <1>4. r \in Facts /\ r["alive"] = c
    BY <1>1, <1>3 DEF FactsSound, Facts, Fields
  <1>5. c # NoFact
    BY <1>1 DEF NoFact
  <1>6. QED
    BY <1>1, <1>4, <1>5 DEF FactsSound, KillStands, r

\* A kill of an unknown hero changes nothing.
LEMMA KillIsNobodys ==
    ASSUME NEW facts, NEW o, o.source = "log", NEW at, ~Known(facts)
    PROVE  Fuse(facts, o, at) = facts
  BY DEF Fuse, IsCandidate

\* A detection waits for the kill feed.
LEMMA DetectionIsSound ==
    ASSUME NEW facts, NEW kill, NEW o, o.source = "cv", o.field \in {"alive", "position"},
           NEW at \in Nat, o.observedAt \in Nat, o.observedAt <= at, o.confidence \in Nat,
           FactsSound(facts, at), KillStands(facts, kill, at)
    PROVE  FactsSound(Fuse(facts, o, at), at) /\ KillStands(Fuse(facts, o, at), kill, at)
  <1> DEFINE c == CandidateOf(o)
             r == Fuse(facts, o, at)
  <1>1. c.source = "cv" /\ c.observedAt = o.observedAt /\ c \in Fact
    BY DEF CandidateOf, Fact, Sources
  <1>2. CASE o.field = "position"
    <2>1. r = facts \/ r = [facts EXCEPT !["position"] = c]
      BY <1>2 DEF Fuse
    <2> HIDE DEF c, r
    <2>2. r \in Facts /\ r["alive"] = facts["alive"]
      BY <1>1, <2>1 DEF FactsSound, Facts, Fields
    <2>3. QED
      BY <2>2 DEF FactsSound, KillStands, r
  <1>3. CASE o.field = "alive" /\ r = facts
    BY <1>3
  <1>4. CASE o.field = "alive" /\ r # facts
    <2>1. CanWrite("alive", c, facts["alive"], at) /\ r = [facts EXCEPT !["alive"] = c]
      BY <1>4 DEF Fuse
    <2>2. \/ kill = NoKill
          \/ ~(at - kill < ShadowWindow)
      <3> SUFFICES ASSUME kill # NoKill, at - kill < ShadowWindow PROVE FALSE
        OBVIOUS
      <3>1. facts["alive"].source = "log" /\ facts["alive"].observedAt = kill
        BY DEF KillStands
      <3>2. facts["alive"] # NoFact
        BY <3>1 DEF NoFact
      <3>3. RankFor("alive", facts["alive"].source) = 3 /\ RankFor("alive", c.source) = 2
        BY <1>1, <3>1 DEF RankFor, RANKS, ClassOf
      <3>4. kill \in Nat /\ ~(at - kill >= ShadowWindow)
        BY FusionAssumption DEF KillStands
      <3> HIDE DEF c
      <3>5. QED
        BY <2>1, <3>1, <3>2, <3>3, <3>4 DEF CanWrite
    <2> HIDE DEF c, r
    <2>3. r \in Facts /\ r["alive"] = c
      BY <1>1, <2>1 DEF FactsSound, Facts, Fields
    <2>4. FactsSound(r, at)
      BY <1>1, <2>3 DEF FactsSound
    <2>5. KillStands(r, kill, at)
      BY <2>2 DEF KillStands
    <2>6. QED
      BY <2>4, <2>5 DEF r
  <1>5. QED
    BY <1>2, <1>3, <1>4

-----------------------------------------------------------------------------
(* The invariant *)

GameSound ==
    /\ game \in [match : MatchOrNone, state : GameStates, clock : Nat,
                pause : {"none", "now", "over"}]
    /\ phase \in {"running", "stopped"}
    /\ now \in Nat
    /\ posted.match \in MatchOrNone /\ posted.state \in GameStates
    /\ dropped \in BOOLEAN

\* The tracker holds what was posted; the game is at most one change ahead of it, and
\* never leaves the end of a match but for the next match.
PostedSound ==
    /\ tracker.matchId = posted.match
    /\ tracker.phase = PhaseOf[posted.state]
    /\ posted.match = NoMatch => posted.state = "init"
    /\ game.match = NoMatch => posted.match = NoMatch
    /\ ~dropped => posted.state # "disconnect"
    /\ posted.match \notin {NoMatch, game.match} => game.state = "hero_selection"
    /\ posted.match = game.match /\ posted.state = "post_game" => game.state = "post_game"

MatchSound ==
    phase = "running" =>
        /\ Agrees(d) /\ ~d.died
        /\ posted.match # NoMatch /\ ~dropped =>
               d.matchId = IF posted.state = "post_game" THEN NoMatch ELSE posted.match

ModelSound ==
    phase = "running" => FactsSound(d.facts, now) /\ KillStands(d.facts, killed, now)

IInv == GameSound /\ PostedSound /\ MatchSound /\ ModelSound

LEMMA NothingIsNoMatch == NoMatch \in MatchOrNone /\ NoMatch \notin Matches
  BY DEF NoMatch, MatchOrNone, Matches

\* Which states of the game are an end to the tracker.
LEMMA EndStates ==
    /\ \A g \in GameStates : PhaseOf[g] = "post_game" <=> g \in {"post_game", "disconnect"}
    /\ PhaseOf["init"] = "idle"
  BY DEF GameStates, PhaseOf

LEMMA FreshForm ==
    ASSUME NEW fileOf, NEW lines, NEW lived, NEW torn, NEW disk
    PROVE  LET r == FreshSubsystem(fileOf, lines, lived, torn, disk)
           IN  Agrees(r) /\ ~r.died /\ r.matchId = NoMatch /\ r.facts = EmptyState
  <1> DEFINE r == FreshSubsystem(fileOf, lines, lived, torn, disk)
  <1>1. DOMAIN r = Keys
    BY DEF FreshSubsystem, Keys
  <1>2. /\ r.matchId = NoMatch /\ r.shell = NoMatch /\ r.recording = NoMatch
        /\ r.facts = EmptyState /\ ~r.died
    BY DEF FreshSubsystem
  <1> HIDE DEF r
  <1>3. QED
    BY <1>1, <1>2 DEF Agrees, Shaped, r

LEMMA InitInvariant == Init => IInv
  <1> SUFFICES ASSUME Init PROVE IInv
    OBVIOUS
  <1>1. PICK disk \in Disks : d = FreshSubsystem(NoMatch, <<>>, <<>>, FALSE, disk)
    BY DEF Init
  <1>2. Agrees(d) /\ ~d.died /\ d.matchId = NoMatch /\ d.facts = EmptyState
    BY <1>1 DEF FreshSubsystem, Agrees, Shaped, Keys
  <1>3. GameSound
    BY NothingIsNoMatch DEF Init, GameSound, NoGame, NothingPosted, GameStates
  <1>4. PostedSound
    BY EndStates DEF Init, PostedSound, NothingPosted, FreshTracker, NoGame
  <1>5. MatchSound
    BY <1>2 DEF Init, MatchSound, NothingPosted
  <1>6. ModelSound
    BY <1>2, EmptyIsSound DEF Init, ModelSound
  <1>7. QED
    BY <1>3, <1>4, <1>5, <1>6 DEF IInv

\* What a snapshot says: the tracker, the current match and the model after it.
LEMMA PostKeeps ==
    ASSUME IInv, PostSnapshot
    PROVE  IInv'
  <1>1. PICK refused \in BOOLEAN :
          LET map == [match |-> game.match, state |-> game.state,
                      paused |-> game.pause = "now",
                      clocked |-> game.state # "hero_selection", clock |-> game.clock]
              edges == EdgesOf(tracker, map, now)
          IN  /\ tracker' = Tracked(tracker, map, now)
              /\ d' = OnObservation(OnLifecycle(d, edges, now, refused), Payload, now)
              /\ dropped' = (game.state = "disconnect"
                             \/ (dropped /\ edges.started = NoMatch))
              /\ killed' = IF edges.started # NoMatch \/ edges.jumped THEN NoKill ELSE killed
    BY DEF PostSnapshot
  <1> DEFINE map == [match |-> game.match, state |-> game.state,
                     paused |-> game.pause = "now",
                     clocked |-> game.state # "hero_selection", clock |-> game.clock]
             edges == EdgesOf(tracker, map, now)
             after == OnLifecycle(d, edges, now, refused)
  <1>2. /\ phase = "running" /\ phase' = (IF d'.died THEN "stopped" ELSE phase)
        /\ now' = now /\ game' = game
        /\ game.match # NoMatch
        /\ posted' = [match |-> game.match, state |-> game.state,
                      paused |-> game.pause = "now"]
    BY DEF PostSnapshot, clockVars, LivesOn
  <1>3. /\ game.match \in MatchOrNone /\ game.state \in GameStates
        /\ posted.match \in MatchOrNone /\ posted.state \in GameStates
        /\ now \in Nat /\ dropped \in BOOLEAN
    BY DEF IInv, GameSound
  <1>4. posted'.match = game.match /\ posted'.state = game.state
    BY <1>2
  <1>5. /\ tracker'.matchId = game.match
        /\ tracker'.phase = PhaseOf[game.state]
    BY <1>1 DEF Tracked
  <1>6. /\ edges.started = IF game.match # posted.match THEN game.match ELSE NoMatch
        /\ edges.over <=> (/\ PhaseOf[game.state] # PhaseOf[posted.state]
                           /\ PhaseOf[game.state] = "post_game")
    BY DEF EdgesOf, IInv, PostedSound
  <1>7. /\ tracker' = Tracked(tracker, map, now)
        /\ d' = OnObservation(after, Payload, now)
        /\ dropped' = (game.state = "disconnect" \/ (dropped /\ edges.started = NoMatch))
        /\ killed' = IF edges.started # NoMatch \/ edges.jumped THEN NoKill ELSE killed
    BY <1>1
  <1> HIDE DEF edges, map
  <1>8. Agrees(d) /\ FactsSound(d.facts, now) /\ KillStands(d.facts, killed, now)
    BY <1>2 DEF IInv, MatchSound, ModelSound
  <1>9. edges.started \in MatchOrNone
    BY <1>3, <1>6, NothingIsNoMatch
  <1>10. /\ Agrees(after)
         /\ after.matchId = IF edges.over THEN NoMatch
                            ELSE IF edges.started # NoMatch THEN edges.started
                            ELSE IF edges.superseded THEN NoMatch ELSE d.matchId
         /\ after.facts = IF edges.jumped \/ edges.started # NoMatch THEN EmptyState
                          ELSE d.facts
    BY <1>8, <1>9, LifecycleForm
  <1>11. game.match = posted.match => ~edges.superseded
    BY DEF edges, EdgesOf, map, IInv, PostedSound
  <1> HIDE DEF after
  <1>12. /\ Agrees(d') /\ d'.matchId = after.matchId
         /\ d'.facts = Fuse(after.facts, Payload, now)
    BY <1>7, <1>10, ObservationForm
  <1>13. GameSound'
    BY <1>2, <1>3, <1>4, <1>7 DEF IInv, GameSound
  <1>14. PostedSound'
    <2>1. ~dropped' => game.state # "disconnect"
      BY <1>7
    <2>2. QED
      BY <1>2, <1>4, <1>5, <2>1 DEF PostedSound
  <1>15. MatchSound'
    <2> SUFFICES ASSUME ~dropped'
                 PROVE  d'.matchId = IF game.state = "post_game" THEN NoMatch ELSE game.match
      BY <1>2, <1>4, <1>12 DEF MatchSound
    <2>1. game.state # "disconnect"
      BY <1>7
    <2>2. CASE game.match # posted.match
      <3>1. edges.started = game.match
        BY <1>6, <2>2
      <3>2. edges.over <=> game.state = "post_game"
        <4>1. CASE posted.match = NoMatch
          BY <1>3, <1>6, <2>1, <4>1, EndStates DEF IInv, PostedSound
        <4>2. CASE posted.match # NoMatch
          <5>1. game.state = "hero_selection"
            BY <2>2, <4>2 DEF IInv, PostedSound
          <5>2. QED
            BY <1>3, <1>6, <5>1, EndStates
        <4>3. QED
          BY <4>1, <4>2
      <3>3. QED
        BY <1>2, <1>10, <1>12, <3>1, <3>2
    <2>3. CASE game.match = posted.match
      <3>1. ~edges.superseded /\ edges.started = NoMatch
        BY <1>6, <1>11, <2>3
      <3>2. ~dropped
        BY <1>3, <1>7, <3>1
      <3>3. /\ posted.state # "disconnect"
            /\ posted.state = "post_game" => game.state = "post_game"
            /\ d.matchId = IF posted.state = "post_game" THEN NoMatch ELSE posted.match
        BY <1>2, <2>3, <3>2 DEF IInv, PostedSound, MatchSound
      <3>4. edges.over <=> game.state = "post_game" /\ posted.state # "post_game"
        BY <1>3, <1>6, <2>1, <3>3, EndStates
      <3>5. QED
        BY <1>10, <1>12, <2>3, <3>1, <3>3, <3>4
    <2>4. QED
      BY <2>2, <2>3
  <1>16. ModelSound'
    <2>1. FactsSound(after.facts, now) /\ KillStands(after.facts, killed', now)
      <3>1. CASE edges.jumped \/ edges.started # NoMatch
        BY <1>7, <1>10, <3>1, EmptyIsSound
      <3>2. CASE ~(edges.jumped \/ edges.started # NoMatch)
        BY <1>7, <1>8, <1>10, <3>2
      <3>3. QED
        BY <3>1, <3>2
    <2>2. /\ Payload.source = "gsi" /\ Payload.field = "meta"
          /\ Payload.observedAt \in Nat /\ Payload.confidence \in Nat
      BY <1>3, CertainIsNat DEF Payload
    <2>3. FactsSound(d'.facts, now) /\ KillStands(d'.facts, killed', now)
      BY <1>3, <1>12, <2>1, <2>2, PayloadIsSound
    <2>4. QED
      BY <1>2, <2>3 DEF ModelSound
  <1>17. QED
    BY <1>13, <1>14, <1>15, <1>16 DEF IInv

\* An observation between snapshots: only the facts, and the last kill, change.
LEMMA ObservedKeeps ==
    ASSUME IInv, NEW o, d' = OnObservation(d, o, now), phase = "running",
           LivesOn, UNCHANGED <<gameVars, clockVars, tracker, posted, dropped>>,
           FactsSound(Fuse(d.facts, o, now), now),
           KillStands(Fuse(d.facts, o, now), killed', now)
    PROVE  IInv'
  <1>1. /\ UNCHANGED <<game, unposted, now, restarts, tracker, posted, dropped>>
        /\ phase' = (IF d'.died THEN "stopped" ELSE phase)
    BY DEF gameVars, clockVars, LivesOn
  <1>2. Agrees(d)
    BY DEF IInv, MatchSound
  <1>3. /\ Agrees(d') /\ d'.matchId = d.matchId
        /\ d'.facts = Fuse(d.facts, o, now)
    BY <1>2, ObservationForm
  <1>4. GameSound' /\ PostedSound'
    BY <1>1 DEF IInv, GameSound, PostedSound
  <1>5. MatchSound'
    BY <1>1, <1>3 DEF IInv, MatchSound
  <1>6. ModelSound'
    BY <1>1, <1>3 DEF ModelSound
  <1>7. QED
    BY <1>4, <1>5, <1>6 DEF IInv

LEMMA LogEventKeeps ==
    ASSUME IInv, LogEvent
    PROVE  IInv'
  <1>1. /\ phase = "running" /\ d' = OnObservation(d, Kill, now)
        /\ killed' = IF Known(d.facts) THEN now ELSE killed
        /\ LivesOn /\ UNCHANGED <<gameVars, clockVars, tracker, posted, dropped>>
    BY DEF LogEvent
  <1>2. now \in Nat /\ FactsSound(d.facts, now) /\ KillStands(d.facts, killed, now)
    BY <1>1 DEF IInv, GameSound, ModelSound
  <1>3. /\ Kill.source = "log" /\ Kill.field = "alive"
        /\ Kill.observedAt = now /\ Kill.confidence = Certain
    BY DEF Kill
  <1>4. /\ FactsSound(Fuse(d.facts, Kill, now), now)
        /\ KillStands(Fuse(d.facts, Kill, now), killed', now)
    <2>1. CASE Known(d.facts)
      BY <1>1, <1>2, <1>3, <2>1, KillIsTaken
    <2>2. CASE ~Known(d.facts)
      BY <1>1, <1>2, <1>3, <2>2, KillIsNobodys
    <2>3. QED
      BY <2>1, <2>2
  <1>5. QED
    BY <1>1, <1>4, ObservedKeeps

LEMMA DetectionsKeep ==
    ASSUME IInv, Detections
    PROVE  IInv'
  <1>1. PICK field \in Detected, age \in 0 .. MaxAge, confidence \in Confidences :
          age <= now /\ d' = OnObservation(d, Detection(field, age, confidence), now)
    BY DEF Detections
  <1> DEFINE o == Detection(field, age, confidence)
  <1>2. /\ phase = "running" /\ killed' = killed
        /\ LivesOn /\ UNCHANGED <<gameVars, clockVars, tracker, posted, dropped>>
    BY DEF Detections, seenVars
  <1>3. now \in Nat /\ FactsSound(d.facts, now) /\ KillStands(d.facts, killed, now)
    BY <1>2 DEF IInv, GameSound, ModelSound
  <1>4. /\ o.source = "cv" /\ o.field \in {"alive", "position"}
        /\ o.observedAt \in Nat /\ o.observedAt <= now /\ o.confidence \in Nat
    <2>1. o.source = "cv" /\ o.field = field /\ o.observedAt = now - age
          /\ o.confidence = confidence
      BY DEF Detection
    <2>2. age \in Nat /\ field \in {"alive", "position"} /\ confidence \in Nat
      BY StateAssumption
    <2> HIDE DEF o
    <2>3. QED
      BY <1>1, <1>3, <2>1, <2>2
  <1>5. d' = OnObservation(d, o, now)
    BY <1>1
  <1> HIDE DEF o
  <1>6. /\ FactsSound(Fuse(d.facts, o, now), now)
        /\ KillStands(Fuse(d.facts, o, now), killed', now)
    BY <1>2, <1>3, <1>4, DetectionIsSound
  <1>7. QED
    BY <1>2, <1>5, <1>6, ObservedKeeps

LEMMA StopKeeps ==
    ASSUME IInv, Stop
    PROVE  IInv'
  <1>1. /\ phase' = "stopped"
        /\ UNCHANGED <<game, unposted, now, tracker, posted, dropped>>
    BY DEF Stop, gameVars, seenVars
  <1>2. QED
    BY <1>1 DEF IInv, GameSound, PostedSound, MatchSound, ModelSound

LEMMA RestartKeeps ==
    ASSUME IInv, Restart
    PROVE  IInv'
  <1>1. /\ phase' = "running" /\ now' = 0 /\ game' = game
        /\ tracker' = FreshTracker /\ posted' = NothingPosted
        /\ dropped' = FALSE /\ killed' = NoKill
        /\ d' = FreshSubsystem(d.fileOf, d.lines, d.lived, d.torn, d.disk)
    BY DEF Restart
  <1>2. Agrees(d') /\ ~d'.died /\ d'.matchId = NoMatch /\ d'.facts = EmptyState
    BY <1>1, FreshForm
  <1>3. posted'.match = NoMatch /\ posted'.state = "init"
    BY <1>1 DEF NothingPosted
  <1>4. GameSound'
    BY <1>1, <1>3, NothingIsNoMatch DEF IInv, GameSound, GameStates
  <1>5. PostedSound'
    BY <1>1, <1>3, EndStates DEF PostedSound, FreshTracker
  <1>6. MatchSound'
    BY <1>2, <1>3 DEF MatchSound
  <1>7. ModelSound'
    BY <1>1, <1>2, EmptyIsSound DEF ModelSound
  <1>8. QED
    BY <1>4, <1>5, <1>6, <1>7 DEF IInv

LEMMA TickKeeps ==
    ASSUME IInv, Tick
    PROVE  IInv'
  <1>1. /\ phase = "running" /\ now' = now + 1
        /\ game' = [game EXCEPT !.clock = IF game.match = NoMatch \/ game.pause = "now"
                                          THEN @ ELSE @ + 1]
        /\ UNCHANGED <<phase, tracker, d, posted, dropped, killed>>
    BY DEF Tick, seenVars
  <1>2. GameSound'
    <2>1. game \in [match : MatchOrNone, state : GameStates, clock : Nat,
                    pause : {"none", "now", "over"}]
      BY DEF IInv, GameSound
    <2>2. game' \in [match : MatchOrNone, state : GameStates, clock : Nat,
                     pause : {"none", "now", "over"}]
      BY <1>1, <2>1
    <2>3. QED
      BY <1>1, <2>2 DEF IInv, GameSound
  <1>3. game'.match = game.match /\ game'.state = game.state
    BY <1>1 DEF IInv, GameSound
  <1>4. PostedSound' /\ MatchSound'
    BY <1>1, <1>3 DEF IInv, PostedSound, MatchSound
  <1>5. ModelSound'
    <2>1. now \in Nat /\ FactsSound(d.facts, now) /\ KillStands(d.facts, killed, now)
      BY <1>1 DEF IInv, GameSound, ModelSound
    <2>2. QED
      BY <1>1, <2>1, TimeIsSound DEF ModelSound
  <1>6. QED
    BY <1>2, <1>4, <1>5 DEF IInv

\* A step of the game is taken from a game that was posted.
LEMMA GameStepKeeps ==
    ASSUME IInv, GameStep
    PROVE  IInv'
  <1> DEFINE Games == [match : MatchOrNone, state : GameStates, clock : Nat,
                       pause : {"none", "now", "over"}]
  <1>1. /\ ChangeIsPosted
        /\ NextMatch \/ Proceeds \/ Pauses \/ Resumes
        /\ UNCHANGED <<now, phase, tracker, d, posted, dropped, killed>>
    BY DEF GameStep, procVars, seenVars
  <1>2. game \in Games
    BY DEF IInv, GameSound
  <1>3. /\ game' \in Games
        /\ \/ /\ game'.match # game.match /\ game'.match # NoMatch
              /\ game'.state = "hero_selection"
           \/ /\ game'.match = game.match
              /\ game.state \in {"hero_selection", "in_progress", "disconnect"}
    <2>1. CASE NextMatch
      <3>1. /\ game.match < MaxMatch /\ MaxMatch \in Nat
            /\ game.match \in Nat
        BY <1>2, <2>1, TrackerAssumption DEF NextMatch, MatchOrNone, Matches, NoMatch
      <3>2. /\ game.match + 1 \in MatchOrNone /\ game.match + 1 # game.match
            /\ game.match + 1 # NoMatch
        BY <3>1 DEF Matches, MatchOrNone, NoMatch
      <3>3. game' = [match |-> game.match + 1, state |-> "hero_selection",
                     clock |-> 0, pause |-> "none"]
        BY <2>1 DEF NextMatch
      <3>4. "hero_selection" \in GameStates /\ 0 \in Nat
        BY DEF GameStates
      <3>5. QED
        BY <3>2, <3>3, <3>4
    <2>2. CASE Proceeds
      BY <1>2, <2>2 DEF Proceeds
    <2>3. CASE Pauses
      BY <1>2, <2>3 DEF Pauses
    <2>4. CASE Resumes
      BY <1>2, <2>4 DEF Resumes
    <2>5. QED
      BY <1>1, <2>1, <2>2, <2>3, <2>4
  <1>4. game.match # NoMatch => posted.match = game.match /\ posted.state = game.state
    <2>1. ChangeIsPosted
      BY <1>1
    <2>2. QED
      BY <2>1 DEF ChangeIsPosted
  <1>5. GameSound'
    BY <1>1, <1>3 DEF IInv, GameSound
  <1>6. PostedSound'
    <2>1. posted.match # NoMatch => posted.match = game.match /\ posted.state = game.state
      BY <1>4 DEF IInv, PostedSound
    <2>2. /\ tracker'.matchId = posted'.match /\ tracker'.phase = PhaseOf[posted'.state]
          /\ posted'.match = NoMatch => posted'.state = "init"
          /\ ~dropped' => posted'.state # "disconnect"
      BY <1>1 DEF IInv, PostedSound
    <2>3. game'.match = NoMatch => posted'.match = NoMatch
      BY <1>1, <1>3 DEF IInv, PostedSound
    <2>4. /\ posted'.match \notin {NoMatch, game'.match} => game'.state = "hero_selection"
          /\ posted'.match = game'.match /\ posted'.state = "post_game"
             => game'.state = "post_game"
      <3>1. CASE posted.match = NoMatch
        BY <1>1, <2>2, <3>1
      <3>2. CASE posted.match # NoMatch
        BY <1>1, <1>3, <2>1, <3>2
      <3>3. QED
        BY <3>1, <3>2
    <2>5. QED
      BY <2>2, <2>3, <2>4 DEF PostedSound
  <1>7. MatchSound' /\ ModelSound'
    BY <1>1 DEF IInv, MatchSound, ModelSound
  <1>8. QED
    BY <1>5, <1>6, <1>7 DEF IInv

\* What holds of a state and the next one.
LEMMA NextInvariant ==
    ASSUME IInv, [Next]_matchVars
    PROVE  IInv'
  <1>1. CASE PostSnapshot
    BY <1>1, PostKeeps
  <1>2. CASE LogEvent
    BY <1>2, LogEventKeeps
  <1>3. CASE Detections
    BY <1>3, DetectionsKeep
  <1>4. CASE Stop
    BY <1>4, StopKeeps
  <1>5. CASE Restart
    BY <1>5, RestartKeeps
  <1>6. CASE Tick
    BY <1>6, TickKeeps
  <1>7. CASE GameStep
    BY <1>7, GameStepKeeps
  <1>8. CASE UNCHANGED matchVars
    BY <1>8 DEF matchVars, IInv, GameSound, PostedSound, MatchSound, ModelSound
  <1>9. QED
    BY <1>1, <1>2, <1>3, <1>4, <1>5, <1>6, <1>7, <1>8 DEF Next

-----------------------------------------------------------------------------
(* Theorems *)

\* The inductive invariant holds in every state of the match, of any number of them.
THEOREM InvariantHolds == Spec => []IInv
  <1>1. Init => IInv
    BY InitInvariant
  <1>2. IInv /\ [Next]_matchVars => IInv'
    BY NextInvariant
  <1>3. QED
    BY <1>1, <1>2, PTL DEF Spec

\* The subsystem, the shell and the recorder speak of one match, whatever edges a
\* snapshot raises and wherever the disk refuses a line.
\* (state/index.ts:172-219, shell/index.ts:704-717)
THEOREM MatchIdsHold == Spec => []MatchIdsAgree
  <1>1. IInv => MatchIdsAgree
    BY DEF IInv, MatchSound, Agrees, MatchIdsAgree
  <1>2. QED
    BY <1>1, InvariantHolds, PTL

\* The current match is the one of the last snapshot, until one says it is over,
\* through restarts in mid-match and matches that supersede one another.
\* (session.ts:61-82)
THEOREM TrackingHolds == Spec => []TracksTheMatch
  <1>1. IInv => TracksTheMatch
    BY DEF IInv, MatchSound, TracksTheMatch
  <1>2. QED
    BY <1>1, InvariantHolds, PTL

\* A current match is recorded or its failure was reported: whatever the disk does
\* with a line, and for every refusal to open.  (recorder.ts:119-142)
THEOREM RecordingHolds == Spec => []RecordedOrReported
  <1>1. IInv => RecordedOrReported
    BY DEF IInv, MatchSound, Agrees, RecordedOrReported
  <1>2. QED
    BY <1>1, InvariantHolds, PTL

\* What the kill feed said stands for the length of the shadow window, for every
\* window, age and confidence of the detections.  (precedence.ts:103-106, :181-187)
THEOREM KillFeedHolds == Spec => []KillFeedIsTrusted
  <1>1. IInv => KillFeedIsTrusted
    BY DEF IInv, ModelSound, KillStands, KillFeedIsTrusted
  <1>2. QED
    BY <1>1, InvariantHolds, PTL

-----------------------------------------------------------------------------
(***************************************************************************)
(* The file.  A write that breaks ends the recording, so what stands       *)
(* behind a broken line is the header of a later opening; and a header     *)
(* that is glued to half a line leaves one line that nobody can read, with *)
(* the opening keyframe behind it.                                         *)
(***************************************************************************)
IsLines(q) == \E S : q \in Seq(S)

\* A line may stand behind another.
Follows(line, last) ==
    IF line.reason = "open"
    THEN line.facts = EmptyState /\ last.kind \in {"header", "malformed"}
    ELSE Moment(line) => Moment(last)

Anchored(q) ==
    \A i \in 1 .. Len(q) :
        IF i = 1 THEN ~Moment(q[i]) /\ q[i].reason # "open" ELSE Follows(q[i], q[i - 1])

\* A line may stand behind the last, or be the first.
Fits(q, line) ==
    IF q = <<>> THEN ~Moment(line) /\ line.reason # "open" ELSE Follows(line, q[Len(q)])

OnDisk(s) ==
    /\ IsLines(s.lines) /\ Anchored(s.lines)
    /\ s.torn => s.lines # <<>>

\* What is recorded goes on behind a moment that ends with a newline.
Filed(s) ==
    /\ OnDisk(s)
    /\ s.recording # NoMatch =>
           /\ s.fileOf = s.recording /\ ~s.torn
           /\ s.lines # <<>> /\ Moment(s.lines[Len(s.lines)])

LEMMA AppendForm ==
    ASSUME NEW q, IsLines(q), NEW line
    PROVE  /\ IsLines(Append(q, line))
           /\ Len(q) \in Nat
           /\ Len(Append(q, line)) = Len(q) + 1
           /\ Append(q, line) # <<>>
           /\ Append(q, line)[Len(q) + 1] = line
           /\ \A i \in 1 .. Len(q) : Append(q, line)[i] = q[i]
           /\ q # <<>> => Len(q) # 0
  <1>1. PICK S : q \in Seq(S)
    BY DEF IsLines
  <1>2. q \in Seq(S \cup {line})
    <2>1. q \in [1 .. Len(q) -> S] /\ Len(q) \in Nat
      BY <1>1
    <2>2. q \in [1 .. Len(q) -> S \cup {line}]
      BY <2>1
    <2>3. QED
      BY <2>1, <2>2
  <1>3. Append(q, line) \in Seq(S \cup {line})
    BY <1>2
  <1>4. /\ Len(q) \in Nat
        /\ Len(Append(q, line)) = Len(q) + 1
        /\ Append(q, line)[Len(q) + 1] = line
        /\ \A i \in 1 .. Len(q) : Append(q, line)[i] = q[i]
    BY <1>1
  <1>5. q # <<>> => Len(q) # 0
    BY <1>1
  <1>6. Append(q, line) # <<>>
    <2>1. Len(Append(q, line)) # 0
      BY <1>4
    <2>2. Len(<< >>) = 0
      OBVIOUS
    <2>3. QED
      BY <2>1, <2>2, Zenon
  <1>7. QED
    BY <1>3, <1>4, <1>5, <1>6 DEF IsLines


LEMMA GlueForm ==
    ASSUME NEW q, IsLines(q), q # <<>>
    PROVE  LET r == [q EXCEPT ![Len(q)] = Malformed]
           IN  /\ IsLines(r) /\ r # <<>>
               /\ Len(q) \in Nat /\ Len(q) # 0 /\ Len(r) = Len(q)
               /\ r[Len(q)] = Malformed
               /\ \A i \in 1 .. Len(q) : i # Len(q) => r[i] = q[i]
  <1> DEFINE r == [q EXCEPT ![Len(q)] = Malformed]
  <1>1. PICK S : q \in Seq(S)
    BY DEF IsLines
  <1>2. q \in [1 .. Len(q) -> S] /\ Len(q) \in Nat /\ Len(q) # 0
    BY <1>1
  <1>3. /\ r \in [1 .. Len(q) -> S \cup {Malformed}]
        /\ r[Len(q)] = Malformed
        /\ \A i \in 1 .. Len(q) : i # Len(q) => r[i] = q[i]
    BY <1>2
  <1> HIDE DEF r
  <1>4. r \in Seq(S \cup {Malformed}) /\ Len(r) = Len(q)
    <2>1. q \in Seq(S \cup {Malformed}) /\ Len(q) \in 1 .. Len(q)
      BY <1>1, <1>2
    <2>2. QED
      BY <2>1, ExceptSeq DEF r
  <1>5. r # <<>>
    <2>1. Len(<< >>) = 0
      OBVIOUS
    <2>2. QED
      BY <1>2, <1>4, <2>1, Zenon
  <1>6. QED
    BY <1>2, <1>3, <1>4, <1>5 DEF IsLines, r

\* Half a line is no moment and opens nothing.
LEMMA MalformedForm ==
    /\ Malformed.kind = "malformed" /\ Malformed.reason = "none" /\ Malformed.atMs = 0
    /\ ~Moment(Malformed)
    /\ \A q : Fits(q, Malformed)
  BY DEF Malformed, HeaderLine, Moment, Fits, Follows

LEMMA AnchoredGrows ==
    ASSUME NEW q, IsLines(q), Anchored(q), NEW line, Fits(q, line)
    PROVE  Anchored(Append(q, line))
  <1> DEFINE r == Append(q, line)
  <1>1. /\ Len(q) \in Nat /\ Len(r) = Len(q) + 1
        /\ r[Len(q) + 1] = line
        /\ \A i \in 1 .. Len(q) : r[i] = q[i]
        /\ q # <<>> => Len(q) # 0
    BY AppendForm
  <1>2. q = <<>> => Len(q) = 0
    OBVIOUS
  <1> HIDE DEF r
  <1>3. ASSUME NEW i \in 1 .. Len(r)
        PROVE  IF i = 1 THEN ~Moment(r[i]) /\ r[i].reason # "open" ELSE Follows(r[i], r[i - 1])
    <2>1. CASE i = Len(q) + 1 /\ q = <<>>
      BY <1>1, <1>2, <2>1 DEF Fits
    <2>2. CASE i = Len(q) + 1 /\ q # <<>>
      <3>1. i # 1 /\ r[i] = line /\ r[i - 1] = q[Len(q)]
        BY <1>1, <2>2
      <3>2. QED
        BY <2>2, <3>1 DEF Fits
    <2>3. CASE i # Len(q) + 1
      <3>1. i \in 1 .. Len(q) /\ r[i] = q[i] /\ (i # 1 => r[i - 1] = q[i - 1])
        BY <1>1, <2>3
      <3>2. QED
        BY <3>1 DEF Anchored
    <2>4. QED
      BY <2>1, <2>2, <2>3
  <1>4. QED
    BY <1>3 DEF Anchored, r

LEMMA AnchoredGlued ==
    ASSUME NEW q, IsLines(q), Anchored(q), q # <<>>
    PROVE  Anchored([q EXCEPT ![Len(q)] = Malformed])
  <1> DEFINE r == [q EXCEPT ![Len(q)] = Malformed]
  <1>1. /\ Len(q) \in Nat /\ Len(q) # 0 /\ Len(r) = Len(q)
        /\ r[Len(q)] = Malformed
        /\ \A i \in 1 .. Len(q) : i # Len(q) => r[i] = q[i]
    BY GlueForm
  <1> HIDE DEF r
  <1>2. ASSUME NEW i \in 1 .. Len(r)
        PROVE  IF i = 1 THEN ~Moment(r[i]) /\ r[i].reason # "open" ELSE Follows(r[i], r[i - 1])
    <2>1. CASE i = Len(q)
      BY <1>1, <2>1, MalformedForm DEF Follows
    <2>2. CASE i # Len(q)
      <3>1. i \in 1 .. Len(q) /\ r[i] = q[i] /\ (i # 1 => r[i - 1] = q[i - 1])
        BY <1>1, <2>2
      <3>2. QED
        BY <3>1 DEF Anchored
    <2>3. QED
      BY <2>1, <2>2
  <1>3. QED
    BY <1>2 DEF Anchored, r

\* Whatever becomes of a line that fits, the file stays anchored; and the disk takes it
\* only whole, or as one with what was torn.
LEMMA WriteOnDisk ==
    ASSUME NEW s, Shaped(s), OnDisk(s), NEW line, ~s.torn => Fits(s.lines, line)
    PROVE  LET r == Write(s, line)
           IN  /\ OnDisk(r)
               /\ r.recording # NoMatch =>
                      /\ r.recording = s.recording /\ r.fileOf = s.fileOf
                      /\ ~r.torn /\ r.lines # <<>>
                      /\ r.lines[Len(r.lines)] = IF s.torn THEN Malformed ELSE line
  <1> DEFINE r == Write(s, line)
  <1>1. \/ s.recording = NoMatch /\ r = s
        \/ Wrote(s, r, line)
        \/ Broke(s, r, line)
    BY WriteOutcome
  <1>2. r.fileOf = s.fileOf
    BY WriteOutcome DEF Kept
  <1> HIDE DEF r
  <1>3. ASSUME s.torn, Glued(s, r)
        PROVE  /\ IsLines(r.lines) /\ Anchored(r.lines) /\ r.lines # <<>>
               /\ r.lines[Len(r.lines)] = Malformed
    BY <1>3, GlueForm, AnchoredGlued DEF OnDisk, Glued
  <1>4. ASSUME NEW l, Behind(s, r, l), Fits(s.lines, l)
        PROVE  /\ IsLines(r.lines) /\ Anchored(r.lines) /\ r.lines # <<>>
               /\ r.lines[Len(r.lines)] = l
    BY <1>4, AppendForm, AnchoredGrows DEF OnDisk, Behind
  <1>5. CASE s.recording = NoMatch /\ r = s
    BY <1>5 DEF r
  <1>6. CASE Wrote(s, r, line)
    <2>1. CASE s.torn
      BY <1>2, <1>3, <1>6, <2>1 DEF Wrote, OnDisk, r
    <2>2. CASE ~s.torn
      BY <1>2, <1>4, <1>6, <2>2 DEF Wrote, OnDisk, r
    <2>3. QED
      BY <2>1, <2>2
  <1>7. CASE Broke(s, r, line)
    <2>1. r.recording = NoMatch
      BY <1>7 DEF Broke
    <2>2. CASE r.lines = s.lines /\ r.torn = s.torn
      BY <2>1, <2>2 DEF OnDisk, r
    <2>3. CASE s.torn /\ Glued(s, r)
      BY <1>3, <2>1, <2>3 DEF OnDisk, r
    <2>4. CASE ~s.torn /\ (Behind(s, r, line) \/ Behind(s, r, Malformed))
      <3>1. Fits(s.lines, Malformed)
        BY MalformedForm
      <3>2. QED
        BY <1>4, <2>1, <2>4, <3>1 DEF OnDisk, r
    <2>5. QED
      BY <1>7, <2>2, <2>3, <2>4 DEF Broke
  <1>8. QED
    BY <1>1, <1>5, <1>6, <1>7

\* A moment may follow any other.
LEMMA WriteFiles ==
    ASSUME NEW s, Shaped(s), Filed(s), NEW line, Moment(line), line.reason # "open"
    PROVE  Filed(Write(s, line))
  <1> DEFINE r == Write(s, line)
  <1>1. CASE s.recording = NoMatch
    <2>1. r = s
      BY <1>1 DEF Write
    <2>2. QED
      BY <2>1
  <1>2. CASE s.recording # NoMatch
    <2>1. OnDisk(s) /\ ~s.torn /\ s.fileOf = s.recording /\ Fits(s.lines, line)
      BY <1>2 DEF Filed, Fits, Follows
    <2>2. /\ OnDisk(r)
          /\ r.recording # NoMatch =>
                 /\ r.recording = s.recording /\ r.fileOf = s.fileOf
                 /\ ~r.torn /\ r.lines # <<>>
                 /\ r.lines[Len(r.lines)] = IF s.torn THEN Malformed ELSE line
      BY <2>1, WriteOnDisk
    <2> HIDE DEF r
    <2>3. QED
      BY <2>1, <2>2 DEF Filed, r
  <1>3. QED
    BY <1>1, <1>2

LEMMA WriteKeyframeFiles ==
    ASSUME NEW s, Shaped(s), Filed(s), NEW now_, NEW reason, reason # "open"
    PROVE  Filed(WriteKeyframe(s, now_, reason))
  <1> DEFINE line == KeyframeLine(s, now_, reason)
             w == Write(s, line)
             r == WriteKeyframe(s, now_, reason)
  <1>1. Shaped(w)
    BY WriteForm DEF Same
  <1>2. Filed(w)
    <2>1. Moment(line) /\ line.reason # "open"
      BY DEF KeyframeLine, Moment
    <2> HIDE DEF line
    <2>2. QED
      BY <2>1, WriteFiles
  <1>3. r = [w EXCEPT !.lastKeyframeAt = now_]
    BY DEF WriteKeyframe
  <1> HIDE DEF w, r
  <1>4. /\ r.torn = w.torn /\ r.lines = w.lines /\ r.recording = w.recording
        /\ r.fileOf = w.fileOf
    BY <1>1, <1>3 DEF Shaped, Keys
  <1>5. QED
    BY <1>2, <1>4 DEF Filed, OnDisk, r

LEMMA CloseFiles ==
    ASSUME NEW s, Shaped(s), Filed(s), NEW now_, NEW reason, reason # "open"
    PROVE  Filed(CloseRecording(s, now_, reason))
  <1> DEFINE w == WriteKeyframe(s, now_, reason)
             r == CloseRecording(s, now_, reason)
  <1>1. CASE s.recording = NoMatch
    BY <1>1 DEF CloseRecording
  <1>2. CASE s.recording # NoMatch
    <2>1. Filed(w) /\ Shaped(w)
      BY WriteKeyframeForm, WriteKeyframeFiles DEF Same
    <2>2. r = [w EXCEPT !.recording = NoMatch]
      BY <1>2 DEF CloseRecording, Abandon
    <2> HIDE DEF w, r
    <2>3. r.torn = w.torn /\ r.lines = w.lines /\ r.recording = NoMatch
      BY <2>1, <2>2 DEF Shaped, Keys
    <2>4. QED
      BY <2>1, <2>3 DEF Filed, OnDisk, r
  <1>3. QED
    BY <1>1, <1>2

\* The opening keyframe follows the header, or the line that swallowed it.
LEMMA OpenFiles ==
    ASSUME NEW s, Shaped(s), Filed(s), s.facts = EmptyState,
           NEW id \in Matches, NEW now_, NEW refused
    PROVE  Filed(OpenRecording(s, id, now_, refused))
  <1> DEFINE closed == CloseRecording(s, now_, "superseded")
             opened == OpenSink(closed, id, now_)
             head == HeaderLine(now_)
             headed == Write(opened, head)
             key == KeyframeLine(headed, now_, "open")
             keyed == Write(headed, key)
             r == OpenRecording(s, id, now_, refused)
  <1>1. Shaped(closed) /\ closed.facts = EmptyState /\ closed.recording = NoMatch
    BY CloseForm DEF Same
  <1>2. Filed(closed)
    BY CloseFiles
  <1>3. id # NoMatch
    BY DEF Matches, NoMatch
  <1>4. CASE closed.died
    BY <1>2, <1>4 DEF OpenRecording
  <1>5. CASE ~closed.died /\ refused
    <2>1. r = [closed EXCEPT !.failed = @ \cup {id}]
      BY <1>5 DEF OpenRecording
    <2> HIDE DEF closed, r
    <2>2. /\ r.torn = closed.torn /\ r.lines = closed.lines
          /\ r.recording = closed.recording /\ r.fileOf = closed.fileOf
      BY <1>1, <2>1 DEF Shaped, Keys
    <2>3. QED
      BY <1>2, <2>2 DEF Filed, OnDisk, r
  <1>6. CASE ~closed.died /\ ~refused
    <2> DEFINE resumed == closed.fileOf = id
    <2>1. opened = [closed EXCEPT !.recording = id, !.fileOf = id,
                        !.lines = IF resumed THEN closed.lines ELSE <<>>,
                        !.lived = IF resumed THEN closed.lived ELSE <<>>,
                        !.torn = resumed /\ closed.torn,
                        !.startedAt = now_, !.lastKeyframeAt = now_]
      BY <1>1 DEF OpenSink, Shaped, Keys
    <2>2. r = [keyed EXCEPT !.lastKeyframeAt = now_]
      BY <1>6 DEF OpenRecording, WriteKeyframe
    <2> HIDE DEF closed, opened
    <2>3. /\ Shaped(opened) /\ opened.facts = EmptyState
          /\ opened.recording = id /\ opened.fileOf = id
          /\ opened.lines = (IF resumed THEN closed.lines ELSE <<>>)
          /\ opened.torn = (resumed /\ closed.torn)
      BY <1>1, <2>1 DEF Shaped, Keys
    <2>4. OnDisk(opened)
      <3>1. IsLines(<<>>) /\ Anchored(<<>>)
        <4>1. <<>> \in Seq({})
          OBVIOUS
        <4>2. QED
          BY <4>1 DEF IsLines, Anchored
      <3>2. QED
        BY <1>2, <2>3, <3>1 DEF Filed, OnDisk
    <2>5. head.kind = "header" /\ head.reason = "none"
      BY DEF HeaderLine
    <2> HIDE DEF head
    <2>6. Fits(opened.lines, head)
      BY <2>5 DEF Fits, Follows, Moment
    <2>7. Same(opened, headed)
      BY <2>3, WriteForm
    <2>8. /\ OnDisk(headed)
          /\ headed.recording # NoMatch =>
                 /\ headed.recording = id /\ headed.fileOf = id
                 /\ ~headed.torn /\ headed.lines # <<>>
                 /\ headed.lines[Len(headed.lines)] = IF opened.torn THEN Malformed ELSE head
      BY <2>3, <2>4, <2>6, WriteOnDisk
    <2> HIDE DEF headed
    <2>9. Shaped(headed) /\ headed.facts = EmptyState
      BY <2>3, <2>7 DEF Same
    <2>10. Moment(key) /\ key.reason = "open" /\ key.facts = EmptyState
      BY <2>9 DEF KeyframeLine, Moment
    <2> HIDE DEF key
    <2>11. Shaped(keyed)
      BY <2>9, WriteForm DEF Same
    <2>12. Filed(keyed)
      <3>1. CASE headed.recording = NoMatch
        <4>1. keyed = headed
          BY <3>1 DEF Write
        <4>2. QED
          BY <2>8, <3>1, <4>1 DEF Filed
      <3>2. CASE headed.recording # NoMatch
        <4>1. Fits(headed.lines, key)
          BY <2>5, <2>8, <2>10, <3>2, MalformedForm DEF Fits, Follows
        <4>2. /\ OnDisk(keyed)
              /\ keyed.recording # NoMatch =>
                     /\ keyed.recording = headed.recording /\ keyed.fileOf = headed.fileOf
                     /\ ~keyed.torn /\ keyed.lines # <<>>
                     /\ keyed.lines[Len(keyed.lines)] =
                            IF headed.torn THEN Malformed ELSE key
          BY <2>8, <2>9, <4>1, WriteOnDisk
        <4> HIDE DEF keyed
        <4>3. QED
          BY <2>8, <2>10, <3>2, <4>2 DEF Filed
      <3>3. QED
        BY <3>1, <3>2
    <2> HIDE DEF keyed, r
    <2>13. /\ r.torn = keyed.torn /\ r.lines = keyed.lines
           /\ r.recording = keyed.recording /\ r.fileOf = keyed.fileOf
      BY <2>2, <2>11 DEF Shaped, Keys
    <2>14. QED
      BY <2>12, <2>13 DEF Filed, OnDisk, r
  <1>7. QED
    BY <1>4, <1>5, <1>6

LEMMA RecordFiles ==
    ASSUME NEW s, Shaped(s), Filed(s), NEW o, NEW now_
    PROVE  Filed(Record(s, o, now_))
  <1> DEFINE line == ObservationLine(s, o, now_)
             w == Write(s, line)
  <1>1. Shaped(w)
    BY WriteForm DEF Same
  <1>2. Filed(w)
    <2>1. Moment(line) /\ line.reason # "open"
      BY DEF ObservationLine, Moment
    <2> HIDE DEF line
    <2>2. QED
      BY <2>1, WriteFiles
  <1>3. Record(s, o, now_) = WriteKeyframe(w, now_, "interval") \/ Record(s, o, now_) = w
    BY DEF Record
  <1> HIDE DEF w
  <1>4. QED
    BY <1>1, <1>2, <1>3, WriteKeyframeFiles

\* The file depends on four fields of the subsystem.
LEMMA SameFile ==
    ASSUME NEW s, Filed(s), NEW r, r.torn = s.torn, r.lines = s.lines,
           r.recording = s.recording, r.fileOf = s.fileOf
    PROVE  Filed(r)
  BY DEF Filed, OnDisk

LEMMA ResetFiles ==
    ASSUME NEW s, Shaped(s), Filed(s)
    PROVE  Filed(ResetWorld(s)) /\ Shaped(ResetWorld(s))
  <1> DEFINE r == ResetWorld(s)
  <1>1. r = [s EXCEPT !.facts = EmptyState]
    BY DEF ResetWorld
  <1> HIDE DEF r
  <1>2. /\ DOMAIN r = Keys /\ r.torn = s.torn /\ r.lines = s.lines
        /\ r.recording = s.recording /\ r.fileOf = s.fileOf
    BY <1>1 DEF Shaped, Keys
  <1>3. QED
    BY <1>2, SameFile DEF Shaped, r

LEMMA StartedFiles ==
    ASSUME NEW s, Shaped(s), Filed(s), NEW id \in Matches, NEW at, NEW refused
    PROVE  Filed(Started(s, id, at, refused))
  <1> DEFINE named == [s EXCEPT !.matchId = id]
             reset == ResetWorld(named)
             opened == OpenRecording(reset, id, at, refused)
             r == Started(s, id, at, refused)
  <1>1. /\ DOMAIN named = Keys /\ named.torn = s.torn /\ named.lines = s.lines
        /\ named.recording = s.recording /\ named.fileOf = s.fileOf
    BY DEF Shaped, Keys
  <1>2. reset = [named EXCEPT !.facts = EmptyState]
    BY DEF ResetWorld
  <1>3. r = [opened EXCEPT !.shell = id]
    BY DEF Started
  <1> HIDE DEF named, reset
  <1>4. /\ Shaped(reset) /\ reset.facts = EmptyState /\ reset.torn = s.torn
        /\ reset.lines = s.lines /\ reset.recording = s.recording /\ reset.fileOf = s.fileOf
    BY <1>1, <1>2 DEF Shaped, Keys
  <1>5. Filed(reset)
    BY <1>4, SameFile
  <1>6. Shaped(opened) /\ Filed(opened)
    BY <1>4, <1>5, OpenForm, OpenFiles DEF Same
  <1> HIDE DEF opened, r
  <1>7. /\ r.torn = opened.torn /\ r.lines = opened.lines
        /\ r.recording = opened.recording /\ r.fileOf = opened.fileOf
    BY <1>3, <1>6 DEF Shaped, Keys
  <1>8. QED
    BY <1>6, <1>7, SameFile DEF r

LEMMA EndedFiles ==
    ASSUME NEW s, Shaped(s), Filed(s), NEW at
    PROVE  Filed(Ended(s, at))
  <1> DEFINE ended == [s EXCEPT !.matchId = NoMatch]
             closed == CloseRecording(ended, at, "match_ended")
             r == Ended(s, at)
  <1>1. /\ Shaped(ended) /\ ended.torn = s.torn /\ ended.lines = s.lines
        /\ ended.recording = s.recording /\ ended.fileOf = s.fileOf
    BY DEF Shaped, Keys
  <1>2. r = [closed EXCEPT !.shell = NoMatch]
    BY DEF Ended
  <1> HIDE DEF ended
  <1>3. Filed(ended)
    BY <1>1, SameFile
  <1>4. Shaped(closed) /\ Filed(closed)
    BY <1>1, <1>3, CloseForm, CloseFiles DEF Same
  <1> HIDE DEF closed, r
  <1>5. /\ r.torn = closed.torn /\ r.lines = closed.lines
        /\ r.recording = closed.recording /\ r.fileOf = closed.fileOf
    BY <1>2, <1>4 DEF Shaped, Keys
  <1>6. QED
    BY <1>4, <1>5, SameFile DEF r

LEMMA TurnedFiles ==
    ASSUME NEW s, Shaped(s), Filed(s), NEW edge
    PROVE  Filed(Turned(s, edge))
  <1>1. CASE edge = "none"
    BY <1>1 DEF Turned
  <1>2. CASE edge # "none"
    <2> DEFINE r == Turned(s, edge)
    <2>1. r = [s EXCEPT !.paused = (edge = "paused")]
      BY <1>2 DEF Turned
    <2> HIDE DEF r
    <2>2. /\ r.torn = s.torn /\ r.lines = s.lines
          /\ r.recording = s.recording /\ r.fileOf = s.fileOf
      BY <2>1 DEF Shaped, Keys
    <2>3. QED
      BY <2>2, SameFile DEF r
  <1>3. QED
    BY <1>1, <1>2

LEMMA ResyncFiles ==
    ASSUME NEW s, Shaped(s), Filed(s), NEW at
    PROVE  Filed(Resync(s, at))
  <1> DEFINE reset == ResetWorld(s)
  <1>1. Shaped(reset) /\ Filed(reset)
    BY ResetFiles
  <1>2. Resync(s, at) = IF reset.recording = NoMatch THEN reset
                        ELSE WriteKeyframe(reset, at, "clock_discontinuity")
    BY DEF Resync, Keyframe
  <1> HIDE DEF reset
  <1>3. QED
    BY <1>1, <1>2, WriteKeyframeFiles

LEMMA LifecycleFiles ==
    ASSUME NEW s, Agrees(s), Filed(s), NEW e, e.started \in MatchOrNone, NEW at, NEW refused
    PROVE  Filed(OnLifecycle(s, e, at, refused))
  <1> DEFINE s1 == IF e.superseded THEN Ended(s, at) ELSE s
             s2 == IF e.started # NoMatch THEN Started(s1, e.started, at, refused) ELSE s1
             s3 == IF e.over THEN Ended(s2, at) ELSE s2
             s4 == Turned(s3, e.turned)
             r == IF e.jumped THEN Resync(s4, at) ELSE s4
  <1>1. Agrees(s1) /\ Filed(s1)
    BY EndedForm, EndedFiles DEF Agrees
  <1> HIDE DEF s1
  <1>2. Agrees(s2) /\ Filed(s2)
    <2>1. CASE e.started = NoMatch
      BY <1>1, <2>1
    <2>2. CASE e.started # NoMatch
      <3>1. e.started \in Matches
        BY <2>2 DEF MatchOrNone
      <3>2. QED
        BY <1>1, <2>2, <3>1, StartedForm, StartedFiles DEF Agrees
    <2>3. QED
      BY <2>1, <2>2
  <1> HIDE DEF s2
  <1>3. Agrees(s3) /\ Filed(s3)
    BY <1>2, EndedForm, EndedFiles DEF Agrees
  <1> HIDE DEF s3
  <1>4. Agrees(s4) /\ Filed(s4)
    BY <1>3, TurnedForm, TurnedFiles DEF Agrees
  <1> HIDE DEF s4
  <1>5. Filed(r)
    BY <1>4, ResyncFiles DEF Agrees
  <1>6. r = OnLifecycle(s, e, at, refused)
    BY DEF OnLifecycle, s1, s2, s3, s4
  <1> HIDE DEF r
  <1>7. QED
    BY <1>5, <1>6

LEMMA ObservationFiles ==
    ASSUME NEW s, Shaped(s), Filed(s), NEW o, NEW at
    PROVE  Filed(OnObservation(s, o, at))
  <1> DEFINE f == [s EXCEPT !.facts = Fuse(@, o, at)]
  <1>1. /\ Shaped(f) /\ f.torn = s.torn /\ f.lines = s.lines
        /\ f.recording = s.recording /\ f.fileOf = s.fileOf
    BY DEF Shaped, Keys
  <1>2. OnObservation(s, o, at) = Record(f, o, at)
    BY DEF OnObservation
  <1> HIDE DEF f
  <1>3. QED
    BY <1>1, <1>2, SameFile, RecordFiles

FileKept == Filed(d)

LEMMA InitFiled == Init => Filed(d)
  <1> SUFFICES ASSUME Init PROVE Filed(d)
    OBVIOUS
  <1>1. PICK disk \in Disks : d = FreshSubsystem(NoMatch, <<>>, <<>>, FALSE, disk)
    BY DEF Init
  <1>2. ~d.torn /\ d.lines = <<>> /\ d.recording = NoMatch
    BY <1>1 DEF FreshSubsystem
  <1>3. IsLines(<<>>)
    <2>1. <<>> \in Seq({})
      OBVIOUS
    <2>2. QED
      BY <2>1 DEF IsLines
  <1>4. QED
    BY <1>2, <1>3 DEF Filed, OnDisk, Anchored

LEMMA NextFiled ==
    ASSUME IInv, Filed(d), [Next]_matchVars
    PROVE  Filed(d')
  <1>1. CASE PostSnapshot
    <2>1. PICK refused \in BOOLEAN :
             LET map == [match |-> game.match, state |-> game.state,
                         paused |-> game.pause = "now",
                         clocked |-> game.state # "hero_selection", clock |-> game.clock]
             IN  d' = OnObservation(OnLifecycle(d, EdgesOf(tracker, map, now), now, refused),
                                    Payload, now)
      BY <1>1 DEF PostSnapshot
    <2> DEFINE map == [match |-> game.match, state |-> game.state,
                       paused |-> game.pause = "now",
                       clocked |-> game.state # "hero_selection", clock |-> game.clock]
               edges == EdgesOf(tracker, map, now)
    <2>2. game.match \in MatchOrNone
      BY DEF IInv, GameSound
    <2>3. edges.started \in MatchOrNone
      BY <2>2 DEF EdgesOf, MatchOrNone
    <2>4. d' = OnObservation(OnLifecycle(d, edges, now, refused), Payload, now)
      BY <2>1
    <2> HIDE DEF edges
    <2>5. Agrees(d)
      BY <1>1 DEF PostSnapshot, IInv, MatchSound
    <2>6. /\ Filed(OnLifecycle(d, edges, now, refused))
          /\ Shaped(OnLifecycle(d, edges, now, refused))
      BY <2>3, <2>5, LifecycleForm, LifecycleFiles DEF Agrees
    <2>7. QED
      BY <2>4, <2>6, ObservationFiles
  <1>2. CASE LogEvent
    BY <1>2, ObservationFiles DEF LogEvent, IInv, MatchSound, Agrees
  <1>3. CASE Detections
    BY <1>3, ObservationFiles DEF Detections, IInv, MatchSound, Agrees
  <1>4. CASE Stop
    <2> DEFINE s == [d EXCEPT !.shell = NoMatch]
               c == CloseRecording(s, now, "shutdown")
    <2>1. d' = ResetWorld(c) /\ Shaped(d)
      BY <1>4 DEF Stop, IInv, MatchSound, Agrees
    <2>2. /\ Shaped(s) /\ s.torn = d.torn /\ s.lines = d.lines
          /\ s.recording = d.recording /\ s.fileOf = d.fileOf
      BY <2>1 DEF Shaped, Keys
    <2> HIDE DEF s
    <2>3. Filed(s)
      BY <2>2, SameFile
    <2>4. Shaped(c) /\ Filed(c)
      BY <2>2, <2>3, CloseForm, CloseFiles DEF Same
    <2> HIDE DEF c
    <2>5. QED
      BY <2>1, <2>4, ResetFiles
  <1>5. CASE Restart
    <2>1. d' = FreshSubsystem(d.fileOf, d.lines, d.lived, d.torn, d.disk)
      BY <1>5 DEF Restart
    <2>2. d'.torn = d.torn /\ d'.lines = d.lines /\ d'.recording = NoMatch
      BY <2>1 DEF FreshSubsystem
    <2>3. QED
      BY <2>2 DEF Filed, OnDisk
  <1>6. CASE Tick \/ GameStep \/ UNCHANGED matchVars
    BY <1>6 DEF Tick, GameStep, matchVars
  <1>7. QED
    BY <1>1, <1>2, <1>3, <1>4, <1>5, <1>6 DEF Next

\* The recording in progress is in the file of its match, and every moment in the file
\* leads back to an opening keyframe of the empty model: for every disk, whatever breaks
\* and whatever is left of it, every death in a write, every refusal to open and any
\* number of processes that append to the file of one match.
\* (recorder.ts:174-206, file-sink.ts:62-68)
THEOREM AnchorHolds == Spec => []RecordIsAnchored
  <1>1. Init => FileKept
    BY InitFiled DEF FileKept
  <1>2. IInv /\ FileKept /\ [Next]_matchVars => FileKept'
    BY NextFiled DEF FileKept
  <1>3. FileKept => RecordIsAnchored
    <2> SUFFICES ASSUME FileKept
                 PROVE  RecordIsAnchored
      OBVIOUS
    <2>1. /\ d.recording # NoMatch => d.fileOf = d.recording /\ d.lines # <<>>
          /\ Anchored(d.lines) /\ IsLines(d.lines)
      BY DEF FileKept, Filed, OnDisk
    <2>2. Len(d.lines) \in Nat
      BY <2>1 DEF IsLines
    <2>3. ASSUME NEW i \in 1 .. Len(d.lines)
          PROVE  IF d.lines[i].reason = "open"
                 THEN /\ d.lines[i].facts = EmptyState
                      /\ i > 1 /\ d.lines[i - 1].kind \in {"header", "malformed"}
                 ELSE Moment(d.lines[i]) => i > 1 /\ Moment(d.lines[i - 1])
      <3>1. i # 1 => i > 1
        BY <2>2
      <3>2. QED
        BY <2>1, <3>1 DEF Anchored, Follows
    <2>4. QED
      BY <2>1, <2>3 DEF RecordIsAnchored
  <1>4. QED
    BY <1>1, <1>2, <1>3, InvariantHolds, PTL DEF Spec

-----------------------------------------------------------------------------
(***************************************************************************)
(* The reader.  Its loops are recursive functions: each is first shown to  *)
(* have one, by an induction on numbers that LeastOf and AllNumbers stand  *)
(* for, and is then used through the equation that its loop gives.         *)
(***************************************************************************)
\* A set of numbers has a least one: what an induction on numbers comes to.
LEMMA LeastOf ==
    ASSUME NEW T, T \subseteq Nat, T # {}
    PROVE  \E x \in T : \A y \in T : x <= y
  <1> DEFINE R == {ss \in Nat \X Nat : ss[1] < ss[2]}
  <1>1. IsWellFoundedOn(R, Nat)
    BY NatLessThanWellFounded DEF OpToRel
  <1> HIDE DEF R
  <1>2. PICK x \in T : \A y \in T : ~(<<y, x>> \in R)
    BY <1>1, WFMin
  <1>3. ASSUME NEW y \in T PROVE x <= y
    <2>1. x \in Nat /\ y \in Nat
      OBVIOUS
    <2>2. y < x => <<y, x>> \in R
      BY <2>1 DEF R
    <2>3. QED
      BY <1>2, <2>1, <2>2
  <1>4. QED
    BY <1>3

\* A set that holds 0, and with a number the next, holds all.
LEMMA AllNumbers ==
    ASSUME NEW S, 0 \in S, \A n \in Nat : n \in S => n + 1 \in S
    PROVE  Nat \subseteq S
  <1> DEFINE T == {n \in Nat : n \notin S}
  <1>1. ASSUME T # {} PROVE FALSE
    <2>1. PICK x \in T : \A y \in T : x <= y
      BY <1>1, LeastOf
    <2>2. x \in Nat /\ x # 0 /\ x \notin S
      BY <2>1
    <2>3. x - 1 \in Nat /\ (x - 1) + 1 = x /\ ~(x <= x - 1)
      BY <2>2
    <2>4. x - 1 \in S
      BY <2>1, <2>3
    <2>5. QED
      BY <2>2, <2>3, <2>4
  <1>2. QED
    BY <1>1

\* The indices of a kind of lines: the loop that collects them does.
IndicesStep(lines, kinds, g, k) ==
    IF k = 0 THEN <<>>
    ELSE IF lines[k].kind \in kinds THEN Append(g[k - 1], k)
    ELSE g[k - 1]

LEMMA IndicesUnfold ==
    ASSUME NEW lines, Len(lines) \in Nat, NEW kinds
    PROVE  \E g : /\ g = [k \in 0 .. Len(lines) |-> IndicesStep(lines, kinds, g, k)]
                  /\ IndicesOf(lines, kinds) = g[Len(lines)]
  <1> DEFINE n == Len(lines)
             Sound(g, m) == /\ DOMAIN g = 0 .. n
                            /\ \A k \in 0 .. n : k <= m => g[k] = IndicesStep(lines, kinds, g, k)
             S == {m \in Nat : \E g : Sound(g, m)}
  <1>1. 0 \in S
    <2> DEFINE g == [k \in 0 .. n |-> <<>>]
    <2>1. Sound(g, 0)
      BY DEF IndicesStep
    <2>2. QED
      BY <2>1
  <1>2. ASSUME NEW m \in Nat, m \in S
        PROVE  m + 1 \in S
    <2>1. PICK g : Sound(g, m)
      BY <1>2
    <2> DEFINE h == [k \in 0 .. n |-> IF k <= m THEN g[k] ELSE IndicesStep(lines, kinds, g, k)]
    <2>2. ASSUME NEW k \in 0 .. n, k <= m + 1
          PROVE  h[k] = IndicesStep(lines, kinds, h, k)
      <3>1. h[k] = IndicesStep(lines, kinds, g, k)
        BY <2>1
      <3>2. k # 0 => k - 1 \in 0 .. n /\ k - 1 <= m
        BY <2>2
      <3>3. k # 0 => h[k - 1] = g[k - 1]
        BY <3>2
      <3>4. QED
        BY <3>1, <3>3 DEF IndicesStep
    <2>3. Sound(h, m + 1)
      BY <2>2
    <2> HIDE DEF h, Sound
    <2>4. QED
      BY <2>3
  <1>3. n \in S
    <2> HIDE DEF S
    <2>1. QED
      BY <1>1, <1>2, AllNumbers
  <1>4. PICK g : Sound(g, n)
    BY <1>3
  <1>5. g = [k \in 0 .. n |-> IndicesStep(lines, kinds, g, k)]
    BY <1>4
  <1>6. QED
    BY <1>5 DEF IndicesOf, IndicesStep

\* Of the first m lines exactly those of the kind, in their order.
Collected(q, lines, kinds, m) ==
    /\ q \in Seq(Nat)
    /\ \A k \in 1 .. Len(q) : q[k] \in 1 .. m /\ lines[q[k]].kind \in kinds
    /\ \A k, l \in 1 .. Len(q) : k < l => q[k] < q[l]
    /\ \A i \in 1 .. m : lines[i].kind \in kinds => \E k \in 1 .. Len(q) : q[k] = i

LEMMA CollectedGrows ==
    ASSUME NEW q, NEW lines, NEW kinds, NEW m \in Nat, Collected(q, lines, kinds, m)
    PROVE  /\ lines[m + 1].kind \in kinds => Collected(Append(q, m + 1), lines, kinds, m + 1)
           /\ lines[m + 1].kind \notin kinds => Collected(q, lines, kinds, m + 1)
  <1>1. ASSUME lines[m + 1].kind \in kinds
        PROVE  Collected(Append(q, m + 1), lines, kinds, m + 1)
    <2> DEFINE r == Append(q, m + 1)
    <2>1. /\ r \in Seq(Nat) /\ Len(q) \in Nat /\ Len(r) = Len(q) + 1
          /\ r[Len(q) + 1] = m + 1
          /\ \A k \in 1 .. Len(q) : r[k] = q[k]
      BY DEF Collected
    <2>2. ASSUME NEW k \in 1 .. Len(r)
          PROVE  r[k] \in 1 .. m + 1 /\ lines[r[k]].kind \in kinds
      <3>1. CASE k = Len(q) + 1
        BY <1>1, <2>1, <3>1
      <3>2. CASE k # Len(q) + 1
        <4>1. k \in 1 .. Len(q)
          BY <2>1, <3>2
        <4>2. QED
          BY <2>1, <4>1 DEF Collected
      <3>3. QED
        BY <3>1, <3>2
    <2>3. ASSUME NEW k \in 1 .. Len(r), NEW l \in 1 .. Len(r), k < l
          PROVE  r[k] < r[l]
      <3>1. k \in 1 .. Len(q) /\ r[k] = q[k] /\ q[k] \in 1 .. m
        BY <2>1, <2>3 DEF Collected
      <3>2. CASE l = Len(q) + 1
        BY <2>1, <3>1, <3>2
      <3>3. CASE l # Len(q) + 1
        <4>1. l \in 1 .. Len(q) /\ r[l] = q[l]
          BY <2>1, <3>3
        <4>2. QED
          BY <2>3, <3>1, <4>1 DEF Collected
      <3>4. QED
        BY <3>2, <3>3
    <2>4. ASSUME NEW i \in 1 .. m + 1, lines[i].kind \in kinds
          PROVE  \E k \in 1 .. Len(r) : r[k] = i
      <3>1. CASE i = m + 1
        BY <2>1, <3>1
      <3>2. CASE i # m + 1
        <4>1. i \in 1 .. m
          BY <3>2
        <4>2. PICK k \in 1 .. Len(q) : q[k] = i
          BY <2>4, <4>1 DEF Collected
        <4>3. k \in 1 .. Len(r) /\ r[k] = i
          BY <2>1, <4>2
        <4>4. QED
          BY <4>3
      <3>3. QED
        BY <3>1, <3>2
    <2> HIDE DEF r
    <2>5. Collected(r, lines, kinds, m + 1)
      BY <2>1, <2>2, <2>3, <2>4 DEF Collected
    <2>6. QED
      BY <2>5 DEF r
  <1>2. ASSUME lines[m + 1].kind \notin kinds
        PROVE  Collected(q, lines, kinds, m + 1)
    <2>1. \A k \in 1 .. Len(q) : q[k] \in 1 .. m + 1 /\ lines[q[k]].kind \in kinds
      BY DEF Collected
    <2>2. ASSUME NEW i \in 1 .. m + 1, lines[i].kind \in kinds
          PROVE  \E k \in 1 .. Len(q) : q[k] = i
      <3>1. i \in 1 .. m
        BY <1>2, <2>2
      <3>2. QED
        BY <2>2, <3>1 DEF Collected
    <2>3. QED
      BY <2>1, <2>2 DEF Collected
  <1>3. QED
    BY <1>1, <1>2

LEMMA IndicesAre ==
    ASSUME NEW lines, Len(lines) \in Nat, NEW kinds
    PROVE  Collected(IndicesOf(lines, kinds), lines, kinds, Len(lines))
  <1> DEFINE n == Len(lines)
  <1>1. PICK g : /\ g = [k \in 0 .. n |-> IndicesStep(lines, kinds, g, k)]
                 /\ IndicesOf(lines, kinds) = g[n]
    BY IndicesUnfold
  <1>2. g[0] = <<>> /\ \A k \in 1 .. n : g[k] = IndicesStep(lines, kinds, g, k)
    <2>1. \A k \in 0 .. n : g[k] = IndicesStep(lines, kinds, g, k)
      BY <1>1
    <2>2. QED
      BY <2>1 DEF IndicesStep
  <1> DEFINE S == {m \in Nat : m <= n => Collected(g[m], lines, kinds, m)}
  <1>3. 0 \in S
    <2>1. Collected(<<>>, lines, kinds, 0)
      BY DEF Collected
    <2>2. QED
      BY <1>2, <2>1
  <1>4. ASSUME NEW m \in Nat, m \in S
        PROVE  m + 1 \in S
    <2>1. SUFFICES ASSUME m + 1 <= n PROVE Collected(g[m + 1], lines, kinds, m + 1)
      OBVIOUS
    <2>2. Collected(g[m], lines, kinds, m)
      BY <1>4, <2>1
    <2>3. g[m + 1] = IF lines[m + 1].kind \in kinds THEN Append(g[m], m + 1) ELSE g[m]
      <3> DEFINE j == m + 1
      <3>1. j \in 1 .. n /\ j # 0 /\ j - 1 = m
        BY <2>1
      <3> HIDE DEF j
      <3>2. g[j] = IF lines[j].kind \in kinds THEN Append(g[m], j) ELSE g[m]
        BY <1>2, <3>1 DEF IndicesStep
      <3>3. QED
        BY <3>2 DEF j
    <2>4. QED
      BY <2>2, <2>3, CollectedGrows
  <1>5. n \in S
    <2> HIDE DEF S
    <2>1. QED
      BY <1>3, <1>4, AllNumbers
  <1>6. QED
    BY <1>1, <1>5

Spans(n) == [low : 1 .. n + 1, high : 0 .. n, found : 0 .. n]

\* One look of the binary search, given what the rest of it finds.
Middle(s) == (s.low + s.high) \div 2

Above(s) == [s EXCEPT !.low = Middle(s) + 1, !.found = Middle(s)]

Below(s) == [s EXCEPT !.high = Middle(s) - 1]

Look(holds, g, s) ==
    IF s.low > s.high THEN s.found
    ELSE IF holds[Middle(s)] THEN g[Above(s)]
    ELSE g[Below(s)]

\* The looks that are left are at shorter spans.
LEMMA SpanHalves ==
    ASSUME NEW n \in Nat, NEW s \in Spans(n), s.low <= s.high
    PROVE  /\ Middle(s) \in 1 .. n /\ s.low <= Middle(s) /\ Middle(s) <= s.high
           /\ Above(s) \in Spans(n) /\ Above(s).low = Middle(s) + 1
           /\ Above(s).high = s.high /\ Above(s).found = Middle(s)
           /\ Below(s) \in Spans(n) /\ Below(s).low = s.low
           /\ Below(s).high = Middle(s) - 1 /\ Below(s).found = s.found
  <1>1. s.low \in 1 .. n + 1 /\ s.high \in 0 .. n /\ s.found \in 0 .. n
    BY DEF Spans
  <1>2. Middle(s) \in 1 .. n /\ s.low <= Middle(s) /\ Middle(s) <= s.high
    BY <1>1 DEF Middle
  <1> DEFINE mid == Middle(s)
  <1>3. mid + 1 \in 1 .. n + 1 /\ mid \in 0 .. n /\ mid - 1 \in 0 .. n
    BY <1>2
  <1>4. Above(s) = [s EXCEPT !.low = mid + 1, !.found = mid]
    BY DEF Above
  <1>5. Below(s) = [s EXCEPT !.high = mid - 1]
    BY DEF Below
  <1> HIDE DEF mid
  <1>6. /\ Above(s) \in Spans(n) /\ Above(s).low = mid + 1
        /\ Above(s).high = s.high /\ Above(s).found = mid
    BY <1>3, <1>4 DEF Spans
  <1>7. /\ Below(s) \in Spans(n) /\ Below(s).low = s.low
        /\ Below(s).high = mid - 1 /\ Below(s).found = s.found
    BY <1>3, <1>5 DEF Spans
  <1>8. QED
    BY <1>2, <1>6, <1>7 DEF mid

LEMMA SearchUnfold ==
    ASSUME NEW holds, Len(holds) \in Nat
    PROVE  \E g : /\ \A s \in Spans(Len(holds)) : g[s] = Look(holds, g, s)
                  /\ LastWhere(holds) = g[[low |-> 1, high |-> Len(holds), found |-> 0]]
  <1> DEFINE n == Len(holds)
             Sound(g, m) ==
                /\ DOMAIN g = Spans(n)
                /\ g = [s \in Spans(n) |-> g[s]]
                /\ \A s \in Spans(n) : s.high < s.low + m => g[s] = Look(holds, g, s)
             S == {m \in Nat : \E g : Sound(g, m)}
  <1>1. 0 \in S
    <2> DEFINE g == [s \in Spans(n) |-> s.found]
    <2>1. Sound(g, 0)
      <3>1. \A s \in Spans(n) : s.high < s.low + 0 => g[s] = Look(holds, g, s)
        BY DEF Look, Spans
      <3>2. QED
        BY <3>1
    <2> HIDE DEF g, Sound
    <2>2. QED
      BY <2>1
  <1>2. ASSUME NEW m \in Nat, m \in S
        PROVE  m + 1 \in S
    <2>1. PICK g : Sound(g, m)
      BY <1>2
    <2> DEFINE h == [s \in Spans(n) |->
                        IF s.high < s.low + m THEN g[s] ELSE Look(holds, g, s)]
    <2>2. \A s \in Spans(n) : h[s] = Look(holds, g, s)
      BY <2>1
    <2>3. \A s \in Spans(n) : s.high < s.low + m => h[s] = g[s]
      OBVIOUS
    <2>4. DOMAIN h = Spans(n) /\ h = [s \in Spans(n) |-> h[s]]
      OBVIOUS
    <2> HIDE DEF h
    <2>5. ASSUME NEW s \in Spans(n), s.high < s.low + (m + 1)
          PROVE  h[s] = Look(holds, h, s)
      <3>1. CASE s.low > s.high
        BY <2>2, <3>1 DEF Look
      <3>2. CASE s.low <= s.high
        <4>1. /\ Above(s) \in Spans(n) /\ Above(s).high < Above(s).low + m
              /\ Below(s) \in Spans(n) /\ Below(s).high < Below(s).low + m
          <5>1. s.low \in Nat /\ s.high \in Nat /\ Middle(s) \in Nat
            BY <3>2, SpanHalves DEF Spans
          <5>2. QED
            BY <2>5, <3>2, <5>1, SpanHalves
        <4>2. h[Above(s)] = g[Above(s)] /\ h[Below(s)] = g[Below(s)]
          BY <2>3, <4>1
        <4>3. QED
          BY <2>2, <4>2 DEF Look
      <3>3. s.low \in Int /\ s.high \in Int
        BY DEF Spans
      <3>4. QED
        BY <3>1, <3>2, <3>3
    <2>6. Sound(h, m + 1)
      BY <2>4, <2>5
    <2> HIDE DEF Sound
    <2>7. QED
      BY <2>6
  <1>3. n + 1 \in S
    <2> HIDE DEF S
    <2>1. QED
      BY <1>1, <1>2, AllNumbers
  <1>4. PICK g : Sound(g, n + 1)
    BY <1>3
  <1>5. g = [s \in Spans(n) |-> Look(holds, g, s)]
    <2>1. \A s \in Spans(n) : s.high < s.low + (n + 1)
      BY DEF Spans
    <2>2. QED
      BY <1>4, <2>1
  <1>6. QED
    BY <1>5 DEF LastWhere, Look, Spans, Middle, Above, Below

\* What holds does so up to some entry and not after it.
IsPrefix(holds) ==
    \A i, j \in 1 .. Len(holds) : i <= j /\ holds[j] => holds[i]

\* What the rest of a search finds, from where it stands.
Finds(holds, s, r) ==
    /\ r \in 0 .. Len(holds)
    /\ (s.found # 0 => holds[s.found]) => (r # 0 => holds[r])
    /\ (/\ IsPrefix(holds)
        /\ s.found = s.low - 1
        /\ \A j \in s.high + 1 .. Len(holds) : ~holds[j])
       => \A j \in r + 1 .. Len(holds) : ~holds[j]

LEMMA SearchFinds ==
    ASSUME NEW holds, Len(holds) \in Nat, NEW g,
           \A s \in Spans(Len(holds)) : g[s] = Look(holds, g, s)
    PROVE  \A s \in Spans(Len(holds)) : Finds(holds, s, g[s])
  <1> DEFINE n == Len(holds)
             S == {m \in Nat : \A s \in Spans(n) : s.high < s.low + m => Finds(holds, s, g[s])}
  <1>1. ASSUME NEW s \in Spans(n), s.high < s.low
        PROVE  Finds(holds, s, g[s])
    <2>1. g[s] = s.found /\ s.found \in 0 .. n /\ s.low \in 1 .. n + 1 /\ s.high \in 0 .. n
      BY <1>1 DEF Look, Spans
    <2>2. QED
      BY <1>1, <2>1 DEF Finds
  <1>2. 0 \in S
    <2>1. \A s \in Spans(n) : s.high < s.low + 0 => s.high < s.low
      BY DEF Spans
    <2>2. QED
      BY <1>1, <2>1
  <1>3. ASSUME NEW m \in Nat, m \in S
        PROVE  m + 1 \in S
    <2>1. SUFFICES ASSUME NEW s \in Spans(n), s.high < s.low + (m + 1)
                   PROVE  Finds(holds, s, g[s])
      OBVIOUS
    <2>2. s.low \in 1 .. n + 1 /\ s.high \in 0 .. n /\ s.found \in 0 .. n
      BY DEF Spans
    <2>3. CASE s.low > s.high
      BY <1>1, <2>2, <2>3
    <2>4. CASE s.low <= s.high
      <3> DEFINE mid == Middle(s)
                 a == Above(s)
                 b == Below(s)
      <3>1. /\ mid \in 1 .. n /\ s.low <= mid /\ mid <= s.high
            /\ a \in Spans(n) /\ a.low = mid + 1 /\ a.high = s.high /\ a.found = mid
            /\ b \in Spans(n) /\ b.low = s.low /\ b.high = mid - 1 /\ b.found = s.found
        BY <2>4, SpanHalves
      <3>2. g[s] = IF holds[mid] THEN g[a] ELSE g[b]
        BY <2>2, <2>4 DEF Look
      <3> HIDE DEF mid, a, b
      <3>3. Finds(holds, a, g[a]) /\ Finds(holds, b, g[b])
        <4>1. a.high < a.low + m /\ b.high < b.low + m
          BY <2>1, <2>2, <3>1
        <4>2. QED
          BY <1>3, <3>1, <4>1
      <3>4. CASE holds[mid]
        <4>1. g[s] = g[a]
          BY <3>2, <3>4
        <4>2. a.found # 0 /\ holds[a.found] /\ a.found = a.low - 1
          BY <3>1, <3>4
        <4>3. QED
          BY <3>1, <3>3, <4>1, <4>2 DEF Finds
      <3>5. CASE ~holds[mid]
        <4>1. g[s] = g[b]
          BY <3>2, <3>5
        <4>2. ASSUME IsPrefix(holds)
              PROVE  \A j \in b.high + 1 .. n : ~holds[j]
          <5>1. \A j \in mid .. n : j \in 1 .. n /\ mid <= j
            BY <3>1
          <5>2. QED
            BY <3>1, <3>5, <4>2, <5>1 DEF IsPrefix
        <4>3. QED
          BY <3>1, <3>3, <4>1, <4>2 DEF Finds
      <3>6. QED
        BY <3>4, <3>5
    <2>5. QED
      BY <2>2, <2>3, <2>4
  <1>4. n + 1 \in S
    <2> HIDE DEF S
    <2>1. QED
      BY <1>2, <1>3, AllNumbers
  <1>5. \A s \in Spans(n) : s.high < s.low + (n + 1)
    BY DEF Spans
  <1>6. QED
    BY <1>4, <1>5

\* The binary search of the timeline finds an entry that holds, and when what holds is
\* a prefix it finds the last: for every number of entries.  (reader.ts:374-389)
THEOREM SearchFindsLast ==
    ASSUME NEW holds, Len(holds) \in Nat
    PROVE  /\ LastWhere(holds) \in 0 .. Len(holds)
           /\ LastWhere(holds) # 0 => holds[LastWhere(holds)]
           /\ IsPrefix(holds) => \A j \in LastWhere(holds) + 1 .. Len(holds) : ~holds[j]
  <1> DEFINE n == Len(holds)
             whole == [low |-> 1, high |-> n, found |-> 0]
  <1>1. PICK g : /\ \A s \in Spans(n) : g[s] = Look(holds, g, s)
                 /\ LastWhere(holds) = g[whole]
    BY SearchUnfold
  <1>2. whole \in Spans(n) /\ whole.low = 1 /\ whole.high = n /\ whole.found = 0
    BY DEF Spans
  <1> HIDE DEF whole
  <1>3. Finds(holds, whole, LastWhere(holds))
    BY <1>1, <1>2, SearchFinds
  <1>4. QED
    BY <1>2, <1>3 DEF Finds

-----------------------------------------------------------------------------
(***************************************************************************)
(* What the file tells.  Along the lines of its first opening, the model   *)
(* at a line is the model at the line before, changed by the line; the     *)
(* recorder's clock is the file's; and while a recording goes on, the      *)
(* model is the one of its last line.                                      *)
(***************************************************************************)
\* The model at line k, given what it was at the line before.
Relived(line, startedAt, facts) ==
    IF Is("observation", line) THEN Fuse(facts, line.o, startedAt + line.atMs) ELSE facts

Chained(lines, lived, n) ==
    \A k \in 2 .. n :
        lines[k].reason # "clock_discontinuity" =>
            lived[k] = Relived(lines[k], lines[1].startedAt, lived[k - 1])

Timed(lines, n) ==
    /\ \A k \in 1 .. n : lines[k].atMs \in Int
    /\ \A k, l \in 1 .. n : k <= l => lines[k].atMs <= lines[l].atMs

Told(lines, lived) ==
    /\ IsLines(lines) /\ IsLines(lived) /\ Len(lived) = Len(lines)
    /\ \A k \in 1 .. Len(lines) : lines[k].kind = "keyframe" => lines[k].facts = lived[k]
    /\ \A n \in 1 .. Len(lines) :
           Sole(lines, n) =>
               lived[1] = EmptyState /\ Chained(lines, lived, n) /\ Timed(lines, n)

Live(s, at) ==
    s.recording # NoMatch =>
        /\ s.lines # <<>> /\ s.startedAt \in Nat
        /\ Sole(s.lines, Len(s.lines)) =>
               /\ s.lines[1].startedAt = s.startedAt
               /\ s.lines[Len(s.lines)].atMs <= at - s.startedAt

Level(s) ==
    s.recording # NoMatch /\ Sole(s.lines, Len(s.lines)) => s.facts = s.lived[Len(s.lines)]

Retold(s, at) ==
    /\ Told(s.lines, s.lived) /\ Live(s, at) /\ Level(s)
    /\ s.torn => s.lines # <<>>

LEMMA EmptyForm == IsLines(<<>>) /\ Len(<<>>) = 0
  <1>1. <<>> \in Seq({})
    OBVIOUS
  <1>2. QED
    BY <1>1 DEF IsLines

LEMMA NothingTold == Told(<<>>, <<>>)
  BY EmptyForm DEF Told

\* q and p are l and m and this line.
Extends(q, p, l, m, line, facts) ==
    /\ IsLines(l) /\ IsLines(q) /\ IsLines(p) /\ q # <<>>
    /\ Len(l) \in Nat /\ Len(q) = Len(l) + 1 /\ Len(p) = Len(q)
    /\ q[Len(l) + 1] = line /\ p[Len(l) + 1] = facts
    /\ \A k \in 1 .. Len(l) : q[k] = l[k] /\ p[k] = m[k]

LEMMA AppendExtends ==
    ASSUME NEW lines, NEW lived, Told(lines, lived), NEW line, NEW facts
    PROVE  Extends(Append(lines, line), Append(lived, facts), lines, lived, line, facts)
  <1>1. IsLines(lines) /\ IsLines(lived) /\ Len(lived) = Len(lines)
    BY DEF Told
  <1>2. QED
    BY <1>1, AppendForm DEF Extends

\* The lines before the last are of one opening if they are with it, and no less so.
LEMMA SoleExtends ==
    ASSUME NEW q, NEW p, NEW l, NEW m, NEW line, NEW facts, Extends(q, p, l, m, line, facts),
           NEW n \in 1 .. Len(q), Sole(q, n)
    PROVE  /\ n # Len(l) + 1 => n \in 1 .. Len(l) /\ Sole(l, n)
           /\ n = Len(l) + 1 => /\ Sole(l, Len(l))
                                /\ Len(l) = 0 => line.kind = "header"
                                /\ Len(l) # 0 => Moment(line)
  <1>1. \A k \in 1 .. Len(l) : q[k] = l[k]
    BY DEF Extends
  <1>2. n # Len(l) + 1 => n \in 1 .. Len(l)
    BY DEF Extends
  <1>3. ASSUME NEW k \in 1 .. n, k <= Len(l)
        PROVE  IF k = 1 THEN Is("header", l[k]) ELSE Moment(l[k])
    BY <1>1, <1>3 DEF Sole, Extends
  <1>4. n = Len(l) + 1 =>
            IF n = 1 THEN Is("header", line) ELSE Moment(line)
    BY DEF Sole, Extends
  <1>5. n # Len(l) + 1 => Sole(l, n)
    BY <1>2, <1>3 DEF Sole
  <1>6. n = Len(l) + 1 => Sole(l, Len(l))
    <2> SUFFICES ASSUME n = Len(l) + 1, NEW k \in 1 .. Len(l)
                 PROVE  IF k = 1 THEN Is("header", l[k]) ELSE Moment(l[k])
      BY DEF Sole
    <2>1. k \in 1 .. n /\ k <= Len(l)
      BY DEF Extends
    <2>2. QED
      BY <1>3, <2>1
  <1>7. QED
    BY <1>2, <1>4, <1>5, <1>6 DEF Is, Extends

\* A line that follows from the model of the line before it, or that breaks off the
\* first opening, keeps the file true.
LEMMA TellGrows ==
    ASSUME NEW lines, NEW lived, Told(lines, lived), NEW line, NEW facts,
           NEW q, NEW p, Extends(q, p, lines, lived, line, facts),
           line.kind = "keyframe" => line.facts = facts,
           Len(lines) = 0 /\ line.kind = "header" =>
               facts = EmptyState /\ line.atMs \in Int,
           Len(lines) # 0 /\ Sole(lines, Len(lines)) /\ Moment(line) =>
               /\ line.reason # "clock_discontinuity" =>
                      facts = Relived(line, lines[1].startedAt, lived[Len(lines)])
               /\ line.atMs \in Int /\ lines[Len(lines)].atMs <= line.atMs
    PROVE  Told(q, p)
  <1> DEFINE n == Len(lines)
  <1>1. /\ IsLines(q) /\ n \in Nat /\ Len(q) = n + 1
        /\ q[n + 1] = line
        /\ \A k \in 1 .. n : q[k] = lines[k]
    BY DEF Extends
  <1>2. /\ IsLines(p) /\ Len(p) = n + 1 /\ p[n + 1] = facts
        /\ \A k \in 1 .. n : p[k] = lived[k]
    BY DEF Extends
  <1>3. ASSUME NEW k \in 1 .. Len(q), q[k].kind = "keyframe"
        PROVE  q[k].facts = p[k]
    <2>1. CASE k = n + 1
      BY <1>1, <1>2, <1>3, <2>1
    <2>2. CASE k # n + 1
      <3>1. k \in 1 .. n
        BY <1>1, <2>2
      <3>2. QED
        BY <1>1, <1>2, <1>3, <3>1 DEF Told
    <2>3. QED
      BY <2>1, <2>2
  <1>4. ASSUME NEW i \in 1 .. Len(q), Sole(q, i), i # n + 1
        PROVE  p[1] = EmptyState /\ Chained(q, p, i) /\ Timed(q, i)
    <2>1. i \in 1 .. n /\ Sole(lines, i)
      BY <1>4, SoleExtends
    <2>2. lived[1] = EmptyState /\ Chained(lines, lived, i) /\ Timed(lines, i)
      BY <2>1 DEF Told
    <2>3. p[1] = EmptyState
      BY <1>2, <2>1, <2>2
    <2>4. Chained(q, p, i)
      <3> SUFFICES ASSUME NEW k \in 2 .. i, q[k].reason # "clock_discontinuity"
                   PROVE  p[k] = Relived(q[k], q[1].startedAt, p[k - 1])
        BY DEF Chained
      <3>1. /\ q[k] = lines[k] /\ p[k] = lived[k] /\ p[k - 1] = lived[k - 1]
            /\ q[1] = lines[1]
        BY <1>1, <1>2, <2>1
      <3>2. QED
        BY <2>2, <3>1 DEF Chained
    <2>5. Timed(q, i)
      <3>1. \A k \in 1 .. i : q[k] = lines[k]
        BY <1>1, <2>1
      <3>2. QED
        BY <2>2, <3>1 DEF Timed
    <2>6. QED
      BY <2>3, <2>4, <2>5
  <1>5. ASSUME Sole(q, n + 1)
        PROVE  p[1] = EmptyState /\ Chained(q, p, n + 1) /\ Timed(q, n + 1)
    <2>1. /\ Sole(lines, n)
          /\ n = 0 => line.kind = "header"
          /\ n # 0 => Moment(line)
      <3>1. n + 1 \in 1 .. Len(q)
        BY <1>1
      <3>2. QED
        BY <1>5, <3>1, SoleExtends
    <2>2. CASE n = 0
      <3>1. p[1] = EmptyState /\ q[1] = line /\ line.atMs \in Int
        BY <1>1, <1>2, <2>1, <2>2
      <3>2. Chained(q, p, n + 1)
        BY <2>2 DEF Chained
      <3>3. Timed(q, n + 1)
        BY <2>2, <3>1 DEF Timed
      <3>4. QED
        BY <3>1, <3>2, <3>3
    <2>3. CASE n # 0
      <3>1. /\ line.reason # "clock_discontinuity" =>
                   facts = Relived(line, lines[1].startedAt, lived[n])
            /\ line.atMs \in Int /\ lines[n].atMs <= line.atMs
        BY <2>1, <2>3
      <3>2. n \in 1 .. n /\ 1 \in 1 .. n
        BY <1>1, <2>3
      <3>3. lived[1] = EmptyState /\ Chained(lines, lived, n) /\ Timed(lines, n)
        BY <2>1, <3>2 DEF Told
      <3>4. q[1] = lines[1] /\ p[1] = lived[1]
        BY <1>1, <1>2, <3>2
      <3>5. Chained(q, p, n + 1)
        <4> SUFFICES ASSUME NEW k \in 2 .. n + 1, q[k].reason # "clock_discontinuity"
                     PROVE  p[k] = Relived(q[k], q[1].startedAt, p[k - 1])
          BY DEF Chained
        <4>1. CASE k = n + 1
          <5>1. p[k] = facts /\ q[k] = line
            BY <1>1, <1>2, <4>1
          <5>2. p[k - 1] = lived[n]
            BY <1>2, <3>2, <4>1
          <5>3. QED
            BY <3>1, <3>4, <5>1, <5>2
        <4>2. CASE k # n + 1
          <5>1. k \in 2 .. n /\ k \in 1 .. n /\ k - 1 \in 1 .. n
            BY <1>1, <4>2
          <5>2. p[k - 1] = lived[k - 1] /\ p[k] = lived[k] /\ q[k] = lines[k]
            BY <1>1, <1>2, <5>1
          <5>3. QED
            BY <3>3, <3>4, <5>1, <5>2 DEF Chained
        <4>3. QED
          BY <4>1, <4>2
      <3>6. Timed(q, n + 1)
        <4>1. ASSUME NEW k \in 1 .. n + 1
              PROVE  q[k].atMs \in Int /\ q[k].atMs <= line.atMs
          <5>1. CASE k = n + 1
            BY <1>1, <3>1, <5>1
          <5>2. CASE k # n + 1
            <6>1. k \in 1 .. n /\ k <= n /\ q[k] = lines[k]
              BY <1>1, <5>2
            <6>2. /\ lines[k].atMs \in Int /\ lines[n].atMs \in Int
                  /\ lines[k].atMs <= lines[n].atMs
              BY <3>2, <3>3, <6>1 DEF Timed
            <6>3. QED
              BY <3>1, <6>1, <6>2
          <5>3. QED
            BY <5>1, <5>2
        <4>2. ASSUME NEW k \in 1 .. n + 1, NEW l \in 1 .. n + 1, k <= l
              PROVE  q[k].atMs <= q[l].atMs
          <5>1. CASE l = n + 1
            BY <1>1, <4>1, <5>1
          <5>2. CASE l # n + 1
            <6>1. k \in 1 .. n /\ l \in 1 .. n /\ q[k] = lines[k] /\ q[l] = lines[l]
              BY <1>1, <4>2, <5>2
            <6>2. QED
              BY <3>3, <4>2, <6>1 DEF Timed
          <5>3. QED
            BY <5>1, <5>2
        <4>3. QED
          BY <4>1, <4>2 DEF Timed
      <3>7. QED
        BY <3>3, <3>4, <3>5, <3>6
    <2>4. QED
      BY <2>2, <2>3
  <1> HIDE DEF n
  <1>6. \A i \in 1 .. Len(q) :
            Sole(q, i) => p[1] = EmptyState /\ Chained(q, p, i) /\ Timed(q, i)
    BY <1>4, <1>5
  <1>7. QED
    BY <1>1, <1>2, <1>3, <1>6 DEF Told

\* A last line that nobody can read takes nothing from the lines before it.
LEMMA GlueTells ==
    ASSUME NEW lines, NEW lived, Told(lines, lived), lines # <<>>,
           NEW q, q = [lines EXCEPT ![Len(lines)] = Malformed]
    PROVE  Told(q, lived) /\ ~Sole(q, Len(q))
  <1> DEFINE n == Len(lines)
  <1>1. /\ IsLines(q) /\ n \in Nat /\ n # 0 /\ Len(q) = n /\ q[n] = Malformed
        /\ \A i \in 1 .. n : i # n => q[i] = lines[i]
    BY GlueForm DEF Told
  <1>2. ~Sole(q, n)
    BY <1>1, MalformedForm DEF Sole, Is
  <1>3. ASSUME NEW k \in 1 .. n, q[k].kind = "keyframe"
        PROVE  q[k].facts = lived[k]
    <2>1. k # n
      BY <1>1, <1>3, MalformedForm
    <2>2. QED
      BY <1>1, <1>3, <2>1 DEF Told
  <1>4. ASSUME NEW i \in 1 .. n, Sole(q, i)
        PROVE  lived[1] = EmptyState /\ Chained(q, lived, i) /\ Timed(q, i)
    <2>1. i # n
      BY <1>2, <1>4
    <2>2. \A k \in 1 .. i : k \in 1 .. n /\ q[k] = lines[k]
      BY <1>1, <2>1
    <2>3. Sole(lines, i)
      BY <1>4, <2>2 DEF Sole
    <2>4. lived[1] = EmptyState /\ Chained(lines, lived, i) /\ Timed(lines, i)
      BY <2>3 DEF Told
    <2>5. Chained(q, lived, i)
      BY <2>2, <2>4 DEF Chained
    <2>6. Timed(q, i)
      BY <2>2, <2>4 DEF Timed
    <2>7. QED
      BY <2>4, <2>5, <2>6
  <1>5. IsLines(lived) /\ Len(lived) = n
    BY DEF Told
  <1>6. QED
    BY <1>1, <1>2, <1>3, <1>4, <1>5 DEF Told

\* Whatever becomes of a line that follows from the model, the file stays true; and it is
\* the last line, if the recording goes on and the file is of one opening.
LEMMA WriteTold ==
    ASSUME NEW s, Shaped(s), Told(s.lines, s.lived), s.torn => s.lines # <<>>,
           NEW line, line.kind = "keyframe" => line.facts = s.facts,
           s.recording # NoMatch /\ Len(s.lines) = 0 /\ line.kind = "header" =>
               s.facts = EmptyState /\ line.atMs \in Int,
           s.recording # NoMatch /\ Len(s.lines) # 0 /\ Sole(s.lines, Len(s.lines))
           /\ Moment(line) =>
               /\ line.reason # "clock_discontinuity" =>
                      s.facts = Relived(line, s.lines[1].startedAt, s.lived[Len(s.lines)])
               /\ line.atMs \in Int /\ s.lines[Len(s.lines)].atMs <= line.atMs
    PROVE  LET r == Write(s, line)
           IN  /\ Told(r.lines, r.lived) /\ (r.torn => r.lines # <<>>)
               /\ r.recording # NoMatch =>
                      /\ r.recording = s.recording /\ r.lines # <<>>
                      /\ r.startedAt = s.startedAt /\ r.facts = s.facts
                      /\ Sole(r.lines, Len(r.lines)) =>
                             Extends(r.lines, r.lived, s.lines, s.lived, line, s.facts)
  <1> DEFINE r == Write(s, line)
  <1>1. /\ Kept(s, r)
        /\ \/ s.recording = NoMatch /\ r = s
           \/ Wrote(s, r, line)
           \/ Broke(s, r, line)
    BY WriteOutcome
  <1> HIDE DEF r
  <1>2. r.startedAt = s.startedAt /\ r.facts = s.facts
    BY <1>1 DEF Kept, Same
  <1>3. ASSUME s.torn, Glued(s, r)
        PROVE  Told(r.lines, r.lived) /\ r.lines # <<>> /\ ~Sole(r.lines, Len(r.lines))
    <2>1. s.lines # <<>> /\ IsLines(s.lines)
      BY <1>3 DEF Told
    <2>2. r.lines = [s.lines EXCEPT ![Len(s.lines)] = Malformed] /\ r.lived = s.lived
      BY <1>3 DEF Glued
    <2>3. Told(r.lines, r.lived) /\ ~Sole(r.lines, Len(r.lines))
      BY <2>1, <2>2, GlueTells
    <2>4. r.lines # <<>>
      BY <2>1, <2>2, GlueForm
    <2>5. QED
      BY <2>3, <2>4
  <1>4. ASSUME NEW l, Behind(s, r, l)
        PROVE  Extends(r.lines, r.lived, s.lines, s.lived, l, s.facts)
    BY <1>4, AppendExtends DEF Behind
  <1>5. ASSUME Behind(s, r, line), s.recording # NoMatch
        PROVE  Told(r.lines, r.lived)
    <2>1. Extends(r.lines, r.lived, s.lines, s.lived, line, s.facts)
      BY <1>4, <1>5
    <2>2. QED
      BY <1>5, <2>1, TellGrows
  <1>6. ASSUME Behind(s, r, Malformed)
        PROVE  Told(r.lines, r.lived) /\ r.lines # <<>>
    <2>1. Extends(r.lines, r.lived, s.lines, s.lived, Malformed, s.facts)
      BY <1>4, <1>6
    <2>2. Told(r.lines, r.lived)
      BY <2>1, MalformedForm, TellGrows
    <2>3. QED
      BY <2>1, <2>2 DEF Extends
  <1>7. CASE s.recording = NoMatch /\ r = s
    BY <1>7 DEF r
  <1>8. CASE Wrote(s, r, line)
    <2>1. s.recording # NoMatch /\ r.recording = s.recording /\ r.torn = FALSE
      BY <1>8 DEF Wrote
    <2>2. CASE s.torn
      BY <1>2, <1>3, <1>8, <2>1, <2>2 DEF Wrote, r
    <2>3. CASE ~s.torn
      <3>1. Behind(s, r, line)
        BY <1>8, <2>3 DEF Wrote
      <3>2. Extends(r.lines, r.lived, s.lines, s.lived, line, s.facts)
        BY <1>4, <3>1
      <3>3. r.lines # <<>>
        BY <3>2 DEF Extends
      <3>4. QED
        BY <1>2, <1>5, <2>1, <3>1, <3>2, <3>3 DEF r
    <2>4. QED
      BY <2>2, <2>3
  <1>9. CASE Broke(s, r, line)
    <2>1. r.recording = NoMatch /\ s.recording # NoMatch
      BY <1>9 DEF Broke
    <2>2. Told(r.lines, r.lived) /\ (r.torn => r.lines # <<>>)
      <3>1. CASE r.lines = s.lines /\ r.lived = s.lived /\ r.torn = s.torn
        BY <3>1
      <3>2. CASE s.torn /\ Glued(s, r)
        BY <1>3, <3>2
      <3>3. CASE Behind(s, r, line)
        <4>1. r.lines # <<>>
          BY <1>4, <3>3 DEF Extends
        <4>2. QED
          BY <1>5, <2>1, <3>3, <4>1
      <3>4. CASE Behind(s, r, Malformed)
        BY <1>6, <3>4
      <3>5. QED
        BY <1>9, <3>1, <3>2, <3>3, <3>4 DEF Broke
    <2>3. QED
      BY <2>1, <2>2 DEF r
  <1>10. QED
    BY <1>1, <1>7, <1>8, <1>9

\* A moment of the recording in progress.
LEMMA WriteTells ==
    ASSUME NEW s, Shaped(s), NEW at \in Nat, Told(s.lines, s.lived), Live(s, at),
           s.torn => s.lines # <<>>,
           NEW line, Moment(line), line.atMs = at - s.startedAt,
           line.kind = "keyframe" => line.facts = s.facts,
           s.recording # NoMatch /\ Sole(s.lines, Len(s.lines))
           /\ line.reason # "clock_discontinuity" =>
               s.facts = Relived(line, s.startedAt, s.lived[Len(s.lines)])
    PROVE  Retold(Write(s, line), at)
  <1> DEFINE r == Write(s, line)
             n == Len(s.lines)
  <1>1. line.kind # "header"
    BY DEF Moment
  <1>2. ASSUME s.recording # NoMatch, Sole(s.lines, n)
        PROVE  /\ line.reason # "clock_discontinuity" =>
                      s.facts = Relived(line, s.lines[1].startedAt, s.lived[n])
               /\ line.atMs \in Int /\ s.lines[n].atMs <= line.atMs
               /\ s.lines[1].startedAt = s.startedAt
    <2>1. /\ s.lines[1].startedAt = s.startedAt /\ s.lines[n].atMs <= at - s.startedAt
          /\ s.startedAt \in Nat
      BY <1>2 DEF Live
    <2>2. line.atMs \in Int
      BY <2>1
    <2>3. QED
      BY <1>2, <2>1, <2>2
  <1>3. /\ Told(r.lines, r.lived) /\ (r.torn => r.lines # <<>>)
        /\ r.recording # NoMatch =>
               /\ r.recording = s.recording /\ r.lines # <<>>
               /\ r.startedAt = s.startedAt /\ r.facts = s.facts
               /\ Sole(r.lines, Len(r.lines)) =>
                      Extends(r.lines, r.lived, s.lines, s.lived, line, s.facts)
    BY <1>1, <1>2, WriteTold
  <1> HIDE DEF r
  <1>4. ASSUME r.recording # NoMatch
        PROVE  /\ r.lines # <<>> /\ r.startedAt \in Nat
               /\ Sole(r.lines, Len(r.lines)) =>
                      /\ r.lines[1].startedAt = r.startedAt
                      /\ r.lines[Len(r.lines)].atMs <= at - r.startedAt
                      /\ r.facts = r.lived[Len(r.lines)]
    <2>1. /\ s.recording # NoMatch /\ r.startedAt = s.startedAt /\ s.startedAt \in Nat
          /\ s.lines # <<>>
      BY <1>3, <1>4 DEF Live
    <2>2. ASSUME Sole(r.lines, Len(r.lines))
          PROVE  /\ r.lines[1].startedAt = r.startedAt
                 /\ r.lines[Len(r.lines)].atMs <= at - r.startedAt
                 /\ r.facts = r.lived[Len(r.lines)]
      <3>1. Extends(r.lines, r.lived, s.lines, s.lived, line, s.facts)
        BY <1>3, <1>4, <2>2
      <3>2. /\ n \in Nat /\ Len(r.lines) = n + 1 /\ r.lines[n + 1] = line
            /\ r.lived[n + 1] = s.facts
            /\ \A k \in 1 .. n : r.lines[k] = s.lines[k]
        BY <3>1 DEF Extends
      <3>3. n # 0
        BY <2>1, <3>1, AppendForm DEF Extends
      <3>4. r.lines[1] = s.lines[1]
        BY <3>2, <3>3
      <3>5. Sole(s.lines, n)
        <4>1. Len(r.lines) \in 1 .. Len(r.lines)
          BY <3>2
        <4>2. QED
          BY <2>2, <3>1, <3>2, <4>1, SoleExtends
      <3>6. s.lines[1].startedAt = s.startedAt
        BY <1>2, <2>1, <3>5
      <3>7. at - s.startedAt <= at - s.startedAt
        BY <2>1
      <3>8. QED
        BY <1>3, <1>4, <2>1, <3>2, <3>4, <3>6, <3>7
    <2>3. QED
      BY <1>3, <1>4, <2>1, <2>2
  <1>5. Live(r, at) /\ Level(r)
    BY <1>4 DEF Live, Level
  <1>6. QED
    BY <1>3, <1>5 DEF Retold, r

\* What is told depends on six fields of the subsystem, the facts only while it records.
LEMMA SameTale ==
    ASSUME NEW s, NEW at, Retold(s, at), NEW r, r.lines = s.lines, r.lived = s.lived,
           r.recording = s.recording, r.startedAt = s.startedAt, r.torn = s.torn,
           r.recording # NoMatch => r.facts = s.facts
    PROVE  Retold(r, at)
  BY DEF Retold, Live, Level

\* A keyframe is the model of the line before it, or marks that the model was reset.
LEMMA WriteKeyframeTells ==
    ASSUME NEW s, Shaped(s), NEW at \in Nat, Told(s.lines, s.lived), Live(s, at),
           s.torn => s.lines # <<>>,
           NEW reason, Level(s) \/ reason = "clock_discontinuity"
    PROVE  Retold(WriteKeyframe(s, at, reason), at)
  <1> DEFINE line == KeyframeLine(s, at, reason)
             w == Write(s, line)
             r == WriteKeyframe(s, at, reason)
  <1>1. /\ line.kind = "keyframe" /\ line.facts = s.facts /\ line.reason = reason
        /\ line.atMs = at - s.startedAt
    BY DEF KeyframeLine
  <1>2. r = [w EXCEPT !.lastKeyframeAt = at]
    BY DEF WriteKeyframe
  <1> HIDE DEF line
  <1>3. Relived(line, s.startedAt, s.lived[Len(s.lines)]) = s.lived[Len(s.lines)]
    BY <1>1 DEF Relived, Is
  <1>4. Shaped(w)
    BY WriteForm DEF Same
  <1>5. Retold(w, at)
    <2>1. s.recording # NoMatch /\ Sole(s.lines, Len(s.lines))
          /\ line.reason # "clock_discontinuity" =>
              s.facts = Relived(line, s.startedAt, s.lived[Len(s.lines)])
      BY <1>1, <1>3 DEF Level
    <2>2. Moment(line)
      BY <1>1 DEF Moment
    <2>3. QED
      BY <1>1, <2>1, <2>2, WriteTells
  <1> HIDE DEF w, r
  <1>6. /\ r.lines = w.lines /\ r.lived = w.lived /\ r.recording = w.recording
        /\ r.startedAt = w.startedAt /\ r.facts = w.facts /\ r.torn = w.torn
    BY <1>2, <1>4 DEF Shaped, Keys
  <1>7. QED
    BY <1>5, <1>6, SameTale DEF r

LEMMA CloseTells ==
    ASSUME NEW s, Shaped(s), NEW at \in Nat, Retold(s, at), NEW reason
    PROVE  Retold(CloseRecording(s, at, reason), at)
  <1> DEFINE w == WriteKeyframe(s, at, reason)
             r == CloseRecording(s, at, reason)
  <1>1. CASE s.recording = NoMatch
    BY <1>1 DEF CloseRecording
  <1>2. CASE s.recording # NoMatch
    <2>1. Retold(w, at) /\ Shaped(w)
      BY WriteKeyframeForm, WriteKeyframeTells DEF Same, Retold
    <2>2. r = [w EXCEPT !.recording = NoMatch]
      BY <1>2 DEF CloseRecording, Abandon
    <2> HIDE DEF w, r
    <2>3. r.lines = w.lines /\ r.lived = w.lived /\ r.recording = NoMatch /\ r.torn = w.torn
      BY <2>1, <2>2 DEF Shaped, Keys
    <2>4. QED
      BY <2>1, <2>3 DEF Retold, Live, Level, r
  <1>3. QED
    BY <1>1, <1>2

\* The header is the first line of the file, or breaks off its first opening.
LEMMA OpenTells ==
    ASSUME NEW s, Shaped(s), NEW at \in Nat, Retold(s, at), s.facts = EmptyState,
           NEW id \in Matches, NEW refused
    PROVE  Retold(OpenRecording(s, id, at, refused), at)
  <1> DEFINE closed == CloseRecording(s, at, "superseded")
             opened == OpenSink(closed, id, at)
             head == HeaderLine(at)
             headed == Write(opened, head)
             r == OpenRecording(s, id, at, refused)
  <1>1. Shaped(closed) /\ closed.facts = EmptyState /\ closed.recording = NoMatch
    BY CloseForm DEF Same
  <1>2. Retold(closed, at)
    BY CloseTells
  <1>3. id # NoMatch
    BY DEF Matches, NoMatch
  <1>4. CASE closed.died
    BY <1>2, <1>4 DEF OpenRecording
  <1>5. CASE ~closed.died /\ refused
    <2>1. r = [closed EXCEPT !.failed = @ \cup {id}]
      BY <1>5 DEF OpenRecording
    <2> HIDE DEF closed, r
    <2>2. /\ r.lines = closed.lines /\ r.lived = closed.lived /\ r.torn = closed.torn
          /\ r.recording = NoMatch
      BY <1>1, <2>1 DEF Shaped, Keys
    <2>3. QED
      BY <1>2, <2>2 DEF Retold, Live, Level, r
  <1>6. CASE ~closed.died /\ ~refused
    <2> DEFINE resumed == closed.fileOf = id
    <2>1. opened = [closed EXCEPT !.recording = id, !.fileOf = id,
                        !.lines = IF resumed THEN closed.lines ELSE <<>>,
                        !.lived = IF resumed THEN closed.lived ELSE <<>>,
                        !.torn = resumed /\ closed.torn,
                        !.startedAt = at, !.lastKeyframeAt = at]
      BY <1>1 DEF OpenSink, Shaped, Keys
    <2>2. r = WriteKeyframe(headed, at, "open")
      BY <1>6 DEF OpenRecording
    <2>3. head.kind = "header" /\ head.atMs = 0 /\ head.startedAt = at
      BY DEF HeaderLine
    <2> HIDE DEF closed, opened, head
    <2>4. /\ Shaped(opened) /\ opened.facts = EmptyState /\ opened.startedAt = at
          /\ opened.recording = id
          /\ opened.lines = (IF resumed THEN closed.lines ELSE <<>>)
          /\ opened.lived = (IF resumed THEN closed.lived ELSE <<>>)
          /\ opened.torn = (resumed /\ closed.torn)
      BY <1>1, <2>1 DEF Shaped, Keys
    <2>5. Told(opened.lines, opened.lived) /\ (opened.torn => opened.lines # <<>>)
      BY <1>2, <2>4, NothingTold DEF Retold
    <2>6. Shaped(headed)
      BY <2>4, WriteForm DEF Same
    <2>7. ~Moment(head) /\ head.kind # "keyframe"
      BY <2>3 DEF Moment
    <2>8. /\ Told(headed.lines, headed.lived) /\ (headed.torn => headed.lines # <<>>)
          /\ headed.recording # NoMatch =>
                 /\ headed.recording = opened.recording /\ headed.lines # <<>>
                 /\ headed.startedAt = opened.startedAt /\ headed.facts = opened.facts
                 /\ Sole(headed.lines, Len(headed.lines)) =>
                        Extends(headed.lines, headed.lived, opened.lines, opened.lived,
                                head, opened.facts)
      BY <2>3, <2>4, <2>5, <2>7, WriteTold
    <2> HIDE DEF headed, r
    <2>9. ASSUME headed.recording # NoMatch, Sole(headed.lines, Len(headed.lines))
          PROVE  /\ headed.lines[1] = head /\ headed.lines[Len(headed.lines)] = head
                 /\ headed.lived[Len(headed.lines)] = EmptyState
      <3>1. Extends(headed.lines, headed.lived, opened.lines, opened.lived,
                    head, opened.facts)
        BY <2>8, <2>9
      <3>2. /\ Len(opened.lines) \in Nat /\ Len(headed.lines) = Len(opened.lines) + 1
            /\ headed.lines[Len(opened.lines) + 1] = head
            /\ headed.lived[Len(opened.lines) + 1] = opened.facts
        BY <3>1 DEF Extends
      <3>3. Len(headed.lines) \in 1 .. Len(headed.lines)
        BY <3>2
      <3>4. Len(opened.lines) = 0
        BY <2>7, <2>9, <3>1, <3>2, <3>3, SoleExtends
      <3>5. QED
        BY <2>4, <3>2, <3>4
    <2>10. Live(headed, at)
      <3>1. 0 <= at - at
        OBVIOUS
      <3>2. QED
        BY <2>3, <2>4, <2>8, <2>9, <3>1 DEF Live
    <2>11. Level(headed)
      BY <2>4, <2>8, <2>9 DEF Level
    <2>12. Level(headed) \/ "open" = "clock_discontinuity"
      BY <2>11
    <2>13. QED
      BY <2>2, <2>6, <2>8, <2>10, <2>12, WriteKeyframeTells DEF r
  <1>7. QED
    BY <1>4, <1>5, <1>6

\* The model takes an observation and the recorder its line, as of one moment.
LEMMA ObservationTells ==
    ASSUME NEW s, Shaped(s), NEW at \in Nat, Retold(s, at), NEW o
    PROVE  Retold(OnObservation(s, o, at), at)
  <1> DEFINE f == [s EXCEPT !.facts = Fuse(@, o, at)]
             line == ObservationLine(f, o, at)
             w == Write(f, line)
  <1>1. /\ Shaped(f) /\ f.lines = s.lines /\ f.lived = s.lived
        /\ f.recording = s.recording /\ f.startedAt = s.startedAt /\ f.torn = s.torn
        /\ f.facts = Fuse(s.facts, o, at)
    BY DEF Shaped, Keys
  <1>2. OnObservation(s, o, at) = Record(f, o, at)
    BY DEF OnObservation
  <1>3. line.kind = "observation" /\ line.o = o /\ line.atMs = at - f.startedAt
    BY DEF ObservationLine
  <1>4. Record(f, o, at) = WriteKeyframe(w, at, "interval") \/ Record(f, o, at) = w
    BY DEF Record
  <1> HIDE DEF f, line
  <1>5. Told(f.lines, f.lived) /\ Live(f, at) /\ (f.torn => f.lines # <<>>)
    BY <1>1 DEF Retold, Live
  <1>6. ASSUME f.recording # NoMatch, Sole(f.lines, Len(f.lines))
        PROVE  f.facts = Relived(line, f.startedAt, f.lived[Len(f.lines)])
    <2>1. f.startedAt \in Nat
      BY <1>5, <1>6 DEF Live
    <2>2. s.facts = f.lived[Len(f.lines)]
      BY <1>1, <1>6 DEF Retold, Level
    <2>3. f.startedAt + line.atMs = at
      BY <1>3, <2>1
    <2>4. QED
      BY <1>1, <1>3, <2>2, <2>3 DEF Relived, Is
  <1>7. Retold(w, at)
    <2>1. Moment(line) /\ line.kind # "keyframe"
      BY <1>3 DEF Moment
    <2>2. QED
      BY <1>1, <1>3, <1>5, <1>6, <2>1, WriteTells
  <1>8. Shaped(w)
    BY <1>1, WriteForm DEF Same
  <1> HIDE DEF w
  <1>9. Retold(WriteKeyframe(w, at, "interval"), at)
    BY <1>7, <1>8, WriteKeyframeTells DEF Retold
  <1>10. QED
    BY <1>2, <1>4, <1>7, <1>9

\* The model may be emptied while nothing is recorded.
LEMMA ResetTells ==
    ASSUME NEW s, Shaped(s), NEW at, Retold(s, at), s.recording = NoMatch
    PROVE  Retold(ResetWorld(s), at)
  <1> DEFINE r == ResetWorld(s)
  <1>1. r = [s EXCEPT !.facts = EmptyState]
    BY DEF ResetWorld
  <1> HIDE DEF r
  <1>2. /\ r.lines = s.lines /\ r.lived = s.lived
        /\ r.recording = s.recording /\ r.startedAt = s.startedAt /\ r.torn = s.torn
    BY <1>1 DEF Shaped, Keys
  <1>3. QED
    BY <1>2, SameTale DEF r

LEMMA StartedTells ==
    ASSUME NEW s, Shaped(s), NEW at \in Nat, Retold(s, at), s.recording = NoMatch,
           NEW id \in Matches, NEW refused
    PROVE  Retold(Started(s, id, at, refused), at)
  <1> DEFINE named == [s EXCEPT !.matchId = id]
             reset == ResetWorld(named)
             opened == OpenRecording(reset, id, at, refused)
             r == Started(s, id, at, refused)
  <1>1. /\ DOMAIN named = Keys /\ named.lines = s.lines /\ named.lived = s.lived
        /\ named.recording = s.recording /\ named.startedAt = s.startedAt
        /\ named.torn = s.torn
    BY DEF Shaped, Keys
  <1>2. reset = [named EXCEPT !.facts = EmptyState]
    BY DEF ResetWorld
  <1>3. r = [opened EXCEPT !.shell = id]
    BY DEF Started
  <1> HIDE DEF named, reset
  <1>4. /\ Shaped(reset) /\ reset.facts = EmptyState
        /\ reset.lines = s.lines /\ reset.lived = s.lived
        /\ reset.recording = s.recording /\ reset.startedAt = s.startedAt
        /\ reset.torn = s.torn
    BY <1>1, <1>2 DEF Shaped, Keys
  <1>5. Retold(reset, at)
    BY <1>4, SameTale
  <1>6. Shaped(opened) /\ Retold(opened, at)
    BY <1>4, <1>5, OpenForm, OpenTells DEF Same
  <1> HIDE DEF opened, r
  <1>7. /\ r.lines = opened.lines /\ r.lived = opened.lived /\ r.facts = opened.facts
        /\ r.recording = opened.recording /\ r.startedAt = opened.startedAt
        /\ r.torn = opened.torn
    BY <1>3, <1>6 DEF Shaped, Keys
  <1>8. QED
    BY <1>6, <1>7, SameTale DEF r

LEMMA EndedTells ==
    ASSUME NEW s, Shaped(s), NEW at \in Nat, Retold(s, at)
    PROVE  Retold(Ended(s, at), at)
  <1> DEFINE ended == [s EXCEPT !.matchId = NoMatch]
             closed == CloseRecording(ended, at, "match_ended")
             r == Ended(s, at)
  <1>1. /\ Shaped(ended) /\ ended.lines = s.lines /\ ended.lived = s.lived
        /\ ended.recording = s.recording /\ ended.startedAt = s.startedAt
        /\ ended.facts = s.facts /\ ended.torn = s.torn
    BY DEF Shaped, Keys
  <1>2. r = [closed EXCEPT !.shell = NoMatch]
    BY DEF Ended
  <1> HIDE DEF ended
  <1>3. Retold(ended, at)
    BY <1>1, SameTale
  <1>4. Shaped(closed) /\ Retold(closed, at)
    BY <1>1, <1>3, CloseForm, CloseTells DEF Same
  <1> HIDE DEF closed, r
  <1>5. /\ r.lines = closed.lines /\ r.lived = closed.lived /\ r.facts = closed.facts
        /\ r.recording = closed.recording /\ r.startedAt = closed.startedAt
        /\ r.torn = closed.torn
    BY <1>2, <1>4 DEF Shaped, Keys
  <1>6. QED
    BY <1>4, <1>5, SameTale DEF r

LEMMA TurnedTells ==
    ASSUME NEW s, Shaped(s), NEW at, Retold(s, at), NEW edge
    PROVE  Retold(Turned(s, edge), at)
  <1>1. CASE edge = "none"
    BY <1>1 DEF Turned
  <1>2. CASE edge # "none"
    <2> DEFINE r == Turned(s, edge)
    <2>1. r = [s EXCEPT !.paused = (edge = "paused")]
      BY <1>2 DEF Turned
    <2> HIDE DEF r
    <2>2. /\ r.lines = s.lines /\ r.lived = s.lived /\ r.facts = s.facts
          /\ r.recording = s.recording /\ r.startedAt = s.startedAt /\ r.torn = s.torn
      BY <2>1 DEF Shaped, Keys
    <2>3. QED
      BY <2>2, SameTale DEF r
  <1>3. QED
    BY <1>1, <1>2

\* The reset of a clock that jumped is told by its keyframe.
LEMMA ResyncTells ==
    ASSUME NEW s, Shaped(s), NEW at \in Nat, Retold(s, at)
    PROVE  Retold(Resync(s, at), at)
  <1> DEFINE reset == ResetWorld(s)
  <1>1. reset = [s EXCEPT !.facts = EmptyState]
    BY DEF ResetWorld
  <1>2. Resync(s, at) = IF reset.recording = NoMatch THEN reset
                        ELSE WriteKeyframe(reset, at, "clock_discontinuity")
    BY DEF Resync, Keyframe
  <1> HIDE DEF reset
  <1>3. /\ Shaped(reset) /\ reset.lines = s.lines /\ reset.lived = s.lived
        /\ reset.recording = s.recording /\ reset.startedAt = s.startedAt
        /\ reset.torn = s.torn
    BY <1>1 DEF Shaped, Keys
  <1>4. Told(reset.lines, reset.lived) /\ Live(reset, at) /\ (reset.torn => reset.lines # <<>>)
    BY <1>3 DEF Retold, Live
  <1>5. CASE reset.recording = NoMatch
    BY <1>2, <1>4, <1>5 DEF Retold, Level
  <1>6. CASE reset.recording # NoMatch
    BY <1>2, <1>3, <1>4, <1>6, WriteKeyframeTells
  <1>7. QED
    BY <1>5, <1>6

LEMMA LifecycleTells ==
    ASSUME NEW s, Agrees(s), NEW at \in Nat, Retold(s, at), NEW e, e.started \in MatchOrNone,
           e.started # NoMatch /\ ~e.superseded => s.recording = NoMatch, NEW refused,
           e.superseded \in BOOLEAN
    PROVE  Retold(OnLifecycle(s, e, at, refused), at)
  <1> DEFINE s1 == IF e.superseded THEN Ended(s, at) ELSE s
             s2 == IF e.started # NoMatch THEN Started(s1, e.started, at, refused) ELSE s1
             s3 == IF e.over THEN Ended(s2, at) ELSE s2
             s4 == Turned(s3, e.turned)
             r == IF e.jumped THEN Resync(s4, at) ELSE s4
  <1>1. Agrees(s1) /\ Retold(s1, at) /\ (e.started # NoMatch => s1.recording = NoMatch)
    <2>1. CASE e.superseded
      <3>1. /\ Agrees(Ended(s, at)) /\ Ended(s, at).matchId = NoMatch
            /\ Retold(Ended(s, at), at)
        BY EndedForm, EndedTells DEF Agrees
      <3>2. QED
        BY <2>1, <3>1 DEF Agrees
    <2>2. CASE ~e.superseded
      BY <2>2
    <2>3. QED
      BY <2>1, <2>2
  <1> HIDE DEF s1
  <1>2. Agrees(s2) /\ Retold(s2, at)
    <2>1. CASE e.started = NoMatch
      BY <1>1, <2>1
    <2>2. CASE e.started # NoMatch
      <3>1. e.started \in Matches
        BY <2>2 DEF MatchOrNone
      <3>2. QED
        BY <1>1, <2>2, <3>1, StartedForm, StartedTells DEF Agrees
    <2>3. QED
      BY <2>1, <2>2
  <1> HIDE DEF s2
  <1>3. Agrees(s3) /\ Retold(s3, at)
    BY <1>2, EndedForm, EndedTells DEF Agrees
  <1> HIDE DEF s3
  <1>4. Agrees(s4) /\ Retold(s4, at)
    BY <1>3, TurnedForm, TurnedTells DEF Agrees
  <1> HIDE DEF s4
  <1>5. Retold(r, at)
    BY <1>4, ResyncTells DEF Agrees
  <1>6. r = OnLifecycle(s, e, at, refused)
    BY DEF OnLifecycle, s1, s2, s3, s4
  <1> HIDE DEF r
  <1>7. QED
    BY <1>5, <1>6

\* The file tells the match, and nothing is recorded of a game that was not heard of.
TaleKept ==
    /\ Retold(d, now)
    /\ tracker.matchId = NoMatch => d.recording = NoMatch

LEMMA InitTold == Init => TaleKept
  <1> SUFFICES ASSUME Init PROVE TaleKept
    OBVIOUS
  <1>1. PICK disk \in Disks : d = FreshSubsystem(NoMatch, <<>>, <<>>, FALSE, disk)
    BY DEF Init
  <1>2. d.lines = <<>> /\ d.lived = <<>> /\ d.recording = NoMatch /\ ~d.torn
    BY <1>1 DEF FreshSubsystem
  <1>3. QED
    BY <1>2, NothingTold DEF TaleKept, Retold, Live, Level

\* An observation alone starts no recording.
LEMMA ObservedTold ==
    ASSUME IInv, TaleKept, phase = "running", NEW o, d' = OnObservation(d, o, now),
           now' = now, tracker' = tracker
    PROVE  TaleKept'
  <1>1. Shaped(d) /\ now \in Nat
    BY DEF IInv, MatchSound, Agrees, GameSound
  <1>2. Retold(OnObservation(d, o, now), now)
    BY <1>1, ObservationTells DEF TaleKept
  <1>3. OnObservation(d, o, now).recording \in {d.recording, NoMatch}
    <2> DEFINE f == [d EXCEPT !.facts = Fuse(@, o, now)]
    <2>1. Shaped(f) /\ f.recording = d.recording
      BY <1>1 DEF Shaped, Keys
    <2>2. OnObservation(d, o, now) = Record(f, o, now)
      BY DEF OnObservation
    <2> HIDE DEF f
    <2>3. QED
      BY <2>1, <2>2, RecordForm DEF Survives
  <1>4. QED
    BY <1>2, <1>3 DEF TaleKept

LEMMA NextTold ==
    ASSUME IInv, TaleKept, [Next]_matchVars
    PROVE  TaleKept'
  <1> now \in Nat
    BY DEF IInv, GameSound
  <1>1. CASE PostSnapshot
    <2>1. PICK refused \in BOOLEAN :
             LET map == [match |-> game.match, state |-> game.state,
                         paused |-> game.pause = "now",
                         clocked |-> game.state # "hero_selection", clock |-> game.clock]
             IN  /\ d' = OnObservation(OnLifecycle(d, EdgesOf(tracker, map, now), now, refused),
                                       Payload, now)
                 /\ tracker' = Tracked(tracker, map, now)
      BY <1>1 DEF PostSnapshot
    <2> DEFINE map == [match |-> game.match, state |-> game.state,
                       paused |-> game.pause = "now",
                       clocked |-> game.state # "hero_selection", clock |-> game.clock]
               edges == EdgesOf(tracker, map, now)
               turned == OnLifecycle(d, edges, now, refused)
    <2>2. game.match \in MatchOrNone /\ game.match # NoMatch /\ now' = now
      BY <1>1 DEF PostSnapshot, IInv, GameSound, clockVars
    <2>3. /\ edges.started \in MatchOrNone /\ edges.superseded \in BOOLEAN
          /\ edges.started # NoMatch /\ ~edges.superseded => tracker.matchId = NoMatch
      BY <2>2 DEF EdgesOf, MatchOrNone
    <2>4. d' = OnObservation(turned, Payload, now) /\ tracker'.matchId = game.match
      BY <2>1 DEF Tracked
    <2> HIDE DEF edges
    <2>5. Agrees(d)
      BY <1>1 DEF PostSnapshot, IInv, MatchSound
    <2>6. Retold(turned, now) /\ Shaped(turned)
      BY <2>3, <2>5, LifecycleForm, LifecycleTells DEF Agrees, TaleKept
    <2> HIDE DEF turned
    <2>7. Retold(d', now)
      BY <2>4, <2>6, ObservationTells
    <2>8. QED
      BY <2>2, <2>4, <2>7 DEF TaleKept
  <1>2. CASE LogEvent
    BY <1>2, ObservedTold DEF LogEvent, clockVars
  <1>3. CASE Detections
    BY <1>3, ObservedTold DEF Detections, clockVars
  <1>4. CASE Stop
    <2> DEFINE s == [d EXCEPT !.shell = NoMatch]
               c == CloseRecording(s, now, "shutdown")
               r == ResetWorld(c)
    <2>1. d' = r /\ Shaped(d) /\ now' = now /\ tracker' = tracker
      BY <1>4 DEF Stop, IInv, MatchSound, Agrees
    <2>2. /\ Shaped(s) /\ s.lines = d.lines /\ s.lived = d.lived /\ s.facts = d.facts
          /\ s.recording = d.recording /\ s.startedAt = d.startedAt /\ s.torn = d.torn
      BY <2>1 DEF Shaped, Keys
    <2> HIDE DEF s
    <2>3. Retold(s, now)
      BY <2>2, SameTale DEF TaleKept
    <2>4. Shaped(c) /\ c.recording = NoMatch /\ Retold(c, now)
      BY <2>2, <2>3, CloseForm, CloseTells DEF Same
    <2> HIDE DEF c
    <2>5. Retold(r, now) /\ r.recording = NoMatch
      <3>1. r = [c EXCEPT !.facts = EmptyState]
        BY DEF ResetWorld
      <3>2. r.recording = NoMatch
        BY <2>4, <3>1 DEF Shaped, Keys
      <3>3. QED
        BY <2>4, <3>2, ResetTells
    <2> HIDE DEF r
    <2>6. QED
      BY <2>1, <2>5 DEF TaleKept
  <1>5. CASE Restart
    <2>1. d' = FreshSubsystem(d.fileOf, d.lines, d.lived, d.torn, d.disk)
      BY <1>5 DEF Restart
    <2>2. /\ d'.lines = d.lines /\ d'.lived = d.lived /\ d'.recording = NoMatch
          /\ d'.torn = d.torn
      BY <2>1 DEF FreshSubsystem
    <2>3. QED
      BY <2>2 DEF TaleKept, Retold, Live, Level
  <1>6. CASE Tick
    <2>1. now' = now + 1 /\ d' = d /\ tracker' = tracker
      BY <1>6 DEF Tick
    <2>2. Live(d, now')
      <3> SUFFICES ASSUME d.recording # NoMatch PROVE Live(d, now')
        BY DEF Live
      <3>1. Live(d, now) /\ Told(d.lines, d.lived)
        BY DEF TaleKept, Retold
      <3>2. d.startedAt \in Nat /\ d.lines # <<>>
        BY <3>1 DEF Live
      <3>3. ASSUME Sole(d.lines, Len(d.lines))
            PROVE  /\ d.lines[1].startedAt = d.startedAt
                   /\ d.lines[Len(d.lines)].atMs <= now' - d.startedAt
        <4>1. /\ d.lines[1].startedAt = d.startedAt
              /\ d.lines[Len(d.lines)].atMs <= now - d.startedAt
          BY <3>1, <3>3 DEF Live
        <4>2. d.lines[Len(d.lines)].atMs \in Int
          <5>1. Len(d.lines) \in Nat /\ Len(d.lines) # 0
            BY <3>1, <3>2, AppendForm DEF Told
          <5>2. Len(d.lines) \in 1 .. Len(d.lines)
            BY <5>1
          <5>3. QED
            BY <3>1, <3>3, <5>2 DEF Told, Timed
        <4>3. QED
          BY <2>1, <3>2, <4>1, <4>2
      <3>4. QED
        BY <3>2, <3>3 DEF Live
    <2>3. QED
      BY <2>1, <2>2 DEF TaleKept, Retold
  <1>7. CASE GameStep \/ UNCHANGED matchVars
    BY <1>7 DEF GameStep, matchVars, procVars, TaleKept
  <1>8. QED
    BY <1>1, <1>2, <1>3, <1>4, <1>5, <1>6, <1>7 DEF Next

-----------------------------------------------------------------------------
(* The replay *)

\* The anchor is the newest keyframe up to line i that is old enough; where none is, the
\* first; and line 0, the empty model, where there is none at all.
Newest(lines, a, i, notAfter) ==
    /\ a = 0 => \A k \in 1 .. i : lines[k].kind # "keyframe"
    /\ a # 0 => lines[a].kind = "keyframe"
    /\ \A k \in a + 1 .. i : lines[k].kind = "keyframe" => lines[k].atMs > notAfter
    /\ a # 0 /\ lines[a].atMs > notAfter => \A k \in 1 .. a - 1 : lines[k].kind # "keyframe"

LEMMA AnchorForm ==
    ASSUME NEW lines, IsLines(lines), NEW i \in 1 .. Len(lines), NEW notAfter \in Int
    PROVE  LET a == AnchorFor(lines, i, notAfter)
           IN  /\ a \in 0 .. i
               /\ a # 0 => lines[a].kind = "keyframe"
               /\ Timed(lines, i) => Newest(lines, a, i, notAfter)
  <1> DEFINE kinds == {"keyframe"}
             q == IndicesOf(lines, kinds)
             holds == [k \in 1 .. Len(q) |-> q[k] <= i /\ lines[q[k]].atMs <= notAfter]
             f == LastWhere(holds)
             a == AnchorFor(lines, i, notAfter)
  <1>1. Len(lines) \in Nat
    BY DEF IsLines
  <1>2. Collected(q, lines, kinds, Len(lines))
    BY <1>1, IndicesAre
  <1>3. a = IF f # 0 THEN q[f] ELSE IF q # <<>> /\ q[1] <= i THEN q[1] ELSE 0
    BY DEF AnchorFor
  <1> HIDE DEF q, a
  <1>4. /\ Len(q) \in Nat /\ q # <<>> => Len(q) # 0
        /\ \A k \in 1 .. Len(q) : q[k] \in 1 .. Len(lines) /\ lines[q[k]].kind = "keyframe"
        /\ \A k, l \in 1 .. Len(q) : k < l => q[k] < q[l]
        /\ \A j \in 1 .. Len(lines) :
               lines[j].kind = "keyframe" => \E k \in 1 .. Len(q) : q[k] = j
    BY <1>2 DEF Collected
  <1>5. Len(holds) = Len(q)
    BY <1>4
  <1>6. \A k \in 1 .. Len(q) : holds[k] <=> q[k] <= i /\ lines[q[k]].atMs <= notAfter
    OBVIOUS
  <1> HIDE DEF holds
  <1>7. /\ f \in 0 .. Len(q)
        /\ f # 0 => holds[f]
        /\ IsPrefix(holds) => \A k \in f + 1 .. Len(q) : ~holds[k]
    <2>1. Len(holds) \in Nat
      BY <1>4, <1>5
    <2>2. /\ LastWhere(holds) \in 0 .. Len(holds)
          /\ LastWhere(holds) # 0 => holds[LastWhere(holds)]
          /\ IsPrefix(holds) => \A j \in LastWhere(holds) + 1 .. Len(holds) : ~holds[j]
      BY <2>1, SearchFindsLast
    <2>3. QED
      BY <2>2, <1>5
  <1> HIDE DEF f
  <1>8. a \in 0 .. i /\ (a # 0 => lines[a].kind = "keyframe")
    <2>1. CASE f # 0
      <3>1. f \in 1 .. Len(q)
        BY <1>4, <1>7, <2>1
      <3>2. QED
        BY <1>3, <1>4, <1>6, <1>7, <2>1, <3>1
    <2>2. CASE f = 0 /\ q # <<>> /\ q[1] <= i
      <3>1. 1 \in 1 .. Len(q)
        BY <1>4, <2>2
      <3>2. QED
        BY <1>3, <1>4, <2>2, <3>1
    <2>3. CASE f = 0 /\ ~(q # <<>> /\ q[1] <= i)
      BY <1>3, <2>3
    <2>4. QED
      BY <2>1, <2>2, <2>3
  <1>9. ASSUME Timed(lines, i)
        PROVE  Newest(lines, a, i, notAfter)
    <2>1. IsPrefix(holds)
      <3>1. ASSUME NEW k \in 1 .. Len(q), NEW l \in 1 .. Len(q), k <= l, holds[l]
            PROVE  holds[k]
        <4>1. q[k] <= q[l] /\ q[k] \in 1 .. i /\ q[l] \in 1 .. i
          <5>1. q[k] <= q[l] /\ q[k] \in 1 .. Len(lines) /\ q[l] \in 1 .. Len(lines)
            BY <1>4, <3>1
          <5>2. q[l] <= i
            BY <1>6, <3>1
          <5>3. QED
            BY <1>1, <5>1, <5>2
        <4>2. /\ lines[q[k]].atMs <= lines[q[l]].atMs
              /\ lines[q[k]].atMs \in Int /\ lines[q[l]].atMs \in Int
          BY <1>9, <4>1 DEF Timed
        <4>3. QED
          BY <1>6, <3>1, <4>1, <4>2
      <3>2. QED
        BY <1>5, <3>1 DEF IsPrefix
    <2>2. ASSUME NEW j \in 1 .. i, lines[j].kind = "keyframe"
          PROVE  a # 0 /\ (j > a => lines[j].atMs > notAfter)
      <3>1. PICK k \in 1 .. Len(q) : q[k] = j
        BY <1>4, <2>2
      <3>2. lines[j].atMs \in Int
        BY <1>9, <2>2 DEF Timed
      <3>3. CASE f # 0
        <4>1. f \in 1 .. Len(q) /\ a = q[f] /\ q[f] \in 1 .. Len(lines)
          BY <1>3, <1>4, <1>7, <3>3
        <4>2. ASSUME j > a
              PROVE  lines[j].atMs > notAfter
          <5>1. k > f
            BY <1>4, <3>1, <4>1, <4>2
          <5>2. ~holds[k]
            BY <1>4, <1>7, <2>1, <5>1
          <5>3. QED
            BY <1>6, <3>1, <3>2, <5>2
        <4>3. QED
          BY <4>1, <4>2
      <3>4. CASE f = 0
        <4>1. ~holds[k]
          BY <1>4, <1>7, <2>1, <3>4
        <4>2. lines[j].atMs > notAfter
          BY <1>6, <3>1, <3>2, <4>1
        <4>3. 1 \in 1 .. Len(q) /\ q # <<>>
          BY <1>4
        <4>4. q[1] <= q[k] /\ q[1] \in 1 .. Len(lines)
          BY <1>4, <3>1, <4>3
        <4>5. QED
          BY <1>3, <3>1, <3>4, <4>2, <4>3, <4>4
      <3>5. QED
        BY <3>3, <3>4
    <2>3. a \in 0 .. i /\ (a # 0 => lines[a].kind = "keyframe")
      BY <1>8
    <2>4. ASSUME a # 0, lines[a].atMs > notAfter, NEW k \in 1 .. a - 1,
                 lines[k].kind = "keyframe"
          PROVE  FALSE
      <3>1. a \in 1 .. Len(lines) /\ k \in 1 .. Len(lines) /\ k < a
        BY <1>1, <1>8, <2>4
      <3>2. lines[a].atMs \in Int
        BY <1>8, <1>9, <3>1 DEF Timed
      <3>3. f = 0
        <4>1. ASSUME f # 0 PROVE FALSE
          <5>1. f \in 1 .. Len(q) /\ a = q[f] /\ holds[f]
            BY <1>3, <1>4, <1>7, <4>1
          <5>2. QED
            BY <1>6, <2>4, <3>2, <5>1
        <4>2. QED
          BY <4>1
      <3>4. a = q[1]
        BY <1>3, <2>4, <3>3
      <3>5. PICK l \in 1 .. Len(q) : q[l] = k
        BY <1>4, <2>4, <3>1
      <3>6. 1 \in 1 .. Len(q) /\ (l = 1 \/ 1 < l)
        BY <1>4
      <3>7. QED
        BY <1>4, <3>1, <3>4, <3>5, <3>6
    <2> HIDE DEF a
    <2>5. QED
      BY <2>2, <2>3, <2>4 DEF Newest
  <1>10. QED
    BY <1>8, <1>9 DEF a

\* The loop that replays the lines.
ReplayStep(lines, anchor, g, k) ==
    IF k = anchor THEN (IF anchor = 0 THEN EmptyState ELSE lines[anchor].facts)
    ELSE IF Is("observation", lines[k])
         THEN Fuse(g[k - 1], lines[k].o, StartedAt(lines) + lines[k].atMs)
         ELSE g[k - 1]

\* A function that follows the loop is what the loop computes.
LEMMA ReplayUnfold ==
    ASSUME NEW lines, NEW i \in Nat, NEW anchor \in 0 .. i,
           NEW g, g = [k \in anchor .. i |-> ReplayStep(lines, anchor, g, k)]
    PROVE  Replayed(lines, anchor, i) = g[i]
  <1>1. PICK h : /\ h = [k \in anchor .. i |-> ReplayStep(lines, anchor, h, k)]
                 /\ Replayed(lines, anchor, i) = h[i]
    BY DEF Replayed, ReplayStep
  <1> DEFINE S == {m \in Nat : anchor + m <= i => h[anchor + m] = g[anchor + m]}
  <1>2. 0 \in S
    <2>1. anchor \in anchor .. i /\ anchor + 0 = anchor
      OBVIOUS
    <2>2. h[anchor] = ReplayStep(lines, anchor, h, anchor)
          /\ g[anchor] = ReplayStep(lines, anchor, g, anchor)
      BY <1>1, <2>1
    <2>3. h[anchor] = g[anchor]
      BY <2>2 DEF ReplayStep
    <2>4. QED
      BY <2>1, <2>3
  <1>3. ASSUME NEW m \in Nat, m \in S
        PROVE  m + 1 \in S
    <2> SUFFICES ASSUME anchor + (m + 1) <= i
                 PROVE  h[anchor + (m + 1)] = g[anchor + (m + 1)]
      OBVIOUS
    <2> DEFINE k == anchor + (m + 1)
               l == anchor + m
    <2>1. k \in anchor .. i /\ k # anchor /\ k - 1 = l /\ l <= i
      OBVIOUS
    <2>2. h[l] = g[l]
      BY <1>3, <2>1
    <2> HIDE DEF k, l
    <2>3. h[k] = ReplayStep(lines, anchor, h, k) /\ g[k] = ReplayStep(lines, anchor, g, k)
      BY <1>1, <2>1
    <2>4. h[k] = g[k]
      BY <2>1, <2>2, <2>3 DEF ReplayStep
    <2>5. QED
      BY <2>4 DEF k
  <1>4. i - anchor \in Nat
    OBVIOUS
  <1>5. i - anchor \in S
    <2> HIDE DEF S
    <2>1. QED
      BY <1>2, <1>3, <1>4, AllNumbers
  <1>6. QED
    BY <1>1, <1>4, <1>5

\* From the empty model or any keyframe, a file that is told replays to what was lived.
LEMMA ReplayTells ==
    ASSUME NEW lines, NEW lived, Told(lines, lived),
           NEW i \in 1 .. Len(lines), Sole(lines, i), NEW anchor \in 0 .. i,
           anchor # 0 => lines[anchor].kind = "keyframe",
           \A k \in anchor + 1 .. i : lines[k].reason # "clock_discontinuity"
    PROVE  Replayed(lines, anchor, i) = lived[i]
  <1> DEFINE base == IF anchor = 0 THEN EmptyState ELSE lines[anchor].facts
             g == [k \in anchor .. i |-> IF k = anchor THEN base ELSE lived[k]]
  <1>1. Len(lines) \in Nat /\ 1 \in 1 .. i /\ 1 \in 1 .. Len(lines)
    BY DEF Told, IsLines
  <1>2. Is("header", lines[1]) /\ lived[1] = EmptyState /\ Chained(lines, lived, i)
    BY <1>1 DEF Told, Sole
  <1>3. StartedAt(lines) = lines[1].startedAt
    <2> DEFINE headers == {j \in 1 .. Len(lines) : Is("header", lines[j])}
               first == CHOOSE j \in headers : \A k \in headers : j <= k
    <2>1. 1 \in headers /\ \A k \in headers : 1 <= k /\ k \in Nat
      BY <1>1, <1>2
    <2>2. first \in headers /\ \A k \in headers : first <= k
      <3> HIDE DEF headers
      <3>1. QED
        BY <2>1
    <2>3. first = 1
      <3> HIDE DEF headers, first
      <3>1. QED
        BY <2>1, <2>2
    <2>4. StartedAt(lines) = lines[first].startedAt
      BY <2>1 DEF StartedAt
    <2> HIDE DEF first
    <2>5. QED
      BY <2>3, <2>4
  <1>4. anchor # 0 => base = lived[anchor]
    BY <1>1 DEF Told
  <1> HIDE DEF base
  <1>5. ASSUME NEW k \in anchor .. i
        PROVE  g[k] = ReplayStep(lines, anchor, g, k)
    <2>1. CASE k = anchor
      BY <2>1 DEF ReplayStep, base
    <2>2. CASE k # anchor
      <3>1. k - 1 \in anchor .. i /\ k \in anchor + 1 .. i /\ k \in 1 .. i
        BY <2>2
      <3>2. CASE k = 1
        <4>1. anchor = 0 /\ k - 1 = anchor
          BY <2>2, <3>2
        <4>2. g[k - 1] = EmptyState /\ g[k] = EmptyState
          BY <1>2, <2>2, <3>1, <3>2, <4>1 DEF base
        <4>3. lines[k].kind = "header" /\ "header" # "observation"
          BY <1>2, <3>2 DEF Is
        <4>5. ~Is("observation", lines[k])
          BY <4>3 DEF Is
        <4> HIDE DEF g
        <4>4. QED
          BY <2>2, <4>2, <4>5 DEF ReplayStep
      <3>3. CASE k # 1
        <4>1. k \in 2 .. i /\ lines[k].reason # "clock_discontinuity"
          BY <3>1, <3>3
        <4>2. lived[k] = Relived(lines[k], lines[1].startedAt, lived[k - 1])
          BY <1>2, <4>1 DEF Chained
        <4>3. g[k - 1] = lived[k - 1]
          <5>1. CASE k - 1 = anchor
            <6>1. anchor # 0
              BY <4>1, <5>1
            <6>2. QED
              BY <1>4, <3>1, <5>1, <6>1
          <5>2. CASE k - 1 # anchor
            BY <3>1, <5>2
          <5>3. QED
            BY <5>1, <5>2
        <4>4. g[k] = lived[k]
          BY <2>2
        <4> HIDE DEF g
        <4>5. QED
          BY <1>3, <2>2, <4>2, <4>3, <4>4 DEF ReplayStep, Relived
      <3>4. QED
        BY <3>2, <3>3
    <2>3. QED
      BY <2>1, <2>2
  <1>6. g = [k \in anchor .. i |-> ReplayStep(lines, anchor, g, k)]
    <2> DEFINE e == [k \in anchor .. i |-> ReplayStep(lines, anchor, g, k)]
    <2>1. \A k \in anchor .. i : g[k] = e[k]
      BY <1>5
    <2>2. DOMAIN g = DOMAIN e /\ g = [k \in DOMAIN g |-> g[k]] /\ e = [k \in DOMAIN e |-> e[k]]
      OBVIOUS
    <2>3. QED
      BY <2>1, <2>2
  <1>7. g[i] = lived[i]
    BY <1>4
  <1> HIDE DEF g
  <1>8. i \in Nat
    OBVIOUS
  <1>9. QED
    BY <1>6, <1>7, <1>8, ReplayUnfold

LEMMA TaleHolds == Spec => []TaleKept
  <1>1. Init => TaleKept
    BY InitTold
  <1>2. IInv /\ TaleKept /\ [Next]_matchVars => TaleKept'
    BY NextTold
  <1>3. QED
    BY <1>1, <1>2, InvariantHolds, PTL DEF Spec

\* Along the first opening of the file, a replay starts at the newest keyframe that is
\* older than the history.
AnchorsAreNewest ==
    \A i \in 1 .. Len(d.lines) :
        Sole(d.lines, i) =>
            Newest(d.lines, AnchorOf(d.lines, i), i, d.lines[i].atMs - HistoryWindow)

LEMMA ToldReplays ==
    ASSUME Told(d.lines, d.lived)
    PROVE  ReplayedFaithfully /\ AnchorsAreNewest
  <1> SUFFICES ASSUME NEW i \in 1 .. Len(d.lines), Sole(d.lines, i)
               PROVE  LET a == AnchorOf(d.lines, i)
                      IN  /\ Newest(d.lines, a, i, d.lines[i].atMs - HistoryWindow)
                          /\ (\A k \in a + 1 .. i : d.lines[k].reason # "clock_discontinuity")
                             => Reconstruct(d.lines, i) = d.lived[i]
    BY DEF ReplayedFaithfully, AnchorsAreNewest
  <1> DEFINE a == AnchorOf(d.lines, i)
  <1>1. IsLines(d.lines) /\ Timed(d.lines, i)
    BY DEF Told
  <1>2. d.lines[i].atMs - HistoryWindow \in Int
    <2>1. i \in 1 .. i
      BY <1>1 DEF IsLines
    <2>2. QED
      BY <1>1, <2>1, RecordAssumption DEF Timed
  <1>3. /\ a \in 0 .. i /\ (a # 0 => d.lines[a].kind = "keyframe")
        /\ Newest(d.lines, a, i, d.lines[i].atMs - HistoryWindow)
    BY <1>1, <1>2, AnchorForm DEF AnchorOf
  <1>4. Reconstruct(d.lines, i) = Replayed(d.lines, a, i)
    BY DEF Reconstruct
  <1> HIDE DEF a
  <1>5. ASSUME \A k \in a + 1 .. i : d.lines[k].reason # "clock_discontinuity"
        PROVE  Reconstruct(d.lines, i) = d.lived[i]
    BY <1>3, <1>4, <1>5, ReplayTells
  <1>6. QED
    BY <1>3, <1>5 DEF a

\* Along its first opening a file replays to the model as it was, at each of its lines:
\* for every number of lines and every observation, whatever the disk did and wherever
\* the process died, as long as the clock of the game did not jump since the anchor.
\* (reader.ts:277-309)
THEOREM ReplayHolds == Spec => []ReplayedFaithfully
  <1>1. TaleKept => ReplayedFaithfully
    BY ToldReplays DEF TaleKept, Retold
  <1>2. QED
    BY <1>1, TaleHolds, PTL

\* There a replay begins at the newest keyframe that is older than the history,
\* at the first where none is that old, and at the empty model only where there is none:
\* it is neither longer than it must be nor shorter than the history.
\* (reader.ts:223-249)
THEOREM AnchorsHold == Spec => []AnchorsAreNewest
  <1>1. TaleKept => AnchorsAreNewest
    BY ToldReplays DEF TaleKept, Retold
  <1>2. QED
    BY <1>1, TaleHolds, PTL

-----------------------------------------------------------------------------
(***************************************************************************)
(* The length of a replay.  An observation that comes an interval after a  *)
(* keyframe has a keyframe behind it, unless the recording ended with it;  *)
(* so what is replayed before the history is of one interval.              *)
(***************************************************************************)
\* An observation that comes an interval after a keyframe has a keyframe after that one,
\* at the latest right behind it.
Dense(q, upTo) ==
    \A j, k \in 1 .. upTo :
        /\ j < k /\ q[j].kind = "keyframe" /\ q[k].kind = "observation"
        /\ q[k].atMs - q[j].atMs >= KeyframeInterval
        => \E m \in j + 1 .. k + 1 :
               m <= Len(q) /\ q[m].kind = "keyframe" /\ q[m].atMs <= q[k].atMs

\* All along the first opening, which begins with a keyframe.
Evened(q) ==
    \A n \in 1 .. Len(q) :
        Sole(q, n) => (n >= 2 => q[2].kind = "keyframe") /\ Dense(q, n - 1)

\* The keyframe that the recorder counts from is in the file.
Keyed(s) ==
    \E p \in 1 .. Len(s.lines) :
        s.lines[p].kind = "keyframe" /\ s.lines[p].atMs = s.lastKeyframeAt - s.startedAt

Steady(s) == IsLines(s.lines) /\ Evened(s.lines) /\ (s.torn => s.lines # <<>>)

Paced(s) ==
    /\ Steady(s)
    /\ s.recording # NoMatch /\ Sole(s.lines, Len(s.lines)) =>
           /\ Len(s.lines) >= 2 /\ s.lastKeyframeAt \in Nat
           /\ Dense(s.lines, Len(s.lines)) /\ Keyed(s)

LEMMA SamePace ==
    ASSUME NEW s, Paced(s), NEW r, r.lines = s.lines, r.torn = s.torn,
           r.recording \in {s.recording, NoMatch},
           r.recording # NoMatch =>
               r.startedAt = s.startedAt /\ r.lastKeyframeAt = s.lastKeyframeAt
    PROVE  Paced(r)
  BY DEF Paced, Steady, Keyed

\* Grows(r, q, line): r is q and this line.
Grows(r, q, line) ==
    /\ IsLines(q) /\ IsLines(r) /\ Len(q) \in Nat /\ Len(r) = Len(q) + 1
    /\ r[Len(q) + 1] = line
    /\ \A i \in 1 .. Len(q) : r[i] = q[i]

LEMMA AppendGrows ==
    ASSUME NEW q, IsLines(q), NEW line
    PROVE  Grows(Append(q, line), q, line)
  BY AppendForm DEF Grows

LEMMA SoleShrinks ==
    ASSUME NEW r, NEW q, NEW line, Grows(r, q, line), NEW n \in 0 .. Len(q), Sole(r, n)
    PROVE  Sole(q, n)
  BY DEF Grows, Sole

\* The last line of an opening is a header where it is the first, else a moment.
LEMMA SoleEnds ==
    ASSUME NEW r, NEW q, NEW line, Grows(r, q, line), Sole(r, Len(r))
    PROVE  /\ Sole(q, Len(q))
           /\ Len(q) # 0 => Moment(line)
  <1>1. \A i \in 1 .. Len(r) : IF i = 1 THEN Is("header", r[i]) ELSE Moment(r[i])
    BY DEF Sole
  <1>2. Sole(q, Len(q))
    BY <1>1 DEF Sole, Grows
  <1>3. ASSUME Len(q) # 0
        PROVE  Moment(line)
    <2>1. Len(q) + 1 \in 1 .. Len(r) /\ Len(q) + 1 # 1 /\ r[Len(q) + 1] = line
      BY <1>3 DEF Grows
    <2>2. QED
      BY <1>1, <2>1
  <1>4. QED
    BY <1>2, <1>3

\* What an appended line changes: it may answer a line before it, and asks of its own.
LEMMA DenseGrows ==
    ASSUME NEW r, NEW q, NEW line, Grows(r, q, line), NEW u \in Int, u <= Len(q), Dense(q, u)
    PROVE  Dense(r, u)
  <1> SUFFICES ASSUME NEW j \in 1 .. u, NEW k \in 1 .. u, j < k,
                      r[j].kind = "keyframe", r[k].kind = "observation",
                      r[k].atMs - r[j].atMs >= KeyframeInterval
               PROVE  \E m \in j + 1 .. k + 1 :
                          m <= Len(r) /\ r[m].kind = "keyframe" /\ r[m].atMs <= r[k].atMs
    BY DEF Dense
  <1>1. r[j] = q[j] /\ r[k] = q[k]
    BY DEF Grows
  <1>2. PICK m \in j + 1 .. k + 1 : m <= Len(q) /\ q[m].kind = "keyframe" /\ q[m].atMs <= q[k].atMs
    BY <1>1 DEF Dense
  <1>3. r[m] = q[m] /\ m <= Len(r)
    BY <1>2 DEF Grows
  <1>4. QED
    BY <1>1, <1>2, <1>3

LEMMA DenseLess ==
    ASSUME NEW q, NEW u \in Int, NEW v \in Int, u <= v, Dense(q, v)
    PROVE  Dense(q, u)
  <1>1. \A i \in 1 .. u : i \in 1 .. v
    OBVIOUS
  <1>2. QED
    BY <1>1 DEF Dense

\* A line that is no observation asks for nothing.
LEMMA DenseOther ==
    ASSUME NEW r, NEW q, NEW line, Grows(r, q, line), Dense(q, Len(q)),
           line.kind # "observation"
    PROVE  Dense(r, Len(r))
  <1>1. Dense(r, Len(q))
    BY DenseGrows DEF Grows
  <1>2. ASSUME NEW k \in 1 .. Len(r), r[k].kind = "observation"
        PROVE  k \in 1 .. Len(q)
    BY <1>2 DEF Grows
  <1>3. \A j \in 1 .. Len(r), k \in 1 .. Len(q) : j < k => j \in 1 .. Len(q)
    BY DEF Grows
  <1>4. QED
    BY <1>1, <1>2, <1>3 DEF Dense

\* An observation within an interval of the keyframe that is counted from asks for none.
LEMMA DenseObserved ==
    ASSUME NEW r, NEW q, NEW line, Grows(r, q, line), Dense(q, Len(q)), Timed(q, Len(q)),
           NEW p \in 1 .. Len(q), q[p].kind = "keyframe", line.atMs \in Int,
           q[p].atMs <= line.atMs, line.atMs - q[p].atMs < KeyframeInterval
    PROVE  Dense(r, Len(r))
  <1> SUFFICES ASSUME NEW j \in 1 .. Len(r), NEW k \in 1 .. Len(r), j < k,
                      r[j].kind = "keyframe", r[k].kind = "observation",
                      r[k].atMs - r[j].atMs >= KeyframeInterval
               PROVE  \E m \in j + 1 .. k + 1 :
                          m <= Len(r) /\ r[m].kind = "keyframe" /\ r[m].atMs <= r[k].atMs
    BY DEF Dense
  <1>1. CASE k \in 1 .. Len(q)
    <2>1. Dense(r, Len(q)) /\ j \in 1 .. Len(q)
      BY <1>1, DenseGrows DEF Grows
    <2>2. QED
      BY <1>1, <2>1 DEF Dense
  <1>2. CASE k \notin 1 .. Len(q)
    <2>1. k = Len(q) + 1 /\ r[k] = line /\ j \in 1 .. Len(q) /\ r[j] = q[j] /\ r[p] = q[p]
      BY <1>2 DEF Grows
    <2>2. q[j].atMs \in Int /\ q[p].atMs \in Int /\ KeyframeInterval \in Int
      BY <2>1, RecordAssumption DEF Timed
    <2>3. ~(q[p].atMs <= q[j].atMs)
      BY <2>1, <2>2
    <2>4. j < p
      BY <2>1, <2>3 DEF Timed
    <2>5. p \in j + 1 .. k + 1 /\ p <= Len(r)
      BY <2>1, <2>4 DEF Grows
    <2>6. QED
      BY <2>1, <2>5
  <1>3. QED
    BY <1>1, <1>2

\* An observation with a keyframe right behind it asks for no other.
LEMMA DenseKeyed ==
    ASSUME NEW r, NEW q, NEW line, Grows(r, q, line), Dense(q, Len(q)), line.atMs \in Int,
           NEW t, NEW key, Grows(t, r, key), key.kind = "keyframe", key.atMs = line.atMs
    PROVE  Dense(t, Len(t))
  <1> SUFFICES ASSUME NEW j \in 1 .. Len(t), NEW k \in 1 .. Len(t), j < k,
                      t[j].kind = "keyframe", t[k].kind = "observation",
                      t[k].atMs - t[j].atMs >= KeyframeInterval
               PROVE  \E m \in j + 1 .. k + 1 :
                          m <= Len(t) /\ t[m].kind = "keyframe" /\ t[m].atMs <= t[k].atMs
    BY DEF Dense
  <1>1. Len(q) \in Nat /\ Len(r) = Len(q) + 1 /\ Len(t) = Len(q) + 2
    BY DEF Grows
  <1>2. CASE k \in 1 .. Len(q)
    <2>1. Dense(r, Len(q))
      BY <1>1, DenseGrows
    <2>2. Dense(t, Len(q))
      BY <1>1, <2>1, DenseGrows
    <2>3. j \in 1 .. Len(q)
      BY <1>1, <1>2
    <2>4. QED
      BY <1>2, <2>2, <2>3 DEF Dense
  <1>3. CASE k = Len(q) + 1
    <2>1. t[k] = line /\ t[k + 1] = key
      BY <1>1, <1>3 DEF Grows
    <2>2. k + 1 \in j + 1 .. k + 1 /\ k + 1 <= Len(t)
      BY <1>1, <1>3
    <2>3. t[k + 1].atMs <= t[k].atMs
      BY <2>1
    <2>4. QED
      BY <2>1, <2>2, <2>3
  <1>4. CASE k = Len(q) + 2
    <2>1. t[k] = key
      BY <1>1, <1>4 DEF Grows
    <2>2. QED
      BY <2>1
  <1>5. QED
    BY <1>1, <1>2, <1>3, <1>4

LEMMA FewOrMore == \A n \in Nat : (n = 0 \/ n = 1 \/ n >= 2) /\ (n >= 2 => n # 1)
  OBVIOUS

\* The lines before one that is appended are as even as they were; with it they are if
\* the line answers those before it.
LEMMA EvenGrows ==
    ASSUME NEW r, NEW q, NEW line, Grows(r, q, line), Evened(q),
           Sole(r, Len(r)) =>
               (Len(q) = 1 => line.kind = "keyframe") /\ Dense(r, Len(q))
    PROVE  Evened(r)
  <1> SUFFICES ASSUME NEW n \in 1 .. Len(r), Sole(r, n)
               PROVE  (n >= 2 => r[2].kind = "keyframe") /\ Dense(r, n - 1)
    BY DEF Evened
  <1>1. Len(q) \in Nat /\ Len(r) = Len(q) + 1 /\ n - 1 \in Int /\ n - 1 <= Len(q)
    BY DEF Grows
  <1>2. CASE n \in 1 .. Len(q)
    <2>1. (n >= 2 => q[2].kind = "keyframe") /\ Dense(q, n - 1)
      BY <1>1, <1>2, SoleShrinks DEF Evened
    <2>2. Dense(r, n - 1)
      BY <1>1, <2>1, DenseGrows
    <2>3. n >= 2 => r[2] = q[2]
      BY <1>1, <1>2 DEF Grows
    <2>4. QED
      BY <2>1, <2>2, <2>3
  <1>3. CASE n = Len(q) + 1
    <2>1. Sole(q, Len(q)) /\ (Len(q) = 1 => line.kind = "keyframe") /\ Dense(r, n - 1)
      BY <1>1, <1>3, SoleEnds
    <2>2. CASE Len(q) = 0
      BY <1>3, <2>1, <2>2
    <2>3. CASE Len(q) = 1
      BY <1>3, <2>1, <2>3 DEF Grows
    <2>4. CASE Len(q) >= 2
      <3>1. q[2].kind = "keyframe"
        BY <1>1, <2>1, <2>4 DEF Evened
      <3>2. r[2] = q[2]
        BY <1>1, <2>4 DEF Grows
      <3>3. QED
        BY <2>1, <3>1, <3>2
    <2>5. Len(q) = 0 \/ Len(q) = 1 \/ Len(q) >= 2
      BY Zenon, <1>1, FewOrMore
    <2>6. QED
      BY Zenon, <2>2, <2>3, <2>4, <2>5
  <1>4. QED
    BY <1>1, <1>2, <1>3

LEMMA EvenGlued ==
    ASSUME NEW lines, IsLines(lines), lines # <<>>, Evened(lines),
           NEW q, q = [lines EXCEPT ![Len(lines)] = Malformed]
    PROVE  IsLines(q) /\ Evened(q) /\ q # <<>> /\ ~Sole(q, Len(q))
  <1> DEFINE n == Len(lines)
  <1>1. /\ IsLines(q) /\ q # <<>> /\ n \in Nat /\ n # 0 /\ Len(q) = n /\ q[n] = Malformed
        /\ \A i \in 1 .. n : i # n => q[i] = lines[i]
    BY GlueForm
  <1>2. ~Sole(q, n)
    BY <1>1, MalformedForm DEF Sole, Is
  <1>3. ASSUME NEW i \in 1 .. n, Sole(q, i)
        PROVE  (i >= 2 => q[2].kind = "keyframe") /\ Dense(q, i - 1)
    <2>1. i < n
      BY <1>1, <1>2, <1>3
    <2>2. \A k \in 1 .. i : k \in 1 .. n /\ q[k] = lines[k]
      BY <1>1, <2>1
    <2>3. Sole(lines, i)
      BY <1>3, <2>2 DEF Sole
    <2>4. (i >= 2 => lines[2].kind = "keyframe") /\ Dense(lines, i - 1)
      BY <2>3 DEF Evened
    <2>5. ASSUME NEW j \in 1 .. i - 1, NEW k \in 1 .. i - 1, j < k,
                 q[j].kind = "keyframe", q[k].kind = "observation",
                 q[k].atMs - q[j].atMs >= KeyframeInterval
          PROVE  \E m \in j + 1 .. k + 1 :
                     m <= Len(q) /\ q[m].kind = "keyframe" /\ q[m].atMs <= q[k].atMs
      <3>1. q[j] = lines[j] /\ q[k] = lines[k]
        BY <2>2
      <3>2. PICK m \in j + 1 .. k + 1 :
                 lines[m].kind = "keyframe" /\ lines[m].atMs <= lines[k].atMs
        BY <2>4, <2>5, <3>1 DEF Dense
      <3>3. m \in 1 .. i /\ m <= Len(q)
        BY <1>1, <2>1
      <3>4. q[m] = lines[m]
        BY <2>2, <3>3
      <3>5. QED
        BY <3>1, <3>2, <3>3, <3>4
    <2>6. Dense(q, i - 1)
      BY <2>5 DEF Dense
    <2>7. i >= 2 => q[2] = lines[2]
      BY <2>2
    <2>8. QED
      BY <2>4, <2>6, <2>7
  <1>4. Evened(q)
    BY <1>1, <1>3 DEF Evened
  <1>5. QED
    BY <1>1, <1>2, <1>4

\* Whatever becomes of a line that answers those before it, the first opening stays
\* even; and it is the last line, if the recording goes on and there is no other opening.
LEMMA WriteSteadies ==
    ASSUME NEW s, Shaped(s), Steady(s), NEW line,
           s.recording # NoMatch /\ Sole(s.lines, Len(s.lines))
           /\ (Len(s.lines) # 0 => Moment(line)) =>
               /\ Len(s.lines) = 1 => line.kind = "keyframe"
               /\ \A q : Grows(q, s.lines, line) => Dense(q, Len(s.lines))
    PROVE  LET r == Write(s, line)
           IN  /\ Steady(r)
               /\ r.recording # NoMatch =>
                      /\ s.recording # NoMatch
                      /\ r.startedAt = s.startedAt /\ r.lastKeyframeAt = s.lastKeyframeAt
                      /\ Sole(r.lines, Len(r.lines)) => Grows(r.lines, s.lines, line)
  <1> DEFINE r == Write(s, line)
  <1>1. /\ Kept(s, r)
        /\ \/ s.recording = NoMatch /\ r = s
           \/ Wrote(s, r, line)
           \/ Broke(s, r, line)
    BY WriteOutcome
  <1> HIDE DEF r
  <1>2. r.startedAt = s.startedAt /\ r.lastKeyframeAt = s.lastKeyframeAt
    BY <1>1 DEF Kept
  <1>3. ASSUME s.torn, Glued(s, r)
        PROVE  Steady(r) /\ ~Sole(r.lines, Len(r.lines))
    BY <1>3, EvenGlued DEF Glued, Steady
  <1>4. ASSUME NEW l, Behind(s, r, l)
        PROVE  Grows(r.lines, s.lines, l) /\ IsLines(r.lines) /\ r.lines # <<>>
    BY <1>4, AppendGrows, AppendForm DEF Behind, Steady
  <1>5. ASSUME Behind(s, r, line), s.recording # NoMatch
        PROVE  Steady(r)
    <2>1. Grows(r.lines, s.lines, line)
      BY <1>4, <1>5
    <2>2. Sole(r.lines, Len(r.lines)) =>
              (Len(s.lines) = 1 => line.kind = "keyframe") /\ Dense(r.lines, Len(s.lines))
      BY <1>5, <2>1, SoleEnds
    <2>3. Evened(r.lines)
      BY <2>1, <2>2, EvenGrows DEF Steady
    <2>4. QED
      BY <1>4, <1>5, <2>3 DEF Steady
  <1>6. ASSUME Behind(s, r, Malformed)
        PROVE  Steady(r)
    <2>1. Grows(r.lines, s.lines, Malformed)
      BY <1>4, <1>6
    <2>2. ~Sole(r.lines, Len(r.lines))
      <3>1. Len(r.lines) \in 1 .. Len(r.lines) /\ r.lines[Len(r.lines)] = Malformed
        BY <2>1 DEF Grows
      <3>2. QED
        BY <3>1, MalformedForm DEF Sole, Is
    <2>3. Evened(r.lines)
      BY <2>1, <2>2, EvenGrows DEF Steady
    <2>4. QED
      BY <1>4, <1>6, <2>3 DEF Steady
  <1>7. CASE s.recording = NoMatch /\ r = s
    BY <1>7 DEF r
  <1>8. CASE Wrote(s, r, line)
    <2>1. s.recording # NoMatch
      BY <1>8 DEF Wrote
    <2>2. CASE s.torn
      BY <1>2, <1>3, <1>8, <2>1, <2>2 DEF Wrote, r
    <2>3. CASE ~s.torn
      <3>1. Behind(s, r, line)
        BY <1>8, <2>3 DEF Wrote
      <3>2. QED
        BY <1>2, <1>4, <1>5, <2>1, <3>1 DEF r
    <2>4. QED
      BY <2>2, <2>3
  <1>9. CASE Broke(s, r, line)
    <2>1. r.recording = NoMatch /\ s.recording # NoMatch
      BY <1>9 DEF Broke
    <2>2. Steady(r)
      <3>1. CASE r.lines = s.lines /\ r.lived = s.lived /\ r.torn = s.torn
        BY <3>1 DEF Steady
      <3>2. CASE s.torn /\ Glued(s, r)
        BY <1>3, <3>2
      <3>3. CASE Behind(s, r, line)
        BY <1>5, <2>1, <3>3
      <3>4. CASE Behind(s, r, Malformed)
        BY <1>6, <3>4
      <3>5. QED
        BY <1>9, <3>1, <3>2, <3>3, <3>4 DEF Broke
    <2>3. QED
      BY <2>1, <2>2 DEF r
  <1>10. QED
    BY <1>1, <1>7, <1>8, <1>9

\* A keyframe that is appended is the one that is counted from.
LEMMA KeyframeCounts ==
    ASSUME NEW r, NEW q, NEW line, Grows(r.lines, q, line), line.kind = "keyframe",
           line.atMs = r.lastKeyframeAt - r.startedAt
    PROVE  Keyed(r)
  <1>1. Len(r.lines) \in 1 .. Len(r.lines) /\ r.lines[Len(r.lines)] = line
    BY DEF Grows
  <1>2. QED
    BY <1>1 DEF Keyed

\* A keyframe paces a recording that has begun, if it answers what is before it.
LEMMA WriteKeyframePaces ==
    ASSUME NEW s, Shaped(s), Steady(s), NEW at \in Nat, NEW reason,
           s.recording # NoMatch /\ Sole(s.lines, Len(s.lines)) =>
               /\ Len(s.lines) # 0
               /\ \A q : Grows(q, s.lines, KeyframeLine(s, at, reason)) => Dense(q, Len(q))
    PROVE  Paced(WriteKeyframe(s, at, reason))
  <1> DEFINE line == KeyframeLine(s, at, reason)
             w == Write(s, line)
             r == WriteKeyframe(s, at, reason)
             n == Len(s.lines)
  <1>1. r = [w EXCEPT !.lastKeyframeAt = at]
    BY DEF WriteKeyframe
  <1>2. line.kind = "keyframe" /\ line.atMs = at - s.startedAt
    BY DEF KeyframeLine
  <1>3. s.recording # NoMatch /\ Sole(s.lines, n) =>
            n # 0 /\ \A q : Grows(q, s.lines, line) => Dense(q, Len(q))
    OBVIOUS
  <1> HIDE DEF line
  <1>4. ASSUME s.recording # NoMatch, Sole(s.lines, n), NEW q, Grows(q, s.lines, line)
        PROVE  Dense(q, n)
    <2>1. Dense(q, Len(q)) /\ n \in Int /\ Len(q) \in Int /\ n <= Len(q)
      BY <1>3, <1>4 DEF Grows
    <2>2. QED
      BY <2>1, DenseLess
  <1>5. /\ Steady(w)
        /\ w.recording # NoMatch =>
               /\ s.recording # NoMatch /\ w.startedAt = s.startedAt
               /\ Sole(w.lines, Len(w.lines)) => Grows(w.lines, s.lines, line)
    BY <1>2, <1>4, WriteSteadies
  <1>6. Shaped(w)
    BY WriteForm DEF Same
  <1> HIDE DEF w, r
  <1>7. /\ r.lines = w.lines /\ r.recording = w.recording /\ r.torn = w.torn
        /\ r.startedAt = w.startedAt /\ r.lastKeyframeAt = at
    BY <1>1, <1>6 DEF Shaped, Keys
  <1>8. ASSUME r.recording # NoMatch, Sole(r.lines, Len(r.lines))
        PROVE  /\ Len(r.lines) >= 2 /\ r.lastKeyframeAt \in Nat
               /\ Dense(r.lines, Len(r.lines)) /\ Keyed(r)
    <2>1. Grows(r.lines, s.lines, line) /\ s.recording # NoMatch
          /\ r.startedAt = s.startedAt
      BY <1>5, <1>7, <1>8
    <2>2. Sole(s.lines, n)
      BY <1>8, <2>1, SoleEnds
    <2>3. n # 0 /\ Dense(r.lines, Len(r.lines))
      BY <1>3, <2>1, <2>2
    <2>4. Len(r.lines) >= 2
      BY <2>1, <2>3 DEF Grows
    <2>5. Keyed(r)
      BY <1>2, <1>7, <2>1, KeyframeCounts
    <2>6. QED
      BY <1>7, <2>3, <2>4, <2>5
  <1>9. Steady(r)
    BY <1>5, <1>7 DEF Steady
  <1>10. QED
    BY <1>8, <1>9 DEF Paced, r

\* A recording that is paced needs no answer: a keyframe paces it.
LEMMA AnyKeyframePaces ==
    ASSUME NEW s, Shaped(s), Paced(s), NEW at \in Nat, NEW reason
    PROVE  Paced(WriteKeyframe(s, at, reason))
  <1> DEFINE line == KeyframeLine(s, at, reason)
  <1>1. line.kind # "observation"
    BY DEF KeyframeLine
  <1> HIDE DEF line
  <1>2. ASSUME s.recording # NoMatch, Sole(s.lines, Len(s.lines))
        PROVE  /\ Len(s.lines) # 0
               /\ \A q : Grows(q, s.lines, line) => Dense(q, Len(q))
    <2>1. Dense(s.lines, Len(s.lines)) /\ Len(s.lines) >= 2
      BY <1>2 DEF Paced
    <2>2. ASSUME NEW q, Grows(q, s.lines, line)
          PROVE  Dense(q, Len(q))
      BY <1>1, <2>1, <2>2, DenseOther
    <2>3. QED
      BY <2>1, <2>2
  <1>3. QED
    BY <1>2, WriteKeyframePaces DEF Paced, line

LEMMA ClosePaces ==
    ASSUME NEW s, Shaped(s), Paced(s), NEW at \in Nat, NEW reason
    PROVE  Paced(CloseRecording(s, at, reason))
  <1> DEFINE w == WriteKeyframe(s, at, reason)
             r == CloseRecording(s, at, reason)
  <1>1. CASE s.recording = NoMatch
    BY <1>1 DEF CloseRecording
  <1>2. CASE s.recording # NoMatch
    <2>1. Paced(w) /\ Shaped(w)
      BY WriteKeyframeForm, AnyKeyframePaces DEF Same
    <2>2. r = [w EXCEPT !.recording = NoMatch]
      BY <1>2 DEF CloseRecording, Abandon
    <2> HIDE DEF w, r
    <2>3. r.lines = w.lines /\ r.recording = NoMatch /\ r.torn = w.torn
      BY <2>1, <2>2 DEF Shaped, Keys
    <2>4. QED
      BY <2>1, <2>3, SamePace DEF r
  <1>3. QED
    BY <1>1, <1>2

LEMMA NothingPaced == Evened(<<>>)
  BY EmptyForm DEF Evened

LEMMA OpenPaces ==
    ASSUME NEW s, Shaped(s), Paced(s), NEW at \in Nat, NEW id \in Matches, NEW refused
    PROVE  Paced(OpenRecording(s, id, at, refused))
  <1> DEFINE closed == CloseRecording(s, at, "superseded")
             opened == OpenSink(closed, id, at)
             head == HeaderLine(at)
             headed == Write(opened, head)
             r == OpenRecording(s, id, at, refused)
  <1>1. Shaped(closed) /\ closed.recording = NoMatch
    BY CloseForm DEF Same
  <1>2. Paced(closed)
    BY ClosePaces
  <1>3. CASE closed.died
    BY <1>2, <1>3 DEF OpenRecording
  <1>4. CASE ~closed.died /\ refused
    <2>1. r = [closed EXCEPT !.failed = @ \cup {id}]
      BY <1>4 DEF OpenRecording
    <2> HIDE DEF closed, r
    <2>2. r.lines = closed.lines /\ r.recording = NoMatch /\ r.torn = closed.torn
      BY <1>1, <2>1 DEF Shaped, Keys
    <2>3. QED
      BY <1>2, <2>2, SamePace DEF r
  <1>5. CASE ~closed.died /\ ~refused
    <2> DEFINE resumed == closed.fileOf = id
    <2>1. opened = [closed EXCEPT !.recording = id, !.fileOf = id,
                        !.lines = IF resumed THEN closed.lines ELSE <<>>,
                        !.lived = IF resumed THEN closed.lived ELSE <<>>,
                        !.torn = resumed /\ closed.torn,
                        !.startedAt = at, !.lastKeyframeAt = at]
      BY <1>1 DEF OpenSink, Shaped, Keys
    <2>2. r = WriteKeyframe(headed, at, "open")
      BY <1>5 DEF OpenRecording
    <2>3. ~Moment(head)
      BY DEF HeaderLine, Moment
    <2> HIDE DEF closed, opened, head
    <2>4. /\ Shaped(opened) /\ opened.startedAt = at
          /\ opened.lines = (IF resumed THEN closed.lines ELSE <<>>)
          /\ opened.torn = (resumed /\ closed.torn)
      BY <1>1, <2>1 DEF Shaped, Keys
    <2>5. Steady(opened)
      BY <1>2, <2>4, NothingPaced, EmptyForm DEF Paced, Steady
    <2>6. ASSUME Len(opened.lines) # 0 => Moment(head), NEW q
          PROVE  /\ Len(opened.lines) # 1
                 /\ Dense(q, Len(opened.lines))
      <3>1. Len(opened.lines) = 0
        BY <2>3, <2>6
      <3>2. Dense(q, 0)
        BY DEF Dense
      <3>3. QED
        BY <3>1, <3>2
    <2>7. /\ Steady(headed)
          /\ headed.recording # NoMatch /\ Sole(headed.lines, Len(headed.lines)) =>
                 Grows(headed.lines, opened.lines, head)
      BY <2>4, <2>5, <2>6, WriteSteadies
    <2>8. Shaped(headed)
      BY <2>4, WriteForm DEF Same
    <2> HIDE DEF headed
    <2> DEFINE key == KeyframeLine(headed, at, "open")
    <2>9. key.kind = "keyframe"
      BY DEF KeyframeLine
    <2> HIDE DEF key
    <2>10. ASSUME headed.recording # NoMatch, Sole(headed.lines, Len(headed.lines))
           PROVE  /\ Len(headed.lines) # 0
                  /\ \A q : Grows(q, headed.lines, key) => Dense(q, Len(q))
      <3>1. Grows(headed.lines, opened.lines, head)
        BY <2>7, <2>10
      <3>2. Len(opened.lines) = 0
        BY <2>3, <2>10, <3>1, SoleEnds
      <3>3. Len(headed.lines) = 1
        BY <3>1, <3>2 DEF Grows
      <3>4. Dense(headed.lines, 1)
        BY DEF Dense
      <3>5. ASSUME NEW q, Grows(q, headed.lines, key)
            PROVE  Dense(q, Len(q))
        BY <2>9, <3>3, <3>4, <3>5, DenseOther
      <3>6. QED
        BY <3>3, <3>5
    <2>11. Paced(WriteKeyframe(headed, at, "open"))
      BY <2>7, <2>8, <2>10, WriteKeyframePaces DEF key
    <2>12. QED
      BY <2>2, <2>11
  <1>6. QED
    BY <1>3, <1>4, <1>5

\* The observation's line, and a keyframe behind it when the last is an interval ago.
LEMMA ObservationPaces ==
    ASSUME NEW s, Shaped(s), NEW at \in Nat, Retold(s, at), Paced(s), NEW o
    PROVE  Paced(OnObservation(s, o, at))
  <1> DEFINE f == [s EXCEPT !.facts = Fuse(@, o, at)]
             line == ObservationLine(f, o, at)
             w == Write(f, line)
             key == KeyframeLine(w, at, "interval")
             k == WriteKeyframe(w, at, "interval")
             r == Record(f, o, at)
             n == Len(s.lines)
  <1>1. /\ Shaped(f) /\ f.lines = s.lines /\ f.recording = s.recording /\ f.torn = s.torn
        /\ f.startedAt = s.startedAt /\ f.lastKeyframeAt = s.lastKeyframeAt
    BY DEF Shaped, Keys
  <1>2. OnObservation(s, o, at) = r
    BY DEF OnObservation
  <1>3. /\ line.kind = "observation" /\ line.atMs = at - f.startedAt
        /\ key.kind = "keyframe" /\ key.atMs = at - w.startedAt
    BY DEF ObservationLine, KeyframeLine
  <1>4. r = IF w.recording # NoMatch /\ at - f.lastKeyframeAt >= KeyframeInterval
            THEN k ELSE w
    BY DEF Record
  <1> HIDE DEF f, line, r, key
  <1>5. Steady(f)
    BY <1>1 DEF Paced, Steady
  <1>6. ASSUME f.recording # NoMatch, Sole(f.lines, Len(f.lines))
        PROVE  /\ n >= 2 /\ n \in Nat /\ Dense(s.lines, n) /\ Keyed(s)
               /\ s.lastKeyframeAt \in Nat /\ s.startedAt \in Nat
    BY <1>1, <1>6 DEF Paced, Steady, IsLines, Retold, Live
  <1>7. ASSUME f.recording # NoMatch, Sole(f.lines, Len(f.lines)),
               NEW q, Grows(q, f.lines, line)
        PROVE  Dense(q, Len(f.lines))
    BY <1>1, <1>6, <1>7, DenseGrows
  <1>8. ASSUME f.recording # NoMatch, Sole(f.lines, Len(f.lines))
        PROVE  Len(f.lines) # 1
    <2>1. n >= 2 /\ n \in Nat
      BY Zenon, <1>6, <1>8
    <2>2. n # 1 /\ f.lines = s.lines
      BY Zenon, <1>1, <2>1, FewOrMore
    <2>3. QED
      BY Zenon, <2>2
  <1>9. /\ Steady(w)
        /\ w.recording # NoMatch =>
               /\ f.recording # NoMatch
               /\ w.startedAt = f.startedAt /\ w.lastKeyframeAt = f.lastKeyframeAt
               /\ Sole(w.lines, Len(w.lines)) => Grows(w.lines, f.lines, line)
    BY <1>1, <1>5, <1>7, <1>8, WriteSteadies
  <1>10. Shaped(w)
    BY <1>1, WriteForm DEF Same
  <1> HIDE DEF w
  <1>11. ASSUME w.recording # NoMatch, Sole(w.lines, Len(w.lines))
         PROVE  /\ Grows(w.lines, s.lines, line) /\ Len(w.lines) = n + 1
                /\ Sole(s.lines, n) /\ s.recording # NoMatch
                /\ n >= 2 /\ n \in Nat /\ Dense(s.lines, n) /\ Keyed(s)
                /\ s.lastKeyframeAt \in Nat /\ s.startedAt \in Nat /\ line.atMs \in Int
    <2>1. Grows(w.lines, s.lines, line) /\ s.recording # NoMatch
      BY <1>1, <1>9, <1>11
    <2>2. Sole(s.lines, n)
      BY <1>11, <2>1, SoleEnds
    <2>3. /\ n >= 2 /\ n \in Nat /\ Dense(s.lines, n) /\ Keyed(s)
          /\ s.lastKeyframeAt \in Nat /\ s.startedAt \in Nat
      BY <1>1, <1>6, <2>1, <2>2
    <2>4. line.atMs \in Int
      BY <1>1, <1>3, <2>3
    <2>5. QED
      BY <2>1, <2>2, <2>3, <2>4 DEF Grows
  <1>12. CASE w.recording # NoMatch /\ at - f.lastKeyframeAt >= KeyframeInterval
    <2>1. ASSUME Sole(w.lines, Len(w.lines))
          PROVE  /\ Len(w.lines) # 0
                 /\ \A q : Grows(q, w.lines, key) => Dense(q, Len(q))
      <3>1. ASSUME NEW q, Grows(q, w.lines, key)
            PROVE  Dense(q, Len(q))
        <4>1. key.kind = "keyframe" /\ key.atMs = line.atMs
          BY <1>3, <1>9, <1>12
        <4>2. QED
          BY <1>11, <1>12, <2>1, <3>1, <4>1, DenseKeyed
      <3>2. QED
        BY <1>11, <1>12, <2>1, <3>1
    <2>2. Paced(k)
      BY <1>9, <1>10, <2>1, WriteKeyframePaces DEF key
    <2>3. QED
      BY <1>2, <1>4, <1>12, <2>2
  <1>13. CASE ~(w.recording # NoMatch /\ at - f.lastKeyframeAt >= KeyframeInterval)
    <2>1. ASSUME w.recording # NoMatch, Sole(w.lines, Len(w.lines))
          PROVE  /\ Len(w.lines) >= 2 /\ w.lastKeyframeAt \in Nat
                 /\ Dense(w.lines, Len(w.lines)) /\ Keyed(w)
      <3>1. PICK p \in 1 .. n : s.lines[p].kind = "keyframe"
                                /\ s.lines[p].atMs = s.lastKeyframeAt - s.startedAt
        BY <1>11, <2>1 DEF Keyed
      <3>2. Timed(s.lines, n) /\ s.lines[n].atMs <= at - s.startedAt
        <4>1. n \in 1 .. n /\ Sole(s.lines, n) /\ s.recording # NoMatch
          BY <1>11, <2>1
        <4>2. QED
          BY <4>1 DEF Retold, Told, Live
      <3>3. s.lines[p].atMs <= line.atMs
        <4>1. n \in 1 .. n /\ p <= n
          BY <1>11, <2>1
        <4>2. /\ s.lines[p].atMs <= s.lines[n].atMs
              /\ s.lines[p].atMs \in Int /\ s.lines[n].atMs \in Int
          BY <3>2, <4>1 DEF Timed
        <4>3. QED
          BY <1>1, <1>3, <1>11, <2>1, <3>2, <4>2
      <3>4. line.atMs - s.lines[p].atMs < KeyframeInterval
        <4>1. ~(at - s.lastKeyframeAt >= KeyframeInterval)
          BY <1>1, <1>13, <2>1
        <4>2. QED
          BY <1>1, <1>3, <1>11, <2>1, <3>1, <4>1, RecordAssumption
      <3>5. Dense(w.lines, Len(w.lines))
        BY <1>11, <2>1, <3>1, <3>2, <3>3, <3>4, DenseObserved
      <3>6. w.lines[p] = s.lines[p] /\ p \in 1 .. Len(w.lines)
        BY <1>11, <2>1, <3>1 DEF Grows
      <3>7. w.startedAt = s.startedAt /\ w.lastKeyframeAt = s.lastKeyframeAt
        BY <1>1, <1>9, <2>1
      <3>8. Keyed(w)
        BY <3>1, <3>6, <3>7 DEF Keyed
      <3>9. QED
        BY <1>11, <2>1, <3>5, <3>7, <3>8
    <2>2. Paced(w)
      BY <1>9, <2>1 DEF Paced
    <2>3. QED
      BY <1>2, <1>4, <1>13, <2>2
  <1>14. QED
    BY <1>12, <1>13

LEMMA ResetPaces ==
    ASSUME NEW s, Shaped(s), Paced(s)
    PROVE  Paced(ResetWorld(s)) /\ Shaped(ResetWorld(s))
  <1> DEFINE r == ResetWorld(s)
  <1>1. r = [s EXCEPT !.facts = EmptyState]
    BY DEF ResetWorld
  <1> HIDE DEF r
  <1>2. /\ DOMAIN r = Keys /\ r.lines = s.lines /\ r.recording = s.recording
        /\ r.torn = s.torn /\ r.startedAt = s.startedAt /\ r.lastKeyframeAt = s.lastKeyframeAt
    BY <1>1 DEF Shaped, Keys
  <1>3. QED
    BY <1>2, SamePace DEF Shaped, r

LEMMA StartedPaces ==
    ASSUME NEW s, Shaped(s), Paced(s), NEW at \in Nat, NEW id \in Matches, NEW refused
    PROVE  Paced(Started(s, id, at, refused))
  <1> DEFINE named == [s EXCEPT !.matchId = id]
             reset == ResetWorld(named)
             opened == OpenRecording(reset, id, at, refused)
             r == Started(s, id, at, refused)
  <1>1. /\ Shaped(named) /\ named.lines = s.lines /\ named.recording = s.recording
        /\ named.torn = s.torn /\ named.startedAt = s.startedAt /\ named.lastKeyframeAt = s.lastKeyframeAt
    BY DEF Shaped, Keys
  <1>2. r = [opened EXCEPT !.shell = id]
    BY DEF Started
  <1> HIDE DEF named
  <1>3. Paced(named)
    BY <1>1, SamePace
  <1>4. Paced(reset) /\ Shaped(reset)
    BY <1>1, <1>3, ResetPaces
  <1> HIDE DEF reset
  <1>5. Shaped(opened) /\ Paced(opened)
    BY <1>4, OpenForm, OpenPaces DEF Same
  <1> HIDE DEF opened, r
  <1>6. /\ r.lines = opened.lines /\ r.recording = opened.recording
        /\ r.torn = opened.torn /\ r.startedAt = opened.startedAt /\ r.lastKeyframeAt = opened.lastKeyframeAt
    BY <1>2, <1>5 DEF Shaped, Keys
  <1>7. QED
    BY <1>5, <1>6, SamePace DEF r

LEMMA EndedPaces ==
    ASSUME NEW s, Shaped(s), Paced(s), NEW at \in Nat
    PROVE  Paced(Ended(s, at))
  <1> DEFINE ended == [s EXCEPT !.matchId = NoMatch]
             closed == CloseRecording(ended, at, "match_ended")
             r == Ended(s, at)
  <1>1. /\ Shaped(ended) /\ ended.lines = s.lines /\ ended.recording = s.recording
        /\ ended.torn = s.torn /\ ended.startedAt = s.startedAt /\ ended.lastKeyframeAt = s.lastKeyframeAt
    BY DEF Shaped, Keys
  <1>2. r = [closed EXCEPT !.shell = NoMatch]
    BY DEF Ended
  <1> HIDE DEF ended
  <1>3. Paced(ended)
    BY <1>1, SamePace
  <1>4. Shaped(closed) /\ Paced(closed)
    BY <1>1, <1>3, CloseForm, ClosePaces DEF Same
  <1> HIDE DEF closed, r
  <1>5. /\ r.lines = closed.lines /\ r.recording = closed.recording
        /\ r.torn = closed.torn /\ r.startedAt = closed.startedAt /\ r.lastKeyframeAt = closed.lastKeyframeAt
    BY <1>2, <1>4 DEF Shaped, Keys
  <1>6. QED
    BY <1>4, <1>5, SamePace DEF r

LEMMA TurnedPaces ==
    ASSUME NEW s, Shaped(s), Paced(s), NEW edge
    PROVE  Paced(Turned(s, edge))
  <1>1. CASE edge = "none"
    BY <1>1 DEF Turned
  <1>2. CASE edge # "none"
    <2> DEFINE r == Turned(s, edge)
    <2>1. r = [s EXCEPT !.paused = (edge = "paused")]
      BY <1>2 DEF Turned
    <2> HIDE DEF r
    <2>2. /\ r.lines = s.lines /\ r.recording = s.recording
          /\ r.torn = s.torn /\ r.startedAt = s.startedAt /\ r.lastKeyframeAt = s.lastKeyframeAt
      BY <2>1 DEF Shaped, Keys
    <2>3. QED
      BY <2>2, SamePace DEF r
  <1>3. QED
    BY <1>1, <1>2

LEMMA ResyncPaces ==
    ASSUME NEW s, Shaped(s), Paced(s), NEW at \in Nat
    PROVE  Paced(Resync(s, at))
  <1> DEFINE reset == ResetWorld(s)
  <1>1. Shaped(reset) /\ Paced(reset)
    BY ResetPaces
  <1>2. Resync(s, at) = IF reset.recording = NoMatch THEN reset
                        ELSE WriteKeyframe(reset, at, "clock_discontinuity")
    BY DEF Resync, Keyframe
  <1> HIDE DEF reset
  <1>3. QED
    BY <1>1, <1>2, AnyKeyframePaces

LEMMA LifecyclePaces ==
    ASSUME NEW s, Agrees(s), Paced(s), NEW e, e.started \in MatchOrNone,
           NEW at \in Nat, NEW refused
    PROVE  Paced(OnLifecycle(s, e, at, refused))
  <1> DEFINE s1 == IF e.superseded THEN Ended(s, at) ELSE s
             s2 == IF e.started # NoMatch THEN Started(s1, e.started, at, refused) ELSE s1
             s3 == IF e.over THEN Ended(s2, at) ELSE s2
             s4 == Turned(s3, e.turned)
             r == IF e.jumped THEN Resync(s4, at) ELSE s4
  <1>1. Agrees(s1) /\ Paced(s1)
    BY EndedForm, EndedPaces DEF Agrees
  <1> HIDE DEF s1
  <1>2. Agrees(s2) /\ Paced(s2)
    <2>1. CASE e.started = NoMatch
      BY <1>1, <2>1
    <2>2. CASE e.started # NoMatch
      <3>1. e.started \in Matches
        BY <2>2 DEF MatchOrNone
      <3>2. QED
        BY <1>1, <2>2, <3>1, StartedForm, StartedPaces DEF Agrees
    <2>3. QED
      BY <2>1, <2>2
  <1> HIDE DEF s2
  <1>3. Agrees(s3) /\ Paced(s3)
    BY <1>2, EndedForm, EndedPaces DEF Agrees
  <1> HIDE DEF s3
  <1>4. Agrees(s4) /\ Paced(s4)
    BY <1>3, TurnedForm, TurnedPaces DEF Agrees
  <1> HIDE DEF s4
  <1>5. Paced(r)
    BY <1>4, ResyncPaces DEF Agrees
  <1>6. r = OnLifecycle(s, e, at, refused)
    BY DEF OnLifecycle, s1, s2, s3, s4
  <1> HIDE DEF r
  <1>7. QED
    BY <1>5, <1>6

PaceKept == Paced(d)

LEMMA InitPaced == Init => PaceKept
  <1> SUFFICES ASSUME Init PROVE PaceKept
    OBVIOUS
  <1>1. PICK disk \in Disks : d = FreshSubsystem(NoMatch, <<>>, <<>>, FALSE, disk)
    BY DEF Init
  <1>2. d.lines = <<>> /\ d.recording = NoMatch /\ d.torn = FALSE
    BY <1>1 DEF FreshSubsystem
  <1>3. QED
    BY <1>2, NothingPaced, EmptyForm DEF PaceKept, Paced, Steady

LEMMA NextPaced ==
    ASSUME IInv, TaleKept, PaceKept, [Next]_matchVars
    PROVE  PaceKept'
  <1> now \in Nat
    BY DEF IInv, GameSound
  <1>1. CASE PostSnapshot
    <2>1. PICK refused \in BOOLEAN :
             LET map == [match |-> game.match, state |-> game.state,
                         paused |-> game.pause = "now",
                         clocked |-> game.state # "hero_selection", clock |-> game.clock]
             IN  d' = OnObservation(OnLifecycle(d, EdgesOf(tracker, map, now), now, refused),
                                    Payload, now)
      BY <1>1 DEF PostSnapshot
    <2> DEFINE map == [match |-> game.match, state |-> game.state,
                       paused |-> game.pause = "now",
                       clocked |-> game.state # "hero_selection", clock |-> game.clock]
               edges == EdgesOf(tracker, map, now)
               turned == OnLifecycle(d, edges, now, refused)
    <2>2. game.match \in MatchOrNone
      BY DEF IInv, GameSound
    <2>3. /\ edges.started \in MatchOrNone /\ edges.superseded \in BOOLEAN
          /\ edges.started # NoMatch /\ ~edges.superseded => tracker.matchId = NoMatch
      BY <2>2 DEF EdgesOf, MatchOrNone
    <2>4. d' = OnObservation(turned, Payload, now)
      BY <2>1
    <2> HIDE DEF edges
    <2>5. Agrees(d)
      BY <1>1 DEF PostSnapshot, IInv, MatchSound
    <2>6. Retold(turned, now) /\ Shaped(turned)
      BY <2>3, <2>5, LifecycleForm, LifecycleTells DEF Agrees, TaleKept
    <2>7. Paced(turned)
      BY <2>3, <2>5, LifecyclePaces DEF PaceKept
    <2> HIDE DEF turned
    <2>8. QED
      BY <2>4, <2>6, <2>7, ObservationPaces DEF PaceKept
  <1>2. CASE LogEvent
    BY <1>2, ObservationPaces
       DEF LogEvent, IInv, MatchSound, Agrees, TaleKept, PaceKept
  <1>3. CASE Detections
    BY <1>3, ObservationPaces
       DEF Detections, IInv, MatchSound, Agrees, TaleKept, PaceKept
  <1>4. CASE Stop
    <2> DEFINE s == [d EXCEPT !.shell = NoMatch]
               c == CloseRecording(s, now, "shutdown")
    <2>1. d' = ResetWorld(c) /\ Shaped(d)
      BY <1>4 DEF Stop, IInv, MatchSound, Agrees
    <2>2. /\ Shaped(s) /\ s.lines = d.lines /\ s.recording = d.recording
          /\ s.torn = d.torn /\ s.startedAt = d.startedAt /\ s.lastKeyframeAt = d.lastKeyframeAt
      BY <2>1 DEF Shaped, Keys
    <2> HIDE DEF s
    <2>3. Paced(s)
      BY <2>2, SamePace DEF PaceKept
    <2>4. Shaped(c) /\ Paced(c)
      BY <2>2, <2>3, CloseForm, ClosePaces DEF Same
    <2> HIDE DEF c
    <2>5. QED
      BY <2>1, <2>4, ResetPaces DEF PaceKept
  <1>5. CASE Restart
    <2>1. d' = FreshSubsystem(d.fileOf, d.lines, d.lived, d.torn, d.disk)
      BY <1>5 DEF Restart
    <2>2. d'.lines = d.lines /\ d'.recording = NoMatch /\ d'.torn = d.torn
      BY <2>1 DEF FreshSubsystem
    <2>3. QED
      BY <2>2 DEF PaceKept, Paced, Steady
  <1>6. CASE Tick \/ GameStep \/ UNCHANGED matchVars
    BY <1>6 DEF Tick, GameStep, matchVars, PaceKept
  <1>7. QED
    BY <1>1, <1>2, <1>3, <1>4, <1>5, <1>6 DEF Next

\* Of the observations that a replay takes, those older than the history are of the
\* keyframe interval that begins with the anchor.
ReplayIsBounded ==
    \A i \in 1 .. Len(d.lines) :
        LET a == AnchorOf(d.lines, i)
        IN  Sole(d.lines, i) =>
                \A k \in a + 1 .. i - 1 :
                    /\ d.lines[k].kind = "observation"
                    /\ d.lines[k].atMs <= d.lines[i].atMs - HistoryWindow
                    => a # 0 /\ d.lines[k].atMs - d.lines[a].atMs < KeyframeInterval

LEMMA KeptBounds ==
    ASSUME TaleKept, PaceKept
    PROVE  ReplayIsBounded
  <1> SUFFICES ASSUME NEW i \in 1 .. Len(d.lines), Sole(d.lines, i),
                      NEW k \in AnchorOf(d.lines, i) + 1 .. i - 1,
                      d.lines[k].kind = "observation",
                      d.lines[k].atMs <= d.lines[i].atMs - HistoryWindow
               PROVE  /\ AnchorOf(d.lines, i) # 0
                      /\ d.lines[k].atMs - d.lines[AnchorOf(d.lines, i)].atMs < KeyframeInterval
    BY DEF ReplayIsBounded
  <1> DEFINE q == d.lines
             a == AnchorOf(q, i)
             notAfter == q[i].atMs - HistoryWindow
  <1>1. /\ IsLines(q) /\ Timed(q, i) /\ Is("header", q[1])
        /\ i >= 2 => q[2].kind = "keyframe"
        /\ Dense(q, i - 1)
    <2>1. Told(q, d.lived) /\ IsLines(q) /\ Evened(q)
      BY DEF TaleKept, Retold, Told, PaceKept, Paced, Steady
    <2>2. 1 \in 1 .. i
      BY <2>1 DEF IsLines
    <2>3. QED
      BY <2>1, <2>2 DEF Told, Evened, Sole
  <1>2. Len(q) \in Nat /\ i \in 1 .. i
    BY <1>1 DEF IsLines
  <1>3. q[i].atMs \in Int /\ notAfter \in Int
    BY <1>1, <1>2, RecordAssumption DEF Timed
  <1>4. a \in 0 .. i /\ (a # 0 => q[a].kind = "keyframe") /\ Newest(q, a, i, notAfter)
    BY <1>1, <1>3, AnchorForm DEF AnchorOf
  <1>5. k \in a + 1 .. i - 1 /\ q[k].kind = "observation" /\ q[k].atMs <= notAfter
    OBVIOUS
  <1> SUFFICES a # 0 /\ q[k].atMs - q[a].atMs < KeyframeInterval
    OBVIOUS
  <1> HIDE DEF a, q, notAfter
  <1>6. a # 0
    <2>1. ASSUME a = 0 PROVE FALSE
      <3>1. k # 1
        BY <1>1, <1>5 DEF Is
      <3>2. 2 \in 1 .. i /\ i >= 2
        BY <1>2, <1>4, <1>5, <2>1, <3>1
      <3>3. QED
        BY <1>1, <1>4, <2>1, <3>2 DEF Newest
    <2>2. QED
      BY <2>1
  <1>7. ASSUME q[k].atMs - q[a].atMs >= KeyframeInterval
        PROVE  FALSE
    <2>1. a \in 1 .. i - 1 /\ k \in 1 .. i - 1 /\ a < k
      BY <1>2, <1>4, <1>5, <1>6
    <2>2. PICK m \in a + 1 .. k + 1 : q[m].kind = "keyframe" /\ q[m].atMs <= q[k].atMs
      BY <1>1, <1>4, <1>5, <1>6, <1>7, <2>1 DEF Dense
    <2>3. m \in a + 1 .. i /\ m \in 1 .. i /\ k \in 1 .. i
      BY <1>2, <1>4, <1>5, <2>1
    <2>4. q[m].atMs > notAfter
      BY <1>4, <2>2, <2>3 DEF Newest
    <2>5. q[m].atMs \in Int /\ q[k].atMs \in Int
      BY <1>1, <2>3 DEF Timed
    <2>6. QED
      BY <1>3, <1>5, <2>2, <2>4, <2>5
  <1>8. q[k].atMs \in Int /\ q[a].atMs \in Int /\ KeyframeInterval \in Int
    <2>1. k \in 1 .. i /\ a \in 1 .. i
      BY <1>2, <1>4, <1>5, <1>6
    <2>2. QED
      BY <1>1, <2>1, RecordAssumption DEF Timed
  <1>9. QED
    BY <1>6, <1>7, <1>8

\* A replay is flat in the length of the match: it takes the observations of the
\* history and those of one keyframe interval before it, however long the match, and
\* wherever the recording ended.  (reader.ts:29-35, recorder.ts:208-230)
THEOREM ReplayBoundHolds == Spec => []ReplayIsBounded
  <1>1. Init => PaceKept
    BY InitPaced
  <1>2. IInv /\ TaleKept /\ PaceKept /\ [Next]_matchVars => PaceKept'
    BY NextPaced
  <1>3. TaleKept /\ PaceKept => ReplayIsBounded
    BY KeptBounds
  <1>4. QED
    BY <1>1, <1>2, <1>3, InvariantHolds, TaleHolds, PTL DEF Spec
=============================================================================
