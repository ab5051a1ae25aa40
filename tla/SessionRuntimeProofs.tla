------------------------- MODULE SessionRuntimeProofs -------------------------
(***************************************************************************)
(* Proofs about SessionRuntime, for every set of environments and faults   *)
(* and all delays.                                                         *)
(*                                                                         *)
(* The argument goes through drafts.  Sound(s) is what every state keeps   *)
(* and Lawful(s, r) what every reduction of a state s to a draft r does    *)
(* besides: its effects move the window, the meter and the ducking to      *)
(* where the phase of r wants them.  One lemma per composite transition    *)
(* says what it returns, one per kind of input that it is lawful, and the  *)
(* theorems follow from the dispatch alone.  What the chip shows, and how  *)
(* a turn is left, are two more properties of every reduction.             *)
(***************************************************************************)
EXTENDS SessionRuntime, TLAPS

PendingTimers == [TimerIds -> Nat \cup {Off}]

Drafts == [phase    : Phases,
           muted    : BOOLEAN,
           latched  : BOOLEAN,
           pending  : PendingTimers,
           reported : SUBSET FaultKinds,
           env      : Environments,
           fx       : SUBSET Effects]

AllOff == [t \in TimerIds |-> Off]

Dead(s) == ~Capturing(s.phase) /\ s.phase # Speaking

SoundTimers(s) ==
    /\ s.pending["listen-timeout"] # Off <=> Capturing(s.phase)
    /\ s.pending["error-dismiss"] # Off
       <=> s.phase.kind = "error" /\ ~s.phase.fault.persistent
    /\ s.pending["silence-nudge"] # Off
       => s.phase.kind = "listening" /\ s.phase.silent # NotSilent
    /\ s.pending["elapsed-hint"] # Off => s.phase.kind = "processing"
    /\ s.pending["cancel-hint"] # Off => s.phase.kind = "processing"

SoundConditions(s) ==
    /\ s.reported # {} => s.phase.kind \in {"idle", "error", "armed"}
    /\ s.muted => s.phase.kind \notin {"armed", "listening", "processing"}
    /\ Capturing(s.phase) => (s.latched <=> s.phase.gesture = "latch")
    /\ s.phase.kind \in {"idle", "error"} => ~s.latched

Sound(s) == SoundTimers(s) /\ SoundConditions(s)

Hidden(s) == s.phase.kind = "idle" /\ ~s.muted

Meter(s) == IF Capturing(s.phase) THEN "input"
            ELSE IF s.phase.kind = "speaking" THEN "output" ELSE "off"

Lawful(s, r) ==
    /\ r \in Drafts
    /\ Sound(r)
    /\ IF "hide" \in r.fx THEN Hidden(r)
       ELSE IF "show" \in r.fx THEN ~Hidden(r)
       ELSE Hidden(r) <=> Hidden(s)
    /\ Meter(r) = IF "levels-off" \in r.fx THEN "off"
                  ELSE IF "levels-input" \in r.fx THEN "input"
                  ELSE IF "levels-output" \in r.fx THEN "output" ELSE Meter(s)
    /\ r.phase.kind = "speaking"
       <=> IF "duck-on" \in r.fx THEN TRUE
           ELSE IF "duck-off" \in r.fx THEN FALSE ELSE s.phase.kind = "speaking"

-----------------------------------------------------------------------------
\* The phases, told apart by their kind.
LEMMA PhaseForms ==
    ASSUME NEW p \in Phases
    PROVE  /\ p.kind \in {"idle", "armed", "listening", "processing", "speaking", "error"}
           /\ p.kind = "idle" => p = Idle
           /\ p.kind = "speaking" => p = Speaking
           /\ p.kind = "armed" => p.gesture \in Gestures /\ p = Armed(p.gesture)
           /\ p.kind = "listening" =>
                 /\ p.gesture \in Gestures
                 /\ p.silent \in Age \cup {NotSilent}
                 /\ p = Listening(p.gesture, p.silent)
           /\ p.kind = "processing" => p.running \in Age /\ p = Processing(p.running)
           /\ p.kind = "error" => p.fault \in Faults \cup {NoSpeech} /\ p = Error(p.fault)
  BY DEF Phases, Idle, Speaking, Armed, Listening, Processing, Error

\* What entering a phase leaves in a draft when it keeps no timer.
LEMMA EnterForm ==
    ASSUME NEW d \in Drafts, NEW p \in Phases
    PROVE  LET r == Enter(d, p, {})
           IN /\ r \in Drafts
              /\ r.phase = p
              /\ r.pending = AllOff
              /\ r.muted = d.muted
              /\ r.latched = d.latched
              /\ r.reported = d.reported
              /\ r.env = d.env
              /\ r.fx = d.fx
                   \cup (IF d.phase.kind = "speaking" /\ p.kind # "speaking"
                         THEN {"duck-off"} ELSE {})
                   \cup (IF p.kind = "speaking" /\ d.phase.kind # "speaking"
                         THEN {"duck-on"} ELSE {})
  BY DEF Enter, Drafts, AllOff, PendingTimers, Off, Effects

LEMMA OpenCaptureForm ==
    ASSUME NEW d \in Drafts, NEW p \in Phases, Capturing(p)
    PROVE  LET r == OpenCapture(d, p)
           IN /\ r \in Drafts
              /\ r.phase = p
              /\ r.pending = [AllOff EXCEPT !["listen-timeout"] = d.env.listenTimeout]
              /\ r.latched = (p.gesture = "latch")
              /\ r.muted = d.muted
              /\ r.reported = d.reported
              /\ r.fx = d.fx \cup {"show", "levels-input", "capture-start", "project"}
                   \cup (IF d.phase.kind = "speaking" THEN {"duck-off"} ELSE {})
  <1> DEFINE e == Enter(d, p, {})
             r == OpenCapture(d, p)
  <1>1. /\ e \in Drafts /\ e.phase = p /\ e.pending = AllOff
        /\ e.muted = d.muted /\ e.reported = d.reported /\ e.env = d.env
        /\ e.fx = d.fx \cup (IF d.phase.kind = "speaking" THEN {"duck-off"} ELSE {})
    BY EnterForm DEF Capturing
  <1>2. d.env.listenTimeout \in Nat /\ p.kind \in {"armed", "listening"}
    BY InputAssumption DEF Drafts, Delay, Capturing
  <1>3. r = [e EXCEPT !.latched = (p.gesture = "latch"),
                      !.pending = [AllOff EXCEPT !["listen-timeout"] = d.env.listenTimeout],
                      !.fx = @ \cup {"show", "levels-input", "capture-start", "project"}]
    BY <1>1 DEF OpenCapture, Emit, Schedule, Drafts
  <1>4. [AllOff EXCEPT !["listen-timeout"] = d.env.listenTimeout] \in PendingTimers
    BY <1>2 DEF AllOff, PendingTimers, TimerIds, Off
  <1> HIDE DEF e
  <1>5. QED
    BY <1>1, <1>3, <1>4, ZenonT(60) DEF Drafts, Effects

LEMMA ToProcessingForm ==
    ASSUME NEW d \in Drafts
    PROVE  LET r == ToProcessing(d)
           IN /\ r \in Drafts
              /\ r.phase = Processing(0)
              /\ r.pending = [AllOff EXCEPT !["elapsed-hint"] = ElapsedHint,
                                            !["cancel-hint"] = CancelHint]
              /\ r.latched = d.latched
              /\ r.muted = d.muted
              /\ r.reported = d.reported
              /\ r.fx = d.fx \cup {"levels-off", "project"}
                   \cup (IF d.phase.kind = "speaking" THEN {"duck-off"} ELSE {})
  <1> DEFINE e == Enter(d, Processing(0), {})
             pending == [AllOff EXCEPT !["elapsed-hint"] = ElapsedHint,
                                       !["cancel-hint"] = CancelHint]
  <1>1. Processing(0) \in Phases /\ Processing(0).kind = "processing"
    BY DelayAssumption DEF Phases, Age, Processing, Delay
  <1>2. /\ e \in Drafts /\ e.phase = Processing(0) /\ e.pending = AllOff
        /\ e.latched = d.latched
        /\ e.muted = d.muted /\ e.reported = d.reported /\ e.env = d.env
        /\ e.fx = d.fx \cup (IF d.phase.kind = "speaking" THEN {"duck-off"} ELSE {})
    BY <1>1, EnterForm
  <1>3. ToProcessing(d) = [e EXCEPT !.pending = pending,
                                    !.fx = @ \cup {"levels-off", "project"}]
    BY <1>2 DEF ToProcessing, Emit, Schedule, Drafts
  <1>4. pending \in PendingTimers
    BY DelayAssumption DEF AllOff, PendingTimers, TimerIds, Off, Delay
  <1> HIDE DEF e, pending
  <1>5. QED
    BY <1>2, <1>3, <1>4 DEF Drafts, Effects, pending

LEMMA ToIdleForm ==
    ASSUME NEW d \in Drafts
    PROVE  LET r == ToIdle(d)
           IN /\ r \in Drafts
              /\ r.phase = Idle
              /\ r.pending = AllOff
              /\ r.latched = FALSE
              /\ r.muted = d.muted
              /\ r.reported = d.reported
              /\ r.fx = d.fx \cup {"levels-off", IF d.muted THEN "show" ELSE "hide", "project"}
                   \cup (IF d.phase.kind = "speaking" THEN {"duck-off"} ELSE {})
  <1> DEFINE e == Enter(d, Idle, {})
  <1>1. Idle \in Phases /\ Idle.kind = "idle"
    BY DEF Phases, Idle
  <1>2. /\ e \in Drafts /\ e.phase = Idle /\ e.pending = AllOff
        /\ e.muted = d.muted /\ e.reported = d.reported
        /\ e.fx = d.fx \cup (IF d.phase.kind = "speaking" THEN {"duck-off"} ELSE {})
    BY <1>1, EnterForm
  <1>3. ToIdle(d) = [e EXCEPT !.latched = FALSE,
                              !.fx = @ \cup {"levels-off", IF d.muted THEN "show" ELSE "hide",
                                             "project"}]
    BY <1>2 DEF ToIdle, Emit, Drafts
  <1> HIDE DEF e
  <1>4. QED
    BY <1>2, <1>3, ZenonT(60) DEF Drafts, Effects

LEMMA EmitForm ==
    ASSUME NEW d \in Drafts, NEW x \in SUBSET Effects
    PROVE  LET r == Emit(d, x)
           IN /\ r \in Drafts
              /\ r.fx = d.fx \cup x
              /\ r.phase = d.phase /\ r.muted = d.muted /\ r.latched = d.latched
              /\ r.pending = d.pending /\ r.reported = d.reported /\ r.env = d.env
  BY DEF Emit, Drafts

\* A fault that is announced: everything but the repeat of a persistent one.
LEMMA RaiseFaultForm ==
    ASSUME NEW d \in Drafts, NEW f \in Faults \cup {NoSpeech},
           ~(f.persistent /\ f.kind \in d.reported)
    PROVE  LET r == RaiseFault(d, f)
           IN /\ r \in Drafts
              /\ r.phase = Error(f)
              /\ r.pending = IF f.persistent THEN AllOff
                             ELSE [AllOff EXCEPT !["error-dismiss"] = ErrorDismiss]
              /\ r.latched = FALSE
              /\ r.muted = d.muted
              /\ r.fx = d.fx \cup {"levels-off", "error-cue", "show", "project"}
                   \cup (IF IsActive(d.phase) THEN {"abort"} ELSE {})
                   \cup (IF d.phase.kind = "speaking" THEN {"duck-off"} ELSE {})
  <1> DEFINE reported == IF f.persistent THEN d.reported \cup {f.kind} ELSE d.reported
             aborts == IF IsActive(d.phase) THEN {"abort"} ELSE {}
             a == [Emit(d, aborts) EXCEPT !.reported = reported]
             e == Enter(a, Error(f), {})
             pending == IF f.persistent THEN AllOff
                        ELSE [AllOff EXCEPT !["error-dismiss"] = ErrorDismiss]
  <1>1. Error(f) \in Phases /\ Error(f).kind = "error"
    BY DEF Phases, Error
  <1>2. f.kind \in FaultKinds /\ f.persistent \in BOOLEAN
    <2>1. NoSpeech \in Fault
      BY DEF Fault, NoSpeech, FaultKinds
    <2>2. f \in Fault
      BY <2>1, InputAssumption
    <2>3. QED
      BY <2>2 DEF Fault
  <1>3. aborts \in SUBSET Effects
    BY DEF Effects
  <1>4. /\ a \in Drafts /\ a.phase = d.phase /\ a.muted = d.muted
        /\ a.fx = d.fx \cup aborts
    BY <1>2, <1>3 DEF Emit, Drafts
  <1> HIDE DEF a, aborts
  <1>5. /\ e \in Drafts /\ e.phase = Error(f) /\ e.pending = AllOff
        /\ e.muted = d.muted
        /\ e.fx = a.fx \cup (IF d.phase.kind = "speaking" THEN {"duck-off"} ELSE {})
    BY <1>1, <1>4, EnterForm
  <1> HIDE DEF e
  <1>6. RaiseFault(d, f) = [e EXCEPT !.latched = FALSE,
                                     !.pending = pending,
                                     !.fx = @ \cup {"levels-off", "error-cue", "show", "project"}]
    BY <1>5 DEF RaiseFault, Emit, Schedule, Drafts, e, a, aborts
  <1>7. pending \in PendingTimers
    BY DelayAssumption DEF AllOff, PendingTimers, TimerIds, Off, Delay
  <1> HIDE DEF pending
  <1>8. /\ RaiseFault(d, f) \in Drafts
        /\ RaiseFault(d, f).phase = Error(f)
        /\ RaiseFault(d, f).pending = pending
        /\ RaiseFault(d, f).latched = FALSE
        /\ RaiseFault(d, f).muted = d.muted
        /\ RaiseFault(d, f).fx = e.fx \cup {"levels-off", "error-cue", "show", "project"}
    BY <1>5, <1>6, <1>7 DEF Drafts, Effects
  <1>9. QED
    BY <1>4, <1>5, <1>8 DEF pending, aborts

-----------------------------------------------------------------------------
\* The effects that move no surface.
Quiet == {"abort", "interrupt", "capture-end"}

\* The composite transitions are lawful from a draft b that has so far only
\* emitted quiet effects and is still in the phase of the state d.
LEMMA IdleLawful ==
    ASSUME NEW d \in Drafts, NEW b \in Drafts,
           b.phase = d.phase, b.fx \subseteq Quiet
    PROVE  Lawful(d, ToIdle(b))
  <1> DEFINE r == ToIdle(b)
  <1>1. /\ r \in Drafts /\ r.phase = Idle /\ r.pending = AllOff /\ r.latched = FALSE
        /\ r.muted = b.muted
        /\ r.fx = b.fx \cup {"levels-off", IF b.muted THEN "show" ELSE "hide", "project"}
                        \cup (IF b.phase.kind = "speaking" THEN {"duck-off"} ELSE {})
    BY ToIdleForm
  <1> HIDE DEF r
  <1>2. Idle.kind = "idle"
    BY DEF Idle
  <1>3. Sound(r)
    BY <1>1, <1>2 DEF Sound, SoundTimers, SoundConditions, AllOff, TimerIds, Capturing
  <1>4. /\ "levels-off" \in r.fx /\ "duck-on" \notin r.fx
        /\ b.phase.kind = "speaking" => "duck-off" \in r.fx
        /\ "hide" \in r.fx <=> ~b.muted
        /\ "show" \in r.fx <=> b.muted
    BY <1>1 DEF Quiet
  <1>5. Hidden(r) <=> ~b.muted
    BY <1>1, <1>2 DEF Hidden
  <1>6. Meter(r) = "off" /\ r.phase.kind # "speaking"
    BY <1>1, <1>2 DEF Meter, Capturing
  <1>7. QED
    BY <1>1, <1>3, <1>4, <1>5, <1>6 DEF Lawful, r

LEMMA CaptureLawful ==
    ASSUME NEW d \in Drafts, NEW b \in Drafts,
           b.phase = d.phase, b.fx \subseteq Quiet,
           NEW p \in Phases, Capturing(p),
           ~b.muted, b.reported = {} \/ p.kind = "armed"
    PROVE  Lawful(d, OpenCapture(b, p))
  <1> DEFINE r == OpenCapture(b, p)
  <1>1. /\ r \in Drafts /\ r.phase = p
        /\ r.pending = [AllOff EXCEPT !["listen-timeout"] = b.env.listenTimeout]
        /\ r.latched = (p.gesture = "latch")
        /\ r.muted = b.muted /\ r.reported = b.reported
        /\ r.fx = b.fx \cup {"show", "levels-input", "capture-start", "project"}
                \cup (IF b.phase.kind = "speaking" THEN {"duck-off"} ELSE {})
    BY OpenCaptureForm
  <1> HIDE DEF r
  <1>2. p.kind \in {"armed", "listening"}
    BY DEF Capturing
  <1>3. b.env.listenTimeout \in Nat
    BY InputAssumption DEF Drafts, Delay
  <1>4. Sound(r)
    <2>1. SoundTimers(r)
      BY <1>1, <1>2, <1>3 DEF SoundTimers, AllOff, TimerIds, Capturing, Off
    <2>2. r.latched <=> p.gesture = "latch"
      BY <1>1, Zenon
    <2>3. SoundConditions(r)
      BY <1>1, <1>2, <2>2 DEF SoundConditions, Capturing
    <2>4. QED
      BY <2>1, <2>3 DEF Sound
  <1>5. /\ "levels-off" \notin r.fx /\ "levels-input" \in r.fx
        /\ "duck-on" \notin r.fx
        /\ b.phase.kind = "speaking" => "duck-off" \in r.fx
        /\ "hide" \notin r.fx /\ "show" \in r.fx
    BY <1>1 DEF Quiet
  <1>6. ~Hidden(r) /\ Meter(r) = "input" /\ r.phase.kind # "speaking"
    BY <1>1, <1>2 DEF Hidden, Meter, Capturing
  <1>7. QED
    BY <1>1, <1>4, <1>5, <1>6 DEF Lawful, r

LEMMA ProcessingLawful ==
    ASSUME NEW d \in Drafts, NEW b \in Drafts,
           b.phase = d.phase, b.fx \subseteq Quiet,
           ~b.muted, b.reported = {}, ~Hidden(d)
    PROVE  Lawful(d, ToProcessing(b))
  <1> DEFINE r == ToProcessing(b)
  <1>1. /\ r \in Drafts /\ r.phase = Processing(0)
        /\ r.pending = [AllOff EXCEPT !["elapsed-hint"] = ElapsedHint,
                                      !["cancel-hint"] = CancelHint]
        /\ r.muted = b.muted /\ r.reported = b.reported
        /\ r.fx = b.fx \cup {"levels-off", "project"}
                \cup (IF b.phase.kind = "speaking" THEN {"duck-off"} ELSE {})
    BY ToProcessingForm
  <1> HIDE DEF r
  <1>2. Processing(0).kind = "processing"
    BY DEF Processing
  <1>3. Sound(r)
    BY <1>1, <1>2 DEF Sound, SoundTimers, SoundConditions, AllOff, TimerIds, Capturing
  <1>4. /\ "levels-off" \in r.fx /\ "duck-on" \notin r.fx
        /\ b.phase.kind = "speaking" => "duck-off" \in r.fx
        /\ "hide" \notin r.fx /\ "show" \notin r.fx
    BY <1>1 DEF Quiet
  <1>5. ~Hidden(r) /\ Meter(r) = "off" /\ r.phase.kind # "speaking"
    BY <1>1, <1>2 DEF Hidden, Meter, Capturing
  <1>6. QED
    BY <1>1, <1>3, <1>4, <1>5 DEF Lawful, r

LEMMA FaultLawful ==
    ASSUME NEW d \in Drafts, d.fx = {}, Sound(d),
           NEW b \in Drafts, b.phase = d.phase, b.fx = {}, b.muted = d.muted,
           b.reported = d.reported, b.latched = d.latched,
           NEW f \in Faults \cup {NoSpeech}, IsActive(b.phase) \/ b = d
    PROVE  Lawful(d, RaiseFault(b, f))
  <1> DEFINE r == RaiseFault(b, f)
  <1>1. CASE f.persistent /\ f.kind \in b.reported
    <2>1. CASE IsActive(b.phase)
      BY <1>1, <2>1, IdleLawful DEF RaiseFault
    <2>2. CASE ~IsActive(b.phase)
      <3>1. r = d
        BY <1>1, <2>2 DEF RaiseFault
      <3>2. Lawful(d, d)
        BY DEF Lawful
      <3>3. QED
        BY <3>1, <3>2
    <2>3. QED
      BY <2>1, <2>2
  <1>2. CASE ~(f.persistent /\ f.kind \in b.reported)
    <2>1. /\ r \in Drafts /\ r.phase = Error(f) /\ r.latched = FALSE
          /\ r.pending = IF f.persistent THEN AllOff
                         ELSE [AllOff EXCEPT !["error-dismiss"] = ErrorDismiss]
          /\ r.muted = b.muted
          /\ r.fx = b.fx \cup {"levels-off", "error-cue", "show", "project"}
               \cup (IF IsActive(b.phase) THEN {"abort"} ELSE {})
               \cup (IF b.phase.kind = "speaking" THEN {"duck-off"} ELSE {})
      BY <1>2, RaiseFaultForm
    <2> HIDE DEF r
    <2>2. Error(f).kind = "error" /\ Error(f).fault = f
      BY DEF Error
    <2>3. Sound(r)
      BY <2>1, <2>2, DelayAssumption DEF Sound, SoundTimers, SoundConditions, AllOff,
                                         TimerIds, Capturing, Off, Delay
    <2>4. /\ "levels-off" \in r.fx /\ "duck-on" \notin r.fx
          /\ b.phase.kind = "speaking" => "duck-off" \in r.fx
          /\ "hide" \notin r.fx /\ "show" \in r.fx
      BY <2>1
    <2>5. ~Hidden(r) /\ Meter(r) = "off" /\ r.phase.kind # "speaking"
      BY <2>1, <2>2 DEF Hidden, Meter, Capturing
    <2>6. QED
      BY <2>1, <2>3, <2>4, <2>5 DEF Lawful, r
  <1>3. QED
    BY <1>1, <1>2

\* Doing nothing is lawful, and so is a change no surface depends on.
LEMMA StayLawful ==
    ASSUME NEW d \in Drafts, d.fx = {}, Sound(d),
           NEW r \in Drafts, Sound(r), r.fx \in SUBSET {"project"},
           r.phase.kind = d.phase.kind, r.muted = d.muted
    PROVE  Lawful(d, r)
  <1>1. /\ Hidden(r) <=> Hidden(d)
        /\ Meter(r) = Meter(d)
    BY DEF Hidden, Meter, Capturing
  <1>2. QED
    BY <1>1 DEF Lawful

-----------------------------------------------------------------------------
\* One lemma per kind of input.
LEMMA OnTriggerLawful ==
    ASSUME NEW d \in Drafts, d.fx = {}, Sound(d),
           NEW event \in {"down", "up", "tap", "cancel"}
    PROVE  Lawful(d, OnTrigger(d, event))
  <1> DEFINE r == OnTrigger(d, event)
             starts == event \in {"down", "tap"}
             gesture == IF event = "tap" THEN "latch" ELSE "push"
  <1>1. Lawful(d, d)
    BY StayLawful
  <1>2. ASSUME NEW x \in SUBSET Quiet
        PROVE  /\ Emit(d, x) \in Drafts
               /\ Emit(d, x).phase = d.phase
               /\ Emit(d, x).fx \subseteq Quiet
               /\ Emit(d, x).muted = d.muted
               /\ Emit(d, x).reported = d.reported
    BY <1>2, EmitForm DEF Quiet, Effects
  <1>3. /\ {"abort"} \in SUBSET Quiet /\ {"interrupt"} \in SUBSET Quiet
        /\ {"capture-end"} \in SUBSET Quiet
    BY DEF Quiet
  <1>4. /\ Armed(gesture) \in Phases /\ Armed(gesture).kind = "armed"
        /\ Listening(gesture, NotSilent) \in Phases
        /\ Listening(gesture, NotSilent).kind = "listening"
    <2>1. gesture \in Gestures /\ NotSilent \in Age \cup {NotSilent}
      BY DEF Gestures
    <2>2. Armed(gesture) \in Phases /\ Listening(gesture, NotSilent) \in Phases
      BY <2>1 DEF Phases
    <2>3. QED
      BY <2>2 DEF Armed, Listening
  <1>5. d.fx \subseteq Quiet
    OBVIOUS
  <1>6. CASE Suppressed(d, event)
    BY <1>1, <1>6 DEF OnTrigger
  <1>7. CASE ~Suppressed(d, event) /\ event = "cancel"
    <2>1. r = CancelInteraction(d)
      BY <1>7 DEF OnTrigger
    <2>2. QED
      BY <1>1, <1>2, <1>3, <2>1, IdleLawful DEF CancelInteraction
  <1>8. CASE ~Suppressed(d, event) /\ event # "cancel"
    <2>1. ~d.muted
      BY <1>8 DEF Suppressed
    <2>2. CASE d.phase.kind \in {"idle", "error"} /\ starts
      <3>1. r = BeginCapture(d, gesture)
        BY <1>8, <2>2 DEF OnTrigger
      <3>2. QED
        BY <1>4, <1>5, <2>1, <3>1, CaptureLawful DEF BeginCapture, Capturing
    <2>3. CASE d.phase.kind = "processing" /\ starts
      <3>1. r = BeginCapture(Emit(d, {"abort"}), gesture)
        BY <1>8, <2>3 DEF OnTrigger
      <3>2. QED
        BY <1>2, <1>3, <1>4, <2>1, <3>1, CaptureLawful DEF BeginCapture, Capturing
    <2>4. CASE d.phase.kind = "speaking" /\ starts
      <3>1. r = BargeIn(d, gesture)
        BY <1>8, <2>4 DEF OnTrigger
      <3>2. d.reported = {}
        BY <2>4 DEF Sound, SoundConditions
      <3>3. QED
        BY <1>2, <1>3, <1>4, <2>1, <3>1, <3>2, CaptureLawful
        DEF BargeIn, ToListening, Capturing
    <2>5. CASE d.phase.kind = "armed" /\ EndsGesture(d.phase.gesture, event)
      <3>1. r = ToIdle(Emit(d, {"capture-end"}))
        BY <1>8, <2>5 DEF OnTrigger
      <3>2. QED
        BY <1>2, <1>3, <3>1, IdleLawful
    <2>6. CASE d.phase.kind = "listening" /\ EndsGesture(d.phase.gesture, event)
      <3>1. r = ToProcessing(Emit(d, {"capture-end"}))
        BY <1>8, <2>6 DEF OnTrigger
      <3>2. d.reported = {} /\ ~Hidden(d)
        BY <2>6 DEF Sound, SoundConditions, Hidden
      <3>3. QED
        BY <1>2, <1>3, <2>1, <3>1, <3>2, ProcessingLawful
    <2>7. CASE /\ ~(d.phase.kind \in {"idle", "error", "processing", "speaking"} /\ starts)
               /\ ~(/\ d.phase.kind \in {"armed", "listening"}
                    /\ EndsGesture(d.phase.gesture, event))
      <3>1. r = d
        BY <1>8, <2>7 DEF OnTrigger
      <3>2. QED
        BY <1>1, <3>1
    <2>8. QED
      BY <2>2, <2>3, <2>4, <2>5, <2>6, <2>7
  <1>9. QED
    BY <1>6, <1>7, <1>8

LEMMA OnCaptureLawful ==
    ASSUME NEW d \in Drafts, d.fx = {}, Sound(d),
           NEW event \in {"opened", "firstAudio", "closed"}
    PROVE  Lawful(d, OnCapture(d, event))
  <1> DEFINE r == OnCapture(d, event)
  <1>1. CASE event = "firstAudio" /\ d.phase.kind = "armed"
    <2> DEFINE p == Listening(d.phase.gesture, NotSilent)
               pending == [t \in TimerIds |-> IF t = "listen-timeout" THEN d.pending[t] ELSE Off]
    <2>1. d.phase.gesture \in Gestures
      BY <1>1, PhaseForms DEF Drafts
    <2>2. p \in Phases /\ p.kind = "listening" /\ p.gesture = d.phase.gesture
      BY <2>1 DEF Listening, Phases
    <2> HIDE DEF p
    <2>3. pending \in PendingTimers
      BY DEF Drafts, PendingTimers, TimerIds, Off
    <2>4. r = [d EXCEPT !.reported = {}, !.phase = p, !.pending = pending,
                        !.fx = {"project"}]
      BY <1>1, <2>2 DEF OnCapture, Enter, Emit, Drafts, p
    <2> HIDE DEF pending, r
    <2>5. /\ r \in Drafts /\ r.phase = p /\ r.pending = pending /\ r.fx = {"project"}
          /\ r.muted = d.muted /\ r.latched = d.latched /\ r.reported = {}
      <3>1. {"project"} \in SUBSET Effects /\ {} \in SUBSET FaultKinds
        BY DEF Effects
      <3>2. r \in Drafts
        BY <2>2, <2>3, <2>4, <3>1 DEF Drafts
      <3>3. QED
        BY <2>4, <3>2 DEF Drafts
    <2>6. Sound(r)
      <3>1. SoundTimers(r)
        BY <1>1, <2>2, <2>5 DEF Sound, SoundTimers, pending, TimerIds, Capturing
      <3>2. SoundConditions(r)
        BY <1>1, <2>2, <2>5 DEF Sound, SoundConditions, Capturing
      <3>3. QED
        BY <3>1, <3>2 DEF Sound
    <2>7. /\ ~Hidden(r) /\ ~Hidden(d) /\ Meter(r) = "input" /\ Meter(d) = "input"
          /\ r.phase.kind # "speaking" /\ d.phase.kind # "speaking"
      BY <1>1, <2>2, <2>5 DEF Hidden, Meter, Capturing
    <2>8. QED
      BY <2>5, <2>6, <2>7 DEF Lawful, r
  <1>2. CASE event = "closed" /\ d.phase.kind \in {"armed", "listening"}
    <2>1. r = ToIdle(Emit(d, {"capture-end"}))
      BY <1>2 DEF OnCapture
    <2>2. /\ Emit(d, {"capture-end"}) \in Drafts
          /\ Emit(d, {"capture-end"}).phase = d.phase
          /\ Emit(d, {"capture-end"}).fx \subseteq Quiet
      BY EmitForm DEF Quiet, Effects
    <2>3. QED
      BY <2>1, <2>2, IdleLawful
  <1>3. CASE /\ ~(event = "firstAudio" /\ d.phase.kind = "armed")
             /\ ~(event = "closed" /\ d.phase.kind \in {"armed", "listening"})
    BY <1>3, StayLawful DEF OnCapture
  <1>4. QED
    BY <1>1, <1>2, <1>3

LEMMA OnSpeechLawful ==
    ASSUME NEW d \in Drafts, d.fx = {}, Sound(d),
           NEW event \in {"silence", "resumed"}
    PROVE  Lawful(d, OnSpeech(d, event))
  <1> DEFINE r == OnSpeech(d, event)
  <1>1. CASE event = "silence" /\ d.phase.kind = "listening" /\ d.phase.silent = NotSilent
    <2> DEFINE p == [d.phase EXCEPT !.silent = 0]
               pending == [d.pending EXCEPT !["silence-nudge"] = d.env.silenceNudge]
    <2>1. /\ p = Listening(d.phase.gesture, 0) /\ p \in Phases
          /\ p.kind = "listening" /\ p.gesture = d.phase.gesture /\ p.silent = 0
      <3>1. d.phase.gesture \in Gestures /\ d.phase = Listening(d.phase.gesture, NotSilent)
        BY <1>1, PhaseForms DEF Drafts
      <3>2. 0 \in Age
        BY DelayAssumption DEF Age, Delay
      <3>3. p = Listening(d.phase.gesture, 0)
        BY <3>1 DEF Listening
      <3>4. QED
        BY <3>1, <3>2, <3>3 DEF Listening, Phases
    <2>2. pending \in PendingTimers
      BY InputAssumption DEF Drafts, PendingTimers, TimerIds, Delay
    <2> HIDE DEF p, pending
    <2>3. r = [d EXCEPT !.phase = p, !.pending = pending]
      BY <1>1 DEF OnSpeech, Schedule, Drafts, p, pending
    <2>4. /\ r \in Drafts /\ r.phase = p /\ r.pending = pending /\ r.fx = {}
          /\ r.muted = d.muted /\ r.latched = d.latched /\ r.reported = d.reported
      BY <2>1, <2>2, <2>3 DEF Drafts
    <2> HIDE DEF r
    <2>5. SoundTimers(r)
      BY <1>1, <2>1, <2>4 DEF Sound, SoundTimers, pending, TimerIds, Capturing, NotSilent,
                              Drafts, PendingTimers
    <2>6. SoundConditions(r)
      BY <1>1, <2>1, <2>4 DEF Sound, SoundConditions, Capturing
    <2>7. QED
      BY <1>1, <2>1, <2>4, <2>5, <2>6, StayLawful DEF Sound, r
  <1>2. CASE event = "resumed" /\ d.phase.kind = "listening" /\ d.phase.silent # NotSilent
    <2> DEFINE p == [d.phase EXCEPT !.silent = NotSilent]
               pending == [d.pending EXCEPT !["silence-nudge"] = Off]
    <2>1. /\ p = Listening(d.phase.gesture, NotSilent) /\ p \in Phases
          /\ p.kind = "listening" /\ p.gesture = d.phase.gesture
      <3>1. /\ d.phase.gesture \in Gestures
            /\ d.phase = Listening(d.phase.gesture, d.phase.silent)
        BY <1>2, PhaseForms DEF Drafts
      <3>2. p = Listening(d.phase.gesture, NotSilent)
        BY <3>1 DEF Listening
      <3>3. QED
        BY <3>1, <3>2 DEF Listening, Phases
    <2>2. pending \in PendingTimers
      BY DEF Drafts, PendingTimers, TimerIds
    <2> HIDE DEF p, pending
    <2>3. r = [d EXCEPT !.phase = p, !.pending = pending, !.fx = {"project"}]
      BY <1>2 DEF OnSpeech, Cancel, Emit, Drafts, p, pending
    <2>4. /\ r \in Drafts /\ r.phase = p /\ r.pending = pending /\ r.fx = {"project"}
          /\ r.muted = d.muted /\ r.latched = d.latched /\ r.reported = d.reported
      <3>1. {"project"} \in SUBSET Effects
        BY DEF Effects
      <3> HIDE DEF r
      <3>2. QED
        BY <2>1, <2>2, <2>3, <3>1 DEF Drafts
    <2> HIDE DEF r
    <2>5. SoundTimers(r)
      BY <1>2, <2>1, <2>4 DEF Sound, SoundTimers, pending, TimerIds, Capturing,
                              Drafts, PendingTimers
    <2>6. SoundConditions(r)
      BY <1>2, <2>1, <2>4 DEF Sound, SoundConditions, Capturing
    <2>7. QED
      BY <1>2, <2>1, <2>4, <2>5, <2>6, StayLawful DEF Sound, r
  <1>3. CASE /\ ~(/\ event = "silence" /\ d.phase.kind = "listening"
                  /\ d.phase.silent = NotSilent)
             /\ ~(/\ event = "resumed" /\ d.phase.kind = "listening"
                  /\ d.phase.silent # NotSilent)
    BY <1>3, StayLawful DEF OnSpeech
  <1>4. QED
    BY <1>1, <1>2, <1>3

LEMMA OnTurnLawful ==
    ASSUME NEW d \in Drafts, d.fx = {}, Sound(d),
           NEW event \in {"submitted", "responseStarted", "responseEnded"}
    PROVE  Lawful(d, OnTurn(d, event))
  <1> DEFINE r == OnTurn(d, event)
             starting == event = "responseStarted" /\ d.phase.kind \notin {"idle", "speaking"}
  <1>1. CASE event = "submitted" /\ d.phase.kind = "listening"
    <2>1. r = ToProcessing(d)
      BY <1>1 DEF OnTurn
    <2>2. d.reported = {} /\ ~d.muted /\ ~Hidden(d)
      BY <1>1 DEF Sound, SoundConditions, Hidden
    <2>3. QED
      BY <2>1, <2>2, ProcessingLawful
  <1>2. CASE starting
    <2> DEFINE b == [d EXCEPT !.reported = {}]
               e == Enter(b, Speaking, {})
    <2>1. b \in Drafts /\ b.phase = d.phase /\ b.fx = {} /\ b.reported = {}
      BY DEF Drafts
    <2>2. Speaking \in Phases /\ Speaking.kind = "speaking"
      BY DEF Phases, Speaking
    <2> HIDE DEF b
    <2>3. /\ e \in Drafts /\ e.phase = Speaking /\ e.pending = AllOff /\ e.reported = {}
          /\ e.fx = {"duck-on"}
      BY <1>2, <2>1, <2>2, EnterForm
    <2> HIDE DEF e
    <2>4. r = Emit(e, {"show", "levels-output", "project"})
      BY <1>2 DEF OnTurn, e, b
    <2>5. /\ r \in Drafts /\ r.phase = Speaking /\ r.pending = AllOff /\ r.reported = {}
          /\ r.fx = {"duck-on", "show", "levels-output", "project"}
      BY <2>3, <2>4, EmitForm DEF Effects
    <2> HIDE DEF r
    <2>6. Sound(r)
      BY <2>2, <2>5 DEF Sound, SoundTimers, SoundConditions, AllOff, TimerIds, Capturing
    <2>7. ~Hidden(r) /\ Meter(r) = "output"
      BY <2>2, <2>5 DEF Hidden, Meter, Capturing
    <2>8. QED
      BY <2>2, <2>5, <2>6, <2>7 DEF Lawful, r
  <1>3. CASE event = "responseEnded" /\ d.phase.kind = "speaking"
    <2>1. CASE d.latched /\ ~d.muted
      <3>1. r = ToListening(d, "latch")
        BY <1>3, <2>1 DEF OnTurn
      <3>2. /\ Listening("latch", NotSilent) \in Phases
            /\ Listening("latch", NotSilent).kind = "listening"
        <4>1. "latch" \in Gestures /\ NotSilent \in Age \cup {NotSilent}
          BY DEF Gestures
        <4>2. Listening("latch", NotSilent) \in Phases
          BY <4>1 DEF Phases
        <4>3. QED
          BY <4>2 DEF Listening
      <3>3. d.reported = {}
        BY <1>3 DEF Sound, SoundConditions
      <3>4. QED
        BY <2>1, <3>1, <3>2, <3>3, CaptureLawful DEF ToListening, Capturing
    <2>2. CASE ~(d.latched /\ ~d.muted)
      BY <1>3, <2>2, IdleLawful DEF OnTurn
    <2>3. QED
      BY <2>1, <2>2
  <1>4. CASE /\ ~(event = "submitted" /\ d.phase.kind = "listening")
             /\ ~starting
             /\ ~(event = "responseEnded" /\ d.phase.kind = "speaking")
    BY <1>4, StayLawful DEF OnTurn
  <1>5. QED
    BY <1>1, <1>2, <1>3, <1>4

LEMMA OnMuteLawful ==
    ASSUME NEW d \in Drafts, d.fx = {}, Sound(d), NEW muted \in BOOLEAN
    PROVE  Lawful(d, OnMute(d, muted))
  <1> DEFINE c == [d EXCEPT !.muted = muted]
             r == OnMute(d, muted)
  <1>1. /\ c \in Drafts /\ c.phase = d.phase /\ c.fx = {}
        /\ c.latched = d.latched /\ c.reported = d.reported /\ c.pending = d.pending
    BY DEF Drafts
  <1>m. c.muted = muted
    BY DEF Drafts
  <1> HIDE DEF c
  <1>2. CASE muted = d.muted
    BY <1>2, StayLawful DEF OnMute
  <1>3. CASE muted # d.muted /\ muted
    <2> DEFINE x == IF d.phase.kind = "idle" THEN {} ELSE {"abort"}
    <2>1. r = ToIdle(Emit(c, x))
      BY <1>3 DEF OnMute, c
    <2>2. x \in SUBSET Effects /\ x \subseteq Quiet
      BY DEF Effects, Quiet
    <2> HIDE DEF x
    <2>3. /\ Emit(c, x) \in Drafts /\ Emit(c, x).phase = d.phase
          /\ Emit(c, x).fx \subseteq Quiet
      BY <1>1, <2>2, EmitForm
    <2>4. QED
      BY <2>1, <2>3, IdleLawful
  <1>4. CASE muted # d.muted /\ ~muted
    <2> DEFINE x == IF d.phase.kind = "idle" THEN {"project", "hide"} ELSE {}
    <2>1. r = Emit(c, x)
      BY <1>4 DEF OnMute, c
    <2>2. x \in SUBSET Effects
      BY DEF Effects
    <2> HIDE DEF x
    <2>3. /\ r \in Drafts /\ r.phase = d.phase /\ r.fx = x /\ ~r.muted
          /\ r.latched = d.latched /\ r.reported = d.reported /\ r.pending = d.pending
      <3> DEFINE e == Emit(c, x)
      <3>1. /\ e \in Drafts /\ e.phase = c.phase /\ e.fx = c.fx \cup x /\ e.muted = c.muted
            /\ e.latched = c.latched /\ e.reported = c.reported /\ e.pending = c.pending
        BY <1>1, <2>2, EmitForm
      <3> HIDE DEF e
      <3>2. ~e.muted
        BY <1>m, <1>4, <3>1, Zenon
      <3>3. QED
        BY <1>1, <2>1, <3>1, <3>2 DEF e
    <2> HIDE DEF r
    <2>4. Sound(r)
      BY <1>4, <2>3 DEF Sound, SoundTimers, SoundConditions
    <2>5. /\ Hidden(r) <=> d.phase.kind = "idle"
          /\ d.phase.kind # "idle" => ~Hidden(d)
          /\ Meter(r) = Meter(d)
      BY <1>4, <2>3 DEF Hidden, Meter
    <2>6. QED
      BY <1>4, <2>3, <2>4, <2>5 DEF Lawful, r, x
  <1>5. QED
    BY <1>2, <1>3, <1>4

LEMMA OnSettingsLawful ==
    ASSUME NEW d \in Drafts, d.fx = {}, Sound(d), NEW env \in Environments
    PROVE  Lawful(d, OnSettings(d, env))
  <1> DEFINE r == OnSettings(d, env)
  <1>1. /\ r \in Drafts /\ r.phase = d.phase /\ r.fx = {"project"} /\ r.muted = d.muted
        /\ r.latched = d.latched /\ r.reported = d.reported /\ r.pending = d.pending
    BY DEF OnSettings, Emit, Drafts, Effects
  <1> HIDE DEF r
  <1>2. Sound(r)
    BY <1>1 DEF Sound, SoundTimers, SoundConditions
  <1>3. QED
    BY <1>1, <1>2, StayLawful DEF r

LEMMA OnTimerLawful ==
    ASSUME NEW d \in Drafts, d.fx = {}, Sound(d),
           NEW id \in TimerIds, d.pending[id] # Off
    PROVE  Lawful(d, OnTimer(d, id))
  <1> DEFINE fired == Cancel(d, id)
             r == OnTimer(d, id)
  <1>1. /\ fired \in Drafts /\ fired.phase = d.phase /\ fired.fx = {}
        /\ fired.muted = d.muted /\ fired.latched = d.latched
        /\ fired.reported = d.reported
        /\ fired.pending = [d.pending EXCEPT ![id] = Off]
    BY DEF Cancel, Drafts, PendingTimers
  <1> HIDE DEF fired
  <1>2. CASE id \in {"silence-nudge", "elapsed-hint", "cancel-hint"}
    <2>1. r = Emit(fired, {"project"})
      BY <1>2 DEF OnTimer, Sound, SoundTimers, fired
    <2>2. /\ r \in Drafts /\ r.phase = d.phase /\ r.fx = {"project"}
          /\ r.muted = d.muted /\ r.latched = d.latched /\ r.reported = d.reported
          /\ r.pending = [d.pending EXCEPT ![id] = Off]
      BY <1>1, <2>1, EmitForm DEF Effects
    <2> HIDE DEF r
    <2>3. SoundTimers(r)
      BY <1>2, <2>2 DEF Sound, SoundTimers, Drafts, PendingTimers, TimerIds
    <2>4. SoundConditions(r)
      BY <2>2 DEF Sound, SoundConditions
    <2>5. QED
      BY <2>2, <2>3, <2>4, StayLawful DEF Sound, r
  <1>3. CASE id = "listen-timeout"
    <2>1. Capturing(d.phase)
      BY <1>3 DEF Sound, SoundTimers
    <2>2. r = RaiseFault(fired, NoSpeech)
      BY <1>3, <2>1 DEF OnTimer, Capturing, fired
    <2>3. IsActive(fired.phase)
      BY <1>1, <2>1 DEF IsActive, Capturing
    <2>4. QED
      BY <1>1, <2>2, <2>3, FaultLawful
  <1>4. CASE id = "error-dismiss"
    <2>1. r = ToIdle(fired)
      BY <1>4 DEF OnTimer, Sound, SoundTimers, fired
    <2>2. QED
      BY <1>1, <2>1, IdleLawful
  <1>5. QED
    BY <1>2, <1>3, <1>4 DEF TimerIds

-----------------------------------------------------------------------------
\* The inductive invariant: types, what every state keeps, and the surfaces.
IInv == TypeOK /\ Sound(m) /\ SurfacesMatchPhase

States == [phase    : Phases,
           muted    : BOOLEAN,
           latched  : BOOLEAN,
           pending  : PendingTimers,
           reported : SUBSET FaultKinds,
           env      : Environments]

\* What the surfaces show, in the terms of Lawful.
SurfacesAgree ==
    /\ window = "visible" <=> ~Hidden(m)
    /\ levels = Meter(m)
    /\ ducked <=> m.phase.kind = "speaking"

LEMMA SurfacesForm == m \in States => (SurfacesMatchPhase <=> SurfacesAgree)
  <1> SUFFICES ASSUME m \in States
               PROVE  SurfacesMatchPhase <=> SurfacesAgree
    OBVIOUS
  <1>1. m.phase = Speaking <=> m.phase.kind = "speaking"
    BY PhaseForms DEF States, Speaking
  <1>2. ChipStateOf(m) # "hidden" <=> ~Hidden(m)
    <2>1. m.phase.kind \in {"idle", "armed", "listening", "processing", "speaking", "error"}
      BY PhaseForms DEF States
    <2>2. QED
      BY <2>1 DEF ChipStateOf, Hidden
  <1>3. Meter(m) = CASE Capturing(m.phase) -> "input"
                     [] m.phase = Speaking -> "output"
                     [] OTHER -> "off"
    <2>1. Capturing(m.phase) => m.phase # Speaking
      BY <1>1 DEF Capturing
    <2>2. QED
      BY <1>1, <2>1 DEF Meter
  <1>4. QED
    BY <1>1, <1>2, <1>3 DEF SurfacesMatchPhase, SurfacesAgree

\* The projections are well typed.
LEMMA ProjectionTypes ==
    ASSUME NEW s \in States
    PROVE  /\ ProjectChip(s) \in [state   : {"hidden", "muted", "armed", "listening",
                                             "processing", "speaking", "error"},
                                  latched : BOOLEAN,
                                  dimmed  : BOOLEAN,
                                  elapsed : BOOLEAN,
                                  cancel  : BOOLEAN]
           /\ ProjectTray(s) \in {"attention", "muted", "idle", "active"}
  <1>1. ChipStateOf(s) \in {"hidden", "muted", "armed", "listening",
                            "processing", "speaking", "error"}
    <2>1. s.phase.kind \in {"idle", "armed", "listening", "processing", "speaking", "error"}
      BY PhaseForms DEF States
    <2>2. QED
      BY <2>1 DEF ChipStateOf
  <1>2. /\ IsDimmed(s) \in BOOLEAN
        /\ RunningFor(s, ElapsedHint) \in BOOLEAN
        /\ RunningFor(s, CancelHint) \in BOOLEAN
    BY DEF IsDimmed, RunningFor
  <1>3. s.latched \in BOOLEAN
    BY DEF States
  <1>4. QED
    BY <1>1, <1>2, <1>3 DEF ProjectChip, ProjectTray

\* Performing a lawful draft keeps the invariant.
LEMMA DispatchKeeps ==
    ASSUME IInv, NEW r, Lawful(DraftOf(m), r), Dispatch(r)
    PROVE  IInv'
  <1>1. m \in States
    BY DEF IInv, TypeOK, States, PendingTimers
  <1>2. r \in Drafts /\ Sound(r)
    BY DEF Lawful
  <1>3. m' = Committed(r)
    BY DEF Dispatch
  <1>4. /\ m' \in States
        /\ m'.phase = r.phase /\ m'.muted = r.muted /\ m'.latched = r.latched
        /\ m'.pending = r.pending /\ m'.reported = r.reported
    BY <1>2, <1>3 DEF Committed, Drafts, States
  <1>5. Sound(m')
    BY <1>2, <1>4 DEF Sound, SoundTimers, SoundConditions
  <1>6. TypeOK'
    <2>1. chip' \in [state   : {"hidden", "muted", "armed", "listening",
                               "processing", "speaking", "error"},
                    latched : BOOLEAN,
                    dimmed  : BOOLEAN,
                    elapsed : BOOLEAN,
                    cancel  : BOOLEAN]
      BY <1>4, ProjectionTypes DEF Dispatch, IInv, TypeOK
    <2>2. tray' \in {"attention", "muted", "idle", "active"}
      BY <1>4, ProjectionTypes DEF Dispatch, IInv, TypeOK
    <2>3. /\ window' \in {"visible", "hidden"}
          /\ levels' \in {"off", "input", "output"}
          /\ ducked' \in BOOLEAN
          /\ cue' \in {"open", "closed"}
          /\ voice' \subseteq {"interrupt", "abort"}
      BY DEF Dispatch, IInv, TypeOK
    <2>4. QED
      BY <1>4, <2>1, <2>2, <2>3 DEF TypeOK, States, PendingTimers
  <1>7. SurfacesMatchPhase'
    <2> DEFINE d == DraftOf(m)
    <2>1. d.phase = m.phase /\ d.muted = m.muted
      BY DEF DraftOf
    <2> HIDE DEF d
    <2>2. /\ Hidden(d) <=> Hidden(m)
          /\ Meter(d) = Meter(m)
          /\ Hidden(r) <=> Hidden(m')
          /\ Meter(r) = Meter(m')
      BY <1>4, <2>1 DEF Hidden, Meter
    <2>3. /\ window = "visible" <=> ~Hidden(m)
          /\ levels = Meter(m)
          /\ ducked <=> m.phase.kind = "speaking"
      BY <1>1, SurfacesForm DEF IInv, SurfacesAgree
    <2>4. window' = "visible" <=> ~Hidden(m')
      BY <2>2, <2>3 DEF Dispatch, Lawful, d
    <2>5. levels' = Meter(m')
      BY <2>2, <2>3 DEF Dispatch, Lawful, d
    <2>6. ducked' <=> m'.phase.kind = "speaking"
      BY <1>4, <2>1, <2>3 DEF Dispatch, Lawful, d
    <2>7. (m \in States)' => (SurfacesMatchPhase' <=> SurfacesAgree')
      BY SurfacesForm, PTL
    <2>8. QED
      BY <1>4, <2>4, <2>5, <2>6, <2>7 DEF SurfacesAgree
  <1>8. QED
    BY <1>5, <1>6, <1>7 DEF IInv

\* Time only ages the phase and the timers.
LEMMA TickKeeps ==
    ASSUME IInv, Tick
    PROVE  IInv'
  <1> DEFINE p == Elapse(m.phase)
             pending == [t \in TimerIds |-> IF m.pending[t] > 0 THEN m.pending[t] - 1
                                                               ELSE m.pending[t]]
  <1>1. m \in States
    BY DEF IInv, TypeOK, States, PendingTimers
  <1>2. ASSUME NEW a \in Age
        PROVE  Older(a) \in Age
    BY DelayAssumption DEF Older, Age, Delay
  <1>3. /\ p \in Phases
        /\ p.kind = m.phase.kind
        /\ Capturing(m.phase) => p.gesture = m.phase.gesture
        /\ m.phase.kind = "listening" =>
              (p.silent # NotSilent <=> m.phase.silent # NotSilent)
        /\ m.phase.kind = "error" => p = m.phase
        /\ m.phase.kind = "speaking" => p = m.phase
    <2>1. m.phase \in Phases
      BY <1>1 DEF States
    <2>2. CASE m.phase.kind = "listening" /\ m.phase.silent # NotSilent
      <3>1. /\ m.phase.gesture \in Gestures /\ m.phase.silent \in Age
        BY <2>1, <2>2, PhaseForms
      <3>2. p = Listening(m.phase.gesture, Older(m.phase.silent))
        BY <2>2 DEF Elapse
      <3>3. Older(m.phase.silent) \in Age /\ Older(m.phase.silent) # NotSilent
        BY <1>2, <3>1, DelayAssumption DEF Age, NotSilent, Delay
      <3>4. p \in Phases
        BY <3>1, <3>2, <3>3 DEF Phases
      <3>5. QED
        BY <2>2, <3>2, <3>3, <3>4 DEF Listening
    <2>3. CASE m.phase.kind = "processing"
      <3>1. m.phase.running \in Age
        BY <2>1, <2>3, PhaseForms
      <3>2. p = Processing(Older(m.phase.running))
        BY <2>3 DEF Elapse
      <3>3. p \in Phases
        BY <1>2, <3>1, <3>2 DEF Phases
      <3>4. QED
        BY <2>3, <3>2, <3>3 DEF Processing, Capturing
    <2>4. CASE /\ ~(m.phase.kind = "listening" /\ m.phase.silent # NotSilent)
               /\ m.phase.kind # "processing"
      <3>1. p = m.phase
        BY <2>4 DEF Elapse
      <3>2. QED
        BY <2>1, <3>1
    <2>5. QED
      BY <2>2, <2>3, <2>4
  <1>4. /\ pending \in PendingTimers
        /\ \A t \in TimerIds : pending[t] # Off <=> m.pending[t] # Off
    BY <1>1 DEF States, PendingTimers, Off
  <1> HIDE DEF p, pending
  <1>5. m' = [m EXCEPT !.phase = p, !.pending = pending]
    BY DEF Tick, p, pending
  <1>6. /\ m' \in States /\ m'.phase = p /\ m'.pending = pending
        /\ m'.muted = m.muted /\ m'.latched = m.latched /\ m'.reported = m.reported
    BY <1>1, <1>3, <1>4, <1>5 DEF States
  <1>7. Sound(m')
    <2>1. SoundTimers(m')
      BY <1>3, <1>4, <1>6 DEF IInv, Sound, SoundTimers, TimerIds, Capturing
    <2>2. SoundConditions(m')
      BY <1>3, <1>6 DEF IInv, Sound, SoundConditions, Capturing
    <2>3. QED
      BY <2>1, <2>2 DEF Sound
  <1>8. TypeOK'
    <2>1. m' \in [phase    : Phases,
                  muted    : BOOLEAN,
                  latched  : BOOLEAN,
                  pending  : [TimerIds -> Nat \cup {Off}],
                  reported : SUBSET FaultKinds,
                  env      : Environments]
      BY <1>6 DEF States, PendingTimers
    <2>2. /\ UNCHANGED window /\ UNCHANGED chip /\ UNCHANGED tray /\ UNCHANGED levels
          /\ UNCHANGED ducked /\ UNCHANGED cue /\ voice' = {}
      BY DEF Tick
    <2>3. QED
      BY <2>1, <2>2 DEF IInv, TypeOK
  <1>9. SurfacesMatchPhase'
    <2>1. SurfacesAgree
      BY <1>1, SurfacesForm DEF IInv
    <2>2. SurfacesAgree'
      BY <1>3, <1>6, <2>1 DEF SurfacesAgree, Tick, Hidden, Meter, Capturing
    <2>3. (m \in States)' => (SurfacesMatchPhase' <=> SurfacesAgree')
      BY SurfacesForm, PTL
    <2>4. QED
      BY <1>6, <2>2, <2>3
  <1>10. QED
    BY <1>7, <1>8, <1>9 DEF IInv

-----------------------------------------------------------------------------
LEMMA InitInvariant == Init => IInv
  <1> SUFFICES ASSUME Init PROVE IInv
    OBVIOUS
  <1>1. PICK env \in Environments : m = InitialState(env)
    BY DEF Init
  <1>2. Idle \in Phases /\ Idle.kind = "idle"
    BY DEF Phases, Idle
  <1>3. /\ m \in States /\ m.phase = Idle /\ m.pending = AllOff
        /\ ~m.muted /\ ~m.latched /\ m.reported = {}
    BY <1>1, <1>2 DEF InitialState, States, PendingTimers, AllOff
  <1>4. Sound(m)
    BY <1>2, <1>3 DEF Sound, SoundTimers, SoundConditions, AllOff, TimerIds, Capturing
  <1>5. TypeOK
    BY <1>3, ProjectionTypes DEF Init, TypeOK, States, PendingTimers
  <1>6. SurfacesAgree
    BY <1>2, <1>3 DEF Init, SurfacesAgree, Hidden, Meter, Capturing
  <1>7. QED
    BY <1>3, <1>4, <1>5, <1>6, SurfacesForm DEF IInv

LEMMA NextInvariant == IInv /\ [Next]_vars => IInv'
  <1> SUFFICES ASSUME IInv, [Next]_vars PROVE IInv'
    OBVIOUS
  <1> DEFINE d == DraftOf(m)
  <1>1. m \in States
    BY DEF IInv, TypeOK, States, PendingTimers
  <1>2. d \in Drafts /\ d.fx = {} /\ Sound(d) /\ d.pending = m.pending
    BY <1>1 DEF IInv, DraftOf, States, Drafts, Sound, SoundTimers, SoundConditions
  <1> HIDE DEF d
  <1>4. ASSUME NEW r, Lawful(d, r), Dispatch(r)
        PROVE  IInv'
    BY <1>4, DispatchKeeps DEF d
  <1>5. ASSUME NEW event \in {"down", "up", "tap", "cancel"}, Trigger(event)
        PROVE  IInv'
    BY <1>2, <1>4, <1>5, OnTriggerLawful DEF Trigger, d
  <1>6. ASSUME NEW event \in {"opened", "firstAudio", "closed"}, Capture(event)
        PROVE  IInv'
    BY <1>2, <1>4, <1>6, OnCaptureLawful DEF Capture, d
  <1>7. ASSUME NEW event \in {"silence", "resumed"}, Speech(event)
        PROVE  IInv'
    BY <1>2, <1>4, <1>7, OnSpeechLawful DEF Speech, d
  <1>8. ASSUME NEW event \in {"submitted", "responseStarted", "responseEnded"}, Turn(event)
        PROVE  IInv'
    BY <1>2, <1>4, <1>8, OnTurnLawful DEF Turn, d
  <1>9. ASSUME NEW fault \in Faults, RaisedFault(fault)
        PROVE  IInv'
    BY <1>2, <1>4, <1>9, FaultLawful DEF RaisedFault, d
  <1>10. ASSUME NEW muted \in BOOLEAN, Mute(muted)
         PROVE  IInv'
    BY <1>2, <1>4, <1>10, OnMuteLawful DEF Mute, d
  <1>11. ASSUME NEW env \in Environments, Settings(env)
         PROVE  IInv'
    BY <1>2, <1>4, <1>11, OnSettingsLawful DEF Settings, d
  <1>12. ASSUME NEW id \in TimerIds, Fire(id)
         PROVE  IInv'
    BY <1>2, <1>4, <1>12, OnTimerLawful DEF Fire, Off, d
  <1>13. CASE Tick
    BY <1>13, TickKeeps
  <1>14. CASE UNCHANGED vars
    <2>1. /\ UNCHANGED m /\ UNCHANGED window /\ UNCHANGED chip /\ UNCHANGED tray
          /\ UNCHANGED levels /\ UNCHANGED ducked /\ UNCHANGED cue /\ UNCHANGED voice
      BY <1>14 DEF vars, sinks
    <2>2. TypeOK' /\ Sound(m')
      BY <2>1 DEF IInv, TypeOK
    <2>3. SurfacesMatchPhase'
      BY <2>1 DEF IInv, SurfacesMatchPhase, ChipStateOf, Capturing
    <2>4. QED
      BY <2>2, <2>3 DEF IInv
  <1>15. QED
    BY <1>5, <1>6, <1>7, <1>8, <1>9, <1>10, <1>11, <1>12, <1>13, <1>14 DEF Next

\* The invariant holds in every reachable state.
THEOREM InvariantHolds == Spec => []IInv
  BY InitInvariant, NextInvariant, PTL DEF Spec

\* The runtime's variables keep their types.
THEOREM TypesHold == Spec => []TypeOK
  <1>1. IInv => TypeOK
    BY DEF IInv
  <1>2. QED
    BY <1>1, InvariantHolds, PTL

\* The timers that run are the timers of the phase.
THEOREM TimersHold == Spec => []TimersMatchPhase
  <1>1. IInv => TimersMatchPhase
    BY DEF IInv, Sound, SoundTimers, TimersMatchPhase, Pending, TransientError
  <1>2. QED
    BY <1>1, InvariantHolds, PTL

\* Window, meter and ducking agree with the phase.
THEOREM SurfacesHold == Spec => []SurfacesMatchPhase
  <1>1. IInv => SurfacesMatchPhase
    BY DEF IInv
  <1>2. QED
    BY <1>1, InvariantHolds, PTL

\* An unresolved fault is only carried at rest, in Error or into a retry.
THEOREM ReportsHold == Spec => []ReportedOnlyAtRest
  <1>1. IInv => ReportedOnlyAtRest
    BY DEF IInv, Sound, SoundConditions, ReportedOnlyAtRest
  <1>2. QED
    BY <1>1, InvariantHolds, PTL

\* A muted Riki does not capture.
THEOREM MuteHolds == Spec => []MutedNeverCaptures
  <1>1. IInv => MutedNeverCaptures
    BY DEF IInv, Sound, SoundConditions, MutedNeverCaptures
  <1>2. QED
    BY <1>1, InvariantHolds, PTL

\* A latch belongs to the interaction it was made in.
THEOREM LatchHolds == Spec => []LatchMatchesGesture
  <1>1. IInv => LatchMatchesGesture
    BY DEF IInv, Sound, SoundConditions, LatchMatchesGesture
  <1>2. QED
    BY <1>1, InvariantHolds, PTL

\* Everything kept beside the phase agrees with it.
THEOREM PhaseHolds == Spec => []PhaseIsKept
  BY TypesHold, SurfacesHold, ReportsHold, MuteHolds, LatchHolds, PTL DEF PhaseIsKept

-----------------------------------------------------------------------------
(***************************************************************************)
(* What is drawn, and what is abandoned.  The chip shows what only time    *)
(* changes once its timer has fired, so the inductive invariant says when  *)
(* each timer is due; a reduction that does not project leaves everything  *)
(* the chip shows as it is.  The dimming is only right if every snapshot   *)
(* of the settings has the same nudge: a changed one moves the threshold   *)
(* of a silence whose timer has been armed with the other.                 *)
(***************************************************************************)
OneNudge == \A e, f \in Environments : e.silenceNudge = f.silenceNudge

\* The age has reached the delay, or a timer is pending that will not fire before.
Due(age, timer, delay) == age >= delay \/ (timer # Off /\ age + timer >= delay)

Timed(s) ==
    /\ s.phase.kind = "listening" /\ s.phase.silent # NotSilent =>
          Due(s.phase.silent, s.pending["silence-nudge"], s.env.silenceNudge)
    /\ s.phase.kind = "processing" =>
          /\ Due(s.phase.running, s.pending["elapsed-hint"], ElapsedHint)
          /\ Due(s.phase.running, s.pending["cancel-hint"], CancelHint)

\* Nothing that the chip shows differs between s and r.
Unseen(s, r) ==
    /\ ChipStateOf(r) = ChipStateOf(s)
    /\ r.latched = s.latched
    /\ IsDimmed(r) <=> IsDimmed(s)
    /\ IsDimmed(r) => r.pending = s.pending
    /\ r.phase.kind = "processing" => r.phase = s.phase /\ r.pending = s.pending

Answering(s) == s.phase.kind \in {"processing", "speaking"}

\* What a reduction of s to r owes the player: it is timed, it is drawn if it
\* can be seen, and it does not leave an answer without a word to the session.
Drawn(s, r) ==
    OneNudge /\ Timed(s) => Timed(r) /\ ("project" \in r.fx \/ Unseen(s, r))

Told(s, r) == Answering(s) => Answering(r) \/ "abort" \in r.fx \/ "interrupt" \in r.fx

Faithful(s, r) == Drawn(s, r) /\ Told(s, r)

LEMMA StayFaithful ==
    ASSUME NEW d \in Drafts
    PROVE  Faithful(d, d)
  BY DEF Faithful, Drawn, Told, Unseen

LEMMA IdleDrawn ==
    ASSUME NEW b \in Drafts
    PROVE  /\ Timed(ToIdle(b))
           /\ "project" \in ToIdle(b).fx
           /\ b.fx \subseteq ToIdle(b).fx
  <1>1. Idle.kind = "idle"
    BY DEF Idle
  <1>2. QED
    BY <1>1, ToIdleForm DEF Timed

LEMMA CaptureDrawn ==
    ASSUME NEW b \in Drafts, NEW p \in Phases,
           p.kind = "armed" \/ (p.kind = "listening" /\ p.silent = NotSilent)
    PROVE  /\ Timed(OpenCapture(b, p))
           /\ "project" \in OpenCapture(b, p).fx
           /\ b.fx \subseteq OpenCapture(b, p).fx
  <1>1. Capturing(p)
    BY DEF Capturing
  <1>2. OpenCapture(b, p).phase = p
    BY <1>1, OpenCaptureForm
  <1>3. Timed(OpenCapture(b, p))
    BY <1>2 DEF Timed
  <1>4. OpenCapture(b, p).fx = b.fx \cup {"show", "levels-input", "capture-start", "project"}
            \cup (IF b.phase.kind = "speaking" THEN {"duck-off"} ELSE {})
    BY <1>1, OpenCaptureForm
  <1>5. QED
    BY <1>3, <1>4

LEMMA ProcessingDrawn ==
    ASSUME NEW b \in Drafts
    PROVE  /\ Timed(ToProcessing(b))
           /\ "project" \in ToProcessing(b).fx
           /\ ToProcessing(b).phase.kind = "processing"
  <1> DEFINE r == ToProcessing(b)
  <1>1. /\ r.phase = Processing(0)
        /\ r.pending = [AllOff EXCEPT !["elapsed-hint"] = ElapsedHint,
                                      !["cancel-hint"] = CancelHint]
        /\ "project" \in r.fx
    BY ToProcessingForm
  <1> HIDE DEF r
  <1>2. Processing(0).kind = "processing" /\ Processing(0).running = 0
    BY DEF Processing
  <1>3. r.pending["elapsed-hint"] = ElapsedHint /\ r.pending["cancel-hint"] = CancelHint
    BY <1>1 DEF AllOff, TimerIds
  <1>4. Timed(r)
    BY <1>1, <1>2, <1>3, DelayAssumption DEF Timed, Due, Delay, Off
  <1>5. QED
    BY <1>1, <1>2, <1>4 DEF r

LEMMA FaultFaithful ==
    ASSUME NEW d \in Drafts, Sound(d),
           NEW b \in Drafts, b.phase = d.phase, b.reported = d.reported,
           NEW f \in Faults \cup {NoSpeech}, IsActive(b.phase) \/ b = d
    PROVE  Faithful(d, RaiseFault(b, f))
  <1> DEFINE r == RaiseFault(b, f)
  <1>1. CASE f.persistent /\ f.kind \in b.reported
    <2>1. ~Answering(d)
      BY <1>1 DEF Sound, SoundConditions, Answering
    <2>2. CASE IsActive(b.phase)
      <3>1. r = ToIdle(b)
        BY <1>1, <2>2 DEF RaiseFault
      <3>2. QED
        BY <2>1, <3>1, IdleDrawn DEF Faithful, Drawn, Told
    <2>3. CASE ~IsActive(b.phase)
      <3>1. r = d
        BY <1>1, <2>3 DEF RaiseFault
      <3>2. QED
        BY <3>1, StayFaithful
    <2>4. QED
      BY <2>2, <2>3
  <1>2. CASE ~(f.persistent /\ f.kind \in b.reported)
    <2>1. /\ r.phase = Error(f)
          /\ r.fx = b.fx \cup {"levels-off", "error-cue", "show", "project"}
               \cup (IF IsActive(b.phase) THEN {"abort"} ELSE {})
               \cup (IF b.phase.kind = "speaking" THEN {"duck-off"} ELSE {})
      BY <1>2, RaiseFaultForm
    <2> HIDE DEF r
    <2>2. Error(f).kind = "error"
      BY DEF Error
    <2>3. Timed(r)
      BY <2>1, <2>2 DEF Timed
    <2>4. Answering(d) => IsActive(b.phase)
      BY DEF Answering, IsActive
    <2>5. QED
      BY <2>1, <2>3, <2>4 DEF Faithful, Drawn, Told, r
  <1>3. QED
    BY <1>1, <1>2

LEMMA OnTriggerFaithful ==
    ASSUME NEW d \in Drafts,
           NEW event \in {"down", "up", "tap", "cancel"}
    PROVE  Faithful(d, OnTrigger(d, event))
  <1> DEFINE r == OnTrigger(d, event)
             starts == event \in {"down", "tap"}
             gesture == IF event = "tap" THEN "latch" ELSE "push"
  <1>1. Faithful(d, d)
    BY StayFaithful
  <1>2. /\ Emit(d, {"abort"}) \in Drafts /\ "abort" \in Emit(d, {"abort"}).fx
        /\ Emit(d, {"interrupt"}) \in Drafts /\ "interrupt" \in Emit(d, {"interrupt"}).fx
        /\ Emit(d, {"capture-end"}) \in Drafts
    BY EmitForm DEF Effects
  <1>3. /\ Armed(gesture) \in Phases /\ Armed(gesture).kind = "armed"
        /\ Listening(gesture, NotSilent) \in Phases
        /\ Listening(gesture, NotSilent).kind = "listening"
        /\ Listening(gesture, NotSilent).silent = NotSilent
    <2>1. gesture \in Gestures /\ NotSilent \in Age \cup {NotSilent}
      BY DEF Gestures
    <2>2. Armed(gesture) \in Phases /\ Listening(gesture, NotSilent) \in Phases
      BY <2>1 DEF Phases
    <2>3. QED
      BY <2>2 DEF Armed, Listening
  <1>4. CASE Suppressed(d, event)
    BY <1>1, <1>4 DEF OnTrigger
  <1>5. CASE ~Suppressed(d, event) /\ event = "cancel"
    <2>1. r = CancelInteraction(d)
      BY <1>5 DEF OnTrigger
    <2>2. CASE d.phase.kind = "idle"
      BY <1>1, <2>1, <2>2 DEF CancelInteraction
    <2>3. CASE d.phase.kind # "idle"
      <3>1. r = ToIdle(Emit(d, {"abort"}))
        BY <2>1, <2>3 DEF CancelInteraction
      <3>2. Timed(r) /\ "project" \in r.fx /\ "abort" \in r.fx
        BY <1>2, <3>1, IdleDrawn
      <3>3. QED
        BY <3>2 DEF Faithful, Drawn, Told
    <2>4. QED
      BY <2>2, <2>3
  <1>6. CASE ~Suppressed(d, event) /\ event # "cancel"
    <2>1. CASE d.phase.kind \in {"idle", "error"} /\ starts
      <3>1. r = OpenCapture(d, Armed(gesture))
        BY <1>6, <2>1 DEF OnTrigger, BeginCapture
      <3>2. Timed(r) /\ "project" \in r.fx
        BY <1>3, <3>1, CaptureDrawn
      <3>3. QED
        BY <2>1, <3>2 DEF Faithful, Drawn, Told, Answering
    <2>2. CASE d.phase.kind = "processing" /\ starts
      <3>1. r = OpenCapture(Emit(d, {"abort"}), Armed(gesture))
        BY <1>6, <2>2 DEF OnTrigger, BeginCapture
      <3>2. Timed(r) /\ "project" \in r.fx /\ "abort" \in r.fx
        BY <1>2, <1>3, <3>1, CaptureDrawn
      <3>3. QED
        BY <3>2 DEF Faithful, Drawn, Told
    <2>3. CASE d.phase.kind = "speaking" /\ starts
      <3>1. r = OpenCapture(Emit(d, {"interrupt"}), Listening(gesture, NotSilent))
        BY <1>6, <2>3 DEF OnTrigger, BargeIn, ToListening
      <3>2. Timed(r) /\ "project" \in r.fx /\ "interrupt" \in r.fx
        BY <1>2, <1>3, <3>1, CaptureDrawn
      <3>3. QED
        BY <3>2 DEF Faithful, Drawn, Told
    <2>4. CASE d.phase.kind = "armed" /\ EndsGesture(d.phase.gesture, event)
      <3>1. r = ToIdle(Emit(d, {"capture-end"}))
        BY <1>6, <2>4 DEF OnTrigger
      <3>2. Timed(r) /\ "project" \in r.fx
        BY <1>2, <3>1, IdleDrawn
      <3>3. QED
        BY <2>4, <3>2 DEF Faithful, Drawn, Told, Answering
    <2>5. CASE d.phase.kind = "listening" /\ EndsGesture(d.phase.gesture, event)
      <3>1. r = ToProcessing(Emit(d, {"capture-end"}))
        BY <1>6, <2>5 DEF OnTrigger
      <3>2. Timed(r) /\ "project" \in r.fx
        BY <1>2, <3>1, ProcessingDrawn
      <3>3. QED
        BY <2>5, <3>2 DEF Faithful, Drawn, Told, Answering
    <2>6. CASE /\ ~(d.phase.kind \in {"idle", "error", "processing", "speaking"} /\ starts)
               /\ ~(/\ d.phase.kind \in {"armed", "listening"}
                    /\ EndsGesture(d.phase.gesture, event))
      <3>1. r = d
        BY <1>6, <2>6 DEF OnTrigger
      <3>2. QED
        BY <1>1, <3>1
    <2>7. QED
      BY <2>1, <2>2, <2>3, <2>4, <2>5, <2>6
  <1>7. QED
    BY <1>4, <1>5, <1>6

LEMMA OnCaptureFaithful ==
    ASSUME NEW d \in Drafts,
           NEW event \in {"opened", "firstAudio", "closed"}
    PROVE  Faithful(d, OnCapture(d, event))
  <1> DEFINE r == OnCapture(d, event)
  <1>1. CASE event = "firstAudio" /\ d.phase.kind = "armed"
    <2> DEFINE p == Listening(d.phase.gesture, NotSilent)
    <2>1. /\ r.phase = p /\ "project" \in r.fx
      BY <1>1 DEF OnCapture, Enter, Emit, Drafts
    <2>2. p.kind = "listening" /\ p.silent = NotSilent
      BY DEF Listening
    <2> HIDE DEF p, r
    <2>3. QED
      BY <1>1, <2>1, <2>2 DEF Faithful, Drawn, Told, Answering, Timed, r
  <1>2. CASE event = "closed" /\ d.phase.kind \in {"armed", "listening"}
    <2>1. r = ToIdle(Emit(d, {"capture-end"}))
      BY <1>2 DEF OnCapture
    <2>2. Emit(d, {"capture-end"}) \in Drafts
      BY EmitForm DEF Effects
    <2>3. Timed(r) /\ "project" \in r.fx
      BY <2>1, <2>2, IdleDrawn
    <2>4. QED
      BY <1>2, <2>3 DEF Faithful, Drawn, Told, Answering
  <1>3. CASE /\ ~(event = "firstAudio" /\ d.phase.kind = "armed")
             /\ ~(event = "closed" /\ d.phase.kind \in {"armed", "listening"})
    BY <1>3, StayFaithful DEF OnCapture
  <1>4. QED
    BY <1>1, <1>2, <1>3

LEMMA OnSpeechFaithful ==
    ASSUME NEW d \in Drafts, NEW event \in {"silence", "resumed"}
    PROVE  Faithful(d, OnSpeech(d, event))
  <1> DEFINE r == OnSpeech(d, event)
  <1>1. CASE event = "silence" /\ d.phase.kind = "listening" /\ d.phase.silent = NotSilent
    <2> DEFINE p == [d.phase EXCEPT !.silent = 0]
               pending == [d.pending EXCEPT !["silence-nudge"] = d.env.silenceNudge]
    <2>1. p.kind = "listening" /\ p.silent = 0
      <3>1. d.phase = Listening(d.phase.gesture, NotSilent)
        BY <1>1, PhaseForms DEF Drafts
      <3>2. p = Listening(d.phase.gesture, 0)
        BY <3>1 DEF Listening
      <3>3. QED
        BY <3>2 DEF Listening
    <2>2. pending["silence-nudge"] = d.env.silenceNudge
      BY DEF Drafts, PendingTimers, TimerIds
    <2>3. d.env.silenceNudge \in Nat /\ d.env.silenceNudge > 0
      BY InputAssumption DEF Drafts, Delay
    <2> HIDE DEF p, pending
    <2>4. /\ r.phase = p /\ r.pending = pending /\ r.env = d.env
          /\ r.latched = d.latched /\ r.muted = d.muted
      BY <1>1 DEF OnSpeech, Schedule, Drafts, p, pending
    <2> HIDE DEF r
    <2>5. Timed(r)
      BY <2>1, <2>2, <2>3, <2>4 DEF Timed, Due, Off
    <2>6. ~IsDimmed(r) /\ ~IsDimmed(d)
      BY <1>1, <2>1, <2>3, <2>4 DEF IsDimmed
    <2>7. ChipStateOf(r) = ChipStateOf(d)
      BY <1>1, <2>1, <2>4 DEF ChipStateOf
    <2>8. QED
      BY <1>1, <2>1, <2>4, <2>5, <2>6, <2>7 DEF Faithful, Drawn, Unseen, Told, Answering, r
  <1>2. CASE event = "resumed" /\ d.phase.kind = "listening" /\ d.phase.silent # NotSilent
    <2> DEFINE p == [d.phase EXCEPT !.silent = NotSilent]
    <2>1. p.kind = "listening" /\ p.silent = NotSilent
      <3>1. d.phase = Listening(d.phase.gesture, d.phase.silent)
        BY <1>2, PhaseForms DEF Drafts
      <3>2. p = Listening(d.phase.gesture, NotSilent)
        BY <3>1 DEF Listening
      <3>3. QED
        BY <3>2 DEF Listening
    <2> HIDE DEF p
    <2>2. r.phase = p /\ "project" \in r.fx
      BY <1>2 DEF OnSpeech, Cancel, Emit, Drafts, p
    <2> HIDE DEF r
    <2>3. QED
      BY <1>2, <2>1, <2>2 DEF Faithful, Drawn, Told, Answering, Timed, r
  <1>3. CASE /\ ~(/\ event = "silence" /\ d.phase.kind = "listening"
                  /\ d.phase.silent = NotSilent)
             /\ ~(/\ event = "resumed" /\ d.phase.kind = "listening"
                  /\ d.phase.silent # NotSilent)
    BY <1>3, StayFaithful DEF OnSpeech
  <1>4. QED
    BY <1>1, <1>2, <1>3

\* Only the end of the answer may leave it without a word.
LEMMA OnTurnDrawn ==
    ASSUME NEW d \in Drafts,
           NEW event \in {"submitted", "responseStarted", "responseEnded"}
    PROVE  /\ Drawn(d, OnTurn(d, event))
           /\ event # "responseEnded" => Told(d, OnTurn(d, event))
  <1> DEFINE r == OnTurn(d, event)
             starting == event = "responseStarted" /\ d.phase.kind \notin {"idle", "speaking"}
  <1>1. CASE event = "submitted" /\ d.phase.kind = "listening"
    <2>1. r = ToProcessing(d)
      BY <1>1 DEF OnTurn
    <2>2. QED
      BY <1>1, <2>1, ProcessingDrawn DEF Drawn, Told, Answering
  <1>2. CASE starting
    <2> DEFINE b == [d EXCEPT !.reported = {}]
               e == Enter(b, Speaking, {})
    <2>1. b \in Drafts
      BY DEF Drafts
    <2>2. Speaking \in Phases /\ Speaking.kind = "speaking"
      BY DEF Phases, Speaking
    <2> HIDE DEF b
    <2>3. e \in Drafts /\ e.phase = Speaking
      BY <2>1, <2>2, EnterForm
    <2> HIDE DEF e
    <2>4. r = Emit(e, {"show", "levels-output", "project"})
      BY <1>2 DEF OnTurn, e, b
    <2>5. r.phase = Speaking /\ "project" \in r.fx
      BY <2>3, <2>4, EmitForm DEF Effects
    <2> HIDE DEF r
    <2>6. QED
      BY <2>2, <2>5 DEF Drawn, Told, Answering, Timed, r
  <1>3. CASE event = "responseEnded" /\ d.phase.kind = "speaking"
    <2>1. CASE d.latched /\ ~d.muted
      <3>1. r = OpenCapture(d, Listening("latch", NotSilent))
        BY <1>3, <2>1 DEF OnTurn, ToListening
      <3>2. /\ Listening("latch", NotSilent) \in Phases
            /\ Listening("latch", NotSilent).kind = "listening"
            /\ Listening("latch", NotSilent).silent = NotSilent
        <4>1. "latch" \in Gestures /\ NotSilent \in Age \cup {NotSilent}
          BY DEF Gestures
        <4>2. Listening("latch", NotSilent) \in Phases
          BY <4>1 DEF Phases
        <4>3. QED
          BY <4>2 DEF Listening
      <3>3. QED
        BY <1>3, <3>1, <3>2, CaptureDrawn DEF Drawn
    <2>2. CASE ~(d.latched /\ ~d.muted)
      <3>1. r = ToIdle(d)
        BY <1>3, <2>2 DEF OnTurn
      <3>2. QED
        BY <1>3, <3>1, IdleDrawn DEF Drawn
    <2>3. QED
      BY <2>1, <2>2
  <1>4. CASE /\ ~(event = "submitted" /\ d.phase.kind = "listening")
             /\ ~starting
             /\ ~(event = "responseEnded" /\ d.phase.kind = "speaking")
    BY <1>4, StayFaithful DEF OnTurn, Faithful
  <1>5. QED
    BY <1>1, <1>2, <1>3, <1>4

LEMMA OnMuteFaithful ==
    ASSUME NEW d \in Drafts, NEW muted \in BOOLEAN
    PROVE  Faithful(d, OnMute(d, muted))
  <1> DEFINE c == [d EXCEPT !.muted = muted]
             r == OnMute(d, muted)
  <1>1. /\ c \in Drafts /\ c.phase = d.phase /\ c.latched = d.latched
        /\ c.pending = d.pending /\ c.env = d.env
    BY DEF Drafts
  <1> HIDE DEF c
  <1>2. CASE muted = d.muted
    BY <1>2, StayFaithful DEF OnMute
  <1>3. CASE muted # d.muted /\ muted
    <2> DEFINE x == IF d.phase.kind = "idle" THEN {} ELSE {"abort"}
    <2>1. r = ToIdle(Emit(c, x))
      BY <1>3 DEF OnMute, c
    <2>2. x \in SUBSET Effects /\ (Answering(d) => "abort" \in x)
      BY DEF Effects, Answering
    <2> HIDE DEF x
    <2>3. Emit(c, x) \in Drafts /\ (Answering(d) => "abort" \in Emit(c, x).fx)
      BY <1>1, <2>2, EmitForm
    <2>4. QED
      BY <2>1, <2>3, IdleDrawn DEF Faithful, Drawn, Told
  <1>4. CASE muted # d.muted /\ ~muted
    <2> DEFINE x == IF d.phase.kind = "idle" THEN {"project", "hide"} ELSE {}
    <2>1. r = Emit(c, x)
      BY <1>4 DEF OnMute, c
    <2>2. x \in SUBSET Effects /\ (d.phase.kind = "idle" => "project" \in x)
      BY DEF Effects
    <2> HIDE DEF x
    <2>3. /\ r.phase = d.phase /\ r.latched = d.latched /\ r.pending = d.pending
          /\ r.env = d.env /\ x \subseteq r.fx
      BY <1>1, <2>1, <2>2, EmitForm
    <2> HIDE DEF r
    <2>4. Timed(d) => Timed(r)
      BY <2>3 DEF Timed
    <2>5. d.phase.kind # "idle" => Unseen(d, r)
      BY <2>3 DEF Unseen, ChipStateOf, IsDimmed
    <2>6. QED
      BY <2>2, <2>3, <2>4, <2>5 DEF Faithful, Drawn, Told, Answering, r
  <1>5. QED
    BY <1>2, <1>3, <1>4

LEMMA OnSettingsFaithful ==
    ASSUME NEW d \in Drafts, NEW env \in Environments
    PROVE  Faithful(d, OnSettings(d, env))
  <1> DEFINE r == OnSettings(d, env)
  <1>1. r.phase = d.phase /\ "project" \in r.fx /\ r.pending = d.pending /\ r.env = env
    BY DEF OnSettings, Emit, Drafts, Effects
  <1> HIDE DEF r
  <1>2. OneNudge => env.silenceNudge = d.env.silenceNudge
    BY DEF OneNudge, Drafts
  <1>3. OneNudge /\ Timed(d) => Timed(r)
    BY <1>1, <1>2 DEF Timed
  <1>4. QED
    BY <1>1, <1>3 DEF Faithful, Drawn, Told, Answering, r

LEMMA OnTimerFaithful ==
    ASSUME NEW d \in Drafts, Sound(d),
           NEW id \in TimerIds, d.pending[id] = 0
    PROVE  Faithful(d, OnTimer(d, id))
  <1> DEFINE fired == Cancel(d, id)
             r == OnTimer(d, id)
  <1>1. /\ fired \in Drafts /\ fired.phase = d.phase
        /\ fired.reported = d.reported /\ fired.env = d.env
        /\ fired.pending = [d.pending EXCEPT ![id] = Off]
    BY DEF Cancel, Drafts, PendingTimers
  <1>2. d.pending[id] # Off
    BY DEF Off
  <1> HIDE DEF fired
  <1>3. CASE id \in {"silence-nudge", "elapsed-hint", "cancel-hint"}
    <2>1. r = Emit(fired, {"project"})
      BY <1>2, <1>3 DEF OnTimer, Sound, SoundTimers, fired
    <2>2. /\ r.phase = d.phase /\ "project" \in r.fx /\ r.env = d.env
          /\ r.pending = [d.pending EXCEPT ![id] = Off]
      BY <1>1, <2>1, EmitForm DEF Effects
    <2> HIDE DEF r
    <2>3. \A t \in TimerIds : r.pending[t] = IF t = id THEN Off ELSE d.pending[t]
      BY <2>2 DEF Drafts, PendingTimers
    <2>4. ASSUME Timed(d), d.phase.kind = "listening", d.phase.silent # NotSilent
          PROVE  Due(d.phase.silent, r.pending["silence-nudge"], d.env.silenceNudge)
      <3>1. d.phase.silent \in Nat
        BY <2>4, PhaseForms DEF Drafts, Age
      <3>2. QED
        BY <2>3, <2>4, <3>1 DEF Timed, Due, TimerIds
    <2>5. ASSUME Timed(d), d.phase.kind = "processing"
          PROVE  /\ Due(d.phase.running, r.pending["elapsed-hint"], ElapsedHint)
                 /\ Due(d.phase.running, r.pending["cancel-hint"], CancelHint)
      <3>1. d.phase.running \in Nat
        BY <2>5, PhaseForms DEF Drafts, Age
      <3>2. QED
        BY <2>3, <2>5, <3>1 DEF Timed, Due, TimerIds
    <2>6. Timed(d) => Timed(r)
      BY <2>2, <2>4, <2>5 DEF Timed
    <2>7. QED
      BY <2>2, <2>6 DEF Faithful, Drawn, Told, Answering, r
  <1>4. CASE id = "listen-timeout"
    <2>1. Capturing(d.phase)
      BY <1>2, <1>4 DEF Sound, SoundTimers
    <2>2. r = RaiseFault(fired, NoSpeech)
      BY <1>4, <2>1 DEF OnTimer, Capturing, fired
    <2>3. IsActive(fired.phase)
      BY <1>1, <2>1 DEF IsActive, Capturing
    <2>4. QED
      BY <1>1, <2>2, <2>3, FaultFaithful
  <1>5. CASE id = "error-dismiss"
    <2>1. r = ToIdle(fired) /\ d.phase.kind = "error"
      BY <1>2, <1>5 DEF OnTimer, Sound, SoundTimers, fired
    <2>2. QED
      BY <1>1, <2>1, IdleDrawn DEF Faithful, Drawn, Told, Answering
  <1>6. QED
    BY <1>3, <1>4, <1>5 DEF TimerIds

-----------------------------------------------------------------------------
DInv == Timed(m) /\ ChipIsCurrent

\* Performing a draft that is drawn keeps the chip current.
LEMMA DispatchDraws ==
    ASSUME OneNudge, IInv, DInv, NEW r \in Drafts, Drawn(DraftOf(m), r), Dispatch(r)
    PROVE  DInv'
  <1> DEFINE d == DraftOf(m)
  <1>1. /\ d.phase = m.phase /\ d.muted = m.muted /\ d.latched = m.latched
        /\ d.pending = m.pending /\ d.env = m.env
    BY DEF DraftOf
  <1>2. /\ m'.phase = r.phase /\ m'.muted = r.muted /\ m'.latched = r.latched
        /\ m'.pending = r.pending /\ m'.env = r.env
    BY DEF Dispatch, Committed
  <1>3. Drawn(d, r)
    OBVIOUS
  <1> HIDE DEF d
  <1>8. Timed(d)
    BY <1>1 DEF DInv, Timed
  <1>4. Timed(m')
    BY <1>2, <1>3, <1>8 DEF Drawn, Timed
  <1>5. CASE "project" \in r.fx
    <2>1. chip' = ProjectChip(m')
      BY <1>5 DEF Dispatch
    <2>2. /\ chip'.state = ChipStateOf(m') /\ chip'.latched = m'.latched
          /\ chip'.dimmed = IsDimmed(m')
          /\ chip'.elapsed = RunningFor(m', ElapsedHint)
          /\ chip'.cancel = RunningFor(m', CancelHint)
      BY <2>1 DEF ProjectChip
    <2>3. QED
      BY <1>4, <2>2 DEF DInv, ChipIsCurrent
  <1>6. CASE "project" \notin r.fx
    <2>1. Unseen(d, r)
      BY <1>3, <1>6, <1>8 DEF Drawn
    <2>2. chip' = chip
      BY <1>6 DEF Dispatch
    <2>3. /\ ChipStateOf(m') = ChipStateOf(m)
          /\ m'.latched = m.latched
          /\ IsDimmed(m') <=> IsDimmed(m)
          /\ IsDimmed(m') => m'.pending = m.pending
          /\ m'.phase.kind = "processing" => m'.phase = m.phase /\ m'.pending = m.pending
      BY <1>1, <1>2, <2>1 DEF Unseen, ChipStateOf, IsDimmed
    <2>4. QED
      BY <1>4, <2>2, <2>3 DEF DInv, ChipIsCurrent, Pending, RunningFor
  <1>7. QED
    BY <1>5, <1>6

\* Time ages the phase no faster than its timers.
LEMMA TickDraws ==
    ASSUME IInv, DInv, Tick
    PROVE  DInv'
  <1> DEFINE p == Elapse(m.phase)
             pending == [t \in TimerIds |-> IF m.pending[t] > 0 THEN m.pending[t] - 1
                                                               ELSE m.pending[t]]
  <1>1. m \in States
    BY DEF IInv, TypeOK, States, PendingTimers
  <1>2. /\ m'.phase = p /\ m'.pending = pending /\ m'.env = m.env
        /\ m'.muted = m.muted /\ m'.latched = m.latched
        /\ chip' = chip
    BY <1>1 DEF Tick, States
  <1>3. ASSUME NEW t \in TimerIds
        PROVE  /\ m.pending[t] \in Nat \cup {Off}
               /\ pending[t] = IF m.pending[t] = 0 \/ m.pending[t] = Off THEN m.pending[t]
                               ELSE m.pending[t] - 1
               /\ pending[t] = Off <=> m.pending[t] = Off
    BY <1>1 DEF States, PendingTimers, Off
  <1>4. m.phase \in Phases
    BY <1>1 DEF States
  <1> HIDE DEF pending
  <1>5. ASSUME NEW age \in Age, NEW t \in TimerIds, NEW delay \in Nat, delay <= Horizon,
               Due(age, m.pending[t], delay)
        PROVE  /\ Due(Older(age), pending[t], delay)
               /\ Older(age) \in Nat
               /\ age >= delay => Older(age) >= delay
               /\ pending[t] = Off => age >= delay
    <2> DEFINE before == m.pending[t]
               after == pending[t]
    <2>1. /\ before \in Nat \cup {Off}
          /\ after = IF before = 0 \/ before = Off THEN before ELSE before - 1
      BY <1>3
    <2>2. Due(age, before, delay)
      BY <1>5
    <2> HIDE DEF before, after
    <2>3. /\ age \in Nat /\ age <= Horizon /\ Horizon \in Nat
          /\ delay \in Nat /\ delay <= Horizon
      BY <1>5, DelayAssumption DEF Age, Delay
    <2>4. QED
      BY <2>1, <2>2, <2>3 DEF Due, Older, Off, after
  <1>6. CASE m.phase.kind = "listening" /\ m.phase.silent # NotSilent
    <2>1. m.phase.silent \in Age
      BY <1>4, <1>6, PhaseForms
    <2>2. p = Listening(m.phase.gesture, Older(m.phase.silent))
      BY <1>6 DEF Elapse
    <2>3. p.kind = "listening" /\ p.silent = Older(m.phase.silent)
      BY <2>2 DEF Listening
    <2> HIDE DEF p
    <2>4. m.env.silenceNudge \in Nat /\ m.env.silenceNudge <= Horizon
      BY <1>1, InputAssumption, HorizonAssumption, DelayAssumption DEF States, Delay
    <2>5. "silence-nudge" \in TimerIds
      BY DEF TimerIds
    <2>6. Due(m.phase.silent, m.pending["silence-nudge"], m.env.silenceNudge)
      BY <1>6 DEF DInv, Timed
    <2>7. /\ Due(p.silent, pending["silence-nudge"], m.env.silenceNudge)
          /\ p.silent \in Nat
          /\ m.phase.silent >= m.env.silenceNudge => p.silent >= m.env.silenceNudge
          /\ pending["silence-nudge"] = Off => m.phase.silent >= m.env.silenceNudge
      BY <1>5, <2>1, <2>3, <2>4, <2>5, <2>6
    <2>8. Timed(m')
      BY <1>2, <2>3, <2>7 DEF Timed
    <2>9. /\ IsDimmed(m) => IsDimmed(m')
          /\ ~Pending("silence-nudge")' => IsDimmed(m) /\ ~Pending("silence-nudge")
      BY <1>2, <1>3, <1>6, <2>3, <2>5, <2>7 DEF IsDimmed, Pending, NotSilent
    <2>10. ChipStateOf(m') = ChipStateOf(m)
      BY <1>2, <1>6, <2>3 DEF ChipStateOf
    <2>11. QED
      BY <1>2, <2>3, <2>8, <2>9, <2>10 DEF DInv, ChipIsCurrent, RunningFor
  <1>7. CASE m.phase.kind = "processing"
    <2>1. m.phase.running \in Age
      BY <1>4, <1>7, PhaseForms
    <2>2. p = Processing(Older(m.phase.running))
      BY <1>7 DEF Elapse
    <2>3. p.kind = "processing" /\ p.running = Older(m.phase.running)
      BY <2>2 DEF Processing
    <2> HIDE DEF p
    <2>4. /\ ElapsedHint \in Nat /\ ElapsedHint <= Horizon
          /\ CancelHint \in Nat /\ CancelHint <= Horizon
      BY HorizonAssumption, DelayAssumption DEF Delay
    <2>5. "elapsed-hint" \in TimerIds /\ "cancel-hint" \in TimerIds
      BY DEF TimerIds
    <2>6. /\ Due(m.phase.running, m.pending["elapsed-hint"], ElapsedHint)
          /\ Due(m.phase.running, m.pending["cancel-hint"], CancelHint)
      BY <1>7 DEF DInv, Timed
    <2>7. /\ Due(p.running, pending["elapsed-hint"], ElapsedHint)
          /\ Due(p.running, pending["cancel-hint"], CancelHint)
          /\ pending["elapsed-hint"] = Off => m.phase.running >= ElapsedHint
          /\ pending["cancel-hint"] = Off => m.phase.running >= CancelHint
      BY <1>5, <2>1, <2>3, <2>4, <2>5, <2>6
    <2>8. Timed(m')
      BY <1>2, <2>3, <2>7 DEF Timed
    <2>9. /\ ~Pending("elapsed-hint")' => RunningFor(m, ElapsedHint) /\ ~Pending("elapsed-hint")
          /\ ~Pending("cancel-hint")' => RunningFor(m, CancelHint) /\ ~Pending("cancel-hint")
      BY <1>2, <1>3, <1>7, <2>5, <2>7 DEF RunningFor, Pending
    <2>10. ~IsDimmed(m') /\ ~IsDimmed(m) /\ ChipStateOf(m') = ChipStateOf(m)
      BY <1>2, <1>7, <2>3 DEF IsDimmed, ChipStateOf
    <2>11. QED
      BY <1>2, <2>8, <2>9, <2>10 DEF DInv, ChipIsCurrent
  <1>8. CASE /\ ~(m.phase.kind = "listening" /\ m.phase.silent # NotSilent)
             /\ m.phase.kind # "processing"
    <2>1. p = m.phase
      BY <1>8 DEF Elapse
    <2> HIDE DEF p
    <2>2. /\ Timed(m') /\ ~IsDimmed(m') /\ ~IsDimmed(m)
          /\ ChipStateOf(m') = ChipStateOf(m)
      BY <1>2, <1>8, <2>1 DEF Timed, IsDimmed, ChipStateOf
    <2>3. QED
      BY <1>2, <1>8, <2>1, <2>2 DEF DInv, ChipIsCurrent, RunningFor
  <1>9. QED
    BY <1>6, <1>7, <1>8

LEMMA InitDrawn == Init => DInv
  <1> SUFFICES ASSUME Init PROVE DInv
    OBVIOUS
  <1>1. PICK env \in Environments : m = InitialState(env)
    BY DEF Init
  <1>2. m.phase.kind = "idle"
    BY <1>1 DEF InitialState, Idle
  <1>3. /\ chip.state = ChipStateOf(m) /\ chip.latched = m.latched
        /\ chip.dimmed = IsDimmed(m)
    BY DEF Init, ProjectChip
  <1>4. QED
    BY <1>2, <1>3 DEF DInv, Timed, ChipIsCurrent, IsDimmed, RunningFor

\* Every step of the runtime is a faithful dispatch, except that the end of an
\* answer tells nobody, or a tick of the clock.
LEMMA EveryStepFaithful ==
    ASSUME IInv, Next
    PROVE  \/ \E r \in Drafts : Dispatch(r) /\ Faithful(DraftOf(m), r)
           \/ \E r \in Drafts : Dispatch(r) /\ Drawn(DraftOf(m), r) /\ Turn("responseEnded")
           \/ Tick
  <1> DEFINE d == DraftOf(m)
  <1>1. m \in States
    BY DEF IInv, TypeOK, States, PendingTimers
  <1>2. /\ d \in Drafts /\ d.fx = {} /\ Sound(d) /\ d.pending = m.pending
    BY <1>1 DEF IInv, DraftOf, States, Drafts, Sound, SoundTimers, SoundConditions
  <1> HIDE DEF d
  <1>3. ASSUME NEW r, Lawful(d, r)
        PROVE  r \in Drafts
    BY <1>3 DEF Lawful
  <1>4. ASSUME NEW event \in {"down", "up", "tap", "cancel"}, Trigger(event)
        PROVE  \E r \in Drafts : Dispatch(r) /\ Faithful(d, r)
    BY <1>2, <1>3, <1>4, OnTriggerLawful, OnTriggerFaithful DEF Trigger, d
  <1>5. ASSUME NEW event \in {"opened", "firstAudio", "closed"}, Capture(event)
        PROVE  \E r \in Drafts : Dispatch(r) /\ Faithful(d, r)
    BY <1>2, <1>3, <1>5, OnCaptureLawful, OnCaptureFaithful DEF Capture, d
  <1>6. ASSUME NEW event \in {"silence", "resumed"}, Speech(event)
        PROVE  \E r \in Drafts : Dispatch(r) /\ Faithful(d, r)
    BY <1>2, <1>3, <1>6, OnSpeechLawful, OnSpeechFaithful DEF Speech, d
  <1>7. ASSUME NEW event \in {"submitted", "responseStarted"}, Turn(event)
        PROVE  \E r \in Drafts : Dispatch(r) /\ Faithful(d, r)
    BY <1>2, <1>3, <1>7, OnTurnLawful, OnTurnDrawn DEF Turn, Faithful, d
  <1>8. ASSUME Turn("responseEnded")
        PROVE  \E r \in Drafts : Dispatch(r) /\ Drawn(d, r)
    BY <1>2, <1>3, <1>8, OnTurnLawful, OnTurnDrawn DEF Turn, d
  <1>9. ASSUME NEW fault \in Faults, RaisedFault(fault)
        PROVE  \E r \in Drafts : Dispatch(r) /\ Faithful(d, r)
    BY <1>2, <1>3, <1>9, FaultLawful, FaultFaithful DEF RaisedFault, d
  <1>10. ASSUME NEW muted \in BOOLEAN, Mute(muted)
         PROVE  \E r \in Drafts : Dispatch(r) /\ Faithful(d, r)
    BY <1>2, <1>3, <1>10, OnMuteLawful, OnMuteFaithful DEF Mute, d
  <1>11. ASSUME NEW env \in Environments, Settings(env)
         PROVE  \E r \in Drafts : Dispatch(r) /\ Faithful(d, r)
    BY <1>2, <1>3, <1>11, OnSettingsLawful, OnSettingsFaithful DEF Settings, d
  <1>12. ASSUME NEW id \in TimerIds, Fire(id)
         PROVE  \E r \in Drafts : Dispatch(r) /\ Faithful(d, r)
    BY <1>2, <1>3, <1>12, OnTimerLawful, OnTimerFaithful DEF Fire, Off, d
  <1>13. QED
    BY <1>4, <1>5, <1>6, <1>7, <1>8, <1>9, <1>10, <1>11, <1>12 DEF Next, d

LEMMA NextDrawn ==
    ASSUME OneNudge, IInv, DInv, [Next]_vars
    PROVE  DInv'
  <1>1. CASE Next
    BY <1>1, EveryStepFaithful, DispatchDraws, TickDraws DEF DInv, Faithful
  <1>2. CASE UNCHANGED vars
    BY <1>2 DEF vars, sinks, DInv, ChipIsCurrent, Pending
  <1>3. QED
    BY <1>1, <1>2

\* The chip on screen is the chip of the current state, and what only time
\* changes is on screen once its timer has fired, for every delay and every
\* set of settings that agree on the nudge.
THEOREM ChipHolds ==
    ASSUME OneNudge
    PROVE  Spec => []ChipIsCurrent
  <1>1. IInv /\ DInv /\ [Next]_vars => DInv'
    BY NextDrawn
  <1>2. DInv => ChipIsCurrent
    BY DEF DInv
  <1>3. QED
    BY <1>1, <1>2, InitDrawn, InvariantHolds, PTL DEF Spec

\* No turn is left behind: an answer is abandoned only with an abort or an
\* interrupt to the voice session, unless it ended. (cancelInteraction, bargeIn,
\* raiseFault, onMute)
THEOREM NoTurnIsLeftBehind == Spec => NoTurnLeftBehind
  <1>1. ASSUME IInv, Next, Answering(m), ~Answering(m')
        PROVE  voice' # {} \/ Turn("responseEnded")
    <2>1. CASE Tick
      <3>1. m'.phase = Elapse(m.phase)
        <4>1. m \in States
          BY <1>1 DEF IInv, TypeOK, States, PendingTimers
        <4>2. QED
          BY <2>1, <4>1 DEF Tick, States
      <3>2. m.phase.kind = "processing" => Elapse(m.phase) = Processing(Older(m.phase.running))
        BY DEF Elapse
      <3>3. m.phase.kind = "speaking" => Elapse(m.phase) = m.phase
        BY DEF Elapse
      <3>4. QED
        BY <1>1, <3>1, <3>2, <3>3 DEF Answering, Processing
    <2>2. ASSUME NEW r \in Drafts, Dispatch(r), Faithful(DraftOf(m), r)
          PROVE  voice' # {}
      <3>1. Answering(DraftOf(m))
        BY <1>1 DEF Answering, DraftOf
      <3>2. ~Answering(r)
        BY <1>1, <2>2 DEF Answering, Dispatch, Committed
      <3>3. QED
        BY <2>2, <3>1, <3>2 DEF Faithful, Told, Dispatch
    <2>3. QED
      BY <1>1, <2>1, <2>2, EveryStepFaithful
  <1>2. IInv /\ [Next]_vars =>
          [(/\ m.phase.kind \in {"processing", "speaking"}
            /\ m'.phase.kind \notin {"processing", "speaking"})
           => voice' # {} \/ Turn("responseEnded")]_vars
    BY <1>1 DEF Answering
  <1>3. QED
    BY <1>2, InvariantHolds, PTL DEF Spec, NoTurnLeftBehind
=============================================================================
