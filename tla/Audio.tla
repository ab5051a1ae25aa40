---------------------------------- MODULE Audio ----------------------------------
(***************************************************************************)
(* Three stateful pieces of packages/audio, each on its own: the capture   *)
(* graph, whose pre-roll is a delay line in front of the gate and whose    *)
(* silence detector runs whether the gate is open or shut; the ducking of  *)
(* the game; and the resampler that is fed an utterance in chunks.         *)
(* (packages/audio/src: capture.ts, ducking.ts, resample.ts;               *)
(* renderer/voice/web-audio.ts)                                            *)
(***************************************************************************)
EXTENDS Integers, Sequences

CONSTANTS
    PreRoll,        \* preRollMs, in analyser frames
    SilenceHold,    \* SILENCE_HOLD_MS, in analyser frames
    HalfWidth,      \* HALF_WIDTH
    Rates,          \* the conversions: [from |-> , to |-> ]
    MaxChunk,       \* bound: the samples of a chunk
    MaxInput        \* bound: the samples of an utterance

ASSUME AudioAssumption ==
    /\ {PreRoll, HalfWidth, MaxChunk, MaxInput} \subseteq Nat /\ SilenceHold \in Nat \ {0}
    /\ \A r \in Rates : r.from \in Nat \ {0} /\ r.to \in Nat \ {0}

VARIABLES
    mic,        \* the gate, the delay line, the detector, and what a listener was told
    duck,       \* DuckingSink: enabled, ducked; is there a ducker; is the game quiet
    stream      \* a resampler's rates, tail and phase; samples in and out
audioVars == <<mic, duck, stream>>

\* One frame in the delay line: was anything said in it, and was the key held by then.
Still == [said |-> FALSE, held |-> FALSE]

AudioInit ==
    /\ mic = [open |-> FALSE, line |-> [i \in 1 .. PreRoll |-> Still], quiet |-> 0,
              silent |-> FALSE, told |-> FALSE, sent |-> "nothing", clipped |-> FALSE]
    /\ \E available \in BOOLEAN :
          duck = [available |-> available, enabled |-> TRUE, ducked |-> FALSE,
                  quiet |-> FALSE, wanted |-> FALSE]
    /\ \E r \in Rates : stream = [rates |-> r, tail |-> HalfWidth, phase |-> HalfWidth * r.to,
                                  fed |-> 0, made |-> 0]

-----------------------------------------------------------------------------
(* Capture *)

\* Mutant: a new turn begins as quiet as the room was.
QuietOpening == [mic EXCEPT !.open = TRUE, !.told = FALSE]

\* A new turn begins as speaking. The machine that is told has the same idea of it.
Opening == [mic EXCEPT !.open = TRUE, !.silent = FALSE, !.quiet = 0, !.told = FALSE]

Open ==
    /\ ~mic.open
    /\ mic' = Opening
    /\ UNCHANGED <<duck, stream>>

Shut ==
    /\ mic.open
    /\ mic' = [mic EXCEPT !.open = FALSE]
    /\ UNCHANGED <<duck, stream>>

\* The detector after a frame: it speaks of changes only.
Detected(said) ==
    LET quiet == IF said THEN 0 ELSE IF mic.quiet < SilenceHold THEN mic.quiet + 1 ELSE mic.quiet
    IN [quiet |-> quiet, silent |-> ~said /\ (mic.silent \/ quiet = SilenceHold)]

\* What comes out of the delay line and meets the gate.
Heard(line, said) ==
    IF PreRoll = 0 THEN [said |-> said, held |-> mic.open] ELSE Head(line)

Frames(said) ==
    LET out == Heard(mic.line, said)
        after == Detected(said)
    IN /\ mic' = [mic EXCEPT
              !.line = IF PreRoll = 0 THEN @ ELSE Append(Tail(@), [said |-> said, held |-> mic.open]),
              !.quiet = after.quiet, !.silent = after.silent,
              !.told = IF after.silent # mic.silent THEN after.silent ELSE @,
              !.sent = IF mic.open THEN "outbound" ELSE "nothing",
              !.clipped = @ \/ (~mic.open /\ out.said /\ out.held)]
       /\ UNCHANGED <<duck, stream>>

MicNext == Open \/ Shut \/ \E said \in BOOLEAN : Frames(said)

-----------------------------------------------------------------------------
(* Ducking *)

Restored(d) == [d EXCEPT !.ducked = FALSE, !.quiet = FALSE]

\* set: nothing without a ducker, when it is off, or when it is so already.
DuckSet(on) ==
    duck' = IF ~duck.available \/ ~duck.enabled THEN [duck EXCEPT !.wanted = on]
            ELSE IF on THEN [duck EXCEPT !.ducked = TRUE, !.quiet = TRUE, !.wanted = TRUE]
            ELSE [Restored(duck) EXCEPT !.wanted = FALSE]

\* Turning it off in the middle restores the game at once.
DuckEnabled(next) ==
    duck' = IF next \/ ~duck.ducked THEN [duck EXCEPT !.enabled = next]
            ELSE [Restored(duck) EXCEPT !.enabled = FALSE]

DuckNext ==
    /\ \E on \in BOOLEAN : DuckSet(on) \/ DuckEnabled(on)
    /\ UNCHANGED <<mic, stream>>

-----------------------------------------------------------------------------
(* Resampling. Positions are in input samples times rates.to, so that they are whole. *)

\* How many output samples have their right context in the buffer.
Producible(phase, length) ==
    LET room == (length - HalfWidth) * stream.rates.to - phase
    IN IF room <= 0 THEN 0 ELSE (room + stream.rates.from - 1) \div stream.rates.from

Chunk(n) ==
    LET length == stream.tail + n
        out == Producible(stream.phase, length)
        phase == stream.phase + out * stream.rates.from
        kept == phase \div stream.rates.to - HalfWidth
        gone == IF kept < 0 THEN 0 ELSE kept
    IN /\ n > 0 /\ stream.fed + n <= MaxInput
       /\ stream' = [stream EXCEPT !.tail = length - gone, !.phase = phase - gone * stream.rates.to,
                                   !.fed = @ + n, !.made = @ + out]
       /\ UNCHANGED <<mic, duck>>

\* reset: a new utterance.
Fresh ==
    /\ stream.fed > 0
    /\ stream' = [stream EXCEPT !.tail = HalfWidth, !.phase = HalfWidth * stream.rates.to,
                                !.fed = 0, !.made = 0]
    /\ UNCHANGED <<mic, duck>>

StreamNext == Fresh \/ \E n \in 1 .. MaxChunk : Chunk(n)

AudioNext == MicNext \/ DuckNext \/ StreamNext
MicSpec == AudioInit /\ [][MicNext]_audioVars

-----------------------------------------------------------------------------
\* The chip is told of silence exactly while there has been none but silence for the whole
\* hold since the turn began; no game stays quiet that nobody ducks, nor when the setting
\* is off; and an utterance makes the same samples whatever chunks it comes in, out of a
\* buffer that does not grow. (createCaptureGraph, createDuckingSink, SincResampler)
AudioIsTrue ==
    /\ mic.told = mic.silent /\ (mic.silent <=> mic.quiet = SilenceHold)
    /\ duck.quiet => duck.enabled /\ duck.wanted
    /\ LET r == stream.rates
           whole == (stream.fed - HalfWidth) * r.to
       IN /\ stream.made = IF whole <= 0 THEN 0 ELSE (whole + r.from - 1) \div r.from
          /\ stream.tail <= 2 * HalfWidth
===============================================================================
