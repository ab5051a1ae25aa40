---------------------------- MODULE SidecarWire ----------------------------
(***************************************************************************)
(* The pipe between the vision sidecar and the app: what the child process *)
(* becomes of its arguments and its recorded frames (riki-vision: cli,     *)
(* main; riki-capture: replay), the lines it writes, and what the app      *)
(* makes of each (packages/protocol codec.ts, main/sidecar/                *)
(* protocol-codec.ts), between two clocks that share no epoch.             *)
(***************************************************************************)
EXTENDS Integers, Sequences, SequencesExt, FiniteSets

CONSTANTS
    FrameCount,  \* the frames of the directory of recordings
    Extent,      \* MAP_WORLD_EXTENT_UNITS
    MaxClock,    \* bound: the time the pipe is watched
    MaxPipe,     \* bound: lines in the pipe
    MaxRead      \* bound: lines read

ASSUME WireAssumption ==
    /\ FrameCount \in Nat
    /\ {Extent, MaxClock, MaxPipe, MaxRead} \subseteq Nat \ {0}
    /\ Extent >= 4   \* whole units tell a quarter of the map: it is 16576

VARIABLES
    clock,   \* the time, which is the app's clock
    child,   \* the sidecar: its state or how it ended, its backend, when it was born
    frames,  \* the recording: is it acquired, and how many frames were taken
    crop,    \* the pass under way: when it captured, or none
    pipe,    \* the lines on their way
    codec    \* what the app made of the lines it has read
wireVars == <<clock, child, frames, crop, pipe, codec>>

WireInit ==
    /\ clock = 0
    /\ child = [state |-> "absent", backend |-> "none", born |-> 0]
    /\ frames = [acquired |-> FALSE, next |-> 0]
    /\ crop = -1
    /\ pipe = <<>>
    /\ codec = [read |-> 0, handled |-> 0, undecodable |-> 0, mismatched |-> 0, facts |-> {}]

-----------------------------------------------------------------------------
(* The child *)

Line(v, type, facts) ==
    [v |-> v, type |-> type, emittedAt |-> clock - child.born, facts |-> facts, sent |-> clock]
Sends(lines) == pipe' = pipe \o lines

(* parse and build_backend: an argument too many ends the process with 3; a *)
(* directory that cannot be read does not.                                   *)
CommandLines == {"native", "replay", "replay without frames", "unreadable", "unknown"}
Backend(args) == IF args = "replay" THEN "replay" ELSE "unavailable"

(* The three lines written on spawn are read in order, so that the answers  *)
(* are the handshake's and the first acquisition's.                          *)
SpawnWire == \E args \in CommandLines :
    /\ child.state = "absent"
    /\ pipe = <<>>
    /\ LET usage == args \in {"replay without frames", "unknown"}
           born == [state |-> "up", backend |-> Backend(args), born |-> clock]
           seen == args = "replay" /\ FrameCount > 0
           at0 == [v |-> "ours", type |-> "ready", emittedAt |-> 0, facts |-> <<>>, sent |-> clock]
       IN IF usage
          THEN /\ child' = [child EXCEPT !.state = "usage"]
               /\ UNCHANGED <<frames, pipe>>
          ELSE /\ child' = born
               /\ frames' = [acquired |-> seen, next |-> 0]
               /\ Sends(<<at0>> \o IF seen THEN <<>> ELSE <<[at0 EXCEPT !.type = "problem"]>>)
    /\ UNCHANGED <<clock, crop, codec>>

(* ReplayBackend.capture: the frames go round; nothing before an acquisition. *)
CaptureFrame ==
    /\ child.state = "up" /\ frames.acquired /\ crop = -1
    /\ frames' = [frames EXCEPT !.next = (@ + 1) % FrameCount]
    /\ crop' = clock
    /\ UNCHANGED <<clock, child, pipe, codec>>

(* A hero in the north west corner of the minimap, or nothing but the digest *)
(* of an unchanged region.                                                    *)
Digest(at) == [kind |-> "region.digest", capturedAt |-> at, x |-> 0, y |-> 0]
Hero(at) == [kind |-> "minimap.hero", capturedAt |-> at, x |-> 0, y |-> 25]
EmitPass ==
    /\ crop # -1 /\ Len(pipe) < MaxPipe
    /\ LET at == crop - child.born
       IN \E facts \in {<<Digest(at)>>, <<Digest(at), Hero(at)>>} :
            Sends(<<Line("ours", "cv.detections", facts)>>)
    /\ crop' = -1
    /\ UNCHANGED <<clock, child, frames, codec>>

(* A stray line of output, a message of another build, one this build does  *)
(* not have.                                                                 *)
Strays ==
    /\ child.state = "up" /\ Len(pipe) < MaxPipe
    /\ \E v \in {"ours", "theirs", "none"} : Sends(<<Line(v, "stray", <<>>)>>)
    /\ UNCHANGED <<clock, child, frames, crop, codec>>

(* stdin closes, or the app kills it: what was written can still be read.   *)
ChildEnds ==
    /\ child.state = "up"
    /\ child' = [child EXCEPT !.state = "absent"]
    /\ frames' = [acquired |-> FALSE, next |-> 0]
    /\ crop' = -1
    /\ UNCHANGED <<clock, pipe, codec>>

-----------------------------------------------------------------------------
(* The app *)

(* Mutant: the sidecar's clock is taken for ours. *)
RawStamp(receivedAt, emittedAt, capturedAt) == capturedAt

AtLeast0(n) == IF n > 0 THEN n ELSE 0
ObservedAt(receivedAt, emittedAt, capturedAt) ==
    AtLeast0(receivedAt - AtLeast0(emittedAt - capturedAt))

(* toWorldUnits, of hundredths of the crop: origin in the middle, y upward. *)
ToWorldUnits(f) == [x |-> ((f.x - 50) * Extent) \div 100, y |-> ((50 - f.y) * Extent) \div 100]

ToDetection(f, line) ==
    [at |-> ToWorldUnits(f), observedAt |-> ObservedAt(clock, line.emittedAt, f.capturedAt),
     receivedAt |-> clock, took |-> line.emittedAt - f.capturedAt, sent |-> line.sent]

(* decodeLine: envelope, then version, then content; nothing throws. *)
DecodeLine(line) ==
    CASE line.v = "none" -> "malformed"
      [] line.v = "theirs" -> "version"
      [] line.v = "ours" /\ line.type = "stray" -> "malformed"
      [] OTHER -> line.type

Decode(line) ==
    LET what == DecodeLine(line)
        read == [codec EXCEPT !.read = @ + 1]
    IN CASE what = "version" -> [read EXCEPT !.undecodable = @ + 1, !.mismatched = @ + 1]
         [] what = "malformed" -> [read EXCEPT !.undecodable = @ + 1]
         [] what \in {"ready", "problem"} -> [read EXCEPT !.handled = @ + 1]
         [] OTHER -> [read EXCEPT !.facts = @ \cup
                {ToDetection(f, line) : f \in {f \in ToSet(line.facts) : f.kind # "region.digest"}}]

ReadLine ==
    /\ pipe # <<>> /\ codec.read < MaxRead
    /\ codec' = Decode(Head(pipe))
    /\ pipe' = Tail(pipe)
    /\ UNCHANGED <<clock, child, frames, crop>>

WireTick == clock < MaxClock /\ clock' = clock + 1 /\ UNCHANGED <<child, frames, crop, pipe, codec>>

WireNext == SpawnWire \/ CaptureFrame \/ EmitPass \/ Strays \/ ChildEnds \/ ReadLine \/ WireTick
WireSpec == WireInit /\ [][WireNext]_wireVars

-----------------------------------------------------------------------------

(* SightingsAreDated: a sighting is as old as the time it spent inside the  *)
(* sidecar, in our clock, whenever that process was started; the pipe alone *)
(* makes it look younger than it is; a digest is no sighting; and a hero in *)
(* the upper left of the picture is in the north west of the map            *)
(* (protocol-codec.ts:8-22, 257-279).                                       *)
SightingsAreDated == \A f \in codec.facts :
    /\ f.sent - f.took <= f.observedAt /\ f.observedAt <= f.receivedAt
    /\ f.observedAt - (f.sent - f.took) = f.receivedAt - f.sent
    /\ f.at.x < 0 /\ f.at.y > 0
=============================================================================
