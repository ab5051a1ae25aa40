------------------------------ MODULE TriggerPump ------------------------------
(***************************************************************************)
(* The talk key: a source of key edges, the recognizer that tells a tap    *)
(* from a hold, the pump that owns its one timer, and the shell's          *)
(* subscription that resets it whenever the machine is found in Idle.  The *)
(* machine is reduced to whose gesture opened the capture.                 *)
(* (apps/desktop: main/trigger, main/shell)                                *)
(***************************************************************************)
EXTENDS Integers

CONSTANTS
    Threshold,      \* HOLD_THRESHOLD_MS, in ticks
    Repeats         \* does the system repeat a held key?

ASSUME TriggerAssumption == Threshold \in Nat \ {0} /\ Repeats \in BOOLEAN

VARIABLES
    edges,          \* hasKeyUp: does the source report the release when it happens?
    key,            \* is the key down
    gesture,        \* the recognizer's phase, and how long it has been deciding
    fuse,           \* ticks until the pump's timer, or -1
    capture         \* the machine: idle, held open by a push or a latch, or busy with a turn

triggerVars == <<edges, key, gesture, fuse, capture>>

Phase(kind) == [kind |-> kind, held |-> 0]

-----------------------------------------------------------------------------
(* The machine, and the shell's subscription *)

\* What an event leaves of the capture; a capture that was only armed ends in Idle.
Reacts(event) ==
    CASE event = "tap" /\ capture = "latch" -> {"idle", "busy"}
      [] event = "up" /\ capture = "push" -> {"idle", "busy"}
      [] event = "tap" /\ capture \in {"idle", "busy"} -> {"latch"}
      [] event = "down" /\ capture \in {"idle", "busy"} -> {"push"}
      [] OTHER -> {capture}

\* resync follows every step that leaves the machine in Idle.
Resynced(next, phase, ticks) ==
    /\ UNCHANGED edges
    /\ capture' = next
    /\ gesture' = IF next = "idle" THEN Phase("idle") ELSE phase
    /\ fuse' = IF next = "idle" THEN -1 ELSE ticks

Dispatch(event, phase, ticks) == \E next \in Reacts(event) : Resynced(next, phase, ticks)

\* down, then up: the second is reduced against what the first left.
DownThenUp == \E next \in {"idle", "busy"} \cup ({capture} \cap {"latch"}) : Resynced(next, Phase("idle"), -1)

Quietly(phase, ticks) == gesture' = phase /\ fuse' = ticks /\ UNCHANGED <<edges, capture>>

-----------------------------------------------------------------------------
(* The recognizer and the pump *)

\* A press, or a repeat of one: only the first begins to decide, both re-arm the timer.
KeyDown ==
    /\ edges
    /\ ~key \/ Repeats
    /\ key' = TRUE
    /\ Quietly(IF gesture.kind \in {"idle", "latched"} THEN Phase("deciding") ELSE gesture, Threshold)

\* Mutant: a release that comes after the threshold, and before its tick, is a tap.
LateIsTap ==
    /\ key /\ key' = FALSE
    /\ CASE gesture.kind = "deciding" -> Dispatch("tap", Phase("latched"), -1)
         [] gesture.kind = "pushing" -> Quietly(Phase("idle"), -1)
         [] OTHER -> Quietly(gesture, -1)

KeyUp ==
    /\ key /\ key' = FALSE
    /\ CASE gesture.kind = "deciding" /\ gesture.held < Threshold -> Dispatch("tap", Phase("latched"), -1)
         [] gesture.kind = "deciding" /\ gesture.held >= Threshold -> DownThenUp
         [] gesture.kind = "pushing" -> Dispatch("up", Phase("idle"), -1)
         [] OTHER -> Quietly(gesture, -1)

\* globalShortcut: one callback, reported as both edges of the same instant.
Press ==
    /\ ~edges
    /\ Dispatch("tap", Phase("latched"), -1)
    /\ UNCHANGED key

\* The hold threshold: tick.
TimerFires ==
    /\ fuse = 0
    /\ IF gesture.kind = "deciding" /\ gesture.held >= Threshold
       THEN Dispatch("down", Phase("pushing"), -1)
       ELSE Quietly(gesture, -1)
    /\ UNCHANGED key

\* Esc: whatever goes on ends.
Escape ==
    /\ Resynced("idle", Phase("idle"), -1)
    /\ UNCHANGED key

TimePasses ==
    /\ fuse # 0
    /\ fuse' = IF fuse > 0 THEN fuse - 1 ELSE fuse
    /\ gesture' = IF gesture.kind = "deciding" /\ gesture.held < Threshold
                  THEN [gesture EXCEPT !.held = @ + 1] ELSE gesture
    /\ UNCHANGED <<edges, key, capture>>

\* Silence, a fault, an answer: the machine moves on its own, or takes an input in Idle.
MachineSteps ==
    /\ \E next \in {"idle", "busy"} : (next = "busy" => capture # "idle") /\ Resynced(next, gesture, fuse)
    /\ UNCHANGED key

TriggerInit == edges \in BOOLEAN /\ key = FALSE /\ gesture = Phase("idle") /\ fuse = -1 /\ capture = "idle"

TriggerNext ==
    \/ KeyDown \/ KeyUp \/ Press \/ TimerFires \/ Escape \/ TimePasses \/ MachineSteps

-----------------------------------------------------------------------------
\* A microphone that a hold opened closes with it: whatever ends and restarts captures
\* in between, the key is still down and its release will be told to the machine.
\* A gesture that is not decided yet has its timer or its release to decide it. (keyUp, tick, resync)
PushEndsWithTheKey ==
    /\ edges /\ capture = "push" => key /\ gesture.kind = "pushing"
    /\ gesture.kind = "deciding" => fuse # -1 /\ key
    /\ ~edges => capture # "push"
===============================================================================
