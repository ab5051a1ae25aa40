------------------------------ MODULE VoiceBridge ------------------------------
(***************************************************************************)
(* The bridge between the main process and the hidden voice window: two    *)
(* ordered, reliable channels of typed messages.                           *)
(* (packages/protocol/src/voice-codec.ts and schemas/voice.ts)             *)
(*                                                                         *)
(* Matches are numbered in the order they are played, and stand for the    *)
(* instructions their sessions are configured with: what a message carries *)
(* besides is not told apart.                                              *)
(***************************************************************************)
EXTENDS Integers, Sequences

CONSTANT MaxMatch       \* how many matches are played

ASSUME MatchAssumption == MaxMatch \in Nat \ {0}

VARIABLES
    toHost,     \* directives on their way to the voice window
    toMain      \* updates on their way to the main process

Matches == 1 .. MaxMatch
None == 0               \* null, where the program holds a match or a session

SessionStates == {"idle", "connecting", "ready", "degraded", "unavailable"}

\* VoiceDirective, of which a match's session needs two.
OpenDirective(match) == [type |-> "open", match |-> match]
CloseDirective == [type |-> "close", match |-> None]

Directive == {OpenDirective(m) : m \in Matches} \cup {CloseDirective}

\* VoiceUpdate: the window is listening, a session's state, a session's fault.
ReadyUpdate == [type |-> "ready", value |-> "window"]
StateUpdate(state) == [type |-> "state", value |-> state]
FaultUpdate(kind) == [type |-> "fault", value |-> kind]

\* session-lost is the one fault that is retryable; a device fault is not.
HostFaults == {"session-lost", "device"}

Update == {ReadyUpdate}
          \cup {StateUpdate(s) : s \in SessionStates}
          \cup {FaultUpdate(f) : f \in HostFaults}
=============================================================================
