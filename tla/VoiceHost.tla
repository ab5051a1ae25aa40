------------------------------- MODULE VoiceHost -------------------------------
(***************************************************************************)
(* The hidden voice window: it takes one directive at a time, in order of  *)
(* arrival, and holds at most one live session with the Realtime API.      *)
(* (apps/desktop/src/renderer/voice/host.ts, packages/realtime/src)        *)
(*                                                                         *)
(* Closing a session is a sequence of awaits, and opening one -- the       *)
(* microphone, the call setup, the data channel -- another behind it;      *)
(* every directive that arrives meanwhile waits for the last of them to    *)
(* settle.                                                                 *)
(***************************************************************************)
EXTENDS VoiceBridge

VARIABLE h      \* the variables of createVoiceHost and of the session it holds

hostVars == <<h, toHost, toMain>>

HostInit ==
    h = [phase    |-> "absent",     \* what the handler of a directive awaits
         opening  |-> None,         \* the session it opens
         live     |-> None,         \* the live session
         lost     |-> FALSE,        \* reportedLoss, of the live session
         failed   |-> FALSE]        \* its connection failed while it was set up

HostPhases == {"absent", "idle", "closing", "device", "call"}

Report(updates) == toMain' = toMain \o updates

\* The listener is attached before readiness is announced.
StartHost ==
    /\ h.phase = "absent"
    /\ h' = [h EXCEPT !.phase = "idle"]
    /\ Report(<<ReadyUpdate>>)
    /\ UNCHANGED toHost

\* Mutant: the live session is not closed.
KeepLive(s) == s

\* The live session is forgotten first: nothing it reports is heard again.
CloseLive(s) == [s EXCEPT !.live = None, !.lost = FALSE]

\* A session is opened behind the close of the one before it.
TakeOpen ==
    /\ h.phase = "idle"
    /\ toHost # <<>>
    /\ Head(toHost).type = "open"
    /\ toHost' = Tail(toHost)
    /\ \/ /\ h.live = None
          /\ h' = [h EXCEPT !.phase = "device", !.opening = Head(toHost).match]
          /\ Report(<<StateUpdate("connecting")>>)
       \/ /\ h.live # None
          /\ h' = [CloseLive(h) EXCEPT !.phase = "closing", !.opening = Head(toHost).match]
          /\ UNCHANGED toMain

TakeClose ==
    /\ h.phase = "idle"
    /\ toHost # <<>>
    /\ Head(toHost).type = "close"
    /\ toHost' = Tail(toHost)
    /\ h' = IF h.live = None THEN h ELSE [CloseLive(h) EXCEPT !.phase = "closing"]
    /\ UNCHANGED toMain

\* The handler is done: the queue goes on with the next directive.
Settled(s) == [s EXCEPT !.phase = "idle", !.opening = None, !.failed = FALSE]

\* A fault that names no kind is a lost session, and retryable.
Fails(fault, next) ==
    /\ h' = Settled(next)
    /\ Report(<<FaultUpdate(fault),
                StateUpdate(IF fault = "session-lost" THEN "degraded" ELSE "unavailable")>>)
    /\ UNCHANGED toHost

\* The connection, the graph and the audio context are closed.
Closes ==
    /\ h.phase = "closing"
    /\ UNCHANGED toHost
    /\ \/ /\ h.opening = None
          /\ h' = Settled(h)
          /\ Report(<<StateUpdate("idle")>>)
       \/ /\ h.opening # None
          /\ h' = [h EXCEPT !.phase = "device"]
          /\ Report(<<StateUpdate("idle"), StateUpdate("connecting")>>)

\* One of them rejects: the rest stays as it is, and an open behind it is given up.
CloseFails == h.phase = "closing" /\ Fails("session-lost", h)

DeviceOpens ==
    /\ h.phase = "device"
    /\ h' = [h EXCEPT !.phase = "call"]
    /\ UNCHANGED <<toHost, toMain>>

\* Denied, or no input device at all.
DeviceRefused == h.phase = "device" /\ Fails("device", h)

\* The call is refused.  The microphone stream opened for it is not closed.
CallFails ==
    /\ h.phase = "call"
    /\ ~h.failed
    /\ Fails("session-lost", h)

\* The transport learns that the connection failed; the await does not.
PeerFails ==
    /\ h.phase = "call"
    /\ ~h.failed
    /\ h' = [h EXCEPT !.failed = TRUE]
    /\ UNCHANGED <<toHost, toMain>>

ChannelOpens ==
    /\ h.phase = "call"
    /\ ~h.failed
    /\ h' = [Settled(h) EXCEPT !.live = h.opening]
    /\ Report(<<StateUpdate("ready")>>)
    /\ UNCHANGED toHost

\* One loss is one fault, and the session stays in place until it is replaced.
LoseSession ==
    /\ h.live # None
    /\ ~h.lost
    /\ h' = [h EXCEPT !.lost = TRUE]
    /\ Report(<<FaultUpdate("session-lost")>>)
    /\ UNCHANGED toHost

HostNext ==
    \/ TakeOpen \/ TakeClose \/ Closes \/ CloseFails
    \/ DeviceOpens \/ DeviceRefused
    \/ CallFails \/ ChannelOpens
=============================================================================
