------------------------------ MODULE Conversation ------------------------------
(***************************************************************************)
(* One Realtime session in the voice window: the transport below it, the   *)
(* server's responses and their audio, the tracker of what was heard, the  *)
(* transcripts, the cost meter, and what the session tells the rest of     *)
(* Riki of all this.                                                       *)
(* (packages/realtime/src: session.ts, transport.ts, wire.ts, turn.ts,     *)
(* transcript.ts, cost.ts; packages/audio/src/playback.ts)                 *)
(***************************************************************************)
EXTENDS Integers, FiniteSets

CONSTANTS
    MaxItems,       \* bound: the items the model speaks
    MaxAudio,       \* bound: the frames of an item
    MaxErrors,      \* bound: the error events of the server
    Budget,         \* budgetUsd, in responses that report their usage
    Transports      \* the kinds of transport: "webrtc", "websocket"

ASSUME ConversationAssumption ==
    /\ MaxItems \in Nat /\ MaxAudio \in Nat /\ MaxErrors \in Nat
    /\ Budget \in Nat \ {0} /\ Transports \subseteq {"webrtc", "websocket"}

VARIABLES
    wire,       \* the transport: its kind, its state, the errors it has delivered
    conv,       \* the session's own: closing, reportedLoss, currentItem, dollars, fired
    reply,      \* the server: responses asked for, the item it makes, the items so far
    audio,      \* per item: made, heard, what the model believes it said, heard when cut
    tracker,    \* PlaybackTracker: #responseId and audibleMs
    written,    \* the transcript's items, and how often each has been final
    toldFaults        \* what was emitted: losses, warnings, the roles commands were heard from
convVars == <<wire, conv, reply, audio, tracker, written, toldFaults>>

Items == 1 .. MaxItems
Utterance == -1             \* the player's, as the server transcribes it

ConvInit ==
    /\ \E kind \in Transports : wire = [kind |-> kind, state |-> "connecting", errors |-> 0]
    /\ conv = [closing |-> FALSE, reported |-> FALSE, item |-> 0, spent |-> 0, fired |-> FALSE]
    /\ reply = [asked |-> 0, item |-> 0, items |-> 0]
    /\ audio = [i \in Items |-> [made |-> 0, heard |-> 0, believed |-> 0, cutAt |-> -1]]
    /\ tracker = [response |-> 0, audible |-> 0]
    /\ written = [i \in Items \cup {Utterance} |-> [open |-> FALSE, final |-> FALSE, times |-> 0]]
    /\ toldFaults = [lost |-> 0, other |-> {}, warned |-> 0, commands |-> {}]

Subscribed == wire.state \notin {"connecting", "refused"} /\ ~conv.closing

-----------------------------------------------------------------------------
(* The connection *)

\* connect has resolved, and the session watches the transport and sends session.update;
\* or it has rejected, and there is no session.
Opens ==
    /\ wire.state = "connecting"
    /\ \E state \in {"open", "refused"} : wire' = [wire EXCEPT !.state = state]
    /\ UNCHANGED <<conv, reply, audio, tracker, written, toldFaults>>

\* The peer connection fails, and may close after it; or the socket closes.
WireDies ==
    /\ wire.state \in {"open", "failed"}
    /\ wire' = [wire EXCEPT !.state = IF @ = "open" THEN "failed" ELSE "closed"]
    /\ IF Subscribed /\ ~conv.reported
       THEN conv' = [conv EXCEPT !.reported = TRUE] /\ toldFaults' = [toldFaults EXCEPT !.lost = @ + 1]
       ELSE UNCHANGED <<conv, toldFaults>>
    /\ UNCHANGED <<reply, audio, tracker, written>>

\* A frame off the wire is an error with a code, or one more event nobody branches on: a
\* name that is new, or no JSON. A name of the beta schema is an error of its own.
WireFrames == {"beta name", "session_expired", "invalid_api_key", "not_active", "new name", "no JSON"}
Parsed(frame) ==
    CASE frame = "beta name" -> "beta-schema"
      [] frame \in {"new name", "no JSON"} -> "unhandled"
      [] OTHER -> frame

\* The fault an error's code is: the first row that matches, so an expiry is no `auth'.
FaultFor(code) ==
    CASE code = "beta-schema" -> "persistent"
      [] code = "session_expired" -> "session-lost"
      [] code = "invalid_api_key" -> "auth"
      [] OTHER -> "offline"

\* Mutant: an error is a fault of its own, whatever was reported.
EachErrorTells(code) ==
    /\ Subscribed /\ wire.errors < MaxErrors
    /\ wire' = [wire EXCEPT !.errors = @ + 1]
    /\ conv' = [conv EXCEPT !.reported = TRUE]
    /\ toldFaults' = IF FaultFor(code) = "session-lost" THEN [toldFaults EXCEPT !.lost = @ + 1] ELSE toldFaults
    /\ UNCHANGED <<reply, audio, tracker, written>>

\* `error', also from a channel whose connection is gone.
ErrorArrives(code) ==
    /\ Subscribed /\ wire.errors < MaxErrors
    /\ wire' = [wire EXCEPT !.errors = @ + 1]
    /\ IF code = "unhandled" THEN UNCHANGED <<conv, toldFaults>>
       ELSE IF FaultFor(code) # "session-lost"
       THEN toldFaults' = [toldFaults EXCEPT !.other = @ \cup {FaultFor(code)}] /\ UNCHANGED conv
       ELSE /\ conv' = [conv EXCEPT !.reported = TRUE]
            /\ toldFaults' = [toldFaults EXCEPT !.lost = IF conv.reported THEN @ ELSE @ + 1]
    /\ UNCHANGED <<reply, audio, tracker, written>>

\* close: closing is set before the transport goes down, the transcripts are forgotten.
Closes ==
    /\ Subscribed
    /\ conv' = [conv EXCEPT !.closing = TRUE]
    /\ wire' = [wire EXCEPT !.state = "closed"]
    /\ written' = [i \in DOMAIN written |-> [written[i] EXCEPT !.final = FALSE, !.open = FALSE]]
    /\ UNCHANGED <<reply, audio, tracker, toldFaults>>

-----------------------------------------------------------------------------
(* Responses *)

Talking == Subscribed /\ wire.state = "open"

\* endTurn and speakUnprompted: response.create
AsksFor ==
    /\ Talking
    /\ reply.asked + reply.items < MaxItems
    /\ reply' = [reply EXCEPT !.asked = @ + 1]
    /\ UNCHANGED <<wire, conv, audio, tracker, written, toldFaults>>

\* response.created and response.output_item.added. Nobody tells the tracker.
ItemAdded ==
    /\ Talking
    /\ reply.asked > 0 /\ reply.item = 0
    /\ reply' = [asked |-> reply.asked - 1, item |-> reply.items + 1, items |-> reply.items + 1]
    /\ conv' = [conv EXCEPT !.item = reply.items + 1]
    /\ UNCHANGED <<wire, audio, tracker, written, toldFaults>>

\* The server makes more audio than has been played.
Speaks ==
    /\ Talking /\ reply.item # 0
    /\ audio[reply.item].made < MaxAudio
    /\ audio' = [audio EXCEPT ![reply.item].made = @ + 1, ![reply.item].believed = @ + 1]
    /\ UNCHANGED <<wire, conv, reply, tracker, written, toldFaults>>

\* #onFrame: a frame that is heard counts, while a response has begun.
Counted == IF tracker.response = 0 THEN tracker.audible ELSE tracker.audible + 1

Frame(i) ==
    /\ Talking
    /\ audio[i].heard < audio[i].made /\ audio[i].cutAt = -1
    /\ audio' = [audio EXCEPT ![i].heard = @ + 1]
    /\ tracker' = [tracker EXCEPT !.audible = Counted]
    /\ UNCHANGED <<wire, conv, reply, written, toldFaults>>

\* Mutant: a warning at every response past the budget.
WarnsAlways(spent) ==
    /\ conv' = [conv EXCEPT !.item = 0, !.spent = spent, !.fired = TRUE]
    /\ toldFaults' = [toldFaults EXCEPT !.warned = IF spent >= Budget THEN @ + 1 ELSE @]

\* cost.record: the listeners hear of the budget once.
Records(spent) ==
    LET over == spent >= Budget /\ ~conv.fired
    IN /\ conv' = [conv EXCEPT !.item = 0, !.spent = spent, !.fired = @ \/ over]
       /\ toldFaults' = [toldFaults EXCEPT !.warned = IF over THEN @ + 1 ELSE @]

\* readUsage: the response's tokens, or null.
Usage == {0, 1}

\* response.done, while the audio may still be playing; its usage may be missing.
ResponseDone ==
    /\ Talking /\ reply.item # 0
    /\ reply' = [reply EXCEPT !.item = 0]
    /\ \E usage \in Usage : Records(conv.spent + usage)
    /\ UNCHANGED <<wire, audio, tracker, written>>

-----------------------------------------------------------------------------
(* Transcripts *)

Finally(i) ==
    written' = IF written[i].final THEN written
               ELSE [written EXCEPT ![i] = [open |-> TRUE, final |-> TRUE, times |-> @.times + 1]]

\* cut: an item is open once it has had a delta or is final, and nothing passes deltas on.
CutShort(i) == IF i # 0 /\ written[i].open THEN Finally(i) ELSE UNCHANGED written

\* completeAgent: also of an item that was cut, in full.
AgentTranscript(i) ==
    /\ Subscribed /\ i <= reply.items
    /\ Finally(i)
    /\ UNCHANGED <<wire, conv, reply, audio, tracker, toldFaults>>

\* completePlayer, and its text may be one of the local commands.
PlayerTranscript ==
    /\ Subscribed
    /\ Finally(Utterance)
    /\ \E role \in SUBSET {"player"} :
          toldFaults' = IF written[Utterance].final THEN toldFaults ELSE [toldFaults EXCEPT !.commands = @ \cup role]
    /\ UNCHANGED <<wire, conv, reply, audio, tracker>>

-----------------------------------------------------------------------------
(* Cutting in *)

\* Observer: what the player has heard when they cut the model short.
Playing == {i \in Items : audio[i].cutAt = -1 /\ audio[i].heard < audio[i].made}
Cut(a) == [i \in Items |-> IF i \in Playing THEN [a[i] EXCEPT !.cutAt = audio[i].heard] ELSE a[i]]

\* truncate: of the current item, if there is one, at what the tracker counted.
Truncate ==
    /\ audio' = IF conv.item = 0 THEN Cut(audio)
                ELSE Cut([audio EXCEPT ![conv.item].believed = tracker.audible])
    /\ CutShort(conv.item)

\* interrupt: over WebRTC it is the server that truncates, at what was played.
Interrupt ==
    /\ Talking
    /\ IF wire.kind = "websocket" THEN Truncate
       ELSE /\ UNCHANGED written
            /\ audio' = [i \in Items |-> IF i \in Playing
                            THEN [audio[i] EXCEPT !.cutAt = audio[i].heard, !.believed = audio[i].heard] ELSE audio[i]]
    /\ UNCHANGED <<wire, conv, reply, tracker, toldFaults>>

Abort ==
    /\ Talking
    /\ Truncate
    /\ UNCHANGED <<wire, conv, reply, tracker, toldFaults>>

ConvNext ==
    \/ Opens \/ WireDies \/ (\E f \in WireFrames : ErrorArrives(Parsed(f))) \/ Closes
    \/ AsksFor \/ ItemAdded \/ Speaks \/ ResponseDone \/ (\E i \in Items : Frame(i))
    \/ (\E i \in Items : AgentTranscript(i)) \/ PlayerTranscript
    \/ Interrupt \/ Abort

ConvSpec == ConvInit /\ [][ConvNext]_convVars

-----------------------------------------------------------------------------
\* A session that is lost says so once, by whichever of the server's error and the closed
\* connection comes first, and not at all when it was closed on purpose; the budget is
\* passed once; and no item has two final transcripts. (onServerEvent, onStateChange,
\* cost.record, TranscriptStream)
ToldOnce ==
    /\ toldFaults.lost <= 1 /\ toldFaults.warned <= 1
    /\ \A i \in DOMAIN written : written[i].times <= 1
    /\ wire.state \in {"failed", "closed"} /\ ~conv.closing => toldFaults.lost = 1
    /\ conv.spent >= Budget => toldFaults.warned = 1
===============================================================================
