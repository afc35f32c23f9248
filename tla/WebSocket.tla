------------------------------- MODULE WebSocket -------------------------------
(***************************************************************************)
(* http/protocol/websockets.py with the upgrade of h1.py and the WebSocket  *)
(* cycle of asgi.py.  Three tasks of one task group share the stream: the   *)
(* receive loop, the application and, once it has accepted, ping_pong.      *)
(*                                                                          *)
(* What stands between two awaits is one step.  wsproto is external: `ws'   *)
(* is its state; REMOTE_CLOSING is left in the step that enters it, for the *)
(* loop answers a close without an await in between.  So is the stream: it  *)
(* refuses a send while another is under way (BusyResourceError), and sends *)
(* fail when it is closed here or the client is gone.                       *)
(***************************************************************************)
EXTENDS Naturals, Sequences

CONSTANTS MaxFrames,   \* bound: frames the client sends
          MaxBuffered  \* bound: messages in the reader before the client waits

ASSUME FramesAssumption == MaxFrames \in Nat /\ MaxBuffered \in Nat

VARIABLES inbox,       \* frames on their way to the server
          frames,      \* how many the client has sent
          last,        \* the last frame of the client, if it has sent it
          hung,        \* the client has closed its side of the transport
          batch,       \* frames given to wsproto and not handled yet
          ws,          \* connection.state
          switched,    \* h11 has sent the 101 response
          aclosed,     \* stream.aclose() has been called
          pc,          \* per task: where it stands
          connect,     \* message_queues still holds websocket.connect
          size,        \* messages in the reader
          upgraded, closes, late,    \* history of the wire: the 101, close frames,
                                     \* something sent after one
          early,       \* history: a frame went out before the 101
          misused,     \* history: the application sent or closed before it accepted
          closing,     \* history: the application has begun to close
          overlapped,  \* history: a send met another, or the stream's end met a send
          escaped      \* history: an exception has left the task group

client  == <<inbox, frames, last, hung>>
wire    == <<upgraded, closes, late, early>>
history == <<misused, closing>>
tasks   == <<pc, overlapped, escaped>>
vars == <<client, batch, ws, switched, aclosed, tasks, connect, size, wire, history>>

Tasks == {"loop", "app", "ping"}
Writing == {"pong", "reply", "accepting", "sending", "closing", "pinging"}
Frames == {"message", "ping", "close", "bad"}

TypeOK ==
    /\ inbox \in Seq(Frames) /\ batch \in Seq(Frames) /\ frames \in 0 .. MaxFrames
    /\ last \in {"none", "close", "bad"}
    /\ {hung, switched, aclosed, connect} \subseteq BOOLEAN
    /\ {upgraded, late, early, misused, closing, overlapped, escaped} \subseteq BOOLEAN
    /\ ws \in {"OPEN", "LOCAL_CLOSING", "CLOSED"}
    /\ pc \in [Tasks -> {"none", "receive", "events", "app", "read", "sleep", "over"}
                        \cup Writing]
    /\ size \in Nat /\ closes \in Nat

\* a WebSocketConnection whose loop has started the handler
ConnectionInit ==
    /\ inbox = <<>> /\ frames = 0 /\ last = "none" /\ hung = FALSE
    /\ batch = <<>> /\ ws = "OPEN" /\ switched = FALSE /\ aclosed = FALSE
    /\ pc = [t \in Tasks |-> IF t = "loop" THEN "receive" ELSE IF t = "app" THEN "app"
                             ELSE "none"]
    /\ size = 0
CycleInit == connect = TRUE
Init ==
    /\ ConnectionInit /\ CycleInit
    /\ upgraded = FALSE /\ closes = 0 /\ late = FALSE /\ early = FALSE
    /\ misused = FALSE /\ closing = FALSE /\ overlapped = FALSE /\ escaped = FALSE
-----------------------------------------------------------------------------
(***************************************************************************)
(* The client sends no frame before the 101 response and none after a      *)
(* close frame; a bad frame is one wsproto cannot parse.                   *)
(***************************************************************************)
ClientSends(frame) ==
    /\ upgraded /\ last = "none" /\ ~hung /\ frames < MaxFrames
    /\ frame = "message" => size < MaxBuffered
    /\ inbox' = Append(inbox, frame) /\ frames' = frames + 1
    /\ last' = IF frame \in {"close", "bad"} THEN frame ELSE last
    /\ UNCHANGED <<hung, batch, ws, switched, aclosed, tasks, connect, size, wire, history>>

ClientHangsUp ==
    /\ ~hung /\ hung' = TRUE
    /\ UNCHANGED <<inbox, frames, last, batch, ws, switched, aclosed, tasks, connect, size,
                   wire, history>>
-----------------------------------------------------------------------------
Goto(t, p) == pc' = [pc EXCEPT ![t] = p]

\* An exception ends the application or is caught by it; one of the loop or of
\* ping_pong cancels the task group and leaves it.
Raised(t) ==
    IF t = "app"
    THEN (\E p \in {"app", "over"} : Goto(t, p)) /\ UNCHANGED escaped
    ELSE pc' = [u \in Tasks |-> "over"] /\ escaped' = TRUE

Busy == \E u \in Tasks : pc[u] \in Writing

\* stream.send up to its first await, with t standing at `place' from then on
Write(t, place) ==
    IF Busy
    THEN overlapped' = TRUE /\ Raised(t)
    ELSE Goto(t, place) /\ UNCHANGED <<overlapped, escaped>>

\* wsproto.connection.Connection.send: what it refuses, and the state after it
Refused == ws # "OPEN"
StateAfter(event) == IF event = "close" THEN "LOCAL_CLOSING" ELSE ws

\* Mutation: raw_send does not look at the state of the connection.
RawSendAlways(t, event, place, Returned) ==
    \/ /\ Refused
       /\ Raised(t)
       /\ UNCHANGED <<ws, overlapped>>
    \/ /\ ~Refused
       /\ ws' = StateAfter(event)
       /\ Write(t, place)

RawSend(t, event, place, Returned) ==
    \/ /\ ws = "CLOSED"
       /\ Returned
       /\ UNCHANGED <<ws, overlapped, escaped>>
    \/ /\ ws # "CLOSED" /\ Refused
       /\ Raised(t)
       /\ UNCHANGED <<ws, overlapped>>
    \/ /\ ws # "CLOSED" /\ ~Refused
       /\ ws' = StateAfter(event)
       /\ Write(t, place)

\* stream.send has handed a frame to the transport
Delivered(frame) ==
    /\ ~aclosed
    /\ closes' = closes + (IF frame = "close" THEN 1 ELSE 0)
    /\ late' = (late \/ closes > 0)
    /\ upgraded' = (upgraded \/ frame = "101")
    /\ early' = (early \/ (frame # "101" /\ ~upgraded))

\* stream.send raises, which raw_send and accept do not catch
WriteFails(t) ==
    /\ pc[t] \in Writing /\ (aclosed \/ hung)
    /\ Raised(t)
    /\ UNCHANGED <<client, batch, ws, switched, aclosed, connect, size, wire, history,
                   overlapped>>
-----------------------------------------------------------------------------
(***************************************************************************)
(* receive_data.                                                           *)
(***************************************************************************)
LoopReceives ==
    /\ pc["loop"] = "receive" /\ inbox # <<>>
    /\ \E n \in 1 .. Len(inbox) : /\ batch' = SubSeq(inbox, 1, n)
                                  /\ inbox' = SubSeq(inbox, n + 1, Len(inbox))
    /\ Goto("loop", "events")
    /\ UNCHANGED <<frames, last, hung, ws, switched, aclosed, connect, size, wire, history,
                   overlapped, escaped>>

\* the end of the stream is an exception that nothing catches
LoopReceiveFails ==
    /\ pc["loop"] = "receive" /\ inbox = <<>> /\ hung
    /\ Raised("loop")
    /\ UNCHANGED <<client, batch, ws, switched, aclosed, connect, size, wire, history,
                   overlapped>>

LoopEventsEnd ==
    /\ pc["loop"] = "events" /\ batch = <<>>
    /\ Goto("loop", "receive")
    /\ UNCHANGED <<client, batch, ws, switched, aclosed, connect, size, wire, history,
                   overlapped, escaped>>

Handles(frame) ==
    /\ pc["loop"] = "events" /\ batch # <<>> /\ Head(batch) = frame
    /\ batch' = Tail(batch)

HandleMessage ==
    /\ Handles("message")
    /\ size' = size + 1
    /\ UNCHANGED <<client, ws, switched, aclosed, tasks, connect, wire, history>>

HandlePing ==
    /\ Handles("ping")
    /\ RawSend("loop", "pong", "pong", UNCHANGED pc)
    /\ UNCHANGED <<client, switched, aclosed, connect, size, wire, history>>

PongSent ==
    /\ pc["loop"] = "pong" /\ Delivered("pong")
    /\ Goto("loop", "events")
    /\ UNCHANGED <<client, batch, ws, switched, aclosed, connect, size, history,
                   overlapped, escaped>>

\* stream.aclose() and the end of the loop; what is left of the batch is dropped
CloseStream ==
    /\ aclosed' = TRUE /\ Goto("loop", "over")
    /\ UNCHANGED escaped

\* Mutation: the answer to a close is left out.
HandleCloseSilently ==
    /\ Handles("close")
    /\ ws' = "CLOSED" /\ CloseStream /\ UNCHANGED overlapped
    /\ UNCHANGED <<client, switched, connect, size, wire, history>>

\* a close frame: the one that answers ours, or one to be answered
HandleClose ==
    /\ Handles("close")
    /\ ws' = "CLOSED"
    /\ \/ /\ ws = "LOCAL_CLOSING"
          /\ CloseStream
          /\ overlapped' = (overlapped \/ Busy)
       \/ /\ ws = "OPEN"
          /\ Write("loop", "reply")
          /\ UNCHANGED aclosed
    /\ UNCHANGED <<client, switched, connect, size, wire, history>>

\* Mutation: the stream is left open.
ReplyLeavesOpen ==
    /\ pc["loop"] = "reply" /\ Delivered("close")
    /\ Goto("loop", "over")
    /\ UNCHANGED <<client, batch, ws, switched, aclosed, connect, size, history, overlapped,
                   escaped>>

ReplySent ==
    /\ pc["loop"] = "reply" /\ Delivered("close")
    /\ CloseStream
    /\ UNCHANGED <<client, batch, ws, switched, connect, size, history, overlapped>>

\* wsproto reports a frame it cannot parse as a close, its state as it was
HandleBad ==
    /\ Handles("bad")
    /\ CloseStream
    /\ overlapped' = (overlapped \/ Busy)
    /\ UNCHANGED <<client, ws, switched, connect, size, wire, history>>
-----------------------------------------------------------------------------
(***************************************************************************)
(* ping_pong: once in ten seconds, for ever.                               *)
(***************************************************************************)
Ping ==
    /\ pc["ping"] = "sleep"
    /\ RawSend("ping", "ping", "pinging", UNCHANGED pc)
    /\ UNCHANGED <<client, batch, switched, aclosed, connect, size, wire, history>>

PingSent ==
    /\ pc["ping"] = "pinging" /\ Delivered("ping")
    /\ Goto("ping", "sleep")
    /\ UNCHANGED <<client, batch, ws, switched, aclosed, connect, size, history,
                   overlapped, escaped>>
-----------------------------------------------------------------------------
(***************************************************************************)
(* The application through receive and send of its cycle.                  *)
(***************************************************************************)
AppConnect ==
    /\ pc["app"] = "app" /\ connect /\ connect' = FALSE
    /\ UNCHANGED <<client, batch, ws, switched, aclosed, tasks, size, wire, history>>

AppReceive ==
    /\ pc["app"] = "app" /\ ~connect
    /\ \/ size > 0 /\ size' = size - 1 /\ UNCHANGED pc
       \/ size = 0 /\ Goto("app", "read") /\ UNCHANGED size
    /\ UNCHANGED <<client, batch, ws, switched, aclosed, connect, wire, history,
                   overlapped, escaped>>

\* Mutation: the end of the stream wakes the reader, which pops without a test.
AppReceivesUnchecked ==
    /\ pc["app"] = "read" /\ (size > 0 \/ aclosed)
    /\ size' = size - 1 /\ Goto("app", "app")
    /\ UNCHANGED <<client, batch, ws, switched, aclosed, connect, wire, history,
                   overlapped, escaped>>

\* only the loop feeds the reader, and it never feeds its end
AppReceives ==
    /\ pc["app"] = "read" /\ size > 0
    /\ size' = size - 1 /\ Goto("app", "app")
    /\ UNCHANGED <<client, batch, ws, switched, aclosed, connect, wire, history,
                   overlapped, escaped>>

\* Mutation: ping_pong is started before the response has gone out.
AppAcceptEarly ==
    /\ pc["app"] = "app" /\ ~switched /\ switched' = TRUE
    /\ pc["ping"] = "none" /\ pc' = [pc EXCEPT !["ping"] = "sleep"]
    /\ UNCHANGED <<client, batch, ws, aclosed, connect, size, wire, history, overlapped,
                   escaped>>

\* websocket.accept: h11 refuses a second 101
AppAccept ==
    /\ pc["app"] = "app"
    /\ \/ /\ ~switched /\ switched' = TRUE
          /\ Write("app", "accepting")
       \/ /\ switched
          /\ Raised("app")
          /\ UNCHANGED <<switched, overlapped>>
    /\ UNCHANGED <<client, batch, ws, aclosed, connect, size, wire, history>>

Accepted ==
    /\ pc["app"] = "accepting" /\ Delivered("101")
    /\ pc' = [pc EXCEPT !["app"] = "app", !["ping"] = "sleep"]
    /\ UNCHANGED <<client, batch, ws, switched, aclosed, connect, size, history,
                   overlapped, escaped>>

AppSend ==
    /\ pc["app"] = "app"
    /\ RawSend("app", "message", "sending", UNCHANGED pc)
    /\ misused' = (misused \/ ~upgraded)
    /\ UNCHANGED <<client, batch, switched, aclosed, connect, size, wire, closing>>

Sent ==
    /\ pc["app"] = "sending" /\ Delivered("message")
    /\ Goto("app", "app")
    /\ UNCHANGED <<client, batch, ws, switched, aclosed, connect, size, history,
                   overlapped, escaped>>

\* websocket.close: connection.close, and then reader.aclose, which is a second
\* raw_send of a close; when the first returned at once so does the second
AppClose ==
    /\ pc["app"] = "app"
    /\ RawSend("app", "close", "closing", UNCHANGED pc)
    /\ misused' = (misused \/ ~upgraded)
    /\ closing' = (closing \/ ws = "OPEN")
    /\ UNCHANGED <<client, batch, switched, aclosed, connect, size, wire>>

CloseSent ==
    /\ pc["app"] = "closing" /\ Delivered("close")
    /\ RawSend("app", "close", "closing", Goto("app", "app"))
    /\ UNCHANGED <<client, batch, switched, aclosed, connect, size, history>>

AppReturns ==
    /\ pc["app"] = "app" /\ Goto("app", "over")
    /\ UNCHANGED <<client, batch, ws, switched, aclosed, connect, size, wire, history,
                   overlapped, escaped>>
-----------------------------------------------------------------------------
Client == (\E frame \in Frames : ClientSends(frame)) \/ ClientHangsUp
Loop ==
    \/ LoopReceives \/ LoopReceiveFails \/ LoopEventsEnd
    \/ HandleMessage \/ HandlePing \/ HandleClose \/ HandleBad
    \/ PongSent \/ ReplySent \/ WriteFails("loop")
PingPong == Ping \/ PingSent \/ WriteFails("ping")
App ==
    \/ AppConnect \/ AppReceive \/ AppAccept \/ AppSend \/ AppClose \/ AppReturns
AppGoesOn == AppReceives \/ Accepted \/ Sent \/ CloseSent \/ WriteFails("app")

Next == Client \/ Loop \/ PingPong \/ App \/ AppGoesOn

Spec == Init /\ [][Next]_vars

\* the event loop runs every task whose await is over
FairSpec == Spec /\ WF_vars(Loop) /\ WF_vars(PingPong) /\ WF_vars(AppGoesOn)
-----------------------------------------------------------------------------
\* The close frame is the last thing on the wire (but for the 101 response of an
\* application that closes before it accepts), there is one, and a stream is
\* closed in answer to a close only after ours has gone out: unless two tasks met
\* on the stream, the client broke the protocol or had gone.
ClosedInOrder ==
    /\ (late => misused) /\ closes <= 1
    /\ aclosed => closes = 1 \/ overlapped \/ hung \/ last = "bad"

\* An exception leaves the task group, and with it ends every connection of the
\* listener (asgi.py 257-269), only when the client goes without a close or breaks
\* the protocol, when two tasks meet on the stream, or after the application has
\* begun to close: never for a client that closes first.
EscapeReasons == escaped => hung \/ overlapped \/ closing \/ last = "bad"

\* ping_pong and the loop send nothing before the 101 response.
HandshakeFirst == early => misused

\* A client that closes or goes is noticed: the stream is closed or the tasks end.
NoHalfOpen == (hung \/ \E i \in DOMAIN inbox : inbox[i] = "close") ~> (aclosed \/ escaped)

\* The application that waits in receive is told of the end of the connection
\* (websocket.disconnect), as the version of ASGI the server announces has it.
DisconnectTold == (aclosed /\ pc["app"] = "read") ~> (pc["app"] # "read")
=============================================================================
