----------------------------- MODULE H2Connection -----------------------------
(***************************************************************************)
(* http/protocol/h2.py: the receive loop of an HTTP/2 connection and the    *)
(* handlers of its streams, which share the connection's flow-control       *)
(* window, the writers of the responses and flush_data.                     *)
(*                                                                          *)
(* Tasks are cooperative.  `running' is the task that is between two awaits *)
(* (Nobody: every task stands at an await), so an action of another task    *)
(* never comes between two steps of it.  What the h2 library does with a    *)
(* frame (state of a stream, windows) is part of Arrive and of Emit.        *)
(*                                                                          *)
(* ReadStream.tla gives the detail of reader and writer; here a reader is   *)
(* the number of its chunks, a writer the sequence of its chunks, and a     *)
(* chunk the interval lo..hi of the bytes of the response body.             *)
(***************************************************************************)
EXTENDS Integers, Sequences, FiniteSets, SequencesExt

CONSTANTS N,             \* streams the client may open, numbered 1 .. N
          ChunkSizes,    \* sizes of the chunks an application sends
          MaxFrame,      \* conn.max_outbound_frame_size
          Windows,       \* initial outbound windows of the connection
          StreamWindows, \* initial outbound windows of a stream
          Peer,          \* what else may arrive: a subset of {"data", "ended",
                         \* "reset", "window", "stream_window", "early", "broken",
                         \* "goaway", "ping", "bad"}
          MaxBody,       \* bound: bytes of one response
          MaxBytes,      \* bound: bytes of all the responses together
          MaxChunks,     \* bound: chunks in one writer
          MaxData,       \* bound: chunks of all the requests together
          MaxBatch,      \* bound: events of one conn.receive_data
          MaxWindow      \* bound: an outbound window after an update

Streams == 1 .. N
Loop    == 0             \* the task of receive_data
Tasks   == {Loop} \cup Streams
Nobody  == N + 1

ASSUME StreamsAssumption == N \in Nat \ {0}
ASSUME WindowsAssumption ==
    /\ ChunkSizes \subseteq Nat \ {0} /\ MaxFrame \in Nat \ {0}
    /\ Windows \subseteq Nat /\ StreamWindows \subseteq Nat
ASSUME LimitsAssumption ==
    /\ MaxBody \in Nat /\ MaxBytes \in Nat /\ MaxChunks \in Nat /\ MaxData \in Nat
    /\ MaxBatch \in Nat \ {0} /\ MaxWindow \in Nat

VARIABLES streams,     \* self.streams: the ids in insertion order
          events,      \* what conn.receive_data returned, not handled yet
          acked,       \* the client has acknowledged MAX_CONCURRENT_STREAMS = 1
          h2,          \* per stream, in the library: idle, open, ended (END_STREAM
                       \* sent) or reset (by the client)
          rend,        \* per stream: the client has sent its END_STREAM
          inbound,     \* conn.inbound_flow_control_window is below its maximum
          window,      \* conn.outbound_flow_control_window
          swindow,     \* per stream: its own outbound window
          rbuf, reof,  \* per stream: reader, chunks and _eof
          rsent,       \* per stream: chunks of the request that have arrived
          wbuf, weof,  \* per stream: writer, chunks and _eof
          sentHeaders, \* per stream: sent_headers
          pc,          \* per task: where it stands
          todo,        \* per task: what is left of flush_data's snapshot
          running,     \* the task between two awaits
          goaway,      \* the library has received GOAWAY: its connection is closed
          fed, sent,   \* history, per stream: last byte fed, bytes in DATA frames
          whole,       \* history, per stream: what was fed when feed_eof was first called
          fault        \* history, per task: why it ended with an exception

peerVars   == <<acked, h2, rend, inbound, window, swindow, rsent, goaway>>
readerVars == <<rbuf, reof>>
writerVars == <<wbuf, weof, fed, whole>>
taskVars   == <<pc, todo, running, fault>>
vars == <<streams, events, peerVars, readerVars, writerVars, sentHeaders, taskVars, sent>>

Event == {"request", "data", "ended", "reset", "window", "ack", "ping", "goaway"} \X (0 .. N)

\* never empty: send_data turns b'' into the end, receive puts back no b''
Chunk == {c \in [lo : Nat, hi : Nat] : c.lo <= c.hi}

Spot == {"none", "app", "read", "headers", "scan", "flush", "take", "woken",
         "idle", "arriving", "handle", "update", "over"}
Reason == {"none", "reset", "ended", "window", "empty", "broken", "goaway", "refused", "again"}

TypeOK ==
    /\ streams \in Seq(Streams) /\ events \in Seq(Event) /\ acked \in BOOLEAN
    /\ h2 \in [Streams -> {"idle", "open", "ended", "reset"}]
    /\ rend \in [Streams -> BOOLEAN] /\ reof \in [Streams -> BOOLEAN]
    /\ inbound \in BOOLEAN /\ window \in Nat /\ swindow \in [Streams -> Nat]
    /\ rbuf \in [Streams -> Nat] /\ rsent \in [Streams -> Nat]
    /\ wbuf \in [Streams -> Seq(Chunk)] /\ weof \in [Streams -> BOOLEAN]
    /\ sentHeaders \in [Streams -> BOOLEAN]
    /\ pc \in [Tasks -> Spot]
    /\ todo \in [Tasks -> Seq(Streams)]
    /\ running \in Tasks \cup {Nobody} /\ goaway \in BOOLEAN
    /\ fed \in [Streams -> Nat] /\ sent \in [Streams -> Nat] /\ whole \in [Streams -> Nat]
    /\ fault \in [Tasks -> Reason]

Init ==
    /\ streams = <<>> /\ events = <<>> /\ acked = FALSE
    /\ inbound = FALSE /\ goaway = FALSE
    /\ h2 = [s \in Streams |-> "idle"] /\ rend = [s \in Streams |-> FALSE]
    /\ window \in Windows /\ \E w \in StreamWindows : swindow = [s \in Streams |-> w]
    /\ rbuf = [s \in Streams |-> 0] /\ reof = [s \in Streams |-> FALSE]
    /\ rsent = [s \in Streams |-> 0]
    /\ wbuf = [s \in Streams |-> <<>>] /\ weof = [s \in Streams |-> FALSE]
    /\ sentHeaders = [s \in Streams |-> FALSE]
    /\ pc = [t \in Tasks |-> IF t = Loop THEN "idle" ELSE "none"]
    /\ todo = [t \in Tasks |-> <<>>] /\ running = Nobody
    /\ fed = [s \in Streams |-> 0] /\ sent = [s \in Streams |-> 0]
    /\ whole = [s \in Streams |-> 0]
    /\ fault = [t \in Tasks |-> "none"]

InDict(s) == \E i \in DOMAIN streams : streams[i] = s

\* for the bounds
Total(count) == FoldFunction(LAMBDA a, b : a + b, 0, count)

Goto(t, p) == pc' = [pc EXCEPT ![t] = p]

(***************************************************************************)
(* A task ends with an exception.  One of a handler is caught and logged   *)
(* by the ASGI cycle (asgi.py 107-115); one of the receive loop cancels     *)
(* the task group of the connection (h2.py 42).                            *)
(***************************************************************************)
Fail(t, why) ==
    /\ fault' = [fault EXCEPT ![t] = why]
    /\ pc' = [u \in Tasks |-> IF t = Loop \/ u = t THEN "over" ELSE pc[u]]
    /\ running' = Nobody
    /\ UNCHANGED todo

\* Mutation: the readers of the writer are not told.
WokenNone(s) == pc

\* ReadStream.feed and feed_eof of a writer set the events of its readers.
Woken(s) == [t \in Tasks |->
    IF pc[t] = "take" /\ Head(todo[t]) = s THEN "woken" ELSE pc[t]]

(***************************************************************************)
(* flush_data: one step per stream of the snapshot.                        *)
(***************************************************************************)
StartFlush(t, pcs) ==
    /\ pc' = [pcs EXCEPT ![t] = "scan"]
    /\ todo' = [todo EXCEPT ![t] = streams]
    /\ running' = t

Size(c) == c.hi + 1 - c.lo
\* writer.size(); the chunks of a writer follow each other (ReadStream!Backlog)
Buffered(s) ==
    IF wbuf[s] = <<>> THEN 0 ELSE wbuf[s][Len(wbuf[s])].hi + 1 - wbuf[s][1].lo

\* Mutation: the window is not looked at.
FrameOnly == MaxFrame

\* min(max_outbound_frame_size, outbound_flow_control_window)
Frame == Min({MaxFrame, window})

\* Mutations: the guard of flush_data is dropped; it ignores the end of file.
HeldNever(s) == FALSE
HeldAtEof(s) == Buffered(s) < Frame

Held(s) == Buffered(s) < Frame /\ ~weof[s]
Drained(s) == wbuf[s] = <<>> /\ weof[s]

Scanning(t) == running = t /\ pc[t] = "scan" /\ todo[t] # <<>>

ScanSkip(t) ==
    /\ Scanning(t)
    /\ Held(Head(todo[t])) \/ Drained(Head(todo[t]))
    /\ todo' = [todo EXCEPT ![t] = Tail(@)]
    /\ UNCHANGED <<streams, events, peerVars, readerVars, writerVars, sentHeaders,
                   pc, running, fault, sent>>

\* nothing is buffered and the window is 0: writer.receive(0) waits
ScanWait(t) ==
    /\ Scanning(t)
    /\ ~Held(Head(todo[t])) /\ wbuf[Head(todo[t])] = <<>> /\ ~weof[Head(todo[t])]
    /\ Goto(t, "take") /\ running' = Nobody
    /\ UNCHANGED <<streams, events, peerVars, readerVars, writerVars, sentHeaders,
                   todo, fault, sent>>

(***************************************************************************)
(* data = await writer.receive(n) with a chunk there, conn.send_data and    *)
(* the first part of flush.  The library refuses every frame after GOAWAY,  *)
(* one for a stream that is not open, and one larger than a window or the   *)
(* frame size.                                                              *)
(***************************************************************************)
Refusal(s, d) ==
    CASE goaway -> "goaway"
      [] ~goaway /\ h2[s] # "open" -> h2[s]
      [] ~goaway /\ h2[s] = "open" /\ d > Min({MaxFrame, window, swindow[s]}) -> "window"
      [] OTHER -> "none"

\* Mutations: the rest is put back although it is empty; the end is sent
\* with the first frame after feed_eof.
RestAlways(c, d) == <<[c EXCEPT !.lo = c.lo + d]>>
EndStreamAtEof(s, left) == weof[s]

Rest(c, d) == IF d < Size(c) THEN <<[c EXCEPT !.lo = c.lo + d]>> ELSE <<>>
EndStream(s, left) == weof[s] /\ left = <<>>

SendHead(t, s, n) ==
    LET c    == Head(wbuf[s])
        d    == Min({Size(c), n})
        left == Rest(c, d) \o Tail(wbuf[s])
    IN  /\ wbuf' = [wbuf EXCEPT ![s] = left]
        /\ IF Refusal(s, d) # "none"
           THEN /\ Fail(t, Refusal(s, d))
                /\ UNCHANGED <<h2, window, swindow, sent>>
           ELSE /\ h2' = [h2 EXCEPT ![s] = IF EndStream(s, left) THEN "ended" ELSE @]
                /\ window' = window - d
                /\ swindow' = [swindow EXCEPT ![s] = @ - d]
                /\ sent' = [sent EXCEPT ![s] = @ + d]
                /\ Goto(t, "flush") /\ running' = Nobody
                /\ todo' = [todo EXCEPT ![t] = Tail(@)]
                /\ UNCHANGED fault
        /\ UNCHANGED <<streams, events, acked, rend, inbound, rsent, goaway, readerVars,
                       weof, fed, whole, sentHeaders>>

ScanSend(t) ==
    /\ Scanning(t)
    /\ ~Held(Head(todo[t])) /\ wbuf[Head(todo[t])] # <<>>
    /\ SendHead(t, Head(todo[t]), Min({Buffered(Head(todo[t])), Frame}))

ScanDone(t) ==
    /\ running = t /\ pc[t] = "scan" /\ todo[t] = <<>>
    /\ Goto(t, IF t = Loop THEN "handle" ELSE "app")
    /\ running' = IF t = Loop THEN Loop ELSE Nobody
    /\ UNCHANGED <<streams, events, peerVars, readerVars, writerVars, sentHeaders,
                   todo, fault, sent>>

\* a writer.receive(0) that waited goes on; it pops without a second test
TakeReturns(t) ==
    /\ running = Nobody /\ pc[t] = "woken"
    /\ LET s == Head(todo[t]) IN
       \/ wbuf[s] # <<>> /\ SendHead(t, s, 0)
       \/ /\ Drained(s)
          /\ todo' = [todo EXCEPT ![t] = Tail(@)]
          /\ Goto(t, "scan") /\ running' = t
          /\ UNCHANGED <<streams, events, peerVars, readerVars, writerVars,
                         sentHeaders, fault, sent>>
       \/ /\ wbuf[s] = <<>> /\ ~weof[s]
          /\ Fail(t, "empty")
          /\ UNCHANGED <<streams, events, peerVars, readerVars, writerVars,
                         sentHeaders, sent>>

(***************************************************************************)
(* flush returns, when the writer lock was free and the transport took the *)
(* bytes, or raises when the transport has failed; what the transport may   *)
(* still take after a failure is left open.                                 *)
(***************************************************************************)
FlushReturns(t) ==
    /\ running = Nobody /\ pc[t] = "flush"
    /\ Goto(t, "scan") /\ running' = t
    /\ UNCHANGED <<streams, events, peerVars, readerVars, writerVars, sentHeaders,
                   todo, fault, sent>>

FlushRaises(t) ==
    /\ "broken" \in Peer /\ running = Nobody /\ pc[t] \in {"flush", "headers", "update"}
    /\ Fail(t, "broken")
    /\ UNCHANGED <<streams, events, peerVars, readerVars, writerVars, sentHeaders, sent>>

(***************************************************************************)
(* A handler: the ASGI application of stream s through the stream's         *)
(* send_response, send_data and reader, in any order and as often as it    *)
(* likes.  asgi.py 117-124 passes every body on, an empty one with          *)
(* more_body too, and send_data takes any b'' for the end: a body that ends *)
(* with a chunk ends with SendData and SendEof, one that ends with b'' with *)
(* SendEof twice, and chunks may follow an end.  For a stream that is gone, *)
(* and send_response after an end, the calls return at once.               *)
(***************************************************************************)
AtApp(s) == running = Nobody /\ pc[s] = "app"

\* the library refuses the headers of a response that has some
HeadersRefusal(s) == IF sentHeaders[s] THEN "again" ELSE Refusal(s, 0)

SendResponse(s) ==
    /\ AtApp(s) /\ InDict(s) /\ ~weof[s]
    /\ IF HeadersRefusal(s) # "none"
       THEN Fail(s, HeadersRefusal(s))
       ELSE Goto(s, "headers") /\ UNCHANGED <<todo, running, fault>>
    /\ sentHeaders' = [sentHeaders EXCEPT ![s] = TRUE]
    /\ UNCHANGED <<streams, events, peerVars, readerVars, writerVars, sent>>

ResponseSent(s) ==
    /\ running = Nobody /\ pc[s] = "headers"
    /\ Goto(s, "app")
    /\ UNCHANGED <<streams, events, peerVars, readerVars, writerVars, sentHeaders,
                   todo, running, fault, sent>>

SendData(s) ==
    /\ AtApp(s) /\ InDict(s)
    /\ Len(wbuf[s]) < MaxChunks
    /\ \E n \in ChunkSizes :
        /\ fed[s] + n <= MaxBody /\ Total(fed) + n <= MaxBytes
        /\ wbuf' = [wbuf EXCEPT ![s] = Append(@, [lo |-> fed[s] + 1, hi |-> fed[s] + n])]
        /\ fed' = [fed EXCEPT ![s] = @ + n]
    /\ StartFlush(s, Woken(s))
    /\ UNCHANGED <<streams, events, peerVars, readerVars, weof, whole, sentHeaders, fault, sent>>

SendEof(s) ==
    /\ AtApp(s) /\ InDict(s)
    /\ weof' = [weof EXCEPT ![s] = TRUE]
    /\ whole' = [whole EXCEPT ![s] = IF weof[s] THEN @ ELSE fed[s]]
    /\ StartFlush(s, Woken(s))
    /\ UNCHANGED <<streams, events, peerVars, readerVars, wbuf, fed, sentHeaders, fault, sent>>

Read(s) ==
    /\ AtApp(s) /\ rbuf[s] > 0
    /\ rbuf' = [rbuf EXCEPT ![s] = @ - 1]
    /\ UNCHANGED <<streams, events, peerVars, reof, writerVars, sentHeaders, taskVars, sent>>

ReadWaits(s) ==
    /\ AtApp(s) /\ rbuf[s] = 0 /\ ~reof[s]
    /\ Goto(s, "read")
    /\ UNCHANGED <<streams, events, peerVars, readerVars, writerVars, sentHeaders,
                   todo, running, fault, sent>>

ReadReturns(s) ==
    /\ running = Nobody /\ pc[s] = "read"
    /\ \/ rbuf[s] > 0 /\ rbuf' = [rbuf EXCEPT ![s] = @ - 1]
       \/ rbuf[s] = 0 /\ reof[s] /\ UNCHANGED rbuf
    /\ Goto(s, "app")
    /\ UNCHANGED <<streams, events, peerVars, reof, writerVars, sentHeaders,
                   todo, running, fault, sent>>

HandlerEnds(s) ==
    /\ AtApp(s)
    /\ Goto(s, "over")
    /\ UNCHANGED <<streams, events, peerVars, readerVars, writerVars, sentHeaders,
                   todo, running, fault, sent>>

(***************************************************************************)
(* Frames arrive: conn.receive_data applies all of them to the library's   *)
(* state before the loop handles the first event.                          *)
(***************************************************************************)
Closed(s) == h2[s] = "reset" \/ (h2[s] = "ended" /\ rend[s])
ClientSends(s) == h2[s] \in {"open", "ended"} /\ ~rend[s]

Receiving ==
    \/ running = Nobody /\ pc[Loop] = "idle"
    \/ running = Loop /\ pc[Loop] = "arriving" /\ Len(events) < MaxBatch

Arrive(e) ==
    /\ Receiving /\ ~goaway
    /\ events' = Append(events, e)
    /\ Goto(Loop, "arriving") /\ running' = Loop
    /\ UNCHANGED <<streams, readerVars, writerVars, sentHeaders, todo, fault, sent>>

ArriveRequest(s) ==
    /\ h2[s] = "idle" /\ \A r \in Streams : r < s => h2[r] # "idle"
    /\ (acked \/ "early" \notin Peer) => \A r \in Streams : r < s => Closed(r)
    /\ h2' = [h2 EXCEPT ![s] = "open"]
    /\ Arrive(<<"request", s>>)
    /\ UNCHANGED <<acked, rend, inbound, window, swindow, rsent, goaway>>

ArriveData(s) ==
    /\ "data" \in Peer /\ ClientSends(s) /\ Total(rsent) < MaxData
    /\ rsent' = [rsent EXCEPT ![s] = @ + 1]
    /\ inbound' = TRUE
    /\ Arrive(<<"data", s>>)
    /\ UNCHANGED <<acked, h2, rend, window, swindow, goaway>>

ArriveEnded(s) ==
    /\ "ended" \in Peer /\ ClientSends(s)
    /\ rend' = [rend EXCEPT ![s] = TRUE]
    /\ Arrive(<<"ended", s>>)
    /\ UNCHANGED <<acked, h2, inbound, window, swindow, rsent, goaway>>

ArriveReset(s) ==
    /\ "reset" \in Peer /\ h2[s] # "idle" /\ ~Closed(s)
    /\ h2' = [h2 EXCEPT ![s] = "reset"]
    /\ Arrive(<<"reset", s>>)
    /\ UNCHANGED <<acked, rend, inbound, window, swindow, rsent, goaway>>

ArriveWindow ==
    /\ "window" \in Peer
    /\ \E w \in window + 1 .. MaxWindow : window' = w
    /\ Arrive(<<"window", 0>>)
    /\ UNCHANGED <<acked, h2, rend, inbound, swindow, rsent, goaway>>

ArriveStreamWindow(s) ==
    /\ "stream_window" \in Peer /\ h2[s] \in {"open", "ended"} /\ ~Closed(s)
    /\ \E w \in swindow[s] + 1 .. MaxWindow : swindow' = [swindow EXCEPT ![s] = w]
    /\ Arrive(<<"window", s>>)
    /\ UNCHANGED <<acked, h2, rend, inbound, window, rsent, goaway>>

\* a client that opens no stream early waits for the limit it acknowledges
ArriveAck ==
    /\ "early" \in Peer /\ ~acked /\ acked' = TRUE
    /\ Arrive(<<"ack", 0>>)
    /\ UNCHANGED <<h2, rend, inbound, window, swindow, rsent, goaway>>

ArrivePing ==
    /\ "ping" \in Peer
    /\ Arrive(<<"ping", 0>>)
    /\ UNCHANGED <<acked, h2, rend, inbound, window, swindow, rsent, goaway>>

ArriveGoaway ==
    /\ "goaway" \in Peer /\ goaway' = TRUE
    /\ Arrive(<<"goaway", 0>>)
    /\ UNCHANGED <<acked, h2, rend, inbound, window, swindow, rsent>>

\* conn.receive_data raises, outside the try: for a frame that is wrong, and for
\* any frame behind a GOAWAY.  The other events of the batch are lost.
ArriveRefused ==
    /\ Receiving
    /\ "bad" \in Peer \/ goaway
    /\ Fail(Loop, "refused")
    /\ events' = <<>>
    /\ UNCHANGED <<streams, peerVars, readerVars, writerVars, sentHeaders, sent>>

BatchEnds ==
    /\ running = Loop /\ pc[Loop] = "arriving"
    /\ Goto(Loop, "handle")
    /\ UNCHANGED <<streams, events, peerVars, readerVars, writerVars, sentHeaders,
                   todo, running, fault, sent>>

(***************************************************************************)
(* The body of the loop, one step per event up to its first await.         *)
(***************************************************************************)
Handling(kind) ==
    /\ running = Loop /\ pc[Loop] = "handle"
    /\ events # <<>> /\ Head(events)[1] = kind
Subject == Head(events)[2]

HandleRequest ==
    /\ Handling("request")
    /\ streams' = Append(streams, Subject)
    /\ Goto(Subject, "app")
    /\ events' = Tail(events)
    /\ UNCHANGED <<peerVars, readerVars, writerVars, sentHeaders, todo, running, fault, sent>>

HandleData ==
    /\ Handling("data")
    /\ IF InDict(Subject)
       THEN rbuf' = [rbuf EXCEPT ![Subject] = @ + 1] /\ StartFlush(Loop, pc)
       ELSE UNCHANGED <<rbuf, pc, todo, running>>
    /\ events' = Tail(events)
    /\ UNCHANGED <<streams, peerVars, reof, writerVars, sentHeaders, fault, sent>>

HandleEnded ==
    /\ Handling("ended")
    /\ reof' = [reof EXCEPT ![Subject] = @ \/ InDict(Subject)]
    /\ events' = Tail(events)
    /\ UNCHANGED <<streams, peerVars, rbuf, writerVars, sentHeaders, taskVars, sent>>

\* del self.streams[s], when there is such a key
Forget(s) ==
    IF InDict(s)
    THEN \E i \in DOMAIN streams : streams[i] = s /\ streams' = RemoveAt(streams, i)
    ELSE UNCHANGED streams

\* Mutation: the reader of a reset stream is not told.
HandleResetQuietly ==
    /\ Handling("reset") /\ Forget(Subject)
    /\ events' = Tail(events)
    /\ UNCHANGED <<peerVars, readerVars, writerVars, sentHeaders, taskVars, sent>>

\* Mutation: a reset stream stays in self.streams.
HandleResetKeeps ==
    /\ Handling("reset")
    /\ reof' = [reof EXCEPT ![Subject] = @ \/ InDict(Subject)]
    /\ events' = Tail(events)
    /\ UNCHANGED <<streams, peerVars, rbuf, writerVars, sentHeaders, taskVars, sent>>

HandleReset ==
    /\ Handling("reset") /\ Forget(Subject)
    /\ reof' = [reof EXCEPT ![Subject] = @ \/ InDict(Subject)]
    /\ events' = Tail(events)
    /\ UNCHANGED <<peerVars, rbuf, writerVars, sentHeaders, taskVars, sent>>

HandleAck ==
    /\ Handling("ack")
    /\ events' = Tail(events)
    /\ UNCHANGED <<streams, peerVars, readerVars, writerVars, sentHeaders, taskVars, sent>>

\* conn.ping answers with a PING of its own, which stays in the library's buffer
HandlePing ==
    /\ Handling("ping")
    /\ events' = Tail(events)
    /\ IF goaway THEN Fail(Loop, "goaway") ELSE UNCHANGED taskVars
    /\ UNCHANGED <<streams, peerVars, readerVars, writerVars, sentHeaders, sent>>

\* the loop leaves the batch but not itself: line 56 compares the state machine, not
\* its state
HandleGoaway ==
    /\ Handling("goaway")
    /\ events' = <<>>
    /\ UNCHANGED <<streams, peerVars, readerVars, writerVars, sentHeaders, taskVars, sent>>

\* increment_window flushes only when there is something to give back
HandleWindow ==
    /\ Handling("window")
    /\ IF inbound /\ goaway
       THEN Fail(Loop, "goaway") /\ UNCHANGED <<inbound, events>>
       ELSE IF inbound
       THEN /\ inbound' = FALSE
            /\ Goto(Loop, "update") /\ running' = Nobody
            /\ UNCHANGED <<todo, events, fault>>
       ELSE /\ IF Subject # 0 THEN StartFlush(Loop, pc) ELSE UNCHANGED <<pc, todo, running>>
            /\ events' = Tail(events)
            /\ UNCHANGED <<inbound, fault>>
    /\ UNCHANGED <<streams, acked, h2, rend, window, swindow, rsent, goaway,
                   readerVars, writerVars, sentHeaders, sent>>

WindowFlushed ==
    /\ running = Nobody /\ pc[Loop] = "update"
    /\ IF Subject # 0
       THEN StartFlush(Loop, pc)
       ELSE Goto(Loop, "handle") /\ running' = Loop /\ UNCHANGED todo
    /\ events' = Tail(events)
    /\ UNCHANGED <<streams, peerVars, readerVars, writerVars, sentHeaders, fault, sent>>

HandlingEnds ==
    /\ running = Loop /\ pc[Loop] = "handle" /\ events = <<>>
    /\ Goto(Loop, "idle") /\ running' = Nobody
    /\ UNCHANGED <<streams, events, peerVars, readerVars, writerVars, sentHeaders,
                   todo, fault, sent>>

(***************************************************************************)
(* receive raises.  The loop ends; it tells no reader, and the handlers run *)
(* on.                                                                      *)
(***************************************************************************)
ReceiveRaises ==
    /\ "broken" \in Peer /\ running = Nobody /\ pc[Loop] = "idle"
    /\ Goto(Loop, "over")
    /\ UNCHANGED <<streams, events, peerVars, readerVars, writerVars, sentHeaders,
                   todo, running, fault, sent>>

Arrival ==
    \/ \E s \in Streams : \/ ArriveRequest(s) \/ ArriveData(s) \/ ArriveEnded(s)
                          \/ ArriveReset(s) \/ ArriveStreamWindow(s)
    \/ ArriveWindow \/ ArriveAck \/ ArrivePing \/ ArriveGoaway \/ ArriveRefused

FlushData(t) ==
    \/ ScanSkip(t) \/ ScanWait(t) \/ ScanSend(t) \/ ScanDone(t)
    \/ TakeReturns(t) \/ FlushReturns(t) \/ FlushRaises(t)

Handle ==
    \/ BatchEnds \/ HandleRequest \/ HandleData \/ HandleEnded \/ HandleReset
    \/ HandleAck \/ HandlePing \/ HandleGoaway \/ HandleWindow \/ WindowFlushed \/ HandlingEnds \/ ReceiveRaises

Application(s) ==
    \/ SendResponse(s) \/ SendData(s) \/ SendEof(s)
    \/ Read(s) \/ ReadWaits(s) \/ HandlerEnds(s)

Next ==
    \/ Arrival \/ Handle
    \/ \E t \in Tasks : FlushData(t)
    \/ \E s \in Streams : Application(s) \/ ResponseSent(s) \/ ReadReturns(s)

Spec == Init /\ [][Next]_vars

(***************************************************************************)
(* Fairness: the event loop runs a task whose await is over in turn (so one *)
(* that calls send again and again keeps no other from running), and the    *)
(* client takes the bytes it is sent.  The client need not send anything    *)
(* and an application need not do anything.                                 *)
(***************************************************************************)
FairSpec ==
    /\ Spec
    /\ SF_vars(Handle \/ FlushData(Loop))
    /\ \A s \in Streams : SF_vars(FlushData(s) \/ ResponseSent(s) \/ ReadReturns(s))
-----------------------------------------------------------------------------
\* The response of every stream is a byte channel, whoever calls flush_data for
\* it: the frames carry the application's bytes in order and END_STREAM comes
\* once, with the last of those there are.  What the application sends after an end
\* goes out as long as END_STREAM has not.
Response(s) == INSTANCE ByteChannel
               WITH GoesOn <- TRUE, sent <- fed[s], received <- sent[s], closed <- weof[s],
                    told <- h2[s] = "ended"
ResponseSpec ==
    /\ \A s \in Streams : Response(s)!Init
    /\ [][\A s \in Streams : Response(s)!Next \/ UNCHANGED Response(s)!channel]_vars

\* A body message without more_body ends an ASGI response (asgi.py 26-29 declares
\* "version": "3.0"), and what the client then takes for the whole body holds it: of
\* what was sent before the first end no chunk has been dropped on the way.
EndMeansComplete ==
    \A s \in Streams : h2[s] = "ended" => weof[s] /\ whole[s] <= sent[s]

\* the application has sent a chunk after an empty body
Late(s) == weof[s] /\ whole[s] < fed[s]

\* The library refuses no frame of an application that sends nothing after an empty
\* body: no task, flushing the writers of others, sends one for a stream that has sent
\* its END_STREAM, and between computing the size of a frame and conn.send_data no
\* other task uses up the connection's window or the writer (the windows of the
\* streams being wide enough).  A chunk after an empty body may be refused, in the
\* handler, in that of another stream or in the loop; that task ends, and the snapshot
\* it leaves begins with the stream of the chunk.
NoRefusedFrame ==
    /\ \A t \in Tasks : fault[t] # "window"
    /\ \A t \in Tasks : fault[t] = "ended" => todo[t] # <<>> /\ Late(Head(todo[t]))

\* No task sleeps in writer.receive(0) while that writer has a chunk or its end.
NoSleepOnData ==
    \A t \in Tasks : pc[t] = "take" =>
        wbuf[Head(todo[t])] = <<>> /\ ~weof[Head(todo[t])]

\* With one stream at a time: a task woken in writer.receive(0) finds what it was
\* woken for, so that the loop and the handler do not steal each other's chunks, unless
\* it is a handler whose own stream is over and that still flushes, as a final b''
\* does, which send_data gets twice; and a reset or a GOAWAY ends the loop (whose
\* exception ends every connection of its listener, asgi.py 257-269) only through an
\* event before it in the same batch.
Pending(kind) == \E i \in DOMAIN events : events[i][1] = kind
Finished(s) == h2[s] = "ended" /\ rend[s]
LoopFaults ==
    /\ fault[Loop] # "empty"
    /\ \A s \in Streams : fault[s] = "empty" => Finished(s)
    /\ \A kind \in {"reset", "goaway"} : fault[Loop] = kind => Pending(kind)

\* A handler never waits for a request body that cannot come any more because its
\* stream was reset and forgotten.
ResetWakesReader ==
    \A s \in Streams : pc[s] = "read" /\ ~InDict(s) => reof[s]

\* A response of one chunk, at its end still whole in the writer and no larger than a
\* frame, is sent with its END_STREAM, unless the window gets as small as a frame or
\* a task of the connection fails before.
OneChunkCompletes ==
    \A s \in Streams :
        (weof[s] /\ Len(wbuf[s]) = 1 /\ sent[s] = 0 /\ Buffered(s) <= MaxFrame)
            ~> \/ h2[s] = "ended" \/ window <= MaxFrame
               \/ fault[s] # "none" \/ fault[Loop] # "none"

\* The loop comes back to the transport, whatever the applications send (chunks after
\* an empty body too) or wait for, or it ends with an exception; the one other case is
\* that it sleeps in the empty writer of a response that has not ended, with the
\* window of the connection closed, which no frame can open any more.
Starving ==
    /\ pc[Loop] = "take" /\ window = 0
    /\ wbuf[Head(todo[Loop])] = <<>> /\ ~weof[Head(todo[Loop])]
LoopReturns == []<>(pc[Loop] \in {"idle", "over"} \/ Starving)

\* A body message without more_body ends an ASGI response (asgi.py 26-29 declares
\* "version": "3.0"): once the application has sent it, END_STREAM goes out.
ResponseCompletes == \A s \in Streams : weof[s] ~> h2[s] = "ended"
=============================================================================
