----------------------------- MODULE H1Connection -----------------------------
(***************************************************************************)
(* http/protocol/h1.py H1Connection with http/asgi.py                       *)
(* HTTPRequestResponseCycle: one task reads the connection, asks h11 for    *)
(* its next event and runs the application inline for every request.  While *)
(* the application runs, only the client and the transport move.            *)
(*                                                                          *)
(* h11 is external: `theirs' and `ours' are its states of the two sides,    *)
(* `buffer' is what it was given and has not parsed.  A request is the      *)
(* tokens "request" (or "last_request", with Connection: close), "data",    *)
(* "eom"; "bad" stands for bytes that h11 refuses.  Upgrades to WebSocket   *)
(* are left out.                                                            *)
(***************************************************************************)
EXTENDS Naturals, Sequences

CONSTANTS MaxRequests,   \* bound: requests the client sends
          MaxData,       \* bound: body chunks per request
          Misuse         \* whether applications call send in an order ASGI forbids

ASSUME BoundsAssumption == MaxRequests \in Nat /\ MaxData \in Nat
ASSUME MisuseAssumption == Misuse \in BOOLEAN

VARIABLES sent, chunks, cpc,   \* client: requests begun, body chunks of the last, its place
          hung,                \* the client is gone
          inbox,               \* tokens the transport has received
          aclosed,             \* self.stream is closed on this side
          buffer, theirs, ours, keep,     \* h11, keep: its keep-alive
          pc,                             \* where the connection's task stands
          sent_headers, response_completed, eof, size,   \* self.request and its reader
          disconnect,          \* of the cycle; receive_message is set with it
          asked, begun, finished,         \* history: requests handed to the application,
                                          \* responses begun and completed
          faults                          \* history: calls of send that h11 may refuse

client  == <<sent, chunks, cpc>>
http    == <<buffer, theirs, ours, keep>>
reader  == <<eof, size>>
request == <<sent_headers, response_completed, reader, disconnect>>
history == <<asked, begun, finished, faults>>
vars == <<client, hung, inbox, aclosed, http, pc, request, history>>

Tokens == {"request", "last_request", "data", "eom", "bad"}
H11Client == {"IDLE", "SEND_BODY", "DONE", "MUST_CLOSE", "CLOSED", "ERROR"}
H11Server == {"IDLE", "SEND_RESPONSE", "SEND_BODY", "DONE", "MUST_CLOSE", "CLOSED", "ERROR"}
Over == {"ended", "escaped"}

TypeOK ==
    /\ sent \in 0 .. MaxRequests /\ chunks \in 0 .. MaxData /\ cpc \in {"between", "body", "done"}
    /\ {hung, aclosed, keep, sent_headers, response_completed, eof, disconnect} \subseteq BOOLEAN
    /\ inbox \in Seq(Tokens) /\ buffer \in Seq(Tokens)
    /\ theirs \in H11Client /\ ours \in H11Server
    /\ pc \in {"next", "receiving", "app", "app_final", "app_receive"} \cup Over
    /\ asked \in Nat /\ begun \in 0 .. asked /\ finished \in 0 .. begun
    /\ size \in Nat
    /\ faults \subseteq {"misuse", "empty_chunk"}

Init ==
    /\ sent = 0 /\ chunks = 0 /\ cpc = "between" /\ hung = FALSE
    /\ inbox = <<>> /\ aclosed = FALSE
    /\ buffer = <<>> /\ theirs = "IDLE" /\ ours = "IDLE" /\ keep = TRUE
    /\ pc = "next"
    /\ sent_headers = FALSE /\ response_completed = FALSE /\ eof = FALSE /\ size = 0
    /\ disconnect = FALSE
    /\ asked = 0 /\ begun = 0 /\ finished = 0 /\ faults = {}
-----------------------------------------------------------------------------
(***************************************************************************)
(* The client: requests one after the other, pipelined at will.            *)
(***************************************************************************)
Sends(token) ==
    /\ ~hung /\ inbox' = Append(inbox, token)
    /\ UNCHANGED <<hung, aclosed, http, pc, request, history>>

ClientRequest ==
    /\ cpc = "between" /\ sent < MaxRequests
    /\ sent' = sent + 1 /\ chunks' = 0 /\ cpc' = "body"
    /\ \E token \in {"request", "last_request"} : Sends(token)
ClientData ==
    /\ cpc = "body" /\ chunks < MaxData
    /\ chunks' = chunks + 1 /\ UNCHANGED <<sent, cpc>>
    /\ Sends("data")
ClientEom ==
    /\ cpc = "body" /\ cpc' = "between" /\ UNCHANGED <<sent, chunks>>
    /\ Sends("eom")
ClientBad ==
    /\ cpc # "done" /\ cpc' = "done" /\ UNCHANGED <<sent, chunks>>
    /\ Sends("bad")
ClientHangup ==
    /\ ~hung /\ hung' = TRUE
    /\ UNCHANGED <<client, inbox, aclosed, http, pc, request, history>>
-----------------------------------------------------------------------------
\* h11.Connection.send of an event: the state it leads to, "ERROR" when it
\* raises LocalProtocolError
AfterResponse == IF ours \in {"IDLE", "SEND_RESPONSE"} THEN "SEND_BODY" ELSE "ERROR"
AfterData     == IF ours = "SEND_BODY" THEN "SEND_BODY" ELSE "ERROR"
AfterEnd      == IF ours # "SEND_BODY" THEN "ERROR" ELSE IF keep THEN "DONE" ELSE "MUST_CLOSE"
AfterClosed   == IF ours \in {"IDLE", "DONE", "MUST_CLOSE", "CLOSED"} THEN "CLOSED" ELSE "ERROR"

\* self.stream.send, after a successful conn.send: the transport may fail once
\* the client is gone, and fails when it is closed on this side
Delivered == ~aclosed
Lost == aclosed \/ hung

\* The application ends, or an exception of send ends it (one that catches it
\* and goes on is left out); the cycle and wrapper_handler log it, and the loop
\* goes on.
HandlerReturns == pc' = "next"
Raises == HandlerReturns /\ UNCHANGED disconnect        \* any other exception
LosesStream == HandlerReturns /\ disconnect' = TRUE     \* ALLStreamError

\* whether the call in this state is one ASGI forbids
Misused(forbidden) ==
    /\ forbidden => Misuse
    /\ faults' = IF forbidden THEN faults \cup {"misuse"} ELSE faults

\* Mutation: nothing is known of headers sent before.
AppStartAgain ==
    /\ pc = "app"
    /\ Misused(sent_headers)
    /\ sent_headers' = TRUE
    /\ ours' = AfterResponse
    /\ keep' \in {keep, FALSE} /\ begun' = begun + 1
    /\ \/ Delivered /\ UNCHANGED <<pc, disconnect>>
       \/ Lost /\ LosesStream
    /\ UNCHANGED <<client, hung, inbox, aclosed, buffer, theirs, response_completed, reader,
                   asked, finished>>

(***************************************************************************)
(* http.response.start: send_response.  The headers of the response may end *)
(* keep-alive.                                                              *)
(***************************************************************************)
AppStart ==
    /\ pc = "app"
    /\ Misused(sent_headers)
    /\ sent_headers' = TRUE
    /\ \/ /\ sent_headers                             \* HTTPHeaderSentException
          /\ Raises
          /\ UNCHANGED <<ours, keep, begun>>
       \/ /\ ~sent_headers
          /\ ours' = AfterResponse
          /\ keep' \in {keep, FALSE} /\ begun' = begun + 1
          /\ \/ Delivered /\ UNCHANGED <<pc, disconnect>>
             \/ Lost /\ LosesStream
    /\ UNCHANGED <<client, hung, inbox, aclosed, buffer, theirs, response_completed, reader,
                   asked, finished>>

\* Mutation: the connection stays open when h11 says that it must be closed.
NeverCloses(state) ==
    /\ ours' = state /\ UNCHANGED <<theirs, aclosed>>

(***************************************************************************)
(* maybe_next_cycle, h11 being in `state' after the end of the response.    *)
(* (pause.release() wakes nobody: nothing waits for the lock.)              *)
(***************************************************************************)
MaybeNextCycle(state) ==
    IF state = "MUST_CLOSE" \/ theirs = "MUST_CLOSE"
    THEN ours' = "CLOSED" /\ aclosed' = TRUE /\ UNCHANGED theirs
    ELSE IF state = "DONE" /\ theirs = "DONE"
    THEN ours' = "IDLE" /\ theirs' = "IDLE" /\ UNCHANGED aclosed
    ELSE ours' = state /\ UNCHANGED <<theirs, aclosed>>

\* raw_send(EndOfMessage) and maybe_next_cycle; `Then' is what follows in the
\* cycle when they succeed.  A transport that fails skips maybe_next_cycle.
SendEnd(Then) ==
    \/ /\ AfterEnd = "ERROR"
       /\ ours' = "ERROR" /\ Raises
       /\ UNCHANGED <<theirs, aclosed, finished>>
    \/ /\ AfterEnd # "ERROR"
       /\ finished' = finished + 1
       /\ \/ Delivered /\ MaybeNextCycle(AfterEnd) /\ Then
          \/ /\ Lost /\ ours' = AfterEnd /\ LosesStream
             /\ UNCHANGED <<theirs, aclosed>>

\* Mutation: response_completed is not looked at.
EndResponseAgain(Then) == response_completed' = TRUE /\ SendEnd(Then)

\* send_data(b''): the end of the response, unless it has been sent
EndResponse(Then) ==
    /\ response_completed' = TRUE
    /\ \/ response_completed /\ Then /\ UNCHANGED <<ours, theirs, aclosed, finished>>
       \/ ~response_completed /\ SendEnd(Then)

\* http.response.body: send_data(body), and once more with b'' when no more
\* body follows.  An empty body ends the response even if more_body is set.
AppChunk(more) ==
    /\ pc = "app"
    /\ Misused(~sent_headers \/ disconnect)
    /\ \/ /\ AfterData = "ERROR"
          /\ ours' = "ERROR" /\ Raises
       \/ /\ AfterData # "ERROR" /\ UNCHANGED ours
          /\ \/ Delivered /\ pc' = (IF more THEN "app" ELSE "app_final") /\ UNCHANGED disconnect
             \/ Lost /\ LosesStream
    /\ UNCHANGED <<client, hung, inbox, aclosed, buffer, theirs, keep, sent_headers,
                   response_completed, reader, asked, begun, finished>>

AppEmptyChunk(more) ==
    /\ pc = "app"
    /\ ~sent_headers \/ disconnect => Misuse
    /\ faults' = faults \cup (IF more THEN {"empty_chunk"} ELSE {})
                        \cup (IF ~sent_headers \/ disconnect THEN {"misuse"} ELSE {})
    /\ EndResponse(pc' = (IF more THEN "app" ELSE "app_final") /\ UNCHANGED disconnect)
    /\ UNCHANGED <<client, hung, inbox, buffer, keep, sent_headers, reader, asked, begun>>

AppFinal ==
    /\ pc = "app_final"
    /\ EndResponse(pc' = "app" /\ disconnect' = TRUE)
    /\ UNCHANGED <<client, hung, inbox, buffer, keep, sent_headers, reader, asked, begun, faults>>

(***************************************************************************)
(* receive: it waits for the reader or, at its end, for receive_message.    *)
(* Only this task feeds the reader, so a wait does not end.                 *)
(***************************************************************************)
ReceiveWaits == size = 0 /\ ~disconnect

AppReceive ==
    /\ pc = "app" /\ ReceiveWaits
    /\ pc' = "app_receive"
    /\ UNCHANGED <<client, hung, inbox, aclosed, http, request, history>>

\* the application returns, or raises
AppReturn ==
    /\ pc = "app" /\ HandlerReturns
    /\ UNCHANGED <<client, hung, inbox, aclosed, http, request, history>>
-----------------------------------------------------------------------------
(***************************************************************************)
(* next_event and receive_data.                                            *)
(***************************************************************************)
Parses(states, tokens) ==
    /\ pc = "next" /\ theirs \in states /\ buffer # <<>> /\ Head(buffer) \in tokens
    /\ buffer' = Tail(buffer)

\* a new HTTPStream with a reader of its own, and a new cycle
NewRequest ==
    /\ sent_headers' = FALSE /\ response_completed' = FALSE /\ disconnect' = FALSE
    /\ eof' = FALSE /\ size' = 0

Request ==
    /\ Parses({"IDLE"}, {"request", "last_request"})
    /\ theirs' = "SEND_BODY" /\ ours' = "SEND_RESPONSE"
    /\ keep' = (keep /\ Head(buffer) = "request")
    /\ NewRequest
    /\ pc' = "app" /\ asked' = asked + 1
    /\ UNCHANGED <<client, hung, inbox, aclosed, begun, finished, faults>>

Data ==
    /\ Parses({"SEND_BODY"}, {"data"})
    /\ size' = size + 1
    /\ UNCHANGED <<client, hung, inbox, aclosed, theirs, ours, keep, pc, sent_headers,
                   response_completed, eof, disconnect, history>>

EndOfMessage ==
    /\ Parses({"SEND_BODY"}, {"eom"})
    /\ theirs' = IF ~keep \/ ours \in {"CLOSED", "ERROR"} THEN "MUST_CLOSE" ELSE "DONE"
    /\ eof' = TRUE
    /\ UNCHANGED <<client, hung, inbox, aclosed, ours, keep, pc, sent_headers,
                   response_completed, size, disconnect, history>>

\* Mutations: the new cycle is not started; h11 is replaced by a new connection.
PausedIgnored ==
    /\ pc = "next" /\ theirs = "DONE" /\ buffer # <<>>
    /\ UNCHANGED vars
PausedAnyway ==
    /\ pc = "next" /\ theirs = "DONE" /\ buffer # <<>>
    /\ theirs' = "IDLE" /\ ours' = "IDLE"
    /\ UNCHANGED <<client, hung, inbox, aclosed, buffer, keep, pc, request, history>>

\* PAUSED: start_next_cycle() raises unless both sides are done, and next_event
\* does not catch it
Paused ==
    /\ pc = "next" /\ theirs = "DONE" /\ buffer # <<>>
    /\ \/ ours = "DONE" /\ theirs' = "IDLE" /\ ours' = "IDLE" /\ UNCHANGED pc
       \/ ours # "DONE" /\ pc' = "escaped" /\ UNCHANGED <<theirs, ours>>
    /\ UNCHANGED <<client, hung, inbox, aclosed, buffer, keep, request, history>>

Refuses == \/ theirs \in {"IDLE", "SEND_BODY"} /\ buffer # <<>> /\ Head(buffer) = "bad"
           \/ theirs = "MUST_CLOSE" /\ buffer # <<>>

\* h11 raises: the answer is ConnectionClosed, which it refuses in turn while a
\* response is due
ProtocolError ==
    /\ pc = "next" /\ Refuses
    /\ theirs' = "ERROR" /\ ours' = AfterClosed
    /\ \/ AfterClosed = "ERROR" /\ pc' = "escaped" /\ UNCHANGED aclosed
       \/ AfterClosed # "ERROR" /\ pc' = "ended" /\ aclosed' = TRUE
    /\ UNCHANGED <<client, hung, inbox, buffer, keep, request, history>>

NeedData ==
    /\ pc = "next" /\ buffer = <<>> /\ theirs # "CLOSED"
    /\ pc' = "receiving"
    /\ UNCHANGED <<client, hung, inbox, aclosed, http, request, history>>

Receive ==
    /\ pc = "receiving" /\ ~aclosed /\ inbox # <<>>
    /\ \E n \in 1 .. Len(inbox) : /\ buffer' = SubSeq(inbox, 1, n)
                                  /\ inbox' = SubSeq(inbox, n + 1, Len(inbox))
    /\ pc' = "next"
    /\ UNCHANGED <<client, hung, aclosed, theirs, ours, keep, request, history>>

\* b'', which ConnectionSetup shows to come before everything else if at all,
\* is the end of the connection to h11
ReceiveBlank ==
    /\ pc = "receiving" /\ ~aclosed /\ asked = 0
    /\ theirs' = "CLOSED" /\ ours' = "MUST_CLOSE" /\ pc' = "next"
    /\ UNCHANGED <<client, hung, inbox, aclosed, buffer, keep, request, history>>

ConnectionClosed ==
    /\ pc = "next" /\ theirs = "CLOSED"
    /\ aclosed' = TRUE /\ pc' = "ended"
    /\ UNCHANGED <<client, hung, inbox, http, request, history>>

ReceiveFails ==
    /\ pc = "receiving" /\ (aclosed \/ (hung /\ inbox = <<>>))
    /\ pc' = "ended"
    /\ UNCHANGED <<client, hung, inbox, aclosed, http, request, history>>
-----------------------------------------------------------------------------
Client == ClientRequest \/ ClientData \/ ClientEom \/ ClientBad \/ ClientHangup
App == \/ AppStart \/ AppFinal \/ AppReceive \/ AppReturn
       \/ \E more \in BOOLEAN : AppChunk(more) \/ AppEmptyChunk(more)
Loop == \/ Request \/ Data \/ EndOfMessage \/ Paused \/ ProtocolError \/ NeedData
        \/ Receive \/ ConnectionClosed \/ ReceiveFails

Next == Client \/ App \/ Loop \/ ReceiveBlank

Spec == Init /\ [][Next]_vars

\* the event loop runs the connection's task; an application that does not wait
\* in receive does not call send for ever
FairSpec == Spec /\ WF_vars(Loop) /\ WF_vars(AppFinal) /\ SF_vars(AppReturn)
-----------------------------------------------------------------------------
\* An exception leaves the connection's task, and with it ends every connection
\* of the listener's task group (asgi.py 257-269), only when a response is
\* incomplete or a call of send broke h11's state: never for what a client
\* sends to an application that completes its responses.
EscapeOnlyIncomplete == pc = "escaped" => finished < asked \/ faults # {}

\* The loop ends a connection only with its stream closed or its client gone.
EndedClosed == pc = "ended" => aclosed \/ hung

\* A connection that h11 says must close is closed as soon as the response is
\* complete, unless one of the two has closed it before.
MustCloseCloses == ours = "MUST_CLOSE" => hung \/ theirs = "CLOSED"

\* A connection is closed in time: when h11 says so, and before the loop ends.
ClosesInTime == EndedClosed /\ MustCloseCloses

\* A client that sends n requests gets the n-th to the application, unless
\* one of the reasons there are ends the connection first or an application
\* waits for a body.
Served ==
    \A n \in 1 .. MaxRequests :
        (sent >= n) ~> (asked >= n \/ hung \/ aclosed \/ pc \in {"escaped", "app_receive"})

\* Responses come one per request and in order.
Responses == INSTANCE RequestResponse
ResponsesSpec == Responses!Spec

\* A receive of the application comes back: what the server announces in every
\* scope as ASGI version 3.0 (asgi.py 26-29).
ReceiveReturns == (pc = "app_receive") ~> (pc # "app_receive")
=============================================================================
