---------------------------- MODULE WebSocketProofs ----------------------------
(***************************************************************************)
(* Proofs about WebSocket: what each task may be doing, who may hold the    *)
(* stream, and what is known of the handshake, of the client's last frame   *)
(* and of the close frame are together inductive, and imply the invariants. *)
(***************************************************************************)
EXTENDS WebSocket, SequenceTheorems, TLAPS

\* Where each task may stand; an exception leaves nothing running, and whoever
\* closes the stream is the loop at its end.
Places ==
    /\ pc["loop"] \in {"receive", "events", "pong", "reply", "over"}
    /\ pc["app"] \in {"app", "read", "accepting", "sending", "closing", "over"}
    /\ pc["ping"] \in {"none", "sleep", "pinging", "over"}
    /\ escaped => \A t \in Tasks : pc[t] = "over"
    /\ aclosed => pc["loop"] = "over"

\* The guard of the stream: one task sends at a time.
OneWriter == \A t, u \in Tasks : pc[t] \in Writing /\ pc[u] \in Writing => t = u

\* Before the 101 response there is nothing to handle and nothing to ping.
Handshake ==
    /\ upgraded => switched
    /\ pc["app"] = "accepting" => switched /\ ~upgraded
    /\ inbox # <<>> \/ batch # <<>> \/ pc["loop"] \in {"pong", "reply"} => upgraded
    /\ pc["ping"] \in {"sleep", "pinging"} => upgraded
    /\ pc["app"] \in {"sending", "closing"} => upgraded \/ misused
    /\ closes > 0 /\ ~upgraded => misused

Bad(q) == \E i \in 1 .. Len(q) : q[i] = "bad"
LastFrame == Bad(inbox) \/ Bad(batch) => last = "bad"

Excused == overlapped \/ hung \/ last = "bad"

\* The close frame: none before the state leaves OPEN, one sender after that.
CloseFrame ==
    /\ pc["loop"] = "reply" => ws = "CLOSED"
    /\ pc["app"] = "closing" => ws # "OPEN"
    /\ ws = "OPEN" \/ pc["loop"] = "reply" \/ pc["app"] = "closing" => closes = 0
    /\ closes > 0 => \A t \in Tasks : pc[t] \in Writing => pc[t] = "accepting"
    /\ ws = "LOCAL_CLOSING" => closing /\ (closes = 1 \/ pc["app"] = "closing" \/ escaped \/ Excused)
    /\ aclosed /\ ws = "OPEN" => last = "bad"
    /\ aclosed /\ pc["ping"] = "pinging" => closing \/ Excused

IInv == /\ TypeOK /\ Places /\ OneWriter /\ Handshake /\ LastFrame /\ CloseFrame
        /\ ClosedInOrder /\ EscapeReasons /\ HandshakeFirst

(***************************************************************************)
(* Every variable keeps its type.                                          *)
(***************************************************************************)
LEMMA TypeStep == IInv /\ [Next]_vars => TypeOK'
  <1>. SUFFICES ASSUME IInv, [Next]_vars PROVE TypeOK'
    OBVIOUS
  <1>. USE FramesAssumption DEF IInv, TypeOK, Tasks, Writing, Frames
  <1>. DEFINE Moved == /\ pc' \in [Tasks -> {"none", "receive", "events", "app", "read", "sleep",
                                          "over"} \cup Writing]
                      /\ overlapped' \in BOOLEAN /\ escaped' \in BOOLEAN
                      /\ ws' \in {"OPEN", "LOCAL_CLOSING", "CLOSED"}
  <1>a. ASSUME NEW t \in Tasks, NEW place \in Writing, Write(t, place), ws' \in {"OPEN", "LOCAL_CLOSING", "CLOSED"} PROVE Moved
    BY <1>a DEF Write, Raised, Goto
  <1>b. ASSUME NEW t \in Tasks, NEW place \in Writing, NEW event,
               RawSend(t, event, place, UNCHANGED pc) \/ RawSend(t, event, place, Goto("app", "app"))
        PROVE  Moved
    BY <1>a, <1>b DEF RawSend, Refused, StateAfter, Raised, Goto
  <1>c. batch # <<>> => Tail(batch) \in Seq(Frames)
    BY HeadTailProperties
  <1>1. ASSUME NEW f \in Frames, ClientSends(f) PROVE TypeOK'
    BY <1>1, AppendProperties DEF ClientSends, wire, history, tasks
  <1>2. CASE ClientHangsUp
    BY <1>2 DEF ClientHangsUp, wire, history, tasks
  <1>3. CASE LoopReceives
    BY <1>3 DEF LoopReceives, Goto, wire, history
  <1>4. CASE LoopReceiveFails
    BY <1>4 DEF LoopReceiveFails, Raised, client, wire, history
  <1>5. CASE LoopEventsEnd
    BY <1>5 DEF LoopEventsEnd, Goto, client, wire, history
  <1>6. CASE HandleMessage
    BY <1>6 DEF HandleMessage, Handles, client, wire, history, tasks
  <1>7. CASE HandlePing
    BY <1>b, <1>c, <1>7 DEF HandlePing, Handles, client, wire, history
  <1>8. CASE HandleClose
    BY <1>a, <1>c, <1>8 DEF HandleClose, Handles, CloseStream, Goto, client, wire,
          history
  <1>9. CASE HandleBad
    BY <1>9 DEF HandleBad, Handles, CloseStream, Busy, Goto, client, wire, history
  <1>10. CASE PongSent
    BY <1>10 DEF PongSent, Delivered, Goto, client, history
  <1>11. CASE ReplySent
    BY <1>11 DEF ReplySent, Delivered, CloseStream, Goto, client, history
  <1>12. CASE Ping
    BY <1>b, <1>12 DEF Ping, client, wire, history
  <1>13. CASE PingSent
    BY <1>13 DEF PingSent, Delivered, Goto, client, history
  <1>14. CASE AppConnect
    BY <1>14 DEF AppConnect, client, wire, history, tasks
  <1>15. CASE AppReceive
    BY <1>15 DEF AppReceive, Goto, client, wire, history
  <1>16. CASE AppAccept
    BY <1>16 DEF AppAccept, Write, Busy, Raised, Goto, client, wire, history
  <1>17. CASE AppSend
    BY <1>b, <1>17 DEF AppSend, client, wire
  <1>18. CASE AppClose
    BY <1>b, <1>18 DEF AppClose, client, wire
  <1>19. CASE AppReturns
    BY <1>19 DEF AppReturns, Goto, client, wire, history
  <1>20. CASE AppReceives
    BY <1>20 DEF AppReceives, Goto, client, wire, history
  <1>21. CASE Accepted
    BY <1>21 DEF Accepted, Delivered, client, history
  <1>22. CASE Sent
    BY <1>22 DEF Sent, Delivered, Goto, client, history
  <1>23. CASE CloseSent
    BY <1>b, <1>23 DEF CloseSent, Delivered, client, history
  <1>24. ASSUME NEW t \in Tasks, WriteFails(t) PROVE TypeOK'
    BY <1>24 DEF WriteFails, Raised, Goto, client, wire, history
  <1>25. CASE UNCHANGED vars
    BY <1>25 DEF vars, client, wire, history, tasks
  <1>. QED
    BY <1>1, <1>2, <1>3, <1>4, <1>5, <1>6, <1>7, <1>8, <1>9, <1>10, <1>11, <1>12, <1>13,
          <1>14, <1>15, <1>16, <1>17, <1>18, <1>19, <1>20, <1>21, <1>22, <1>23, <1>24,
          <1>25 DEF Next, Client, Loop, PingPong, App, AppGoesOn, Tasks

(***************************************************************************)
(* Each task stays at its places, and an exception leaves none running.    *)
(***************************************************************************)
LEMMA PlacesStep == IInv /\ [Next]_vars => Places'
  <1>. SUFFICES ASSUME IInv, [Next]_vars PROVE Places'
    OBVIOUS
  <1>. USE DEF IInv, TypeOK, Places, Tasks, Writing
  <1>1. ASSUME UNCHANGED <<pc, escaped, aclosed>> PROVE Places'
    BY <1>1
  <1>2. ASSUME NEW f \in Frames, ClientSends(f) PROVE Places'
    BY <1>1, <1>2, AppendProperties DEF ClientSends, wire, history, tasks
  <1>3. CASE LoopReceives
    BY <1>3 DEF LoopReceives, Goto, wire, history
  <1>4. CASE LoopReceiveFails
    BY <1>4 DEF LoopReceiveFails, Raised, client, wire, history
  <1>5. CASE LoopEventsEnd
    BY <1>5 DEF LoopEventsEnd, Goto, client, wire, history
  <1>6. CASE HandlePing
    BY <1>6 DEF HandlePing, Handles, RawSend, Refused, StateAfter, Write, Busy, Raised,
          Goto, client, wire, history
  <1>7. CASE HandleClose
    BY <1>7 DEF HandleClose, Handles, CloseStream, Write, Busy, Raised, Goto, client,
          wire, history
  <1>8. CASE HandleBad
    BY <1>8 DEF HandleBad, Handles, CloseStream, Busy, Goto, client, wire, history
  <1>9. CASE PongSent
    BY <1>9 DEF PongSent, Delivered, Goto, client, history
  <1>10. CASE ReplySent
    BY <1>10 DEF ReplySent, Delivered, CloseStream, Goto, client, history
  <1>11. CASE Ping
    BY <1>11 DEF Ping, RawSend, Refused, StateAfter, Write, Busy, Raised, Goto, client,
          wire, history
  <1>12. CASE PingSent
    BY <1>12 DEF PingSent, Delivered, Goto, client, history
  <1>13. CASE AppReceive
    BY <1>13 DEF AppReceive, Goto, client, wire, history
  <1>14. CASE AppAccept
    BY <1>14 DEF AppAccept, Write, Busy, Raised, Goto, client, wire, history
  <1>15. CASE AppSend
    BY <1>15 DEF AppSend, RawSend, Refused, StateAfter, Write, Busy, Raised, Goto,
          client, wire
  <1>16. CASE AppClose
    BY <1>16 DEF AppClose, RawSend, Refused, StateAfter, Write, Busy, Raised, Goto,
          client, wire
  <1>17. CASE AppReturns
    BY <1>17 DEF AppReturns, Goto, client, wire, history
  <1>18. CASE AppReceives
    BY <1>18 DEF AppReceives, Goto, client, wire, history
  <1>19. CASE Accepted
    BY <1>19 DEF Accepted, Delivered, client, history
  <1>20. CASE Sent
    BY <1>20 DEF Sent, Delivered, Goto, client, history
  <1>21. CASE CloseSent
    BY <1>21 DEF CloseSent, Delivered, RawSend, Refused, StateAfter, Write, Busy,
          Raised, Goto, client, history
  <1>22. CASE ClientHangsUp
    BY <1>1, <1>22 DEF ClientHangsUp, wire, history, tasks
  <1>23. CASE HandleMessage
    BY <1>1, <1>23 DEF HandleMessage, Handles, client, wire, history, tasks
  <1>24. CASE AppConnect
    BY <1>1, <1>24 DEF AppConnect, client, wire, history, tasks
  <1>25. ASSUME NEW t \in Tasks, WriteFails(t) PROVE Places'
    BY <1>25 DEF WriteFails, Raised, Goto, client, wire, history
  <1>26. CASE UNCHANGED vars
    BY <1>1, <1>26 DEF vars, client, wire, history, tasks
  <1>. QED
    BY <1>2, <1>3, <1>4, <1>5, <1>6, <1>7, <1>8, <1>9, <1>10, <1>11, <1>12, <1>13,
          <1>14, <1>15, <1>16, <1>17, <1>18, <1>19, <1>20, <1>21, <1>22, <1>23, <1>24,
          <1>25, <1>26 DEF Next, Client, Loop, PingPong, App, AppGoesOn, Tasks

(***************************************************************************)
(* A task begins to send only when no other is sending.                    *)
(***************************************************************************)
LEMMA WriterStep == IInv /\ [Next]_vars => OneWriter'
  <1>. SUFFICES ASSUME IInv, [Next]_vars PROVE OneWriter'
    OBVIOUS
  <1>. USE DEF IInv, TypeOK, Places, OneWriter, Tasks, Writing
  <1>1. ASSUME UNCHANGED <<pc>> PROVE OneWriter'
    BY <1>1
  <1>2. ASSUME NEW f \in Frames, ClientSends(f) PROVE OneWriter'
    BY <1>1, <1>2, AppendProperties DEF ClientSends, wire, history, tasks
  <1>3. CASE LoopReceives
    BY <1>3 DEF LoopReceives, Goto, wire, history
  <1>4. CASE LoopReceiveFails
    BY <1>4 DEF LoopReceiveFails, Raised, client, wire, history
  <1>5. CASE LoopEventsEnd
    BY <1>5 DEF LoopEventsEnd, Goto, client, wire, history
  <1>6. CASE HandlePing
    BY <1>6 DEF HandlePing, Handles, RawSend, Refused, StateAfter, Write, Busy, Raised,
          Goto, client, wire, history
  <1>7. CASE HandleClose
    BY <1>7 DEF HandleClose, Handles, CloseStream, Write, Busy, Raised, Goto, client,
          wire, history
  <1>8. CASE HandleBad
    BY <1>8 DEF HandleBad, Handles, CloseStream, Busy, Goto, client, wire, history
  <1>9. CASE PongSent
    BY <1>9 DEF PongSent, Delivered, Goto, client, history
  <1>10. CASE ReplySent
    BY <1>10 DEF ReplySent, Delivered, CloseStream, Goto, client, history
  <1>11. CASE Ping
    BY <1>11 DEF Ping, RawSend, Refused, StateAfter, Write, Busy, Raised, Goto, client,
          wire, history
  <1>12. CASE PingSent
    BY <1>12 DEF PingSent, Delivered, Goto, client, history
  <1>13. CASE AppReceive
    BY <1>13 DEF AppReceive, Goto, client, wire, history
  <1>14. CASE AppAccept
    BY <1>14 DEF AppAccept, Write, Busy, Raised, Goto, client, wire, history
  <1>15. CASE AppSend
    BY <1>15 DEF AppSend, RawSend, Refused, StateAfter, Write, Busy, Raised, Goto,
          client, wire
  <1>16. CASE AppClose
    BY <1>16 DEF AppClose, RawSend, Refused, StateAfter, Write, Busy, Raised, Goto,
          client, wire
  <1>17. CASE AppReturns
    BY <1>17 DEF AppReturns, Goto, client, wire, history
  <1>18. CASE AppReceives
    BY <1>18 DEF AppReceives, Goto, client, wire, history
  <1>19. CASE Accepted
    BY <1>19 DEF Accepted, Delivered, client, history
  <1>20. CASE Sent
    BY <1>20 DEF Sent, Delivered, Goto, client, history
  <1>21. CASE CloseSent
    BY <1>21 DEF CloseSent, Delivered, RawSend, Refused, StateAfter, Write, Busy,
          Raised, Goto, client, history
  <1>22. CASE ClientHangsUp
    BY <1>1, <1>22 DEF ClientHangsUp, wire, history, tasks
  <1>23. CASE HandleMessage
    BY <1>1, <1>23 DEF HandleMessage, Handles, client, wire, history, tasks
  <1>24. CASE AppConnect
    BY <1>1, <1>24 DEF AppConnect, client, wire, history, tasks
  <1>25. ASSUME NEW t \in Tasks, WriteFails(t) PROVE OneWriter'
    BY <1>25 DEF WriteFails, Raised, Goto, client, wire, history
  <1>26. CASE UNCHANGED vars
    BY <1>1, <1>26 DEF vars, client, wire, history, tasks
  <1>. QED
    BY <1>2, <1>3, <1>4, <1>5, <1>6, <1>7, <1>8, <1>9, <1>10, <1>11, <1>12, <1>13,
          <1>14, <1>15, <1>16, <1>17, <1>18, <1>19, <1>20, <1>21, <1>22, <1>23, <1>24,
          <1>25, <1>26 DEF Next, Client, Loop, PingPong, App, AppGoesOn, Tasks

(***************************************************************************)
(* Nothing is handled and nothing is pinged before the 101 response.       *)
(***************************************************************************)
LEMMA HandshakeStep == IInv /\ [Next]_vars => (Handshake /\ HandshakeFirst)'
  <1>. SUFFICES ASSUME IInv, [Next]_vars PROVE (Handshake /\ HandshakeFirst)'
    OBVIOUS
  <1>. USE DEF IInv, TypeOK, Places, OneWriter, Handshake, HandshakeFirst, Tasks,
          Writing
  <1>1. ASSUME NEW f \in Frames, ClientSends(f) PROVE (Handshake /\ HandshakeFirst)'
    BY <1>1, AppendProperties DEF ClientSends, wire, history, tasks
  <1>2. CASE ClientHangsUp
    BY <1>2 DEF ClientHangsUp, wire, history, tasks
  <1>3. CASE LoopReceives
    BY <1>3 DEF LoopReceives, Goto, wire, history
  <1>4. CASE LoopReceiveFails
    BY <1>4 DEF LoopReceiveFails, Raised, client, wire, history
  <1>5. CASE LoopEventsEnd
    BY <1>5 DEF LoopEventsEnd, Goto, client, wire, history
  <1>6. CASE HandleMessage
    BY <1>6 DEF HandleMessage, Handles, client, wire, history, tasks
  <1>7. CASE HandlePing
    BY <1>7 DEF HandlePing, Handles, RawSend, Refused, StateAfter, Write, Busy, Raised,
          Goto, client, wire, history
  <1>8. CASE HandleClose
    BY <1>8 DEF HandleClose, Handles, CloseStream, Write, Busy, Raised, Goto, client,
          wire, history
  <1>9. CASE HandleBad
    BY <1>9 DEF HandleBad, Handles, CloseStream, Busy, Goto, client, wire, history
  <1>10. CASE PongSent
    BY <1>10 DEF PongSent, Delivered, Goto, client, history
  <1>11. CASE ReplySent
    BY <1>11 DEF ReplySent, Delivered, CloseStream, Goto, client, history
  <1>12. CASE Ping
    BY <1>12 DEF Ping, RawSend, Refused, StateAfter, Write, Busy, Raised, Goto, client,
          wire, history
  <1>13. CASE PingSent
    BY <1>13 DEF PingSent, Delivered, Goto, client, history
  <1>14. CASE AppConnect
    BY <1>14 DEF AppConnect, client, wire, history, tasks
  <1>15. CASE AppReceive
    BY <1>15 DEF AppReceive, Goto, client, wire, history
  <1>16. CASE AppAccept
    BY <1>16 DEF AppAccept, Write, Busy, Raised, Goto, client, wire, history
  <1>17. CASE AppSend
    BY <1>17 DEF AppSend, RawSend, Refused, StateAfter, Write, Busy, Raised, Goto,
          client, wire
  <1>18. CASE AppClose
    BY <1>18 DEF AppClose, RawSend, Refused, StateAfter, Write, Busy, Raised, Goto,
          client, wire
  <1>19. CASE AppReturns
    BY <1>19 DEF AppReturns, Goto, client, wire, history
  <1>20. CASE AppReceives
    BY <1>20 DEF AppReceives, Goto, client, wire, history
  <1>21. CASE Accepted
    BY <1>21 DEF Accepted, Delivered, client, history
  <1>22. CASE Sent
    BY <1>22 DEF Sent, Delivered, Goto, client, history
  <1>23. CASE CloseSent
    BY <1>23 DEF CloseSent, Delivered, RawSend, Refused, StateAfter, Write, Busy,
          Raised, Goto, client, history
  <1>24. ASSUME NEW t \in Tasks, WriteFails(t) PROVE (Handshake /\ HandshakeFirst)'
    BY <1>24 DEF WriteFails, Raised, Goto, client, wire, history
  <1>25. CASE UNCHANGED vars
    BY <1>25 DEF vars, client, wire, history, tasks
  <1>. QED
    BY <1>1, <1>2, <1>3, <1>4, <1>5, <1>6, <1>7, <1>8, <1>9, <1>10, <1>11, <1>12, <1>13,
          <1>14, <1>15, <1>16, <1>17, <1>18, <1>19, <1>20, <1>21, <1>22, <1>23, <1>24,
          <1>25 DEF Next, Client, Loop, PingPong, App, AppGoesOn, Tasks

(***************************************************************************)
(* A bad frame under way is the last of the client.                        *)
(***************************************************************************)
LEMMA LastStep == IInv /\ [Next]_vars => LastFrame'
  <1>. SUFFICES ASSUME IInv, [Next]_vars PROVE LastFrame'
    OBVIOUS
  <1>. USE DEF IInv, TypeOK, LastFrame, Bad, Frames
  <1>1. ASSUME UNCHANGED <<inbox, batch, last>> PROVE LastFrame'
    BY <1>1
  <1>2. ASSUME NEW f \in Frames, ClientSends(f) PROVE LastFrame'
    BY <1>2, AppendProperties DEF ClientSends, wire, history, tasks
  <1>3. CASE LoopReceives
    BY <1>3 DEF LoopReceives, Goto, wire, history
  <1>4. CASE HandleMessage
    BY <1>4 DEF HandleMessage, Handles, client, wire, history, tasks
  <1>5. CASE HandlePing
    BY <1>5 DEF HandlePing, Handles, RawSend, Refused, StateAfter, Write, Busy, Raised,
          Goto, client, wire, history
  <1>6. CASE HandleClose
    BY <1>6 DEF HandleClose, Handles, CloseStream, Write, Busy, Raised, Goto, client,
          wire, history
  <1>7. CASE HandleBad
    BY <1>7 DEF HandleBad, Handles, CloseStream, Busy, Goto, client, wire, history
  <1>8. CASE ClientHangsUp
    BY <1>1, <1>8 DEF ClientHangsUp, wire, history, tasks
  <1>9. CASE LoopReceiveFails
    BY <1>1, <1>9 DEF LoopReceiveFails, Raised, client, wire, history
  <1>10. CASE LoopEventsEnd \/ AppReceive \/ AppReturns \/ AppReceives
    BY <1>1, <1>10 DEF LoopEventsEnd, AppReceive, AppReturns, AppReceives, Goto, client,
          wire, history
  <1>11. CASE PongSent \/ PingSent \/ Sent
    BY <1>1, <1>11 DEF PongSent, PingSent, Sent, Delivered, Goto, client, history
  <1>12. CASE ReplySent
    BY <1>1, <1>12 DEF ReplySent, Delivered, CloseStream, Goto, client, history
  <1>13. CASE Ping
    BY <1>1, <1>13 DEF Ping, RawSend, Refused, StateAfter, Write, Busy, Raised, Goto,
          client, wire, history
  <1>14. CASE AppConnect
    BY <1>1, <1>14 DEF AppConnect, client, wire, history, tasks
  <1>15. CASE AppAccept
    BY <1>1, <1>15 DEF AppAccept, Write, Busy, Raised, Goto, client, wire, history
  <1>16. CASE AppSend \/ AppClose
    BY <1>1, <1>16 DEF AppSend, AppClose, RawSend, Refused, StateAfter, Write, Busy,
          Raised, Goto, client, wire
  <1>17. CASE Accepted
    BY <1>1, <1>17 DEF Accepted, Delivered, client, history
  <1>18. CASE CloseSent
    BY <1>1, <1>18 DEF CloseSent, Delivered, RawSend, Refused, StateAfter, Write, Busy,
          Raised, Goto, client, history
  <1>19. ASSUME NEW t \in Tasks, WriteFails(t) PROVE LastFrame'
    BY <1>1, <1>19 DEF WriteFails, Raised, Goto, client, wire, history
  <1>20. CASE UNCHANGED vars
    BY <1>1, <1>20 DEF vars, client, wire, history, tasks
  <1>. QED
    BY <1>2, <1>3, <1>4, <1>5, <1>6, <1>7, <1>8, <1>9, <1>10, <1>11, <1>12, <1>13,
          <1>14, <1>15, <1>16, <1>17, <1>18, <1>19, <1>20 DEF Next, Client, Loop,
          PingPong, App, AppGoesOn, Tasks

(***************************************************************************)
(* The close frame is sent once and nothing but a late 101 follows it; an  *)
(* exception or the end of the stream has one of its reasons.              *)
(***************************************************************************)
LEMMA CloseStep == IInv /\ [Next]_vars => (CloseFrame /\ ClosedInOrder /\ EscapeReasons)'
  <1>. SUFFICES ASSUME IInv, [Next]_vars PROVE (CloseFrame /\ ClosedInOrder /\
          EscapeReasons)'
    OBVIOUS
  <1>. USE DEF IInv, TypeOK, Places, OneWriter, Handshake, LastFrame, Bad, CloseFrame,
          Excused, ClosedInOrder, EscapeReasons, Tasks, Writing
  <1>1. ASSUME NEW f \in Frames, ClientSends(f) PROVE (CloseFrame /\ ClosedInOrder /\ EscapeReasons)'
    BY <1>1, AppendProperties DEF ClientSends, wire, history, tasks
  <1>2. CASE ClientHangsUp
    BY <1>2 DEF ClientHangsUp, wire, history, tasks
  <1>3. CASE LoopReceives
    BY <1>3 DEF LoopReceives, Goto, wire, history
  <1>4. CASE LoopReceiveFails
    BY <1>4 DEF LoopReceiveFails, Raised, client, wire, history
  <1>5. CASE LoopEventsEnd
    BY <1>5 DEF LoopEventsEnd, Goto, client, wire, history
  <1>6. CASE HandleMessage
    BY <1>6 DEF HandleMessage, Handles, client, wire, history, tasks
  <1>7. CASE HandlePing
    BY <1>7 DEF HandlePing, Handles, RawSend, Refused, StateAfter, Write, Busy, Raised,
          Goto, client, wire, history
  <1>8. CASE HandleClose
    BY <1>8 DEF HandleClose, Handles, CloseStream, Write, Busy, Raised, Goto, client,
          wire, history
  <1>9. CASE HandleBad
    BY <1>9 DEF HandleBad, Handles, CloseStream, Busy, Goto, client, wire, history
  <1>10. CASE PongSent
    BY <1>10 DEF PongSent, Delivered, Goto, client, history
  <1>11. CASE ReplySent
    BY <1>11 DEF ReplySent, Delivered, CloseStream, Goto, client, history
  <1>12. CASE Ping
    BY <1>12 DEF Ping, RawSend, Refused, StateAfter, Write, Busy, Raised, Goto, client,
          wire, history
  <1>13. CASE PingSent
    BY <1>13 DEF PingSent, Delivered, Goto, client, history
  <1>14. CASE AppConnect
    BY <1>14 DEF AppConnect, client, wire, history, tasks
  <1>15. CASE AppReceive
    BY <1>15 DEF AppReceive, Goto, client, wire, history
  <1>16. CASE AppAccept
    BY <1>16 DEF AppAccept, Write, Busy, Raised, Goto, client, wire, history
  <1>17. CASE AppSend
    BY <1>17 DEF AppSend, RawSend, Refused, StateAfter, Write, Busy, Raised, Goto,
          client, wire
  <1>18. CASE AppClose
    <2>1. CASE ws = "OPEN" /\ Busy
      BY <1>18, <2>1 DEF AppClose, RawSend, Refused, StateAfter, Write, Busy, Raised, Goto, client, wire
    <2>2. CASE ws = "OPEN" /\ ~Busy
      <3>1. /\ ws' = "LOCAL_CLOSING" /\ pc' = [pc EXCEPT !["app"] = "closing"]
            /\ UNCHANGED <<client, batch, aclosed, wire, overlapped, escaped>>
            /\ closing' /\ (misused => misused') /\ pc["app"] = "app"
        BY <1>18, <2>2 DEF AppClose, RawSend, Refused, StateAfter, Write, Goto
      <3>2. \A t \in Tasks : pc[t] \notin Writing
        BY <2>2 DEF Busy
      <3>3. CloseFrame'
        BY <2>2, <3>1, <3>2 DEF client, wire
      <3>. QED  BY <3>1, <3>3 DEF client, wire
    <2>3. CASE ws # "OPEN"
      BY <1>18, <2>3 DEF AppClose, RawSend, Refused, Raised, Goto, client, wire
    <2>. QED  BY <2>1, <2>2, <2>3
  <1>19. CASE AppReturns
    BY <1>19 DEF AppReturns, Goto, client, wire, history
  <1>20. CASE AppReceives
    BY <1>20 DEF AppReceives, Goto, client, wire, history
  <1>21. CASE Accepted
    BY <1>21 DEF Accepted, Delivered, client, history
  <1>22. CASE Sent
    BY <1>22 DEF Sent, Delivered, Goto, client, history
  <1>23. CASE CloseSent
    BY <1>23 DEF CloseSent, Delivered, RawSend, Refused, StateAfter, Write, Busy,
          Raised, Goto, client, history
  <1>24. ASSUME NEW t \in Tasks, WriteFails(t) PROVE (CloseFrame /\ ClosedInOrder /\ EscapeReasons)'
    BY <1>24 DEF WriteFails, Raised, Goto, client, wire, history
  <1>25. CASE UNCHANGED vars
    BY <1>25 DEF vars, client, wire, history, tasks
  <1>. QED
    BY <1>1, <1>2, <1>3, <1>4, <1>5, <1>6, <1>7, <1>8, <1>9, <1>10, <1>11, <1>12, <1>13,
          <1>14, <1>15, <1>16, <1>17, <1>18, <1>19, <1>20, <1>21, <1>22, <1>23, <1>24,
          <1>25 DEF Next, Client, Loop, PingPong, App, AppGoesOn, Tasks

(***************************************************************************)
(* The invariant holds of every behaviour, for any number of frames.       *)
(***************************************************************************)
THEOREM WebSocketInvariant == Spec => []IInv
  <1>1. Init => IInv
    <2>. SUFFICES ASSUME Init PROVE IInv
      OBVIOUS
    <2>. USE FramesAssumption DEF Init, ConnectionInit, CycleInit, Tasks, Writing
    <2>1. TypeOK
      <3>1. pc \in [Tasks -> {"receive", "app", "none"}]
        OBVIOUS
      <3>2. pc \in [Tasks -> {"none", "receive", "events", "app", "read", "sleep", "over"}
                           \cup Writing]
        BY <3>1
      <3>3. <<>> \in Seq(Frames)
        BY EmptySeq
      <3>4. /\ {hung, switched, aclosed, connect} \subseteq BOOLEAN
            /\ {upgraded, late, early, misused, closing, overlapped, escaped} \subseteq BOOLEAN
        OBVIOUS
      <3>5. /\ frames \in 0 .. MaxFrames /\ size \in Nat /\ closes \in Nat
            /\ last \in {"none", "close", "bad"} /\ ws \in {"OPEN", "LOCAL_CLOSING", "CLOSED"}
            /\ inbox = <<>> /\ batch = <<>>
        OBVIOUS
      <3>. HIDE DEF Init, ConnectionInit, CycleInit
      <3>. QED  BY <3>2, <3>3, <3>4, <3>5 DEF TypeOK
    <2>2. Places /\ OneWriter /\ Handshake /\ HandshakeFirst
      BY DEF Places, OneWriter, Handshake, HandshakeFirst
    <2>3. LastFrame
      BY DEF LastFrame, Bad
    <2>4. CloseFrame /\ ClosedInOrder /\ EscapeReasons
      BY DEF CloseFrame, ClosedInOrder, EscapeReasons
    <2>. QED  BY <2>1, <2>2, <2>3, <2>4 DEF IInv
  <1>2. IInv /\ [Next]_vars => IInv'
    BY TypeStep, PlacesStep, WriterStep, HandshakeStep, LastStep, CloseStep DEF IInv
  <1>. QED  BY <1>1, <1>2, PTL DEF Spec

(***************************************************************************)
(* The variables keep their types.                                         *)
(***************************************************************************)
THEOREM WebSocketType == Spec => []TypeOK
  <1>1. IInv => TypeOK
    BY DEF IInv
  <1>. QED  BY <1>1, WebSocketInvariant, PTL

(***************************************************************************)
(* No frame goes out before the 101 response unless the application sends  *)
(* one: neither ping_pong nor an answer of the loop.                       *)
(***************************************************************************)
THEOREM HandshakeHolds == Spec => []HandshakeFirst
  <1>1. IInv => HandshakeFirst
    BY DEF IInv
  <1>. QED  BY <1>1, WebSocketInvariant, PTL

(***************************************************************************)
(* There is one close frame, nothing but a late 101 follows it, and a      *)
(* stream is closed in answer to a close only after ours has gone out.     *)
(***************************************************************************)
THEOREM CloseHolds == Spec => []ClosedInOrder
  <1>1. IInv => ClosedInOrder
    BY DEF IInv
  <1>. QED  BY <1>1, WebSocketInvariant, PTL

(***************************************************************************)
(* An exception leaves the connection's task group only for one of the     *)
(* reasons there are: never for a client that closes first.                *)
(***************************************************************************)
THEOREM EscapeHolds == Spec => []EscapeReasons
  <1>1. IInv => EscapeReasons
    BY DEF IInv
  <1>. QED  BY <1>1, WebSocketInvariant, PTL
=============================================================================
