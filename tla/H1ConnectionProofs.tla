-------------------------- MODULE H1ConnectionProofs --------------------------
(***************************************************************************)
(* Theorems about H1Connection, for any number of requests and chunks and  *)
(* applications that misuse send or do not.                                *)
(***************************************************************************)
EXTENDS H1Connection, SequenceTheorems, TLAPS

(***************************************************************************)
(* The inductive invariant.  EscapeOnlyIncomplete needs to know that h11's *)
(* state ERROR comes only from a fault of the application (Counts), hence  *)
(* where a well-behaved application stands (Cycle); MustCloseCloses needs to*)
(* know that nothing is sent on a stream closed here (ClosedHere).         *)
(***************************************************************************)
\* the application runs, and the body of its request has not been read
InApp == pc \in {"app", "app_final", "app_receive"}

\* The request h11 is at and the response it is at go together.
Sides ==
    /\ ours = "IDLE" <=> theirs = "IDLE"
    /\ theirs = "DONE" => ours \in {"SEND_RESPONSE", "SEND_BODY", "DONE"}
    /\ ours = "MUST_CLOSE" => \/ theirs \in {"MUST_CLOSE", "CLOSED"}
                              \/ theirs = "SEND_BODY" /\ ~keep
    /\ InApp => theirs = "SEND_BODY"

\* The counters follow the state of the server's side; ERROR means a fault, or
\* that h11 refused ConnectionClosed while a response was due.
Counts ==
    /\ ours \in {"IDLE", "DONE", "MUST_CLOSE", "CLOSED"} => finished = asked
    /\ ours \in {"SEND_RESPONSE", "SEND_BODY"} => finished + 1 = asked
    /\ ours = "SEND_RESPONSE" => begun = finished
    /\ ours = "SEND_BODY" => begun = asked
    /\ ours = "ERROR" => faults # {} \/ (pc = "escaped" /\ finished < asked)
    /\ asked <= finished + 1

\* What the application has done of its response is what h11 has seen of it.
Cycle ==
    InApp =>
        /\ ~sent_headers <=> ours = "SEND_RESPONSE"
        /\ sent_headers /\ ~response_completed <=> ours = "SEND_BODY"
        /\ response_completed => ours \in {"DONE", "CLOSED"}
        /\ pc = "app_final" => sent_headers
        /\ response_completed /\ faults = {} => pc = "app_final" \/ disconnect

\* After the stream is closed here, no response can begin or go on.
ClosedHere == aclosed => ours \in {"CLOSED", "ERROR"} \/ pc = "ended"

\* the invariants that the theorems are about
Safety == EscapeOnlyIncomplete /\ EndedClosed /\ MustCloseCloses

IInv == TypeOK /\ Sides /\ Counts /\ Cycle /\ ClosedHere /\ Safety

(***************************************************************************)
(* Every step keeps the types.  That responses begun do not outnumber      *)
(* requests needs the rest of the invariant.                               *)
(***************************************************************************)
LEMMA TypeStep == IInv /\ [Next]_vars => TypeOK'
  <1>. SUFFICES ASSUME IInv, [Next]_vars PROVE TypeOK'
    OBVIOUS
  <1>. USE BoundsAssumption DEF IInv, TypeOK, AfterResponse, AfterData, AfterEnd,
           AfterClosed, Tokens, H11Client, H11Server, Over
  <1>1. CASE ClientRequest
    BY <1>1, AppendProperties DEF ClientRequest, Sends, http, request, reader, history
  <1>2. CASE ClientData
    BY <1>2, AppendProperties DEF ClientData, Sends, http, request, reader, history
  <1>3. CASE ClientEom
    BY <1>3, AppendProperties DEF ClientEom, Sends, http, request, reader, history
  <1>4. CASE ClientBad
    BY <1>4, AppendProperties DEF ClientBad, Sends, http, request, reader, history
  <1>5. CASE ClientHangup
    BY <1>5 DEF ClientHangup, client, http, request, reader, history
  <1>6. CASE AppStart
    <2>1. faults' \subseteq {"misuse", "empty_chunk"}
      BY <1>6 DEF AppStart, Misused
    <2>2. /\ pc' \in {"app", "next"} /\ disconnect' \in BOOLEAN /\ sent_headers' \in BOOLEAN
          /\ ours' \in H11Server /\ keep' \in BOOLEAN
      BY <1>6 DEF AppStart, Raises, LosesStream, HandlerReturns
    <2>3. asked' = asked /\ begun' \in 0 .. asked /\ finished' \in 0 .. begun'
      <3>1. CASE begun' = begun
        BY <1>6, <3>1 DEF AppStart
      <3>2. CASE ~sent_headers /\ begun' = begun + 1
        BY <1>6, <3>2 DEF AppStart, Cycle, InApp, Counts
      <3>. QED  BY <1>6, <3>1, <3>2 DEF AppStart
    <2>. QED
      BY <1>6, <2>1, <2>2, <2>3 DEF AppStart, client, reader
  <1>7. ASSUME NEW more \in BOOLEAN, AppChunk(more) PROVE TypeOK'
    <2>1. faults' \subseteq {"misuse", "empty_chunk"}
      BY <1>7 DEF AppChunk, Misused
    <2>2. pc' \in {"app", "app_final", "next"} /\ disconnect' \in BOOLEAN /\ ours' \in H11Server
      BY <1>7 DEF AppChunk, Raises, LosesStream, HandlerReturns
    <2>. QED
      BY <1>7, <2>1, <2>2 DEF AppChunk, client, reader
  <1>8. ASSUME NEW more \in BOOLEAN, AppEmptyChunk(more) PROVE TypeOK'
    BY <1>8 DEF Cycle, InApp, Counts, AppEmptyChunk, EndResponse, SendEnd,
                MaybeNextCycle, Raises, LosesStream,
                HandlerReturns, Delivered, Lost, client, reader
  <1>9. CASE AppFinal
    BY <1>9 DEF Cycle, InApp, Counts, AppFinal, EndResponse, SendEnd, MaybeNextCycle,
                Raises, LosesStream,
                HandlerReturns, Delivered, Lost, client, reader
  <1>10. CASE AppReceive
    BY <1>10 DEF AppReceive, client, http, request, reader, history
  <1>11. CASE AppReturn
    BY <1>11 DEF AppReturn, HandlerReturns, client, http, request, reader, history
  <1>12. buffer # <<>> => Tail(buffer) \in Seq(Tokens)
    BY HeadTailProperties
  <1>13. CASE Request
    <2>1. keep' \in BOOLEAN
      BY <1>13 DEF Request
    <2>2. /\ asked' \in Nat /\ begun' \in 0 .. asked' /\ finished' \in 0 .. begun' /\ size' \in Nat
          /\ theirs' \in H11Client /\ ours' \in H11Server /\ pc' = "app"
          /\ {sent_headers', response_completed', eof', disconnect'} \subseteq BOOLEAN
      <3>1. asked' = asked + 1 /\ begun' = begun /\ finished' = finished
        BY <1>13 DEF Request
      <3>2. /\ theirs' = "SEND_BODY" /\ ours' = "SEND_RESPONSE" /\ pc' = "app"
            /\ sent_headers' = FALSE /\ response_completed' = FALSE /\ disconnect' = FALSE
            /\ eof' = FALSE /\ size' = 0
        BY <1>13 DEF Request, NewRequest
      <3>3. begun' \in 0 .. asked' /\ finished' \in 0 .. begun'
        BY <3>1
      <3>4. {sent_headers', response_completed', eof', disconnect'} \subseteq BOOLEAN
        BY <3>2
      <3>. QED  BY <3>1, <3>2, <3>3, <3>4
    <2>3. buffer' \in Seq(Tokens)
      BY <1>12, <1>13 DEF Request, Parses
    <2>. QED
      BY <1>13, <2>1, <2>2, <2>3 DEF Request, client
  <1>14. CASE Data
    BY <1>12, <1>14 DEF Data, Parses, client, history
  <1>15. CASE EndOfMessage
    BY <1>12, <1>15 DEF EndOfMessage, Parses, client, history
  <1>16. CASE Paused
    BY <1>16 DEF Paused, client, request, reader, history
  <1>17. CASE ProtocolError
    BY <1>17 DEF ProtocolError, client, request, reader, history
  <1>18. CASE NeedData
    BY <1>18 DEF NeedData, client, http, request, reader, history
  <1>19. CASE Receive
    BY <1>19, SubSeqProperties DEF Receive, client, request, reader, history
  <1>20. CASE ReceiveBlank
    BY <1>20 DEF ReceiveBlank, client, request, reader, history
  <1>21. CASE ConnectionClosed
    BY <1>21 DEF ConnectionClosed, client, http, request, reader, history
  <1>22. CASE ReceiveFails
    BY <1>22 DEF ReceiveFails, client, http, request, reader, history
  <1>23. CASE UNCHANGED vars
    BY <1>23 DEF vars, client, http, request, reader, history
  <1>. QED
    BY <1>1, <1>2, <1>3, <1>4, <1>5, <1>6, <1>7, <1>8, <1>9, <1>10, <1>11, <1>13,
       <1>14, <1>15,
       <1>16, <1>17, <1>18, <1>19, <1>20, <1>21, <1>22, <1>23 DEF Next, Client, App, Loop

(***************************************************************************)
(* Every step keeps the rest of the invariant: h11's states and the cycle's*)
(* attributes change together in every branch of the code.                 *)
(***************************************************************************)
LEMMA InvStep == IInv /\ [Next]_vars => (Sides /\ Counts /\ Cycle /\ ClosedHere /\ Safety)'
  <1>. SUFFICES ASSUME IInv, [Next]_vars PROVE (Sides /\ Counts /\ Cycle /\ ClosedHere /\ Safety)'
    OBVIOUS
  <1>. USE DEF IInv, TypeOK, H11Client, H11Server, Sides, Counts, Cycle, ClosedHere,
           InApp, Safety,
           EscapeOnlyIncomplete, EndedClosed, MustCloseCloses,
           AfterResponse, AfterData, AfterEnd, AfterClosed
  <1>1. CASE Client
    BY <1>1 DEF Client, ClientRequest, ClientData, ClientEom, ClientBad, ClientHangup,
                Sends,
                client, http, request, reader, history
  <1>2. CASE AppStart
    BY <1>2 DEF AppStart, Misused, Raises, LosesStream, HandlerReturns, Delivered,
                Lost, client, reader
  <1>3. ASSUME NEW more \in BOOLEAN, AppChunk(more)
        PROVE  (Sides /\ Counts /\ Cycle /\ ClosedHere /\ Safety)'
    BY <1>3 DEF AppChunk, Misused, Raises, LosesStream, HandlerReturns, Delivered,
                Lost, client, reader
  <1>4. ASSUME NEW more \in BOOLEAN, AppEmptyChunk(more)
        PROVE  (Sides /\ Counts /\ Cycle /\ ClosedHere /\ Safety)'
    BY <1>4 DEF AppEmptyChunk, EndResponse, SendEnd, MaybeNextCycle, Raises,
                LosesStream,
                HandlerReturns, Delivered, Lost, client, reader
  <1>5. CASE AppFinal
    BY <1>5 DEF AppFinal, EndResponse, SendEnd, MaybeNextCycle, Raises, LosesStream,
                HandlerReturns, Delivered, Lost, client, reader
  <1>6. CASE AppReceive
    BY <1>6 DEF AppReceive, client, http, request, reader, history
  <1>7. CASE AppReturn
    BY <1>7 DEF AppReturn, HandlerReturns, client, http, request, reader, history
  <1>8. CASE Request
    BY <1>8 DEF Request, Parses, NewRequest, client, reader
  <1>9. CASE Data
    BY <1>9 DEF Data, Parses, client, history
  <1>10. CASE EndOfMessage
    BY <1>10 DEF EndOfMessage, Parses, client, history
  <1>11. CASE Paused
    BY <1>11 DEF Paused, client, request, reader, history
  <1>12. CASE ProtocolError
    BY <1>12 DEF ProtocolError, Refuses, client, request, reader, history
  <1>13. CASE NeedData
    BY <1>13 DEF NeedData, client, http, request, reader, history
  <1>14. CASE Receive
    BY <1>14 DEF Receive, client, request, reader, history
  <1>15. CASE ReceiveBlank
    BY <1>15 DEF ReceiveBlank, client, request, reader, history
  <1>16. CASE ConnectionClosed
    BY <1>16 DEF ConnectionClosed, client, http, request, reader, history
  <1>17. CASE ReceiveFails
    BY <1>17 DEF ReceiveFails, client, http, request, reader, history
  <1>18. CASE UNCHANGED vars
    BY <1>18 DEF vars, client, http, request, reader, history
  <1>. QED
    BY <1>1, <1>2, <1>3, <1>4, <1>5, <1>6, <1>7, <1>8, <1>9, <1>10, <1>11, <1>12,
       <1>13, <1>14,
       <1>15, <1>16, <1>17, <1>18 DEF Next, App, Loop

(***************************************************************************)
(* The invariant holds in every run of the connection's task.              *)
(***************************************************************************)
THEOREM H1Invariant == Spec => []IInv
  <1>1. Init => IInv
    <2>1. Init => TypeOK
      <3>1. <<>> \in Seq(Tokens)
        BY EmptySeq
      <3>2. Init => {hung, aclosed, keep, sent_headers, response_completed, eof, disconnect}
                        \subseteq BOOLEAN
        BY DEF Init
      <3>3. Init => /\ sent \in 0 .. MaxRequests /\ chunks \in 0 .. MaxData
                    /\ asked \in Nat /\ begun \in 0 .. asked /\ finished \in 0 .. begun /\ size \in Nat
        BY BoundsAssumption DEF Init
      <3>. QED  BY <3>1, <3>2, <3>3 DEF Init, TypeOK, H11Client, H11Server
    <2>2. Init => Sides /\ Counts /\ Cycle /\ ClosedHere /\ Safety
      BY DEF Init, Sides, Counts, Cycle, ClosedHere, InApp, Safety,
             EscapeOnlyIncomplete, EndedClosed, MustCloseCloses
    <2>. QED  BY <2>1, <2>2 DEF IInv
  <1>2. IInv /\ [Next]_vars => IInv'
    BY TypeStep, InvStep DEF IInv
  <1>. QED
    BY <1>1, <1>2, PTL DEF Spec

(***************************************************************************)
(* The attributes of the connection, its request and h11 keep their types; *)
(* no more responses begin than requests came, nor end than began.         *)
(***************************************************************************)
THEOREM H1Type == Spec => []TypeOK
  <1>1. IInv => TypeOK
    BY DEF IInv
  <1>. QED
    BY <1>1, H1Invariant, PTL

(***************************************************************************)
(* No exception leaves receive_data for the listener's task group unless   *)
(* a response is incomplete or the application broke h11's state.          *)
(***************************************************************************)
THEOREM EscapeHolds == Spec => []EscapeOnlyIncomplete
  <1>1. IInv => EscapeOnlyIncomplete
    BY DEF IInv, Safety
  <1>. QED
    BY <1>1, H1Invariant, PTL

(***************************************************************************)
(* next_event ends only with the stream closed or the client gone.         *)
(***************************************************************************)
THEOREM EndedClosedHolds == Spec => []EndedClosed
  <1>1. IInv => EndedClosed
    BY DEF IInv, Safety
  <1>. QED
    BY <1>1, H1Invariant, PTL

(***************************************************************************)
(* maybe_next_cycle closes every connection that h11 says must close.      *)
(***************************************************************************)
THEOREM MustCloseHolds == Spec => []MustCloseCloses
  <1>1. IInv => MustCloseCloses
    BY DEF IInv, Safety
  <1>. QED
    BY <1>1, H1Invariant, PTL

(***************************************************************************)
(* A connection is closed when h11 says so, and before its loop ends.      *)
(***************************************************************************)
THEOREM ClosesInTimeHolds == Spec => []ClosesInTime
  <1>1. EndedClosed /\ MustCloseCloses => ClosesInTime
    BY DEF ClosesInTime
  <1>. QED  BY <1>1, EndedClosedHolds, MustCloseHolds, PTL

(***************************************************************************)
(* A step begins a request, begins or ends a response, or is no step of    *)
(* RequestResponse.                                                        *)
(***************************************************************************)
LEMMA ResponseStep ==
    IInv /\ [Next]_vars => [Responses!Next]_<<asked, begun, finished>>
  <1>. SUFFICES ASSUME IInv, [Next]_vars
                PROVE  Responses!Next \/ UNCHANGED <<asked, begun, finished>>
    OBVIOUS
  <1>. USE DEF IInv, TypeOK, Sides, Counts, Cycle, InApp,
           Responses!Next, Responses!Request, Responses!Begin, Responses!Finish
  <1>1. CASE Request
    BY <1>1 DEF Request, Parses
  <1>2. CASE AppStart
    <2>1. CASE sent_headers
      BY <1>2, <2>1 DEF AppStart
    <2>2. CASE ~sent_headers
      <3>1. begun < asked
        BY <1>2, <2>2 DEF AppStart
      <3>2. begun' = begun + 1 /\ UNCHANGED <<asked, finished>>
        BY <1>2, <2>2 DEF AppStart
      <3>. QED  BY <3>1, <3>2
    <2>. QED  BY <2>1, <2>2
  <1>3. ASSUME NEW more \in BOOLEAN, AppEmptyChunk(more)
        PROVE  Responses!Finish \/ UNCHANGED <<asked, begun, finished>>
    BY <1>3 DEF AppEmptyChunk, EndResponse, SendEnd, AfterEnd
  <1>4. CASE AppFinal
    BY <1>4 DEF AppFinal, EndResponse, SendEnd, AfterEnd
  <1>5. ASSUME NEW more \in BOOLEAN, AppChunk(more)
        PROVE  UNCHANGED <<asked, begun, finished>>
    BY <1>5 DEF AppChunk
  <1>6. CASE Client \/ AppReceive \/ AppReturn
    BY <1>6 DEF Client, ClientRequest, ClientData, ClientEom, ClientBad, ClientHangup,
                Sends,
                AppReceive, AppReturn, history
  <1>7. CASE Data \/ EndOfMessage \/ Paused \/ ProtocolError \/ NeedData
    BY <1>7 DEF Data, EndOfMessage, Paused, ProtocolError, NeedData, history
  <1>8. CASE Receive \/ ReceiveBlank \/ ConnectionClosed \/ ReceiveFails \/ UNCHANGED vars
    BY <1>8 DEF Receive, ReceiveBlank, ConnectionClosed, ReceiveFails, vars, history
  <1>. QED
    BY <1>1, <1>2, <1>3, <1>4, <1>5, <1>6, <1>7, <1>8 DEF Next, App, Loop

(***************************************************************************)
(* However requests are pipelined and send is misused, HTTP/1 answers one  *)
(* request after the other, and each once.                                 *)
(***************************************************************************)
THEOREM ResponsesRefined == Spec => ResponsesSpec
  <1>1. Init => Responses!Init
    BY DEF Init, Responses!Init
  <1>. QED
    BY <1>1, ResponseStep, H1Invariant, PTL DEF Spec, ResponsesSpec, Responses!Spec
=============================================================================
