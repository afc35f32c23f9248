--------------------------- MODULE ConnectionSetup ---------------------------
(***************************************************************************)
(* From an accepted socket to its handler: the PROXY protocol listeners     *)
(* (proxy.py), the TLS listener (tls.py) and the choice between HTTP/1 and  *)
(* HTTP/2 (auto.py), which all peek at the first bytes through a            *)
(* BufferedByteStream (abc.py) and wrap it in another one.                  *)
(*                                                                          *)
(* A byte is known by its place on the wire, a chunk is the interval lo..hi *)
(* of its places (hi = lo - 1: the empty chunk).  Only the innermost        *)
(* stream waits, for the socket.  A wrapped stream is never peeked at       *)
(* again, so all it holds is, in the order it will serve it, the head of    *)
(* `below'; the tail of `below' is what the transport has received.         *)
(* Lengths are constants: what matters is where chunks are cut.             *)
(***************************************************************************)
EXTENDS Naturals, Sequences, Functions

CONSTANTS V1Magic, V1Line,          \* `PROXY ', and the line up to its separator
          V2Magic, V2Address,       \* the signature, and the address block
          V2Families, V2Length,     \* the bytes between: version, kind; length
          HelloHead, HelloFields,   \* the ClientHello as auto_tls_wrap peeks at it
          Preface,                  \* the first bytes of an HTTP/2 connection
          PayloadSizes,             \* lengths of what follows the header
          ChunkSizes,               \* sizes of the chunks the transport delivers
          MaxReceive                \* default max_bytes of receive and pre_receive

ASSUME LengthsAssumption ==
    /\ {V1Magic, V1Line, V2Magic, V2Address, V2Families, V2Length, HelloHead, Preface}
           \subseteq Nat \ {0}
    /\ V1Magic < V1Line
    /\ V1Magic <= Preface /\ V2Magic <= Preface
    /\ HelloFields \in Seq(Nat) /\ HelloFields # <<>>
    /\ PayloadSizes \subseteq Nat
    /\ MaxReceive \in Nat \ {0}
    /\ ChunkSizes \subseteq 1 .. MaxReceive

VARIABLES wire,          \* what the client will send: header, payload, length
          listener,      \* how the server is set up: PROXY listener, TLS or not
          arrived,       \* bytes the transport has received
          closed,        \* the client has closed its side
          below,         \* chunks the wrapped streams and the transport hold
          pre_buffers, pre_receives, buffers,   \* of the outermost stream
          pc,            \* the read the connection's task is in
          field,         \* tls.py: how many fields of the hello have been peeked at
          buf,           \* the local `buf' of a read: the bytes it has so far
          addressed,     \* the stream carries the addresses of a PROXY header
          taken,         \* history: last byte that left the streams
          handed,        \* history: `taken' when the handler got the stream
          blank,         \* history: a receive has returned b''
          told           \* history: a receive has raised EndOfStream

stream == <<below, pre_buffers, pre_receives, buffers>>
setup  == <<wire, listener>>
vars   == <<setup, arrived, closed, stream, pc, field, buf, addressed, taken, handed, blank, told>>

V2Header == V2Magic + V2Families + V2Length + V2Address
HeaderLength(h) == CASE h = "none" -> 0
                     [] h = "v1" -> V1Line
                     [] h \in {"v2", "v2_local"} -> V2Header

Headers  == {"none", "v1", "v2", "v2_local"}
Payloads == {"h1", "h2", "tls"}
Wires == [header : Headers, payload : Payloads, length : PayloadSizes]
Listeners == [proxy : {"none", "v1", "v2", "mixed"}, tls : BOOLEAN]
Total == HeaderLength(wire.header) + wire.length

Chunk == [lo : Nat, hi : Nat]
Empty == [lo |-> 1, hi |-> 0]
Size(c) == c.hi + 1 - c.lo

PeekStages == {"v1_peek", "v2_peek", "tls_peek", "tls_hello", "auto_peek"}
ReadStages == {"v2_magic", "v2_families", "v2_length", "v2_address"}
Handlers   == {"h1", "h2", "handshake"}
Dropped    == {"abandoned", "closed"}
TypeOK ==
    /\ wire \in Wires /\ listener \in Listeners
    /\ arrived \in 0 .. Total /\ taken \in 0 .. arrived /\ handed \in 0 .. taken
    /\ {closed, addressed, blank, told} \subseteq BOOLEAN
    /\ \A q \in {below, pre_buffers, pre_receives, buffers} : q \in Seq(Chunk)
    /\ pc \in PeekStages \cup ReadStages \cup {"v1_line"} \cup Handlers \cup Dropped
    /\ field \in 0 .. Len(HelloFields)
    /\ buf \in Chunk

\* the first stage behind the PROXY listener, and the first of all
AfterProxy == IF listener.tls THEN "tls_peek" ELSE "auto_peek"
FirstStage == CASE listener.proxy = "none" -> AfterProxy
                [] listener.proxy \in {"v1", "mixed"} -> "v1_peek"
                [] listener.proxy = "v2" -> "v2_peek"

Init ==
    /\ wire \in Wires /\ listener \in Listeners
    /\ arrived = 0 /\ closed = FALSE
    /\ below = <<>> /\ pre_buffers = <<>> /\ pre_receives = <<>> /\ buffers = <<>>
    /\ pc = FirstStage /\ field = 0 /\ buf = Empty /\ addressed = FALSE
    /\ taken = 0 /\ handed = 0 /\ blank = FALSE /\ told = FALSE
-----------------------------------------------------------------------------
(***************************************************************************)
(* The client and the transport.                                           *)
(***************************************************************************)
Arrive ==
    /\ ~closed
    /\ \E n \in ChunkSizes :
        /\ arrived + n <= Total
        /\ arrived' = arrived + n
        /\ below' = Append(below, [lo |-> arrived + 1, hi |-> arrived + n])
    /\ UNCHANGED <<setup, closed, pre_buffers, pre_receives, buffers, pc, field, buf,
                   addressed, taken, handed, blank, told>>

Hangup ==
    /\ ~closed /\ closed' = TRUE
    /\ UNCHANGED <<setup, arrived, stream, pc, field, buf, addressed, taken, handed, blank, told>>
-----------------------------------------------------------------------------
(***************************************************************************)
(* BufferedByteStream.                                                     *)
(***************************************************************************)
\* Mutation: a rest of no bytes is kept too, as _read_bytes of tls.py has it.
RestMayBeEmpty(c, n) == IF Size(c) >= n THEN <<[lo |-> c.lo + n, hi |-> c.hi]>> ELSE <<>>

\* _read_bytes: the first `n' bytes, and the rest to put back at the left end
Front(c, n) == IF Size(c) > n THEN [lo |-> c.lo, hi |-> c.lo + n - 1] ELSE c
Rest(c, n) == IF Size(c) > n THEN <<[lo |-> c.lo + n, hi |-> c.hi]>> ELSE <<>>

\* buf + piece
Joined(c, piece) == IF Size(piece) = 0 THEN c
                    ELSE IF Size(c) = 0 THEN piece ELSE [c EXCEPT !.hi = piece.hi]

\* the streams' bytes in the order receive serves them
Unread == pre_receives \o buffers \o below

\* Mutation: what is peeked at is not kept for receive.
PreReceiveForgets(n) ==
    \/ /\ pre_buffers # <<>>
       /\ buf' = Joined(buf, Front(Head(pre_buffers), n))
       /\ pre_buffers' = Rest(Head(pre_buffers), n) \o Tail(pre_buffers)
       /\ UNCHANGED <<below, pre_receives>>
    \/ /\ pre_buffers = <<>> /\ below # <<>>
       /\ buf' = Joined(buf, Front(Head(below), n))
       /\ pre_buffers' = Rest(Head(below), n)
       /\ pre_receives' = Append(pre_receives, Front(Head(below), n))
       /\ below' = Tail(below)

PreReceive(n) ==
    \/ /\ pre_buffers # <<>>
       /\ buf' = Joined(buf, Front(Head(pre_buffers), n))
       /\ pre_buffers' = Rest(Head(pre_buffers), n) \o Tail(pre_buffers)
       /\ UNCHANGED <<below, pre_receives>>
    \/ /\ pre_buffers = <<>> /\ below # <<>>
       /\ buf' = Joined(buf, Front(Head(below), n))
       /\ pre_buffers' = Rest(Head(below), n)
       /\ pre_receives' = Append(pre_receives, Head(below))
       /\ below' = Tail(below)

\* receive removes Front(Head(Unread), n) and puts the rest back where it was
Remove(n) ==
    \/ /\ pre_receives # <<>>
       /\ pre_receives' = Rest(Head(pre_receives), n) \o Tail(pre_receives)
       /\ UNCHANGED <<below, buffers>>
    \/ /\ pre_receives = <<>> /\ buffers # <<>>
       /\ buffers' = Rest(Head(buffers), n) \o Tail(buffers)
       /\ UNCHANGED <<below, pre_receives>>
    \/ /\ pre_receives = <<>> /\ buffers = <<>> /\ below # <<>>
       /\ below' = Tail(below) /\ buffers' = Rest(Head(below), n)
       /\ UNCHANGED pre_receives

\* Wrapping: the new stream starts empty, and what the old one peeked at
\* without receiving it is forgotten with its pre_buffers.
Wrap ==
    /\ below' = Unread
    /\ pre_buffers' = <<>> /\ pre_receives' = <<>> /\ buffers' = <<>>
-----------------------------------------------------------------------------
(***************************************************************************)
(* The stages.  A stage is a read of a number of bytes (pre_readexactly,   *)
(* readexactly), done in steps of one pre_receive or receive, and a        *)
(* finishing step that leads to the next stage.                            *)
(***************************************************************************)
PeekLength == CASE pc = "v1_peek" -> V1Magic
                [] pc = "v2_peek" -> V2Magic
                [] pc = "tls_peek" -> HelloHead
                [] pc = "tls_hello" -> HelloFields[field + 1]
                [] pc = "auto_peek" -> Preface
ReadLength == CASE pc = "v2_magic" -> V2Magic
                [] pc = "v2_families" -> V2Families
                [] pc = "v2_length" -> V2Length
                [] pc = "v2_address" -> V2Address

\* Mutation: pre_readexactly waits for one byte too many.
PeekMissesOne == IF Size(buf) <= PeekLength THEN PeekLength + 1 - Size(buf) ELSE 0
\* how many bytes pre_readexactly, readexactly still need
PeekMissing == IF Size(buf) < PeekLength THEN PeekLength - Size(buf) ELSE 0
ReadMissing == IF Size(buf) < ReadLength THEN ReadLength - Size(buf) ELSE 0

Peek ==
    /\ pc \in PeekStages /\ PeekMissing > 0
    /\ PreReceive(PeekMissing)
    /\ UNCHANGED <<setup, arrived, closed, buffers, pc, field, addressed, taken, handed, blank, told>>

Read ==
    /\ pc \in ReadStages /\ ReadMissing > 0
    /\ Remove(ReadMissing)
    /\ LET piece == Front(Head(Unread), ReadMissing)
       IN buf' = Joined(buf, piece) /\ taken' = piece.hi
    /\ UNCHANGED <<setup, arrived, closed, pre_buffers, pc, field, addressed, handed, blank, told>>

\* readuntil, as long as the separator is not in what it has
Line == Front(Head(Unread), MaxReceive)
Separated == V1Line \in Line.lo .. Line.hi

ReadLine ==
    /\ pc = "v1_line" /\ Unread # <<>> /\ ~Separated
    /\ Remove(MaxReceive)
    /\ taken' = Line.hi
    /\ UNCHANGED <<setup, arrived, closed, pre_buffers, pc, field, buf, addressed, handed, blank, told>>

GoTo(stage) == pc' = stage /\ buf' = Empty

\* Mutation: the next listener wraps the transport, not the stream peeked at.
LeaveBare(stage) ==
    /\ GoTo(stage)
    /\ below' = below /\ pre_buffers' = <<>> /\ pre_receives' = <<>> /\ buffers' = <<>>

\* a listener ends with the stream wrapped for the next one
Leave(stage) == GoTo(stage) /\ Wrap

\* what a stage's exception leads to: the listeners of proxy.py swallow it,
\* the mixed one tries version 2 next, TLS closes, auto() returns None
Raise ==
    \/ /\ pc \in {"v1_peek", "v1_line"} /\ listener.proxy = "mixed" /\ Leave("v2_peek")
    \/ /\ pc \in {"v1_peek", "v1_line"} /\ listener.proxy = "v1" /\ Leave(AfterProxy)
    \/ /\ pc \in ReadStages \cup {"v2_peek"} /\ Leave(AfterProxy)
    \/ /\ pc \in {"tls_peek", "tls_hello"} /\ GoTo("closed") /\ UNCHANGED stream
    \/ /\ pc = "auto_peek" /\ GoTo("abandoned") /\ UNCHANGED stream

\* whether `buf' is what the code compares it with
IsMagic(headers) == wire.header \in headers /\ buf.lo = 1
IsPayload(payload) == wire.payload = payload /\ buf.lo = HeaderLength(wire.header) + 1

(***************************************************************************)
(* v1.  The line still begins with the word PROXY, so a well-formed one has *)
(* six words, or two, where five are unpacked: ValueError; and with five    *)
(* the first is no socket kind.  v1 always raises.                          *)
(***************************************************************************)
V1Peeked ==
    /\ pc = "v1_peek" /\ PeekMissing = 0
    /\ \/ IsMagic({"v1"}) /\ GoTo("v1_line") /\ UNCHANGED stream
       \/ ~IsMagic({"v1"}) /\ Raise
    /\ UNCHANGED <<setup, arrived, closed, field, addressed, taken, handed, blank, told>>

\* Mutation: two bytes are cut off at the separator.
V1LineCut ==
    /\ pc = "v1_line" /\ Unread # <<>> /\ Separated
    /\ below' = (IF Line.hi > V1Line THEN <<[lo |-> V1Line + 2, hi |-> Line.hi]>> ELSE <<>>)
                \o Tail(Unread)
    /\ pre_buffers' = <<>> /\ pre_receives' = <<>> /\ buffers' = <<>>
    /\ taken' = V1Line + 1
    /\ GoTo(IF listener.proxy = "mixed" THEN "v2_peek" ELSE AfterProxy)
    /\ UNCHANGED <<setup, arrived, closed, field, addressed, handed, blank, told>>

\* The rest behind the separator goes to `buffers', also when it is empty;
\* then v1 raises and the listener wraps the stream.
V1LineRead ==
    /\ pc = "v1_line" /\ Unread # <<>> /\ Separated
    /\ LET rest == <<[lo |-> V1Line + 1, hi |-> Line.hi]>>
       IN \/ /\ pre_receives # <<>>
             /\ below' = Tail(pre_receives) \o rest \o buffers \o below
          \/ /\ pre_receives = <<>>
             /\ below' = rest \o Tail(buffers \o below)
    /\ pre_buffers' = <<>> /\ pre_receives' = <<>> /\ buffers' = <<>>
    /\ taken' = V1Line
    /\ GoTo(IF listener.proxy = "mixed" THEN "v2_peek" ELSE AfterProxy)
    /\ UNCHANGED <<setup, arrived, closed, field, addressed, handed, blank, told>>

V2Peeked ==
    /\ pc = "v2_peek" /\ PeekMissing = 0
    /\ \/ IsMagic({"v2", "v2_local"}) /\ GoTo("v2_magic") /\ UNCHANGED stream
       \/ ~IsMagic({"v2", "v2_local"}) /\ Raise
    /\ UNCHANGED <<setup, arrived, closed, field, addressed, taken, handed, blank, told>>

V2PartRead ==
    /\ pc \in {"v2_magic", "v2_families", "v2_length"} /\ ReadMissing = 0
    /\ GoTo(CASE pc = "v2_magic" -> "v2_families"
              [] pc = "v2_families" -> "v2_length"
              [] pc = "v2_length" -> "v2_address")
    /\ UNCHANGED <<setup, arrived, closed, stream, field, addressed, taken, handed, blank, told>>

\* an address family other than IPv4 and IPv6 raises
V2AddressRead ==
    /\ pc = "v2_address" /\ ReadMissing = 0
    /\ addressed' = (wire.header = "v2")
    /\ Leave(AfterProxy)
    /\ UNCHANGED <<setup, arrived, closed, field, taken, handed, blank, told>>

\* TLS: bytes that are no hello pass the stream on; a hello names a version
\* that the ssl module knows
TlsPeeked ==
    /\ pc = "tls_peek" /\ PeekMissing = 0
    /\ \/ IsPayload("tls") /\ GoTo("tls_hello") /\ UNCHANGED stream
       \/ ~IsPayload("tls") /\ Leave("auto_peek")
    /\ UNCHANGED <<setup, arrived, closed, field, addressed, taken, handed, blank, told>>

HelloFieldPeeked ==
    /\ pc = "tls_hello" /\ PeekMissing = 0
    /\ field' = field + 1 /\ buf' = Empty
    /\ pc' = IF field + 1 = Len(HelloFields) THEN "handshake" ELSE pc
    /\ handed' = taken
    /\ UNCHANGED <<setup, arrived, closed, stream, addressed, taken, blank, told>>

AutoPeeked ==
    /\ pc = "auto_peek" /\ PeekMissing = 0
    /\ GoTo(IF IsPayload("h2") THEN "h2" ELSE "h1")
    /\ handed' = taken
    /\ UNCHANGED <<setup, arrived, closed, stream, field, addressed, taken, blank, told>>

\* EndOfStream in a stage; what readexactly and readuntil had goes with it
EndOfStream ==
    /\ closed /\ below = <<>>
    /\ \/ pc \in PeekStages /\ PeekMissing > 0 /\ pre_buffers = <<>>
       \/ pc \in ReadStages /\ ReadMissing > 0 /\ Unread = <<>>
       \/ pc = "v1_line" /\ Unread = <<>>
    /\ Raise
    /\ UNCHANGED <<setup, arrived, closed, field, addressed, taken, handed, blank, told>>

-----------------------------------------------------------------------------
(***************************************************************************)
(* The handler's task reads: H1Connection, H2Connection, or anyio's TLS     *)
(* stream for the handshake.                                                *)
(***************************************************************************)
Receive ==
    /\ pc \in Handlers
    /\ Remove(MaxReceive)
    /\ LET piece == Front(Head(Unread), MaxReceive)
       IN taken' = piece.hi /\ blank' = (blank \/ Size(piece) = 0)
    /\ UNCHANGED <<setup, arrived, closed, pre_buffers, pc, field, buf, addressed, handed, told>>

ReceiveEnd ==
    /\ pc \in Handlers /\ closed /\ Unread = <<>> /\ ~told
    /\ told' = TRUE
    /\ UNCHANGED <<setup, arrived, closed, stream, pc, field, buf, addressed, taken, handed, blank>>

Progress ==
    \/ Peek \/ Read \/ ReadLine
    \/ V1Peeked \/ V1LineRead
    \/ V2Peeked \/ V2PartRead \/ V2AddressRead
    \/ TlsPeeked \/ HelloFieldPeeked \/ AutoPeeked
    \/ EndOfStream

Next == Arrive \/ Hangup \/ Progress \/ Receive \/ ReceiveEnd

Spec == Init /\ [][Next]_vars

\* the event loop runs the connection's task; the client need do nothing
FairSpec == Spec /\ WF_vars(Progress)
-----------------------------------------------------------------------------
Adjoining(q, first, last) ==
    /\ q = <<>> => first = last + 1
    /\ q # <<>> => q[1].lo = first /\ q[Len(q)].hi = last
    /\ \A i \in 1 .. Len(q) - 1 : q[i + 1].lo = q[i].hi + 1

\* No byte is lost, doubled or reordered by peeking, by reading a header or by
\* wrapping a stream: what the streams hold is, end to end and in the order
\* receive serves it, what arrived and has not been taken.
ServedInOrder == Adjoining(Unread, taken + 1, arrived)

Understood == \/ wire.header = "v1" /\ listener.proxy \in {"v1", "mixed"}
              \/ wire.header \in {"v2", "v2_local"} /\ listener.proxy \in {"v2", "mixed"}
PayloadStart == HeaderLength(wire.header) + 1

\* The handler is the one the payload asks for and starts at its first byte,
\* however the wire is cut into chunks and whatever listener failed on the way; a
\* header that no listener understands is left to the handler whole, and only a
\* connection whose client hung up gets no handler.
HandoffAtPayload ==
    /\ pc \in Handlers =>
        /\ handed + 1 = IF Understood THEN PayloadStart ELSE 1
        /\ addressed <=> Understood /\ wire.header = "v2"
        /\ pc = "h2" <=> wire.payload = "h2" /\ handed + 1 = PayloadStart
        /\ pc = "handshake" <=> /\ wire.payload = "tls" /\ listener.tls
                                /\ handed + 1 = PayloadStart
    /\ pc \in Dropped => closed

\* receive returns b'' (the end of file to h11) only for the empty rest of a
\* version 1 header.
BlankOnlyAfterV1 == blank => Understood /\ wire.header = "v1"

\* Setting up ends: a client that has sent what every peek waits for, or has
\* hung up, gets its handler or is dropped.
Peeks == {V1Magic, V2Magic, HelloHead + FoldFunction(+, 0, HelloFields), Preface}
Enough == \A n \in Peeks : arrived >= HeaderLength(wire.header) + n
SetupEnds == (closed \/ Enough) ~> pc \in Handlers \cup Dropped

\* The streams together implement the abstract channel from the client to
\* whoever reads: a header's reader or the handler.
Channel == INSTANCE ByteChannel
           WITH GoesOn <- FALSE, sent <- arrived, received <- taken, closed <- closed, told <- told
ChannelSpec == Channel!Spec
=============================================================================
