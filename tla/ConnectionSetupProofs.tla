------------------------ MODULE ConnectionSetupProofs ------------------------
(***************************************************************************)
(* Theorems about ConnectionSetup, for any lengths of headers, hellos and  *)
(* payloads and any way the wire is cut into chunks.                       *)
(***************************************************************************)
EXTENDS ConnectionSetup, SequenceTheorems, TLAPS

(***************************************************************************)
(* Runs of chunks.  A run q holds the places after b up to l, in order and  *)
(* without a gap, in chunks of s bytes at least and MaxReceive at most.     *)
(***************************************************************************)
Piece(c, s) == c \in Chunk /\ 1 <= c.lo /\ s <= Size(c) /\ Size(c) <= MaxReceive

Run(q, b, l, s) ==
    /\ q \in Seq(Chunk) /\ b <= l
    /\ \A i \in 1 .. Len(q) : Piece(q[i], s) /\ q[i].hi <= l
    /\ Adjoining(q, b + 1, l)

\* Nothing is a run of no bytes.
LEMMA RunOfNothing ==
    ASSUME NEW b \in Nat, NEW s
    PROVE  Run(<<>>, b, b, s)
  <1>1. <<>> \in Seq(Chunk) /\ Len(<<>>) = 0
    OBVIOUS
  <1>. QED  BY <1>1 DEF Run, Adjoining

\* A run without chunks has no bytes.
LEMMA EmptyRun ==
    ASSUME NEW b \in Nat, NEW l \in Nat, NEW s, Run(<<>>, b, l, s)
    PROVE  b = l
  BY DEF Run, Adjoining

\* One chunk is a run.
LEMMA RunOfOne ==
    ASSUME NEW s \in {0, 1}, NEW c, Piece(c, s)
    PROVE  Run(<<c>>, c.lo - 1, c.hi, s)
  <1>. DEFINE q == <<c>>
  <1>1. q \in Seq(Chunk) /\ Len(q) = 1 /\ q[1] = c /\ q # <<>>
    BY DEF Piece
  <1>2. c.lo \in Nat /\ c.hi \in Nat /\ c.lo - 1 <= c.hi
    BY DEF Piece, Chunk, Size
  <1>. HIDE DEF q
  <1>3. Adjoining(q, c.lo - 1 + 1, c.hi)
    BY <1>1, <1>2 DEF Adjoining
  <1>4. Run(q, c.lo - 1, c.hi, s)
    BY <1>1, <1>2, <1>3 DEF Run
  <1>. QED  BY <1>4 DEF q

\* The first chunk of a run begins it, the others go on behind it.
LEMMA FirstOfRun ==
    ASSUME NEW b \in Nat, NEW l \in Nat, NEW s \in {0, 1}, NEW q, Run(q, b, l, s), q # <<>>
    PROVE  /\ Piece(Head(q), s) /\ Head(q).lo = b + 1
           /\ Head(q).hi \in Nat /\ b <= Head(q).hi /\ Head(q).hi <= l
           /\ Run(Tail(q), Head(q).hi, l, s)
           /\ Len(Tail(q)) = Len(q) - 1 /\ \A i \in 1 .. Len(Tail(q)) : Tail(q)[i] = q[i + 1]
  <1>. DEFINE t == Tail(q)
  <1>0. q \in Seq(Chunk)
    BY DEF Run
  <1>1. /\ q \in Seq(Chunk) /\ t \in Seq(Chunk) /\ Len(t) = Len(q) - 1
        /\ Len(q) \in Nat /\ Len(q) > 0
        /\ \A i \in 1 .. Len(t) : t[i] = q[i + 1]
        /\ Head(q) = q[1]
    BY <1>0, HeadTailProperties, LenProperties, EmptySeq
  <1>2. Piece(q[1], s) /\ q[1].lo = b + 1 /\ q[1].hi <= l
    BY <1>1 DEF Run, Adjoining
  <1>3. q[1].hi \in Nat /\ b <= q[1].hi
    BY <1>2 DEF Piece, Chunk, Size
  <1>. HIDE DEF t
  <1>4. \A i \in 1 .. Len(t) : Piece(t[i], s) /\ t[i].hi <= l
    <2>1. \A i \in 1 .. Len(t) : i + 1 \in 1 .. Len(q)
      BY <1>1
    <2>. QED  BY <1>1, <2>1 DEF Run
  <1>5. \A i \in 1 .. Len(t) - 1 : t[i + 1].lo = t[i].hi + 1
    BY <1>1 DEF Run, Adjoining
  <1>6. CASE t = <<>>
    <2>1. Len(q) = 1
      BY <1>1, <1>6
    <2>2. q[1].hi = l
      BY <1>1, <2>1 DEF Run, Adjoining
    <2>3. Run(t, q[1].hi, l, s)
      BY <1>1, <1>3, <1>4, <1>5, <1>6, <2>2 DEF Run, Adjoining
    <2>. QED  BY <1>1, <1>2, <1>3, <2>3 DEF t
  <1>7. CASE t # <<>>
    <2>1. Len(t) > 0
      BY <1>1, <1>7, EmptySeq
    <2>2. t[1].lo = q[1].hi + 1 /\ t[Len(t)].hi = l
      BY <1>1, <2>1 DEF Run, Adjoining
    <2>3. Run(t, q[1].hi, l, s)
      BY <1>1, <1>2, <1>3, <1>4, <1>5, <1>7, <2>2 DEF Run, Adjoining
    <2>. QED  BY <1>1, <1>2, <1>3, <2>3 DEF t
  <1>. QED  BY <1>6, <1>7

\* Two runs that meet are one.
LEMMA RunsMeet ==
    ASSUME NEW b \in Nat, NEW m \in Nat, NEW l \in Nat, NEW s \in {0, 1},
           NEW p, NEW q, Run(p, b, m, s), Run(q, m, l, s)
    PROVE  Run(p \o q, b, l, s)
  <1>. DEFINE t == p \o q
  <1>1. p \in Seq(Chunk) /\ q \in Seq(Chunk) /\ Len(p) \in Nat /\ Len(q) \in Nat
    BY LenProperties DEF Run
  <1>2. /\ t \in Seq(Chunk) /\ Len(t) = Len(p) + Len(q)
        /\ \A i \in 1 .. Len(p) : t[i] = p[i]
        /\ \A i \in 1 .. Len(q) : t[Len(p) + i] = q[i]
    BY <1>1, ConcatProperties
  <1>3. \A i \in 1 .. Len(t) : \/ i \in 1 .. Len(p) /\ t[i] = p[i]
                               \/ i - Len(p) \in 1 .. Len(q) /\ t[i] = q[i - Len(p)]
    <2>1. ASSUME NEW i \in 1 .. Len(t), i > Len(p)
          PROVE  i - Len(p) \in 1 .. Len(q) /\ t[Len(p) + (i - Len(p))] = q[i - Len(p)]
      BY <1>1, <1>2, <2>1
    <2>. QED  BY <1>1, <1>2, <2>1
  <1>. HIDE DEF t
  <1>4. \A i \in 1 .. Len(t) : Piece(t[i], s) /\ t[i].hi <= l
    <2>1. \A i \in 1 .. Len(p) : p[i].hi \in Nat /\ p[i].hi <= l
      BY DEF Run, Piece, Chunk
    <2>. QED  BY <1>1, <1>3, <2>1 DEF Run
  <1>5. CASE p = <<>>
    <2>1. b = m
      BY <1>5, EmptyRun
    <2>2. t = q
      BY <1>1, <1>5 DEF t
    <2>. QED  BY <2>1, <2>2 DEF t
  <1>6. CASE q = <<>>
    <2>1. l = m
      BY <1>6, EmptyRun
    <2>2. t = p
      BY <1>1, <1>6 DEF t
    <2>. QED  BY <2>1, <2>2 DEF t
  <1>7. CASE p # <<>> /\ q # <<>>
    <2>1. Len(p) > 0 /\ Len(q) > 0 /\ t # <<>>
      BY <1>1, <1>2, <1>7, EmptySeq
    <2>2. t[1].lo = b + 1
      <3>1. 1 \in 1 .. Len(p)
        BY <1>1, <2>1
      <3>. QED  BY <1>2, <1>7, <3>1 DEF Run, Adjoining
    <2>3. t[Len(t)].hi = l
      <3>1. Len(q) \in 1 .. Len(q)
        BY <1>1, <2>1
      <3>. QED  BY <1>2, <1>7, <3>1 DEF Run, Adjoining
    <2>4. \A i \in 1 .. Len(t) - 1 : t[i + 1].lo = t[i].hi + 1
      <3>1. ASSUME NEW i \in 1 .. Len(t) - 1, i < Len(p) PROVE t[i + 1].lo = t[i].hi + 1
        <4>1. i \in 1 .. Len(p) - 1 /\ i \in 1 .. Len(p) /\ i + 1 \in 1 .. Len(p)
          BY <1>1, <3>1
        <4>. QED  BY <1>2, <4>1 DEF Run, Adjoining
      <3>2. ASSUME NEW i \in 1 .. Len(t) - 1, i = Len(p) PROVE t[i + 1].lo = t[i].hi + 1
        <4>1. Len(p) \in 1 .. Len(p) /\ 1 \in 1 .. Len(q)
          BY <1>1, <2>1
        <4>2. t[i] = p[Len(p)] /\ t[i + 1] = q[1]
          BY <1>2, <3>2, <4>1
        <4>3. p[Len(p)].hi = m /\ q[1].lo = m + 1
          BY <1>7 DEF Run, Adjoining
        <4>. QED  BY <4>2, <4>3
      <3>3. ASSUME NEW i \in 1 .. Len(t) - 1, i > Len(p) PROVE t[i + 1].lo = t[i].hi + 1
        <4>1. i - Len(p) \in 1 .. Len(q) - 1 /\ i \in 1 .. Len(t) /\ i + 1 \in 1 .. Len(t)
          BY <1>1, <1>2, <3>3
        <4>2. t[i] = q[i - Len(p)] /\ t[i + 1] = q[(i - Len(p)) + 1]
          BY <1>1, <1>3, <3>3, <4>1
        <4>. QED  BY <4>1, <4>2 DEF Run, Adjoining
      <3>. QED  BY <1>1, <3>1, <3>2, <3>3
    <2>5. b <= l
      BY DEF Run
    <2>. QED  BY <1>2, <1>4, <2>1, <2>2, <2>3, <2>4, <2>5 DEF Run, Adjoining, t
  <1>. QED  BY <1>5, <1>6, <1>7

(***************************************************************************)
(* _read_bytes: what it returns, and what it puts back.                    *)
(***************************************************************************)
LEMMA FrontAndRest ==
    ASSUME NEW s \in {0, 1}, NEW c, Piece(c, s), NEW n \in Nat \ {0}
    PROVE  /\ Piece(Front(c, n), s) /\ Front(c, n).lo = c.lo
           /\ Front(c, n).hi \in Nat /\ Front(c, n).hi <= c.hi
           /\ c.lo <= Front(c, n).hi + 1
           /\ Size(Front(c, n)) <= n
           /\ Size(Front(c, n)) = 0 => s = 0
           /\ Run(Rest(c, n), Front(c, n).hi, c.hi, s)
  <1>1. MaxReceive \in Nat /\ s \in Nat /\ s <= 1
    BY LengthsAssumption DEF LengthsAssumption
  <1>2. c \in Chunk /\ c.lo \in Nat /\ c.hi \in Nat /\ 1 <= c.lo /\ c.lo <= c.hi + 1
    BY DEF Piece, Chunk, Size
  <1>3. CASE Size(c) > n
    <2>. DEFINE d == [lo |-> c.lo + n, hi |-> c.hi]
    <2>1. Front(c, n) = [lo |-> c.lo, hi |-> c.lo + n - 1] /\ Rest(c, n) = <<d>>
      BY <1>3 DEF Front, Rest
    <2>2. d.lo \in Nat /\ d \in Chunk /\ d.lo = c.lo + n /\ d.hi = c.hi
      BY <1>2 DEF Chunk
    <2>. DEFINE f == [lo |-> c.lo, hi |-> c.lo + n - 1]
    <2>3. f.hi \in Nat /\ f \in Chunk /\ f.lo = c.lo /\ f.hi = c.lo + n - 1
      BY <1>2 DEF Chunk
    <2>. HIDE DEF d, f
    <2>4. Piece(d, s)
      BY <1>1, <1>2, <1>3, <2>2 DEF Piece, Size
    <2>5. Run(<<d>>, d.lo - 1, d.hi, s)
      BY <2>4, RunOfOne
    <2>6. Piece(f, s) /\ Size(f) = n
      BY <1>1, <1>2, <1>3, <2>3 DEF Piece, Size
    <2>7. d.lo - 1 = f.hi /\ f.hi <= c.hi /\ c.lo <= f.hi + 1
      BY <1>2, <1>3, <2>2, <2>3 DEF Size
    <2>8. Front(c, n) = f /\ Rest(c, n) = <<d>>
      BY <2>1 DEF d, f
    <2>. QED  BY <1>2, <2>2, <2>5, <2>6, <2>3, <2>7, <2>8
  <1>4. CASE ~(Size(c) > n)
    <2>1. Front(c, n) = c /\ Rest(c, n) = <<>>
      BY <1>4 DEF Front, Rest
    <2>2. Run(<<>>, c.hi, c.hi, s)
      BY <1>2, RunOfNothing
    <2>. QED  BY <1>2, <1>4, <2>1, <2>2 DEF Piece, Size
  <1>. QED  BY <1>3, <1>4

\* Put back in front of the other chunks, the rest goes on where the returned
\* bytes end.
LEMMA PutBack ==
    ASSUME NEW b \in Nat, NEW l \in Nat, NEW s \in {0, 1}, NEW q, Run(q, b, l, s), q # <<>>,
           NEW n \in Nat \ {0}
    PROVE  LET f == Front(Head(q), n)
           IN  /\ f.lo = b + 1 /\ f.hi \in Nat /\ b <= f.hi /\ f.hi <= l
               /\ Size(f) <= n /\ (Size(f) = 0 => s = 0) /\ Piece(f, s)
               /\ Run(Rest(Head(q), n) \o Tail(q), f.hi, l, s)
  <1>. DEFINE c == Head(q)  f == Front(c, n)
  <1>1. /\ Piece(c, s) /\ c.lo = b + 1 /\ c.hi \in Nat /\ b <= c.hi /\ c.hi <= l
        /\ Run(Tail(q), c.hi, l, s)
    BY FirstOfRun
  <1>. HIDE DEF c
  <1>2. /\ Piece(f, s) /\ f.lo = c.lo /\ f.hi \in Nat /\ f.hi <= c.hi /\ c.lo <= f.hi + 1
        /\ Size(f) <= n /\ (Size(f) = 0 => s = 0) /\ Run(Rest(c, n), f.hi, c.hi, s)
    BY <1>1, FrontAndRest
  <1>. HIDE DEF f
  <1>3. Run(Rest(c, n) \o Tail(q), f.hi, l, s)
    BY <1>1, <1>2, RunsMeet
  <1>4. b <= f.hi /\ f.hi <= l
    BY <1>1, <1>2
  <1>. QED  BY <1>1, <1>2, <1>3, <1>4 DEF c, f

(***************************************************************************)
(* A read's local buf, of the bytes after place t that it has got so far.  *)
(***************************************************************************)
Held(b, t) == b \in Chunk /\ (b = Empty \/ (b.lo = t + 1 /\ b.hi > t))
Reach(b, t) == IF b = Empty THEN t ELSE b.hi

\* Joined to the bytes that follow it, buf has the bytes up to their end.
LEMMA JoinedReaches ==
    ASSUME NEW t \in Nat, NEW b, Held(b, t), NEW f, f \in Chunk,
           f.lo = Reach(b, t) + 1, f.hi >= Reach(b, t)
    PROVE  Held(Joined(b, f), t) /\ Reach(Joined(b, f), t) = f.hi
  <1>1. /\ f.lo \in Nat /\ f.hi \in Nat /\ b \in Chunk /\ b.lo \in Nat /\ b.hi \in Nat
        /\ Empty.lo = 1 /\ Empty.hi = 0 /\ Empty \in Chunk
    BY DEF Chunk, Held, Empty
  <1>2. CASE Size(f) = 0
    BY <1>1, <1>2 DEF Size, Joined, Reach, Held
  <1>3. CASE Size(f) # 0 /\ b = Empty
    <2>1. Joined(b, f) = f /\ f.lo = t + 1 /\ f.hi > t
      BY <1>1, <1>3 DEF Size, Joined, Reach
    <2>2. f # Empty
      BY <1>1, <2>1
    <2>. QED  BY <2>1, <2>2 DEF Held, Reach
  <1>4. CASE Size(f) # 0 /\ b # Empty
    <2>. DEFINE j == [b EXCEPT !.hi = f.hi]
    <2>1. b.lo = t + 1 /\ b.hi > t /\ Reach(b, t) = b.hi
      BY <1>4 DEF Held, Reach
    <2>2. Joined(b, f) = j
      BY <1>1, <1>4, <2>1 DEF Joined, Size
    <2>3. j \in Chunk /\ j.lo = b.lo /\ j.hi = f.hi
      BY <1>1 DEF Chunk
    <2>. HIDE DEF j
    <2>4. j # Empty
      BY <1>1, <2>1, <2>3
    <2>. QED  BY <1>1, <2>1, <2>2, <2>3, <2>4 DEF Held, Reach
  <1>. QED  BY <1>2, <1>3, <1>4

\* Short of n bytes, buf ends before place t + n.
LEMMA ReachShort ==
    ASSUME NEW t \in Nat, NEW b, Held(b, t)
    PROVE  Reach(b, t) \in Nat /\ Reach(b, t) = t + Size(b)
  <1>1. b \in Chunk /\ b.lo \in Nat /\ b.hi \in Nat /\ Empty.lo = 1 /\ Empty.hi = 0
    BY DEF Held, Chunk, Empty
  <1>. QED  BY <1>1 DEF Held, Reach, Size
-----------------------------------------------------------------------------
(***************************************************************************)
(* The inductive invariant.  ServedInOrder says what is unread as a whole, *)
(* but a peek and a read move the chunks between the parts of the stream:  *)
(* each part is a run of its own, and what has not been peeked at yet is   *)
(* the end of pre_receives.                                                *)
(***************************************************************************)
\* only the rest of a version 1 header's line may be a chunk of no bytes
Least == IF Understood /\ wire.header = "v1" THEN 0 ELSE 1

Streams == \E m, k \in 0 .. arrived :
    /\ Run(pre_receives, taken, m, Least)
    /\ Run(buffers, m, k, Least)
    /\ Run(below, k, arrived, Least)
    /\ pc \in PeekStages => buffers = <<>>
    /\ pc \in PeekStages \ {"tls_hello"} => Run(pre_buffers, Reach(buf, taken), m, Least)

\* until the separator of a version 1 line is read, only the last chunk in
\* pre_receives reaches it: V1LineRead puts the line's rest behind the others
LineAhead == pc \in {"v1_peek", "v1_line"} =>
    \A i \in 1 .. Len(pre_receives) - 1 : pre_receives[i].hi < V1Magic

\* the places before the field of the version 2 header that a stage reads
Offset == CASE pc = "v2_magic" -> 0
            [] pc = "v2_families" -> V2Magic
            [] pc = "v2_length" -> V2Magic + V2Families
            [] pc = "v2_address" -> V2Magic + V2Families + V2Length

LocalBuf ==
    /\ pc \in PeekStages \ {"tls_hello"} => Held(buf, taken)
    /\ pc \in ReadStages =>
        /\ Held(buf, Offset) /\ Reach(buf, Offset) = taken
        /\ taken <= Offset + ReadLength

\* the PROXY listener took the whole header it understands, or nothing ...
Settled == /\ taken = IF Understood THEN HeaderLength(wire.header) ELSE 0
           /\ addressed <=> Understood /\ wire.header = "v2"
\* ... or the client hung up within the header or right behind it
Doomed == /\ closed /\ Understood /\ taken < HeaderLength(wire.header)
          /\ arrived < taken + Preface

Place ==
    /\ pc \in {"v1_peek", "v1_line"} =>
        /\ listener.proxy \in {"v1", "mixed"} /\ ~addressed
        /\ pc = "v1_peek" => taken = 0
        /\ pc = "v1_line" => wire.header = "v1" /\ taken < V1Line
    /\ pc = "v2_peek" =>
        /\ listener.proxy \in {"v2", "mixed"} /\ ~addressed
        /\ IF wire.header \in {"v2", "v2_local"} THEN taken = 0 ELSE Settled \/ Doomed
    /\ pc \in ReadStages =>
        /\ listener.proxy \in {"v2", "mixed"} /\ ~addressed
        /\ wire.header \in {"v2", "v2_local"}
    /\ pc \in {"tls_peek", "auto_peek"} => Settled \/ Doomed
    /\ pc \in {"tls_peek", "tls_hello"} => listener.tls
    /\ pc = "auto_peek" =>
        ~(listener.tls /\ wire.payload = "tls" /\ taken = HeaderLength(wire.header))
    /\ pc = "tls_hello" =>
        wire.payload = "tls" /\ taken = HeaderLength(wire.header) /\ Settled
    /\ pc \in PeekStages \cup ReadStages \cup {"v1_line"} => field < Len(HelloFields)

BlankKnown == blank => Least = 0

IInv == /\ TypeOK /\ Streams /\ LineAhead /\ LocalBuf /\ Place /\ BlankKnown
        /\ HandoffAtPayload
-----------------------------------------------------------------------------
(***************************************************************************)
(* What the steps share.                                                   *)
(***************************************************************************)
LEMMA Lengths ==
    ASSUME TypeOK
    PROVE  /\ V1Magic \in Nat \ {0} /\ V1Line \in Nat \ {0} /\ V2Magic \in Nat \ {0}
           /\ V2Address \in Nat \ {0} /\ V2Families \in Nat \ {0} /\ V2Length \in Nat \ {0}
           /\ HelloHead \in Nat \ {0} /\ Preface \in Nat \ {0} /\ MaxReceive \in Nat \ {0}
           /\ V1Magic < V1Line /\ V1Magic <= Preface /\ V2Magic <= Preface
           /\ V2Header \in Nat \ {0} /\ HeaderLength(wire.header) \in Nat
           /\ wire.header \in Headers /\ wire.length \in Nat /\ Total \in Nat
           /\ arrived \in Nat /\ taken \in Nat /\ handed \in Nat /\ Least \in {0, 1}
  <1>1. /\ V1Magic \in Nat \ {0} /\ V1Line \in Nat \ {0} /\ V2Magic \in Nat \ {0}
        /\ V2Address \in Nat \ {0} /\ V2Families \in Nat \ {0} /\ V2Length \in Nat \ {0}
        /\ HelloHead \in Nat \ {0} /\ Preface \in Nat \ {0} /\ MaxReceive \in Nat \ {0}
        /\ V1Magic < V1Line /\ V1Magic <= Preface /\ V2Magic <= Preface
        /\ PayloadSizes \subseteq Nat
    BY LengthsAssumption DEF LengthsAssumption
  <1>2. V2Header \in Nat \ {0}
    BY <1>1 DEF V2Header
  <1>3. wire.header \in Headers /\ wire.length \in Nat
    BY <1>1 DEF TypeOK, Wires
  <1>4. HeaderLength(wire.header) \in Nat
    BY <1>1, <1>2, <1>3 DEF HeaderLength, Headers
  <1>5. Total \in Nat
    BY <1>3, <1>4 DEF Total
  <1>6. arrived \in Nat /\ taken \in Nat /\ handed \in Nat
    BY <1>5 DEF TypeOK
  <1>. QED  BY <1>1, <1>2, <1>3, <1>4, <1>5, <1>6 DEF Least

\* The chunk receive returns next is the first of the first part that has one.
LEMMA FirstUnread ==
    ASSUME pre_receives \in Seq(Chunk), buffers \in Seq(Chunk), below \in Seq(Chunk)
    PROVE  /\ Unread \in Seq(Chunk)
           /\ pre_receives # <<>> => Unread # <<>> /\ Head(Unread) = Head(pre_receives)
           /\ pre_receives = <<>> /\ buffers # <<>> =>
                Unread # <<>> /\ Head(Unread) = Head(buffers)
           /\ pre_receives = <<>> /\ buffers = <<>> => Unread = below
           /\ Unread = <<>> => pre_receives = <<>> /\ buffers = <<>> /\ below = <<>>
  <1>1. ASSUME NEW p \in Seq(Chunk), NEW q \in Seq(Chunk), p # <<>>
        PROVE  p \o q # <<>> /\ Head(p \o q) = Head(p) /\ p \o q \in Seq(Chunk)
    <2>1. Len(p) \in Nat \ {0} /\ Len(q) \in Nat
      BY <1>1, EmptySeq, LenProperties
    <2>2. /\ p \o q \in Seq(Chunk) /\ Len(p \o q) = Len(p) + Len(q)
          /\ (p \o q)[1] = p[1]
      BY <2>1, ConcatProperties
    <2>3. p \o q # <<>>
      BY <2>1, <2>2, EmptySeq
    <2>. QED  BY <1>1, <2>2, <2>3, HeadTailProperties
  <1>2. ASSUME NEW q \in Seq(Chunk) PROVE <<>> \o q = q
    BY ConcatEmptySeq
  <1>3. pre_receives \o buffers \in Seq(Chunk) /\ Unread \in Seq(Chunk)
    BY ConcatProperties DEF Unread
  <1>4. CASE pre_receives # <<>>
    BY <1>1, <1>3, <1>4 DEF Unread
  <1>5. CASE pre_receives = <<>>
    <2>1. Unread = buffers \o below
      BY <1>2, <1>5 DEF Unread
    <2>. QED  BY <1>1, <1>2, <1>3, <1>5, <2>1
  <1>. QED  BY <1>4, <1>5

\* Together the parts of the stream are one run, of what arrived and is unread.
LEMMA UnreadIsRun ==
    ASSUME TypeOK, Streams
    PROVE  Run(Unread, taken, arrived, Least)
  <1>1. PICK m \in 0 .. arrived, k \in 0 .. arrived :
            /\ Run(pre_receives, taken, m, Least) /\ Run(buffers, m, k, Least)
            /\ Run(below, k, arrived, Least)
    BY DEF Streams
  <1>2. m \in Nat /\ k \in Nat /\ taken \in Nat /\ arrived \in Nat /\ Least \in {0, 1}
    BY Lengths
  <1>3. Run(pre_receives \o buffers, taken, k, Least)
    BY <1>1, <1>2, RunsMeet
  <1>. QED  BY <1>1, <1>2, <1>3, RunsMeet DEF Unread

\* receive takes the first unread bytes and leaves the parts runs.
LEMMA RemoveKeepsRuns ==
    ASSUME TypeOK, Streams, NEW n \in Nat \ {0}, Remove(n)
    PROVE  LET f == Front(Head(Unread), n)
           IN  /\ Unread # <<>> /\ Piece(f, Least) /\ f.lo = taken + 1
               /\ f.hi \in taken .. arrived /\ Size(f) <= n
               /\ Size(f) = 0 => Least = 0
               /\ \E m, k \in 0 .. arrived :
                    /\ Run(pre_receives', f.hi, m, Least) /\ Run(buffers', m, k, Least)
                    /\ Run(below', k, arrived, Least)
  <1>. DEFINE f == Front(Head(Unread), n)
  <1>1. PICK m \in 0 .. arrived, k \in 0 .. arrived :
            /\ Run(pre_receives, taken, m, Least) /\ Run(buffers, m, k, Least)
            /\ Run(below, k, arrived, Least)
    BY DEF Streams
  <1>2. /\ m \in Nat /\ k \in Nat /\ taken \in Nat /\ arrived \in Nat /\ Least \in {0, 1}
        /\ taken <= m /\ m <= k /\ k <= arrived
    BY <1>1, Lengths DEF Run
  <1>3. /\ pre_receives \in Seq(Chunk) /\ buffers \in Seq(Chunk) /\ below \in Seq(Chunk)
    BY <1>1 DEF Run
  <1>4. CASE pre_receives # <<>>
    <2>1. Unread # <<>> /\ Head(Unread) = Head(pre_receives)
      BY <1>3, <1>4, FirstUnread
    <2>2. /\ pre_receives' = Rest(Head(pre_receives), n) \o Tail(pre_receives)
          /\ below' = below /\ buffers' = buffers
      BY <1>4 DEF Remove
    <2>3. /\ f.lo = taken + 1 /\ f.hi \in Nat /\ taken <= f.hi /\ f.hi <= m
          /\ Size(f) <= n /\ (Size(f) = 0 => Least = 0) /\ Piece(f, Least)
          /\ Run(pre_receives', f.hi, m, Least)
      BY <1>1, <1>2, <1>4, <2>1, <2>2, PutBack
    <2>. QED  BY <1>1, <1>2, <2>1, <2>2, <2>3
  <1>5. CASE pre_receives = <<>> /\ buffers # <<>>
    <2>1. Unread # <<>> /\ Head(Unread) = Head(buffers)
      BY <1>3, <1>5, FirstUnread
    <2>2. /\ buffers' = Rest(Head(buffers), n) \o Tail(buffers)
          /\ below' = below /\ pre_receives' = <<>>
      BY <1>5 DEF Remove
    <2>3. m = taken
      BY <1>1, <1>2, <1>5, EmptyRun
    <2>4. /\ f.lo = taken + 1 /\ f.hi \in Nat /\ taken <= f.hi /\ f.hi <= k
          /\ Size(f) <= n /\ (Size(f) = 0 => Least = 0) /\ Piece(f, Least)
          /\ Run(buffers', f.hi, k, Least)
      BY <1>1, <1>2, <1>5, <2>1, <2>2, <2>3, PutBack
    <2>5. Run(pre_receives', f.hi, f.hi, Least) /\ f.hi \in 0 .. arrived
      BY <1>2, <2>2, <2>4, RunOfNothing
    <2>. QED  BY <1>1, <1>2, <2>1, <2>2, <2>4, <2>5
  <1>6. CASE pre_receives = <<>> /\ buffers = <<>>
    <2>1. Unread = below
      BY <1>3, <1>6, FirstUnread
    <2>2. /\ below # <<>> /\ below' = Tail(below) /\ buffers' = Rest(Head(below), n)
          /\ pre_receives' = <<>>
      BY <1>6 DEF Remove
    <2>3. m = taken /\ k = taken
      BY <1>1, <1>2, <1>6, EmptyRun
    <2>. DEFINE c == Head(below)
    <2>4. /\ Piece(c, Least) /\ c.lo = taken + 1 /\ c.hi \in Nat /\ c.hi <= arrived
          /\ Run(below', c.hi, arrived, Least)
      BY <1>1, <1>2, <2>2, <2>3, FirstOfRun
    <2>. HIDE DEF c
    <2>5. /\ Piece(Front(c, n), Least) /\ Front(c, n).lo = c.lo
          /\ Front(c, n).hi \in Nat /\ Front(c, n).hi <= c.hi /\ c.lo <= Front(c, n).hi + 1
          /\ Size(Front(c, n)) <= n /\ (Size(Front(c, n)) = 0 => Least = 0)
          /\ Run(Rest(c, n), Front(c, n).hi, c.hi, Least)
      BY <1>2, <2>4, FrontAndRest
    <2>6. f = Front(c, n) /\ buffers' = Rest(c, n)
      BY <2>1, <2>2 DEF c
    <2>. HIDE DEF f
    <2>7. Run(pre_receives', f.hi, f.hi, Least)
      BY <2>2, <2>5, <2>6, RunOfNothing
    <2>8. f.hi \in taken .. arrived /\ f.hi \in 0 .. arrived /\ c.hi \in 0 .. arrived
      BY <1>2, <2>4, <2>5, <2>6
    <2>. QED  BY <1>2, <2>1, <2>2, <2>4, <2>5, <2>6, <2>7, <2>8 DEF f
  <1>. QED  BY <1>4, <1>5, <1>6

\* A wrapped stream holds one run, below; the next stage has peeked at nothing.
LEMMA WrapKeepsRuns ==
    ASSUME TypeOK, Streams, Wrap, buf' = Empty, UNCHANGED <<setup, arrived, taken>>
    PROVE  Streams' /\ below' \in Seq(Chunk)
  <1>1. taken \in Nat /\ arrived \in Nat /\ taken \in 0 .. arrived
    BY Lengths DEF TypeOK
  <1>2. Run(Unread, taken, arrived, Least)
    BY UnreadIsRun
  <1>3. Run(<<>>, taken, taken, Least)
    BY <1>1, RunOfNothing
  <1>4. Least' = Least /\ Reach(buf, taken)' = taken
    BY DEF setup, Least, Understood, Reach
  <1>5. /\ below' = Unread /\ pre_buffers' = <<>> /\ pre_receives' = <<>> /\ buffers' = <<>>
        /\ arrived' = arrived /\ taken' = taken
    BY DEF Wrap
  <1>6. /\ Run(pre_receives', taken', taken, Least') /\ Run(buffers', taken, taken, Least')
        /\ Run(below', taken, arrived', Least')
        /\ Run(pre_buffers', Reach(buf, taken)', taken, Least')
    BY <1>2, <1>3, <1>4, <1>5
  <1>7. Streams'
    BY <1>1, <1>5, <1>6 DEF Streams
  <1>. QED  BY <1>2, <1>5, <1>7 DEF Run

\* A listener has passed the stream on: only the place of the next stage and
\* the run the wrapped streams hold are left to show.
LEMMA StageEntered ==
    ASSUME IInv, NEW stage \in {"v2_peek", "tls_peek", "auto_peek"}, GoTo(stage),
           Streams', below' \in Seq(Chunk),
           pre_buffers' = <<>>, pre_receives' = <<>>, buffers' = <<>>,
           UNCHANGED <<setup, arrived, closed, field, handed, blank, told>>,
           addressed' \in BOOLEAN, taken' \in taken .. arrived, Place'
    PROVE  IInv'
  <1>1. /\ taken \in Nat /\ arrived \in Nat /\ handed \in Nat /\ taken' \in Nat
        /\ taken \in 0 .. arrived /\ handed \in 0 .. taken
    BY Lengths DEF IInv, TypeOK
  <1>2. pc' = stage /\ buf' = Empty /\ Empty \in Chunk /\ wire' = wire /\ listener' = listener
    BY DEF GoTo, setup, Empty, Chunk
  <1>3. TypeOK'
    <2>1. taken' \in 0 .. arrived' /\ handed' \in 0 .. taken'
      BY <1>1
    <2>2. arrived' \in 0 .. Total'
      BY <1>2 DEF IInv, TypeOK, Total
    <2>3. pc' \in PeekStages
      BY <1>2 DEF PeekStages
    <2>. QED  BY <1>2, <2>1, <2>2, <2>3 DEF IInv, TypeOK
  <1>4. LineAhead'
    BY <1>2 DEF LineAhead
  <1>5. LocalBuf'
    BY <1>2 DEF LocalBuf, Held, ReadStages
  <1>6. BlankKnown'
    BY <1>2 DEF IInv, BlankKnown, Least, Understood
  <1>7. HandoffAtPayload'
    BY <1>2 DEF HandoffAtPayload, Handlers, Dropped
  <1>. QED  BY <1>3, <1>4, <1>5, <1>6, <1>7 DEF IInv

\* Before the handler has the stream, a connection that ends is dropped.
LEMMA DroppedKeeps ==
    ASSUME IInv, closed, NEW stage \in Dropped, GoTo(stage),
           UNCHANGED <<setup, stream, arrived, closed, field, addressed, taken, handed, blank, told>>
    PROVE  IInv'
  <1>1. /\ pc' = stage /\ buf' = Empty /\ Empty \in Chunk
        /\ pc' \notin PeekStages \cup ReadStages \cup {"v1_line"} \cup Handlers
        /\ wire' = wire /\ listener' = listener
        /\ pre_receives' = pre_receives /\ buffers' = buffers /\ below' = below
        /\ pre_buffers' = pre_buffers
    BY DEF GoTo, Dropped, PeekStages, ReadStages, Handlers, setup, stream, Empty, Chunk
  <1>2. TypeOK'
    BY <1>1 DEF IInv, TypeOK, Total
  <1>3. Streams'
    <2>1. Least' = Least
      BY <1>1 DEF Least, Understood
    <2>. QED  BY <1>1, <2>1 DEF IInv, Streams
  <1>4. LineAhead' /\ LocalBuf' /\ Place'
    BY <1>1 DEF LineAhead, LocalBuf, Place, PeekStages
  <1>5. BlankKnown' /\ HandoffAtPayload'
    BY <1>1 DEF IInv, BlankKnown, Least, Understood, HandoffAtPayload
  <1>. QED  BY <1>2, <1>3, <1>4, <1>5 DEF IInv

\* A stage fails: the header is not its header, or the client hung up before
\* the stage had what it waits for.
LEMMA RaiseKeeps ==
    ASSUME IInv, Raise,
           UNCHANGED <<setup, arrived, closed, field, addressed, taken, handed, blank, told>>,
           \/ pc = "v1_peek" /\ wire.header # "v1"
           \/ pc = "v2_peek" /\ wire.header \notin {"v2", "v2_local"}
           \/ /\ closed
              /\ pc \in ReadStages \cup {"v1_peek", "v1_line", "v2_peek"} =>
                    arrived < taken + Preface
              /\ pc \in ReadStages => taken < V2Header
    PROVE  IInv'
  <1>. USE DEF IInv
  <1>1. /\ taken \in Nat /\ arrived \in Nat /\ V1Line \in Nat \ {0} /\ V2Header \in Nat \ {0}
        /\ wire.header \in Headers /\ taken \in taken .. arrived
    BY Lengths DEF TypeOK
  <1>2. wire' = wire /\ listener' = listener /\ addressed' = addressed /\ addressed \in BOOLEAN
    BY DEF setup, TypeOK
  <1>3. CASE pc \in {"tls_peek", "tls_hello", "auto_peek"}
    <2>1. closed
      BY <1>3
    <2>2. PICK stage \in Dropped : GoTo(stage) /\ UNCHANGED stream
      BY <1>3 DEF Raise, Dropped, ReadStages
    <2>. QED  BY <2>1, <2>2, DroppedKeeps
  <1>4. CASE pc \in {"v1_peek", "v1_line"} /\ listener.proxy = "mixed"
    <2>1. GoTo("v2_peek") /\ Wrap
      BY <1>4 DEF Raise, Leave, ReadStages
    <2>2. Place'
      <3>1. pc' = "v2_peek"
        BY <2>1 DEF GoTo
      <3>2. IF wire.header \in {"v2", "v2_local"} THEN taken = 0 ELSE Settled \/ Doomed
        <4>1. ~addressed /\ (pc = "v1_peek" => taken = 0)
              /\ (pc = "v1_line" => wire.header = "v1" /\ taken < V1Line)
          BY <1>4 DEF Place
        <4>. QED  BY <1>1, <1>4, <4>1
             DEF Settled, Doomed, Understood, HeaderLength, Headers, ReadStages
      <3>3. (Settled \/ Doomed) => (Settled \/ Doomed)'
        BY <1>2 DEF Settled, Doomed, Understood
      <3>4. ~addressed
        BY <1>4 DEF Place
      <3>5. field < Len(HelloFields)
        BY <1>4 DEF Place, PeekStages
      <3>. QED  BY <1>2, <1>4, <3>1, <3>2, <3>3, <3>4, <3>5 DEF Place, ReadStages
    <2>3. Streams' /\ below' \in Seq(Chunk)
      BY <2>1, WrapKeepsRuns DEF GoTo
    <2>. QED  BY <1>1, <1>2, <2>1, <2>2, <2>3, StageEntered DEF Wrap
  <1>5. CASE \/ pc \in {"v1_peek", "v1_line"} /\ listener.proxy = "v1"
             \/ pc \in ReadStages \cup {"v2_peek"}
    <2>1. GoTo(AfterProxy) /\ Wrap
      BY <1>5 DEF Raise, Leave, ReadStages
    <2>2. Place'
      <3>1. /\ pc' = AfterProxy
            /\ \/ pc' = "tls_peek" /\ listener.tls
               \/ pc' = "auto_peek" /\ ~listener.tls
        BY <2>1 DEF GoTo, AfterProxy
      <3>2. Settled \/ Doomed
        <4>1. CASE pc \in {"v1_peek", "v1_line"} /\ listener.proxy = "v1"
          <5>1. ~addressed /\ (pc = "v1_peek" => taken = 0)
                /\ (pc = "v1_line" => wire.header = "v1" /\ taken < V1Line)
            BY <4>1 DEF Place
          <5>. QED  BY <1>1, <4>1, <5>1
               DEF Settled, Doomed, Understood, HeaderLength, Headers, ReadStages
        <4>2. CASE pc = "v2_peek"
          <5>1. /\ ~addressed /\ listener.proxy \in {"v2", "mixed"}
                /\ IF wire.header \in {"v2", "v2_local"} THEN taken = 0 ELSE Settled \/ Doomed
            BY <4>2 DEF Place
          <5>. QED  BY <1>1, <4>2, <5>1 DEF Doomed, Understood, HeaderLength, Headers
        <4>3. CASE pc \in ReadStages
          <5>1. listener.proxy \in {"v2", "mixed"} /\ wire.header \in {"v2", "v2_local"}
            BY <4>3 DEF Place
          <5>2. closed /\ arrived < taken + Preface /\ taken < V2Header
            BY <4>3 DEF ReadStages
          <5>. QED  BY <5>1, <5>2 DEF Doomed, Understood, HeaderLength
        <4>. QED  BY <1>5, <4>1, <4>2, <4>3
      <3>3. (Settled \/ Doomed)'
        BY <1>2, <3>2 DEF Settled, Doomed, Understood
      <3>4. field < Len(HelloFields)
        BY <1>5 DEF Place, PeekStages
      <3>. QED  BY <1>2, <3>1, <3>3, <3>4 DEF Place, ReadStages
    <2>3. Streams' /\ below' \in Seq(Chunk)
      BY <2>1, WrapKeepsRuns DEF GoTo
    <2>4. AfterProxy \in {"v2_peek", "tls_peek", "auto_peek"}
      BY DEF AfterProxy
    <2>. QED  BY <1>1, <1>2, <2>1, <2>2, <2>3, <2>4, StageEntered DEF Wrap
  <1>. QED  BY <1>3, <1>4, <1>5 DEF Raise
-----------------------------------------------------------------------------
(***************************************************************************)
(* Each action keeps the inductive invariant.                              *)
(***************************************************************************)
LEMMA ArriveKeeps == ASSUME IInv, Arrive PROVE IInv'
  <1>. USE DEF IInv
  <1>1. PICK n \in ChunkSizes :
            /\ ~closed /\ arrived + n <= Total /\ arrived' = arrived + n
            /\ below' = Append(below, [lo |-> arrived + 1, hi |-> arrived + n])
            /\ UNCHANGED <<setup, closed, pre_buffers, pre_receives, buffers, pc, field, buf,
                           addressed, taken, handed, blank, told>>
    BY DEF Arrive
  <1>. DEFINE c == [lo |-> arrived + 1, hi |-> arrived + n]
  <1>2. /\ arrived \in Nat /\ taken \in Nat /\ Total \in Nat /\ Least \in {0, 1}
        /\ n \in Nat /\ 1 <= n /\ n <= MaxReceive /\ MaxReceive \in Nat
    BY Lengths, LengthsAssumption DEF LengthsAssumption
  <1>3. /\ wire' = wire /\ listener' = listener /\ Least' = Least
        /\ Reach(buf, taken)' = Reach(buf, taken)
    BY <1>1 DEF setup, Least, Understood, Reach
  <1>4. PICK m \in 0 .. arrived, k \in 0 .. arrived :
            /\ Run(pre_receives, taken, m, Least) /\ Run(buffers, m, k, Least)
            /\ Run(below, k, arrived, Least)
            /\ pc \in PeekStages => buffers = <<>>
            /\ pc \in PeekStages \ {"tls_hello"} =>
                  Run(pre_buffers, Reach(buf, taken), m, Least)
    BY DEF Streams
  <1>5. c \in Chunk /\ c.lo = arrived + 1 /\ c.hi = arrived + n
    BY <1>2 DEF Chunk
  <1>6. below' = below \o <<c>>
    BY <1>1, <1>4, <1>5, AppendProperties DEF Run
  <1>. HIDE DEF c
  <1>7. Piece(c, Least)
    BY <1>2, <1>5 DEF Piece, Size
  <1>8. Run(<<c>>, arrived, arrived', Least)
    <2>1. c.lo - 1 = arrived /\ c.hi = arrived'
      BY <1>1, <1>2, <1>5
    <2>. QED  BY <1>7, <1>2, <2>1, RunOfOne
  <1>9. Run(below', k, arrived', Least)
    <2>1. k \in Nat /\ arrived' \in Nat
      BY <1>1, <1>2
    <2>. QED  BY <1>2, <1>4, <1>6, <1>8, <2>1, RunsMeet
  <1>10. Streams'
    <2>1. m \in 0 .. arrived' /\ k \in 0 .. arrived'
      BY <1>1, <1>2
    <2>. QED  BY <1>1, <1>3, <1>4, <1>9, <2>1 DEF Streams
  <1>11. TypeOK'
    <2>1. arrived' \in 0 .. Total' /\ taken' \in 0 .. arrived'
      BY <1>1, <1>2, <1>3 DEF TypeOK, Total
    <2>2. below' \in Seq(Chunk)
      BY <1>9 DEF Run
    <2>. QED  BY <1>1, <1>3, <2>1, <2>2 DEF TypeOK
  <1>12. LineAhead'
    BY <1>1 DEF LineAhead
  <1>13. LocalBuf'
    BY <1>1 DEF LocalBuf, Offset, ReadLength
  <1>14. Place'
    BY <1>1, <1>3 DEF Place, Settled, Doomed, Understood
  <1>15. BlankKnown' /\ HandoffAtPayload'
    BY <1>1, <1>3 DEF BlankKnown, HandoffAtPayload, Understood, PayloadStart
  <1>. QED  BY <1>10, <1>11, <1>12, <1>13, <1>14, <1>15

LEMMA HangupKeeps == ASSUME IInv, Hangup PROVE IInv'
  <1>. USE DEF IInv
  <1>1. /\ closed' = TRUE /\ wire' = wire /\ listener' = listener
        /\ UNCHANGED <<arrived, below, pre_buffers, pre_receives, buffers, pc, field, buf,
                       addressed, taken, handed, blank, told>>
    BY DEF Hangup, setup, stream
  <1>2. TypeOK'
    BY <1>1 DEF TypeOK, Total
  <1>3. Streams'
    BY <1>1 DEF Streams, Least, Understood
  <1>4. LineAhead' /\ LocalBuf'
    BY <1>1 DEF LineAhead, LocalBuf, Offset, ReadLength
  <1>5. Place'
    BY <1>1 DEF Place, Settled, Doomed, Understood
  <1>6. BlankKnown' /\ HandoffAtPayload'
    BY <1>1 DEF BlankKnown, Least, Understood, HandoffAtPayload, PayloadStart
  <1>. QED  BY <1>2, <1>3, <1>4, <1>5, <1>6

LEMMA EndOfStreamKeeps == ASSUME IInv, EndOfStream PROVE IInv'
  <1>. USE DEF IInv
  <1>1. /\ closed /\ below = <<>> /\ Raise
        /\ UNCHANGED <<setup, arrived, closed, field, addressed, taken, handed, blank, told>>
    BY DEF EndOfStream
  <1>2. PICK m \in 0 .. arrived, k \in 0 .. arrived :
            /\ Run(pre_receives, taken, m, Least) /\ Run(buffers, m, k, Least)
            /\ Run(below, k, arrived, Least)
            /\ pc \in PeekStages => buffers = <<>>
            /\ pc \in PeekStages \ {"tls_hello"} =>
                  Run(pre_buffers, Reach(buf, taken), m, Least)
    BY DEF Streams
  <1>3. /\ m \in Nat /\ k \in Nat /\ arrived \in Nat /\ taken \in Nat /\ Preface \in Nat \ {0}
        /\ V1Magic \in Nat /\ V2Magic \in Nat /\ V1Magic <= Preface /\ V2Magic <= Preface
        /\ V2Header = V2Magic + V2Families + V2Length + V2Address
        /\ V2Families \in Nat /\ V2Length \in Nat /\ V2Address \in Nat
    BY Lengths DEF V2Header
  <1>4. k = arrived
    BY <1>1, <1>2, <1>3, EmptyRun
  <1>5. CASE pc \in PeekStages
    <2>1. pre_buffers = <<>> /\ PeekMissing > 0
      BY <1>5 DEF EndOfStream, PeekStages, ReadStages
    <2>2. m = arrived
      BY <1>2, <1>3, <1>4, <1>5, EmptyRun
    <2>3. ASSUME pc \in {"v1_peek", "v2_peek"} PROVE arrived < taken + Preface
      <3>1. Held(buf, taken)
        BY <2>3 DEF LocalBuf, PeekStages
      <3>2. Reach(buf, taken) \in Nat /\ Reach(buf, taken) = taken + Size(buf)
        BY <1>3, <3>1, ReachShort
      <3>3. Reach(buf, taken) = arrived
        BY <1>2, <1>3, <2>1, <2>2, <2>3, <3>2, EmptyRun DEF PeekStages
      <3>4. PeekLength <= Preface /\ PeekLength \in Nat
        BY <1>3, <2>3 DEF PeekLength
      <3>5. Size(buf) < PeekLength
        BY <2>1 DEF PeekMissing
      <3>6. Size(buf) = arrived - taken
        <4>1. buf.lo \in Nat /\ buf.hi \in Nat
          BY <3>1 DEF Held, Chunk
        <4>. QED  BY <1>3, <3>2, <3>3, <4>1 DEF Size
      <3>. QED  BY <1>3, <3>4, <3>5, <3>6
    <2>. QED  BY <1>1, <1>5, <2>3, RaiseKeeps DEF PeekStages, ReadStages
  <1>6. CASE pc \in ReadStages \cup {"v1_line"}
    <2>1. Unread = <<>> /\ (pc \in ReadStages => ReadMissing > 0)
      BY <1>6 DEF EndOfStream, PeekStages, ReadStages
    <2>2. arrived = taken
      BY <1>3, <2>1, UnreadIsRun, EmptyRun
    <2>3. ASSUME pc \in ReadStages PROVE taken < V2Header
      <3>1. Held(buf, Offset) /\ Reach(buf, Offset) = taken
        BY <2>3 DEF LocalBuf
      <3>2. /\ Offset \in Nat /\ ReadLength \in Nat /\ Offset + ReadLength <= V2Header
        BY <1>3, <2>3 DEF Offset, ReadLength, ReadStages
      <3>3. taken = Offset + Size(buf)
        BY <3>1, <3>2, ReachShort
      <3>4. Size(buf) < ReadLength
        BY <2>1, <2>3 DEF ReadMissing
      <3>5. Size(buf) = taken - Offset
        <4>1. buf.lo \in Nat /\ buf.hi \in Nat
          BY <3>1 DEF Held, Chunk
        <4>. QED  BY <1>3, <3>2, <3>3, <4>1 DEF Size
      <3>. QED  BY <1>3, <3>2, <3>4, <3>5 DEF V2Header
    <2>4. arrived < taken + Preface
      BY <1>3, <2>2
    <2>. QED  BY <1>1, <1>6, <2>3, <2>4, RaiseKeeps DEF PeekStages, ReadStages
  <1>. QED  BY <1>5, <1>6 DEF EndOfStream

\* The next chunk, once peeked at, extends pre_receives.
LEMMA NextChunkPeeked ==
    ASSUME NEW a \in Nat, NEW t \in Nat, NEW m \in Nat, NEW s \in {0, 1}, NEW p, NEW q,
           Run(p, t, m, s), Run(q, m, a, s), q # <<>>
    PROVE  LET c == Head(q)
           IN  /\ Piece(c, s) /\ c.lo = m + 1 /\ c.hi \in m .. a
               /\ Run(Append(p, c), t, c.hi, s) /\ Run(Tail(q), c.hi, a, s)
               /\ Len(Append(p, c)) = Len(p) + 1
               /\ \A i \in 1 .. Len(p) : Append(p, c)[i] = p[i]
  <1>. DEFINE c == Head(q)
  <1>1. /\ Piece(c, s) /\ c.lo = m + 1 /\ c.hi \in Nat /\ m <= c.hi /\ c.hi <= a
        /\ Run(Tail(q), c.hi, a, s)
    BY FirstOfRun
  <1>. HIDE DEF c
  <1>2. p \in Seq(Chunk) /\ c \in Chunk /\ Append(p, c) = p \o <<c>>
    BY <1>1, AppendProperties DEF Run, Piece
  <1>3. Run(<<c>>, m, c.hi, s)
    <2>1. c.lo - 1 = m
      BY <1>1
    <2>. QED  BY <1>1, <2>1, RunOfOne
  <1>4. Run(Append(p, c), t, c.hi, s)
    BY <1>1, <1>2, <1>3, RunsMeet
  <1>5. Len(Append(p, c)) = Len(p) + 1 /\ \A i \in 1 .. Len(p) : Append(p, c)[i] = p[i]
    BY <1>2, AppendProperties
  <1>. QED  BY <1>1, <1>4, <1>5 DEF c

\* A peek copies the next bytes and moves at most one chunk to pre_receives.
LEMMA PeekKeepsRuns ==
    ASSUME IInv, Peek, pc # "tls_hello"
    PROVE  Streams' /\ LineAhead' /\ LocalBuf' /\ pre_buffers' \in Seq(Chunk)
  <1>. USE DEF IInv
  <1>. DEFINE n == PeekMissing  r == Reach(buf, taken)
  <1>1. /\ pc \in PeekStages /\ n > 0 /\ PreReceive(n)
        /\ UNCHANGED <<setup, arrived, buffers, pc, field, taken>>
        /\ wire' = wire /\ listener' = listener
    BY DEF Peek, setup
  <1>2. PICK m \in 0 .. arrived, k \in 0 .. arrived :
            /\ Run(pre_receives, taken, m, Least) /\ Run(buffers, m, k, Least)
            /\ Run(below, k, arrived, Least) /\ buffers = <<>>
            /\ Run(pre_buffers, r, m, Least)
    BY <1>1 DEF Streams
  <1>3. /\ m \in Nat /\ arrived \in Nat /\ taken \in Nat /\ Least \in {0, 1}
        /\ Held(buf, taken) /\ r \in Nat /\ r = taken + Size(buf) /\ r <= m
    <2>1. m \in Nat /\ arrived \in Nat /\ taken \in Nat /\ Least \in {0, 1}
      BY Lengths
    <2>2. Held(buf, taken)
      BY <1>1 DEF LocalBuf
    <2>. QED  BY <1>2, <2>1, <2>2, ReachShort DEF Run
  <1>4. n \in Nat \ {0} /\ Size(buf) < PeekLength /\ PeekLength \in Nat
    <2>1. PeekLength \in Nat
      BY <1>1, Lengths DEF PeekLength, PeekStages
    <2>2. buf.lo \in Nat /\ buf.hi \in Nat
      BY <1>3 DEF Held, Chunk
    <2>. QED  BY <1>1, <2>1, <2>2 DEF PeekMissing, Size
  <1>5. k = m
    BY <1>2, <1>3, EmptyRun
  <1>6. Least' = Least
    BY <1>1 DEF Least, Understood
  <1>. HIDE DEF n
  <1>7. ASSUME NEW f, f \in Chunk, f.lo = r + 1, f.hi >= r, buf' = Joined(buf, f)
        PROVE  LocalBuf' /\ Reach(buf, taken)' = f.hi
    <2>1. Held(buf, taken)' /\ Reach(buf, taken)' = f.hi
      BY <1>1, <1>3, <1>7, JoinedReaches
    <2>. QED  BY <1>1, <2>1 DEF LocalBuf, PeekStages, ReadStages
  <1>8. CASE pre_buffers # <<>>
    <2>. DEFINE f == Front(Head(pre_buffers), n)
    <2>1. /\ buf' = Joined(buf, f) /\ pre_buffers' = Rest(Head(pre_buffers), n) \o Tail(pre_buffers)
          /\ below' = below /\ pre_receives' = pre_receives
      BY <1>1, <1>8 DEF PreReceive
    <2>2. /\ f.lo = r + 1 /\ f.hi \in Nat /\ r <= f.hi /\ f.hi <= m /\ Piece(f, Least)
          /\ Run(pre_buffers', f.hi, m, Least)
      BY <1>2, <1>3, <1>4, <1>8, <2>1, PutBack
    <2>. HIDE DEF f
    <2>3. LocalBuf' /\ Reach(buf, taken)' = f.hi
      <3>1. f \in Chunk /\ f.hi >= r
        BY <1>3, <2>2 DEF Piece
      <3>. QED  BY <1>7, <2>1, <2>2, <3>1
    <2>4. Streams'
      BY <1>1, <1>2, <1>6, <2>1, <2>2, <2>3 DEF Streams
    <2>5. LineAhead'
      BY <1>1, <2>1 DEF LineAhead
    <2>. QED  BY <2>2, <2>3, <2>4, <2>5 DEF Run
  <1>9. CASE pre_buffers = <<>>
    <2>. DEFINE c == Head(below)  f == Front(c, n)
    <2>1. /\ below # <<>> /\ buf' = Joined(buf, f) /\ pre_buffers' = Rest(c, n)
          /\ pre_receives' = Append(pre_receives, c) /\ below' = Tail(below)
      BY <1>1, <1>9 DEF PreReceive
    <2>2. r = m
      BY <1>2, <1>3, <1>9, EmptyRun
    <2>3. /\ Piece(c, Least) /\ c.lo = m + 1 /\ c.hi \in Nat /\ m <= c.hi /\ c.hi <= arrived
          /\ Run(below', c.hi, arrived, Least) /\ Run(pre_receives', taken, c.hi, Least)
          /\ Len(pre_receives') = Len(pre_receives) + 1
          /\ \A i \in 1 .. Len(pre_receives) : pre_receives'[i] = pre_receives[i]
      <3>1. Run(pre_receives, taken, m, Least) /\ Run(below, m, arrived, Least) /\ below # <<>>
        BY <1>2, <1>5, <2>1
      <3>2. /\ Piece(c, Least) /\ c.lo = m + 1 /\ c.hi \in m .. arrived
            /\ Run(Append(pre_receives, c), taken, c.hi, Least)
            /\ Run(Tail(below), c.hi, arrived, Least)
            /\ Len(Append(pre_receives, c)) = Len(pre_receives) + 1
            /\ \A i \in 1 .. Len(pre_receives) : Append(pre_receives, c)[i] = pre_receives[i]
        BY <1>3, <3>1, NextChunkPeeked
      <3>. QED  BY <1>3, <2>1, <3>2
    <2>. HIDE DEF c
    <2>4. /\ Piece(f, Least) /\ f.lo = c.lo /\ f.hi \in Nat /\ f.hi <= c.hi
          /\ c.lo <= f.hi + 1 /\ Run(pre_buffers', f.hi, c.hi, Least)
      BY <1>3, <1>4, <2>1, <2>3, FrontAndRest
    <2>. HIDE DEF f
    <2>5. LocalBuf' /\ Reach(buf, taken)' = f.hi
      <3>1. f \in Chunk /\ f.lo = r + 1 /\ f.hi >= r
        BY <1>3, <2>2, <2>3, <2>4 DEF Piece
      <3>. QED  BY <1>7, <2>1, <3>1
    <2>8. Streams'
      <3>1. Run(buffers', c.hi, c.hi, Least)
        BY <1>1, <1>2, <2>3, RunOfNothing
      <3>2. c.hi \in 0 .. arrived'
        BY <1>1, <1>3, <2>3
      <3>. QED  BY <1>1, <1>2, <1>6, <2>3, <2>4, <2>5, <3>1, <3>2 DEF Streams
    <2>9. LineAhead'
      <3>1. SUFFICES ASSUME pc = "v1_peek", NEW i \in 1 .. Len(pre_receives') - 1
                     PROVE  pre_receives'[i].hi < V1Magic
        BY <1>1 DEF LineAhead, PeekStages
      <3>2. i \in 1 .. Len(pre_receives) /\ pre_receives'[i] = pre_receives[i]
        <4>1. Len(pre_receives) \in Nat
          BY <1>2, LenProperties DEF Run
        <4>. QED  BY <2>3, <4>1
      <3>3. pre_receives[i].hi <= m /\ pre_receives[i].hi \in Nat
        BY <1>2, <3>2 DEF Run, Piece, Chunk
      <3>4. taken = 0 /\ PeekLength = V1Magic
        BY <3>1 DEF Place, PeekLength
      <3>5. m < V1Magic
        <4>1. buf.lo \in Nat /\ buf.hi \in Nat
          BY <1>3 DEF Held, Chunk
        <4>. QED  BY <1>3, <1>4, <2>2, <3>4, <4>1 DEF Size
      <3>. QED  BY <1>3, <1>4, <3>2, <3>3, <3>4, <3>5
    <2>. QED  BY <2>4, <2>5, <2>8, <2>9 DEF Run
  <1>. QED  BY <1>8, <1>9

\* A peek at the hello: nothing depends on what it has got so far.
LEMMA PeekHelloKeepsRuns ==
    ASSUME IInv, Peek, pc = "tls_hello"
    PROVE  Streams' /\ LineAhead' /\ LocalBuf' /\ pre_buffers' \in Seq(Chunk) /\ buf' \in Chunk
  <1>. USE DEF IInv
  <1>. DEFINE n == PeekMissing
  <1>1. /\ n > 0 /\ PreReceive(n) /\ UNCHANGED <<setup, arrived, buffers, pc, field, taken>>
        /\ wire' = wire /\ listener' = listener
    BY DEF Peek, setup
  <1>2. n \in Nat \ {0} /\ buf \in Chunk
    <2>1. PeekLength \in Nat
      <3>1. field + 1 \in 1 .. Len(HelloFields)
        BY LengthsAssumption DEF Place, TypeOK, PeekStages, LengthsAssumption
      <3>. QED  BY <3>1, LengthsAssumption, ElementOfSeq DEF PeekLength, LengthsAssumption
    <2>2. buf \in Chunk /\ buf.lo \in Nat /\ buf.hi \in Nat
      BY DEF TypeOK, Chunk
    <2>. QED  BY <1>1, <2>1, <2>2 DEF PeekMissing, Size
  <1>3. PICK m \in 0 .. arrived, k \in 0 .. arrived :
            /\ Run(pre_receives, taken, m, Least) /\ Run(buffers, m, k, Least)
            /\ Run(below, k, arrived, Least) /\ buffers = <<>>
    BY DEF Streams, PeekStages
  <1>4. /\ m \in Nat /\ arrived \in Nat /\ taken \in Nat /\ Least \in {0, 1}
        /\ Least' = Least /\ k = m
    BY <1>1, <1>3, Lengths, EmptyRun DEF Least, Understood
  <1>. HIDE DEF n
  <1>5. ASSUME NEW c \in Chunk
        PROVE  Front(c, n) \in Chunk /\ Rest(c, n) \in Seq(Chunk) /\ Joined(buf, Front(c, n)) \in Chunk
    <2>1. c.lo \in Nat /\ c.hi \in Nat /\ buf.lo \in Nat /\ buf.hi \in Nat
      BY <1>2 DEF Chunk
    <2>2. Front(c, n) \in Chunk
      BY <1>2, <2>1 DEF Front, Chunk
    <2>3. [lo |-> c.lo + n, hi |-> c.hi] \in Chunk
      BY <1>2, <2>1 DEF Chunk
    <2>4. Rest(c, n) \in Seq(Chunk)
      BY <2>3 DEF Rest
    <2>5. Joined(buf, Front(c, n)) \in Chunk
      BY <1>2, <2>2 DEF Joined, Chunk
    <2>. QED  BY <2>2, <2>4, <2>5
  <1>6. LineAhead' /\ LocalBuf'
    BY <1>1 DEF LineAhead, LocalBuf, PeekStages, ReadStages
  <1>7. CASE pre_buffers # <<>>
    <2>1. /\ buf' = Joined(buf, Front(Head(pre_buffers), n)) /\ below' = below
          /\ pre_buffers' = Rest(Head(pre_buffers), n) \o Tail(pre_buffers)
          /\ pre_receives' = pre_receives
      BY <1>1, <1>7 DEF PreReceive
    <2>2. Head(pre_buffers) \in Chunk /\ Tail(pre_buffers) \in Seq(Chunk)
      BY <1>7, HeadTailProperties DEF TypeOK
    <2>3. pre_buffers' \in Seq(Chunk) /\ buf' \in Chunk
      BY <1>5, <2>1, <2>2, ConcatProperties
    <2>4. Streams'
      BY <1>1, <1>3, <1>4, <2>1 DEF Streams
    <2>. QED  BY <1>6, <2>3, <2>4
  <1>8. CASE pre_buffers = <<>>
    <2>. DEFINE c == Head(below)
    <2>1. /\ below # <<>> /\ buf' = Joined(buf, Front(c, n)) /\ pre_buffers' = Rest(c, n)
          /\ pre_receives' = Append(pre_receives, c) /\ below' = Tail(below)
      BY <1>1, <1>8 DEF PreReceive
    <2>2. /\ Piece(c, Least) /\ c.hi \in m .. arrived
          /\ Run(pre_receives', taken, c.hi, Least) /\ Run(below', c.hi, arrived, Least)
      BY <1>3, <1>4, <2>1, NextChunkPeeked
    <2>. HIDE DEF c
    <2>3. pre_buffers' \in Seq(Chunk) /\ buf' \in Chunk
      BY <1>5, <2>1, <2>2 DEF Piece
    <2>4. Streams'
      <3>1. c.hi \in Nat /\ c.hi \in 0 .. arrived' /\ Run(buffers', c.hi, c.hi, Least)
        BY <1>1, <1>3, <1>4, <2>2, RunOfNothing
      <3>. QED  BY <1>1, <1>3, <1>4, <2>2, <3>1 DEF Streams
    <2>. QED  BY <1>6, <2>3, <2>4
  <1>. QED  BY <1>7, <1>8

LEMMA PeekKeeps == ASSUME IInv, Peek PROVE IInv'
  <1>. USE DEF IInv
  <1>1. /\ pc \in PeekStages /\ wire' = wire /\ listener' = listener
        /\ UNCHANGED <<arrived, closed, buffers, pc, field, addressed, taken, handed, blank, told>>
    BY DEF Peek, setup
  <1>2. /\ Streams' /\ LineAhead' /\ LocalBuf'
        /\ pre_buffers' \in Seq(Chunk) /\ buf' \in Chunk
    <2>1. CASE pc = "tls_hello"
      BY <2>1, PeekHelloKeepsRuns
    <2>2. CASE pc # "tls_hello"
      <3>1. Streams' /\ LineAhead' /\ LocalBuf' /\ pre_buffers' \in Seq(Chunk)
        BY <2>2, PeekKeepsRuns
      <3>2. buf' \in Chunk
        BY <1>1, <2>2, <3>1 DEF LocalBuf, Held
      <3>. QED  BY <3>1, <3>2
    <2>. QED  BY <2>1, <2>2
  <1>3. below' \in Seq(Chunk) /\ pre_receives' \in Seq(Chunk) /\ buffers' \in Seq(Chunk)
    BY <1>2 DEF Streams, Run
  <1>4. TypeOK'
    BY <1>1, <1>2, <1>3 DEF TypeOK, Total
  <1>5. Place'
    BY <1>1 DEF Place, Settled, Doomed, Understood
  <1>6. BlankKnown' /\ HandoffAtPayload'
    BY <1>1 DEF BlankKnown, Least, Understood, HandoffAtPayload, PayloadStart
  <1>. QED  BY <1>2, <1>4, <1>5, <1>6

\* What every read of the stream keeps, whatever it does with the bytes.
LEMMA TakenKeeps ==
    ASSUME IInv, NEW n \in Nat \ {0}, Remove(n), taken' = Front(Head(Unread), n).hi,
           pc \notin PeekStages, buf' \in Chunk, blank' \in BOOLEAN,
           UNCHANGED <<setup, arrived, closed, pre_buffers, pc, field, addressed, handed, told>>
    PROVE  TypeOK' /\ Streams' /\ wire' = wire /\ listener' = listener
  <1>. USE DEF IInv
  <1>. DEFINE f == Front(Head(Unread), n)
  <1>1. /\ f.hi \in taken .. arrived
        /\ \E m, k \in 0 .. arrived :
              /\ Run(pre_receives', f.hi, m, Least) /\ Run(buffers', m, k, Least)
              /\ Run(below', k, arrived, Least)
    BY RemoveKeepsRuns
  <1>. HIDE DEF f
  <1>2. /\ taken' = f.hi /\ wire' = wire /\ listener' = listener /\ Least' = Least
        /\ pc' = pc /\ arrived' = arrived
    BY DEF f, setup, Least, Understood
  <1>3. Streams'
    BY <1>1, <1>2 DEF Streams
  <1>4. pre_receives' \in Seq(Chunk) /\ buffers' \in Seq(Chunk) /\ below' \in Seq(Chunk)
    BY <1>1 DEF Run
  <1>5. taken' \in 0 .. arrived' /\ handed' \in 0 .. taken'
    <2>1. arrived \in Nat /\ taken \in Nat /\ handed \in 0 .. taken /\ handed' = handed
      BY Lengths DEF TypeOK
    <2>. QED  BY <1>1, <1>2, <2>1
  <1>6. TypeOK'
    BY <1>2, <1>4, <1>5 DEF TypeOK, Total
  <1>. QED  BY <1>2, <1>3, <1>6

LEMMA ReadKeeps == ASSUME IInv, Read PROVE IInv'
  <1>. USE DEF IInv
  <1>. DEFINE n == ReadMissing  f == Front(Head(Unread), n)
  <1>1. /\ pc \in ReadStages /\ n > 0 /\ Remove(n) /\ buf' = Joined(buf, f) /\ taken' = f.hi
        /\ UNCHANGED <<setup, arrived, closed, pre_buffers, pc, field, addressed, handed, blank, told>>
    BY DEF Read
  <1>2. /\ Held(buf, Offset) /\ Reach(buf, Offset) = taken /\ taken <= Offset + ReadLength
        /\ Offset \in Nat /\ ReadLength \in Nat /\ taken \in Nat /\ arrived \in Nat
    <2>1. Offset \in Nat /\ ReadLength \in Nat /\ taken \in Nat /\ arrived \in Nat
      BY <1>1, Lengths DEF Offset, ReadLength, ReadStages
    <2>. QED  BY <1>1, <2>1 DEF LocalBuf
  <1>3. taken = Offset + Size(buf) /\ Size(buf) = taken - Offset
    <2>1. buf.lo \in Nat /\ buf.hi \in Nat
      BY <1>2 DEF Held, Chunk
    <2>2. taken = Offset + Size(buf)
      BY <1>2, ReachShort
    <2>. QED  BY <1>2, <2>1, <2>2 DEF Size
  <1>4. n = ReadLength - Size(buf) /\ n \in Nat \ {0}
    BY <1>1, <1>2, <1>3 DEF ReadMissing
  <1>. HIDE DEF n
  <1>5. /\ Piece(f, Least) /\ f.lo = taken + 1 /\ f.hi \in taken .. arrived /\ Size(f) <= n
    BY <1>1, <1>4, RemoveKeepsRuns
  <1>6. taken' = Front(Head(Unread), n).hi
    BY <1>1
  <1>. HIDE DEF f
  <1>7. Held(buf', Offset) /\ Reach(buf', Offset) = taken'
    <2>1. f \in Chunk /\ f.lo = Reach(buf, Offset) + 1 /\ f.hi >= Reach(buf, Offset)
      BY <1>2, <1>5 DEF Piece
    <2>. QED  BY <1>1, <1>2, <2>1, JoinedReaches
  <1>8. taken' <= Offset + ReadLength
    BY <1>1, <1>2, <1>3, <1>4, <1>5 DEF Size
  <1>9. TypeOK' /\ Streams' /\ wire' = wire /\ listener' = listener
    <2>1. pc \notin PeekStages /\ buf' \in Chunk /\ blank' \in BOOLEAN
      BY <1>1, <1>7 DEF ReadStages, PeekStages, Held, TypeOK
    <2>. QED  BY <1>1, <1>4, <1>6, <2>1, TakenKeeps
  <1>10. LineAhead'
    BY <1>1 DEF LineAhead, ReadStages
  <1>11. LocalBuf'
    <2>1. Offset' = Offset /\ ReadLength' = ReadLength
      BY <1>1 DEF Offset, ReadLength
    <2>. QED  BY <1>1, <1>7, <1>8, <2>1 DEF LocalBuf, PeekStages, ReadStages
  <1>12. Place'
    BY <1>1, <1>9 DEF Place, ReadStages, PeekStages
  <1>13. BlankKnown' /\ HandoffAtPayload'
    BY <1>1, <1>9 DEF BlankKnown, Least, Understood, HandoffAtPayload, ReadStages, Handlers, Dropped
  <1>. QED  BY <1>9, <1>10, <1>11, <1>12, <1>13

LEMMA ReadLineKeeps == ASSUME IInv, ReadLine PROVE IInv'
  <1>. USE DEF IInv
  <1>1. /\ pc = "v1_line" /\ ~Separated /\ Remove(MaxReceive) /\ taken' = Line.hi
        /\ UNCHANGED <<setup, arrived, closed, pre_buffers, pc, field, buf, addressed, handed, blank, told>>
    BY DEF ReadLine
  <1>2. /\ MaxReceive \in Nat \ {0} /\ taken \in Nat /\ arrived \in Nat /\ V1Line \in Nat
        /\ Least \in {0, 1}
    BY Lengths
  <1>3. /\ Line.lo = taken + 1 /\ Line.hi \in taken .. arrived
    BY <1>1, <1>2, RemoveKeepsRuns DEF Line
  <1>4. taken' < V1Line /\ wire.header = "v1"
    <2>1. taken < V1Line /\ wire.header = "v1"
      BY <1>1 DEF Place
    <2>. QED  BY <1>1, <1>2, <1>3, <2>1 DEF Separated
  <1>5. TypeOK' /\ Streams' /\ wire' = wire /\ listener' = listener
    <2>1. pc \notin PeekStages /\ buf' \in Chunk /\ blank' \in BOOLEAN
      BY <1>1 DEF PeekStages, TypeOK
    <2>. QED  BY <1>1, <1>2, <2>1, TakenKeeps DEF Line
  <1>6. LineAhead'
    <2>1. CASE pre_receives = <<>>
      <3>1. pre_receives' = <<>>
        BY <1>1, <2>1 DEF Remove
      <3>. QED  BY <3>1 DEF LineAhead
    <2>2. CASE pre_receives # <<>>
      <3>1. PICK m \in 0 .. arrived : Run(pre_receives, taken, m, Least)
        BY DEF Streams
      <3>2. /\ Piece(Head(pre_receives), Least)
            /\ Len(Tail(pre_receives)) = Len(pre_receives) - 1
            /\ \A i \in 1 .. Len(Tail(pre_receives)) : Tail(pre_receives)[i] = pre_receives[i + 1]
        BY <1>2, <2>2, <3>1, FirstOfRun
      <3>3. Len(pre_receives) \in Nat /\ Tail(pre_receives) \in Seq(Chunk)
        BY <2>2, <3>1, HeadTailProperties, LenProperties DEF Run
      <3>4. pre_receives' = Tail(pre_receives)
        <4>1. Rest(Head(pre_receives), MaxReceive) = <<>>
          BY <1>2, <3>2 DEF Rest, Piece, Chunk, Size
        <4>. QED  BY <1>1, <2>2, <3>3, <4>1, ConcatEmptySeq DEF Remove
      <3>5. SUFFICES ASSUME NEW i \in 1 .. Len(pre_receives') - 1
                     PROVE  pre_receives'[i].hi < V1Magic
        BY DEF LineAhead
      <3>6. i + 1 \in 1 .. Len(pre_receives) - 1 /\ pre_receives'[i] = pre_receives[i + 1]
        BY <3>2, <3>3, <3>4
      <3>. QED  BY <1>1, <3>6 DEF LineAhead
    <2>. QED  BY <2>1, <2>2
  <1>7. LocalBuf'
    BY <1>1 DEF LocalBuf, PeekStages, ReadStages
  <1>8. Place'
    BY <1>1, <1>4, <1>5 DEF Place, ReadStages, PeekStages
  <1>9. BlankKnown' /\ HandoffAtPayload'
    BY <1>1, <1>5 DEF BlankKnown, Least, Understood, HandoffAtPayload, Handlers, Dropped
  <1>. QED  BY <1>5, <1>6, <1>7, <1>8, <1>9

\* A complete peek has buf from the next unread byte on.
LEMMA PeekComplete ==
    ASSUME IInv, pc \in PeekStages \ {"tls_hello"}, PeekMissing = 0
    PROVE  /\ buf.lo = taken + 1
           /\ pc = "auto_peek" => taken + Preface <= arrived
  <1>. USE DEF IInv
  <1>1. taken \in Nat /\ arrived \in Nat /\ Least \in {0, 1}
    BY Lengths
  <1>2. Held(buf, taken) /\ buf.lo \in Nat /\ buf.hi \in Nat
    BY DEF LocalBuf, Held, Chunk
  <1>3. PeekLength \in Nat \ {0} /\ (pc = "auto_peek" => PeekLength = Preface)
    BY Lengths DEF PeekLength, PeekStages
  <1>4. Size(buf) >= PeekLength
    BY <1>2, <1>3 DEF PeekMissing, Size
  <1>5. Reach(buf, taken) \in Nat /\ Reach(buf, taken) = taken + Size(buf)
    BY <1>1, <1>2, ReachShort
  <1>6. PICK m \in 0 .. arrived : Run(pre_buffers, Reach(buf, taken), m, Least)
    BY DEF Streams
  <1>7. Reach(buf, taken) <= arrived
    BY <1>1, <1>5, <1>6 DEF Run
  <1>8. buf # Empty
    BY <1>2, <1>3, <1>4 DEF Size, Empty
  <1>9. buf.lo = taken + 1
    BY <1>2, <1>8 DEF Held
  <1>10. Size(buf) \in Int
    BY <1>2 DEF Size
  <1>. QED  BY <1>1, <1>3, <1>4, <1>5, <1>7, <1>9, <1>10

LEMMA V1PeekedKeeps == ASSUME IInv, V1Peeked PROVE IInv'
  <1>. USE DEF IInv
  <1>1. /\ pc = "v1_peek" /\ PeekMissing = 0
        /\ UNCHANGED <<setup, arrived, closed, field, addressed, taken, handed, blank, told>>
        /\ wire' = wire /\ listener' = listener
    BY DEF V1Peeked, setup
  <1>2. taken = 0 /\ listener.proxy \in {"v1", "mixed"} /\ ~addressed /\ field < Len(HelloFields)
    BY <1>1 DEF Place, PeekStages
  <1>3. buf.lo = 1
    BY <1>1, <1>2, PeekComplete DEF PeekStages
  <1>4. CASE ~IsMagic({"v1"})
    BY <1>1, <1>3, <1>4, RaiseKeeps DEF V1Peeked, IsMagic
  <1>5. CASE IsMagic({"v1"})
    <2>1. /\ pc' = "v1_line" /\ buf' = Empty /\ Empty \in Chunk
          /\ UNCHANGED <<below, pre_buffers, pre_receives, buffers>>
      BY <1>5 DEF V1Peeked, GoTo, stream, Empty, Chunk
    <2>2. TypeOK'
      BY <1>1, <2>1 DEF TypeOK, Total
    <2>3. Streams'
      BY <1>1, <2>1 DEF Streams, Least, Understood, PeekStages
    <2>4. LineAhead' /\ LocalBuf'
      BY <1>1, <2>1 DEF LineAhead, LocalBuf, PeekStages, ReadStages
    <2>5. Place'
      <3>1. 0 < V1Line
        BY Lengths
      <3>. QED  BY <1>1, <1>2, <1>5, <2>1, <3>1 DEF Place, IsMagic, ReadStages
    <2>6. BlankKnown' /\ HandoffAtPayload'
      BY <1>1, <2>1 DEF BlankKnown, Least, Understood, HandoffAtPayload, Handlers, Dropped
    <2>. QED  BY <2>2, <2>3, <2>4, <2>5, <2>6
  <1>. QED  BY <1>4, <1>5

\* The rest of the line is put back where the line was, behind nothing.
LEMMA V1LineReadKeeps == ASSUME IInv, V1LineRead PROVE IInv'
  <1>. USE DEF IInv
  <1>. DEFINE c == Head(Unread)  d == [lo |-> V1Line + 1, hi |-> Line.hi]
  <1>1. /\ pc = "v1_line" /\ Unread # <<>> /\ Separated
        /\ pre_buffers' = <<>> /\ pre_receives' = <<>> /\ buffers' = <<>> /\ taken' = V1Line
        /\ UNCHANGED <<setup, arrived, closed, field, addressed, handed, blank, told>>
        /\ wire' = wire /\ listener' = listener
        /\ \/ /\ pre_receives # <<>>
              /\ below' = Tail(pre_receives) \o <<d>> \o buffers \o below
           \/ /\ pre_receives = <<>>
              /\ below' = <<d>> \o Tail(buffers \o below)
    BY DEF V1LineRead, setup
  <1>2. /\ taken \in Nat /\ arrived \in Nat /\ V1Line \in Nat \ {0} /\ MaxReceive \in Nat \ {0}
        /\ V1Magic \in Nat /\ V1Magic < V1Line /\ Least \in {0, 1}
    BY Lengths
  <1>3. /\ listener.proxy \in {"v1", "mixed"} /\ ~addressed /\ wire.header = "v1"
        /\ taken < V1Line /\ field < Len(HelloFields)
    BY <1>1 DEF Place
  <1>4. Least = 0 /\ Understood
    BY <1>3 DEF Least, Understood
  <1>5. Run(Unread, taken, arrived, 0)
    BY <1>4, UnreadIsRun
  <1>6. /\ Piece(c, 0) /\ c.lo = taken + 1 /\ c.hi \in Nat /\ c.hi <= arrived
        /\ Run(Tail(Unread), c.hi, arrived, 0)
    BY <1>1, <1>2, <1>5, FirstOfRun
  <1>. HIDE DEF c
  <1>7. Line = c
    <2>1. c \in Chunk /\ Size(c) <= MaxReceive /\ c.lo \in Nat
      BY <1>6 DEF Piece, Chunk
    <2>2. ~(Size(c) > MaxReceive)
      BY <1>2, <1>6, <2>1 DEF Size
    <2>. QED  BY <2>2 DEF Line, Front, c
  <1>8. V1Line <= c.hi
    BY <1>1, <1>2, <1>6, <1>7 DEF Separated
  <1>9. d \in Chunk /\ d.lo = V1Line + 1 /\ d.hi = c.hi
    BY <1>2, <1>6, <1>7 DEF Chunk
  <1>. HIDE DEF d
  <1>10. Run(<<d>>, V1Line, c.hi, 0)
    <2>1. d.lo - 1 = V1Line
      BY <1>2, <1>9
    <2>2. Piece(d, 0)
      BY <1>2, <1>3, <1>6, <1>8, <1>9 DEF Piece, Size
    <2>. QED  BY <1>9, <2>1, <2>2, RunOfOne
  <1>11. Run(below', V1Line, arrived, 0)
    <2>1. PICK m \in 0 .. arrived, k \in 0 .. arrived :
              /\ Run(pre_receives, taken, m, 0) /\ Run(buffers, m, k, 0)
              /\ Run(below, k, arrived, 0)
      BY <1>4 DEF Streams
    <2>2. /\ pre_receives \in Seq(Chunk) /\ buffers \in Seq(Chunk) /\ below \in Seq(Chunk)
          /\ m \in Nat /\ k \in Nat
      BY <2>1 DEF Run
    <2>3. CASE pre_receives # <<>>
      <3>1. c = Head(pre_receives) /\ c = pre_receives[1]
        BY <2>2, <2>3, FirstUnread, HeadTailProperties DEF c
      <3>2. /\ Len(pre_receives) \in Nat \ {0} /\ Tail(pre_receives) \in Seq(Chunk)
            /\ Len(Tail(pre_receives)) = Len(pre_receives) - 1
        BY <2>2, <2>3, HeadTailProperties, EmptySeq
      <3>3. Len(pre_receives) = 1
        <4>1. SUFFICES ASSUME Len(pre_receives) > 1 PROVE FALSE
          BY <3>2
        <4>2. pre_receives[1].hi < V1Magic
          <5>1. 1 \in 1 .. Len(pre_receives) - 1
            BY <3>2, <4>1
          <5>. QED  BY <1>1, <5>1 DEF LineAhead
        <4>. QED  BY <1>2, <1>6, <1>8, <3>1, <4>2
      <3>4. Tail(pre_receives) = <<>>
        <4>1. Len(Tail(pre_receives)) = 0
          BY <3>2, <3>3
        <4>. QED  BY <3>2, <4>1, EmptySeq
      <3>5. c.hi = m
        <4>1. pre_receives[Len(pre_receives)].hi = m
          BY <2>1, <2>3 DEF Run, Adjoining
        <4>. QED  BY <3>1, <3>3, <4>1
      <3>6. below' = (<<d>> \o buffers) \o below
        <4>1. Tail(pre_receives) \o <<d>> = <<d>>
          <5>1. <<d>> \in Seq(Chunk)
            BY <1>9
          <5>. QED  BY <3>4, <5>1, ConcatEmptySeq
        <4>. QED  BY <1>1, <2>3, <4>1
      <3>7. Run(<<d>> \o buffers, V1Line, k, 0)
        BY <1>2, <1>10, <2>1, <2>2, <3>5, RunsMeet
      <3>. QED  BY <1>2, <2>1, <2>2, <3>6, <3>7, RunsMeet
    <2>4. CASE pre_receives = <<>>
      <3>1. Unread = buffers \o below
        BY <2>2, <2>4 DEF Unread
      <3>2. below' = <<d>> \o Tail(Unread)
        BY <1>1, <2>4, <3>1
      <3>. QED  BY <1>2, <1>6, <1>10, <3>2, RunsMeet
    <2>. QED  BY <2>3, <2>4
  <1>12. Streams' /\ below' \in Seq(Chunk)
    <2>1. Run(<<>>, V1Line, V1Line, 0) /\ V1Line \in 0 .. arrived
      BY <1>2, <1>6, <1>8, RunOfNothing
    <2>2. Least' = 0 /\ Reach(buf, taken)' = V1Line
      <3>1. buf' = Empty
        BY DEF V1LineRead, GoTo
      <3>. QED  BY <1>1, <1>4, <3>1 DEF Least, Understood, Reach
    <2>. QED  BY <1>1, <1>11, <2>1, <2>2 DEF Streams, Run
  <1>13. PICK stage \in {"v2_peek", "tls_peek", "auto_peek"} :
            /\ GoTo(stage)
            /\ stage = "v2_peek" => listener.proxy = "mixed"
            /\ stage = "tls_peek" => listener.tls
            /\ stage = "auto_peek" => ~listener.tls
    BY DEF V1LineRead, AfterProxy
  <1>14. Place'
    <2>1. Settled'
      BY <1>1, <1>3, <1>4 DEF Settled, Understood, HeaderLength
    <2>2. pc' = stage
      BY <1>13 DEF GoTo
    <2>. QED  BY <1>1, <1>3, <1>13, <2>1, <2>2 DEF Place, ReadStages
  <1>15. taken' \in taken .. arrived
    BY <1>1, <1>2, <1>3, <1>6, <1>8
  <1>16. addressed' \in BOOLEAN
    BY <1>1 DEF TypeOK
  <1>. QED  BY <1>1, <1>12, <1>13, <1>14, <1>15, <1>16, StageEntered

LEMMA V2PeekedKeeps == ASSUME IInv, V2Peeked PROVE IInv'
  <1>. USE DEF IInv
  <1>1. /\ pc = "v2_peek" /\ PeekMissing = 0
        /\ UNCHANGED <<setup, arrived, closed, field, addressed, taken, handed, blank, told>>
        /\ wire' = wire /\ listener' = listener
    BY DEF V2Peeked, setup
  <1>2. /\ listener.proxy \in {"v2", "mixed"} /\ ~addressed /\ field < Len(HelloFields)
        /\ wire.header \in {"v2", "v2_local"} => taken = 0
    BY <1>1 DEF Place, PeekStages
  <1>3. wire.header \in {"v2", "v2_local"} => buf.lo = 1
    BY <1>1, <1>2, PeekComplete DEF PeekStages
  <1>4. CASE ~IsMagic({"v2", "v2_local"})
    BY <1>1, <1>3, <1>4, RaiseKeeps DEF V2Peeked, IsMagic
  <1>5. CASE IsMagic({"v2", "v2_local"})
    <2>1. /\ pc' = "v2_magic" /\ buf' = Empty /\ Empty \in Chunk
          /\ UNCHANGED <<below, pre_buffers, pre_receives, buffers>>
      BY <1>5 DEF V2Peeked, GoTo, stream, Empty, Chunk
    <2>2. TypeOK'
      BY <1>1, <2>1 DEF TypeOK, Total, ReadStages
    <2>3. Streams'
      BY <1>1, <2>1 DEF Streams, Least, Understood, PeekStages
    <2>4. LineAhead'
      BY <2>1 DEF LineAhead
    <2>5. LocalBuf'
      <3>1. taken' = 0 /\ Offset' = 0 /\ ReadLength' = V2Magic /\ V2Magic \in Nat
        BY <1>1, <1>2, <1>5, <2>1, Lengths DEF Offset, ReadLength, IsMagic
      <3>. QED  BY <2>1, <3>1 DEF LocalBuf, PeekStages, Held, Reach
    <2>6. Place'
      BY <1>1, <1>2, <1>5, <2>1 DEF Place, IsMagic
    <2>7. BlankKnown' /\ HandoffAtPayload'
      BY <1>1, <2>1 DEF BlankKnown, Least, Understood, HandoffAtPayload, Handlers, Dropped
    <2>. QED  BY <2>2, <2>3, <2>4, <2>5, <2>6, <2>7
  <1>. QED  BY <1>4, <1>5

\* A complete read of a field has taken exactly the field.
LEMMA ReadComplete ==
    ASSUME IInv, pc \in ReadStages, ReadMissing = 0
    PROVE  taken = Offset + ReadLength /\ Offset \in Nat /\ ReadLength \in Nat
  <1>. USE DEF IInv
  <1>1. /\ Offset \in Nat /\ ReadLength \in Nat /\ taken \in Nat
    BY Lengths DEF Offset, ReadLength, ReadStages
  <1>2. Held(buf, Offset) /\ Reach(buf, Offset) = taken /\ taken <= Offset + ReadLength
    BY DEF LocalBuf
  <1>3. buf.lo \in Nat /\ buf.hi \in Nat
    BY <1>2 DEF Held, Chunk
  <1>4. taken = Offset + Size(buf) /\ Size(buf) \in Int
    BY <1>1, <1>2, <1>3, ReachShort DEF Size
  <1>5. Size(buf) >= ReadLength
    BY <1>1, <1>4 DEF ReadMissing
  <1>. QED  BY <1>1, <1>2, <1>4, <1>5

LEMMA V2PartReadKeeps == ASSUME IInv, V2PartRead PROVE IInv'
  <1>. USE DEF IInv
  <1>1. /\ pc \in {"v2_magic", "v2_families", "v2_length"} /\ ReadMissing = 0
        /\ UNCHANGED <<arrived, closed, below, pre_buffers, pre_receives, buffers, field,
                       addressed, taken, handed, blank, told>>
        /\ wire' = wire /\ listener' = listener
        /\ buf' = Empty /\ Empty \in Chunk
        /\ pc = "v2_magic" => pc' = "v2_families"
        /\ pc = "v2_families" => pc' = "v2_length"
        /\ pc = "v2_length" => pc' = "v2_address"
    BY DEF V2PartRead, setup, stream, GoTo, Empty, Chunk
  <1>2. pc \in ReadStages /\ pc' \in ReadStages
    BY <1>1 DEF ReadStages
  <1>3. taken = Offset + ReadLength /\ Offset \in Nat /\ ReadLength \in Nat
    BY <1>1, <1>2, ReadComplete
  <1>4. TypeOK'
    BY <1>1, <1>2 DEF TypeOK, Total
  <1>5. Streams'
    BY <1>1 DEF Streams, Least, Understood, PeekStages
  <1>6. LineAhead'
    BY <1>1 DEF LineAhead
  <1>7. LocalBuf'
    <2>1. Offset' = taken' /\ taken' \in Nat /\ ReadLength' \in Nat
      BY <1>1, <1>3, Lengths DEF Offset, ReadLength
    <2>2. pc' \notin PeekStages
      BY <1>2 DEF PeekStages, ReadStages
    <2>3. Held(buf', Offset') /\ Reach(buf', Offset') = Offset'
      BY <1>1 DEF Held, Reach
    <2>4. taken' <= Offset' + ReadLength'
      <3>1. ASSUME NEW a \in Nat, NEW b \in Nat PROVE a <= a + b
        OBVIOUS
      <3>. QED  BY <2>1, <3>1
    <2>. QED  BY <2>1, <2>2, <2>3, <2>4 DEF LocalBuf
  <1>8. Place'
    BY <1>1, <1>2 DEF Place, ReadStages
  <1>9. BlankKnown' /\ HandoffAtPayload'
    BY <1>1 DEF BlankKnown, Least, Understood, HandoffAtPayload, Handlers, Dropped
  <1>. QED  BY <1>4, <1>5, <1>6, <1>7, <1>8, <1>9

LEMMA V2AddressReadKeeps == ASSUME IInv, V2AddressRead PROVE IInv'
  <1>. USE DEF IInv
  <1>1. /\ pc = "v2_address" /\ ReadMissing = 0 /\ addressed' = (wire.header = "v2")
        /\ GoTo(AfterProxy) /\ Wrap
        /\ UNCHANGED <<setup, arrived, closed, field, taken, handed, blank, told>>
        /\ wire' = wire /\ listener' = listener
    BY DEF V2AddressRead, Leave, setup
  <1>2. taken = V2Header /\ taken \in taken .. arrived
    <2>1. taken = Offset + ReadLength
      BY <1>1, ReadComplete DEF ReadStages
    <2>2. taken = V2Magic + V2Families + V2Length + V2Address
      BY <1>1, <2>1 DEF Offset, ReadLength
    <2>3. taken \in 0 .. arrived /\ arrived \in Nat
      BY Lengths DEF TypeOK
    <2>. QED  BY <2>2, <2>3 DEF V2Header
  <1>3. /\ listener.proxy \in {"v2", "mixed"} /\ wire.header \in {"v2", "v2_local"}
        /\ field < Len(HelloFields)
    BY <1>1 DEF Place, ReadStages
  <1>4. Streams' /\ below' \in Seq(Chunk)
    BY <1>1, WrapKeepsRuns DEF GoTo
  <1>5. Place'
    <2>1. Settled'
      BY <1>1, <1>2, <1>3 DEF Settled, Understood, HeaderLength
    <2>2. /\ pc' = AfterProxy
          /\ \/ pc' = "tls_peek" /\ listener.tls
             \/ pc' = "auto_peek" /\ ~listener.tls
      BY <1>1 DEF GoTo, AfterProxy
    <2>. QED  BY <1>1, <1>3, <2>1, <2>2 DEF Place, ReadStages
  <1>6. AfterProxy \in {"v2_peek", "tls_peek", "auto_peek"}
    BY DEF AfterProxy
  <1>7. addressed' \in BOOLEAN
    BY <1>1
  <1>. QED  BY <1>1, <1>2, <1>4, <1>5, <1>6, <1>7, StageEntered DEF Wrap

LEMMA TlsPeekedKeeps == ASSUME IInv, TlsPeeked PROVE IInv'
  <1>. USE DEF IInv
  <1>1. /\ pc = "tls_peek" /\ PeekMissing = 0
        /\ UNCHANGED <<setup, arrived, closed, field, addressed, taken, handed, blank, told>>
        /\ wire' = wire /\ listener' = listener
    BY DEF TlsPeeked, setup
  <1>2. /\ Settled \/ Doomed
        /\ listener.tls /\ field < Len(HelloFields)
    BY <1>1 DEF Place, PeekStages
  <1>3. buf.lo = taken + 1
    BY <1>1, PeekComplete DEF PeekStages
  <1>4. taken \in Nat /\ arrived \in Nat /\ taken \in taken .. arrived /\ HeaderLength(wire.header) \in Nat
    BY Lengths DEF TypeOK
  <1>5. IsPayload("tls") <=> wire.payload = "tls" /\ taken = HeaderLength(wire.header)
    BY <1>3, <1>4 DEF IsPayload
  <1>6. CASE IsPayload("tls")
    <2>1. /\ pc' = "tls_hello" /\ buf' = Empty /\ Empty \in Chunk
          /\ UNCHANGED <<below, pre_buffers, pre_receives, buffers>>
      BY <1>6 DEF TlsPeeked, GoTo, stream, Empty, Chunk
    <2>2. TypeOK'
      BY <1>1, <2>1 DEF TypeOK, Total, PeekStages
    <2>3. Streams'
      BY <1>1, <2>1 DEF Streams, Least, Understood, PeekStages
    <2>4. LineAhead' /\ LocalBuf'
      BY <2>1 DEF LineAhead, LocalBuf, ReadStages
    <2>5. Settled
      BY <1>2, <1>4, <1>5, <1>6 DEF Doomed
    <2>6. Settled'
      BY <1>1, <2>5 DEF Settled, Understood
    <2>7. Place'
      BY <1>1, <1>2, <1>5, <1>6, <2>1, <2>6 DEF Place, ReadStages
    <2>8. BlankKnown' /\ HandoffAtPayload'
      BY <1>1, <2>1 DEF BlankKnown, Least, Understood, HandoffAtPayload, Handlers, Dropped
    <2>. QED  BY <2>2, <2>3, <2>4, <2>7, <2>8
  <1>7. CASE ~IsPayload("tls")
    <2>1. GoTo("auto_peek") /\ Wrap
      BY <1>7 DEF TlsPeeked, Leave
    <2>2. Streams' /\ below' \in Seq(Chunk)
      BY <1>1, <2>1, WrapKeepsRuns DEF GoTo
    <2>3. Place'
      <3>1. (Settled \/ Doomed)'
        BY <1>1, <1>2 DEF Settled, Doomed, Understood
      <3>. QED  BY <1>1, <1>2, <1>5, <1>7, <2>1, <3>1 DEF Place, GoTo, ReadStages
    <2>4. addressed' \in BOOLEAN
      BY <1>1 DEF TypeOK
    <2>. QED  BY <1>1, <1>4, <2>1, <2>2, <2>3, <2>4, StageEntered DEF Wrap
  <1>. QED  BY <1>6, <1>7

LEMMA HelloFieldPeekedKeeps == ASSUME IInv, HelloFieldPeeked PROVE IInv'
  <1>. USE DEF IInv
  <1>1. /\ pc = "tls_hello" /\ field' = field + 1 /\ buf' = Empty /\ Empty \in Chunk
        /\ pc' = IF field + 1 = Len(HelloFields) THEN "handshake" ELSE pc
        /\ handed' = taken
        /\ UNCHANGED <<arrived, closed, below, pre_buffers, pre_receives, buffers, addressed,
                       taken, blank, told>>
        /\ wire' = wire /\ listener' = listener
    BY DEF HelloFieldPeeked, setup, stream, Empty, Chunk
  <1>2. /\ wire.payload = "tls" /\ taken = HeaderLength(wire.header) /\ Settled
        /\ listener.tls /\ field < Len(HelloFields)
    BY <1>1 DEF Place, PeekStages
  <1>3. /\ taken \in Nat /\ field \in Nat /\ Len(HelloFields) \in Nat
        /\ field + 1 <= Len(HelloFields)
    <2>1. Len(HelloFields) \in Nat
      BY LengthsAssumption, LenProperties DEF LengthsAssumption
    <2>. QED  BY <1>2, <2>1, Lengths DEF TypeOK
  <1>4. TypeOK'
    <2>1. field' \in 0 .. Len(HelloFields) /\ handed' \in 0 .. taken'
      BY <1>1, <1>3
    <2>2. pc' \in PeekStages \cup Handlers
      BY <1>1 DEF PeekStages, Handlers
    <2>. QED  BY <1>1, <2>1, <2>2 DEF TypeOK, Total
  <1>5. Streams'
    BY <1>1 DEF Streams, Least, Understood, PeekStages
  <1>6. LineAhead' /\ LocalBuf'
    BY <1>1 DEF LineAhead, LocalBuf, PeekStages, ReadStages
  <1>7. Settled'
    BY <1>1, <1>2 DEF Settled, Understood
  <1>8. Place'
    <2>1. field' < Len(HelloFields) \/ pc' = "handshake"
      BY <1>1, <1>3
    <2>2. pc' \in {"tls_hello", "handshake"}
      BY <1>1
    <2>. QED  BY <1>1, <1>2, <1>7, <2>1, <2>2 DEF Place, PeekStages, ReadStages
  <1>9. BlankKnown'
    BY <1>1 DEF BlankKnown, Least, Understood
  <1>10. HandoffAtPayload'
    BY <1>1, <1>2, <1>3 DEF HandoffAtPayload, Settled, Understood, PayloadStart, Handlers, Dropped
  <1>. QED  BY <1>4, <1>5, <1>6, <1>8, <1>9, <1>10

\* auto() has its bytes: the client cannot have hung up within the header.
LEMMA AutoPeekedKeeps == ASSUME IInv, AutoPeeked PROVE IInv'
  <1>. USE DEF IInv
  <1>1. /\ pc = "auto_peek" /\ PeekMissing = 0 /\ handed' = taken /\ buf' = Empty /\ Empty \in Chunk
        /\ pc' = IF IsPayload("h2") THEN "h2" ELSE "h1"
        /\ UNCHANGED <<arrived, closed, below, pre_buffers, pre_receives, buffers, field,
                       addressed, taken, blank, told>>
        /\ wire' = wire /\ listener' = listener
    BY DEF AutoPeeked, setup, stream, GoTo, Empty, Chunk
  <1>2. /\ taken \in Nat /\ arrived \in Nat /\ HeaderLength(wire.header) \in Nat
        /\ wire.header \in Headers /\ V1Line \in Nat \ {0} /\ V2Header \in Nat \ {0}
        /\ Preface \in Nat
    BY Lengths
  <1>3. buf.lo = taken + 1 /\ taken + Preface <= arrived
    BY <1>1, PeekComplete DEF PeekStages
  <1>4. Settled /\ ~(listener.tls /\ wire.payload = "tls" /\ taken = HeaderLength(wire.header))
    BY <1>1, <1>2, <1>3 DEF Place, Doomed
  <1>5. IsPayload("h2") <=> wire.payload = "h2" /\ taken = HeaderLength(wire.header)
    BY <1>2, <1>3 DEF IsPayload
  <1>6. TypeOK'
    <2>1. handed' \in 0 .. taken'
      BY <1>1, <1>2
    <2>2. pc' \in Handlers
      BY <1>1 DEF Handlers
    <2>. QED  BY <1>1, <2>1, <2>2 DEF TypeOK, Total
  <1>7. Streams'
    BY <1>1 DEF Streams, Least, Understood, PeekStages
  <1>8. LineAhead' /\ LocalBuf' /\ Place'
    BY <1>1 DEF LineAhead, LocalBuf, Place, PeekStages, ReadStages
  <1>9. BlankKnown'
    BY <1>1 DEF BlankKnown, Least, Understood
  <1>10. HandoffAtPayload'
    <2>1. taken + 1 = IF Understood THEN PayloadStart ELSE 1
      BY <1>4 DEF Settled, PayloadStart
    <2>2. handed' + 1 = PayloadStart' <=> taken = HeaderLength(wire.header)
      BY <1>1, <1>2 DEF PayloadStart
    <2>3. pc' \in {"h1", "h2"} /\ (pc' = "h2" <=> IsPayload("h2"))
      BY <1>1
    <2>4. addressed' <=> Understood' /\ wire'.header = "v2"
      BY <1>1, <1>4 DEF Settled, Understood
    <2>5. /\ handed' = taken /\ Understood' = Understood /\ PayloadStart' = PayloadStart
      BY <1>1 DEF Understood, PayloadStart
    <2>. QED  BY <1>1, <1>4, <1>5, <2>1, <2>2, <2>3, <2>4, <2>5 DEF HandoffAtPayload, Handlers, Dropped
  <1>. QED  BY <1>6, <1>7, <1>8, <1>9, <1>10

LEMMA ReceiveKeeps == ASSUME IInv, Receive PROVE IInv'
  <1>. USE DEF IInv
  <1>. DEFINE f == Front(Head(Unread), MaxReceive)
  <1>1. /\ pc \in Handlers /\ Remove(MaxReceive) /\ taken' = f.hi
        /\ blank' = (blank \/ Size(f) = 0)
        /\ UNCHANGED <<setup, arrived, closed, pre_buffers, pc, field, buf, addressed, handed, told>>
    BY DEF Receive
  <1>2. MaxReceive \in Nat \ {0}
    BY Lengths
  <1>3. Size(f) = 0 => Least = 0
    BY <1>1, <1>2, RemoveKeepsRuns
  <1>4. pc \notin PeekStages \cup ReadStages \cup {"v1_line"} \cup Dropped
    BY <1>1 DEF Handlers, PeekStages, ReadStages, Dropped
  <1>5. TypeOK' /\ Streams' /\ wire' = wire /\ listener' = listener
    <2>1. blank' \in BOOLEAN /\ buf' \in Chunk
      BY <1>1 DEF TypeOK
    <2>. QED  BY <1>1, <1>2, <1>4, <2>1, TakenKeeps
  <1>6. LineAhead' /\ LocalBuf' /\ Place'
    BY <1>1, <1>4 DEF LineAhead, LocalBuf, Place, PeekStages
  <1>7. BlankKnown'
    <2>1. Least' = Least
      BY <1>5 DEF Least, Understood
    <2>. QED  BY <1>1, <1>3, <2>1 DEF BlankKnown
  <1>8. HandoffAtPayload'
    BY <1>1, <1>4, <1>5 DEF HandoffAtPayload, Understood, PayloadStart
  <1>. QED  BY <1>5, <1>6, <1>7, <1>8

LEMMA UnreadEndKeeps ==
    ASSUME IInv, ReceiveEnd \/ UNCHANGED vars
    PROVE  IInv'
  <1>. USE DEF IInv
  <1>1. /\ UNCHANGED <<arrived, closed, below, pre_buffers, pre_receives, buffers, pc, field, buf,
                       addressed, taken, handed, blank>>
        /\ wire' = wire /\ listener' = listener /\ told' \in BOOLEAN
    BY DEF ReceiveEnd, setup, stream, vars, TypeOK
  <1>2. TypeOK'
    BY <1>1 DEF TypeOK, Total
  <1>3. Streams'
    BY <1>1 DEF Streams, Least, Understood
  <1>4. LineAhead' /\ LocalBuf'
    BY <1>1 DEF LineAhead, LocalBuf, Offset, ReadLength
  <1>5. Place'
    BY <1>1 DEF Place, Settled, Doomed, Understood
  <1>6. BlankKnown' /\ HandoffAtPayload'
    BY <1>1 DEF BlankKnown, Least, Understood, HandoffAtPayload, PayloadStart
  <1>. QED  BY <1>2, <1>3, <1>4, <1>5, <1>6
-----------------------------------------------------------------------------
(***************************************************************************)
(* The theorems.                                                           *)
(***************************************************************************)
LEMMA Initially == Init => IInv
  <1>. SUFFICES ASSUME Init PROVE IInv
    OBVIOUS
  <1>1. /\ wire \in Wires /\ listener \in Listeners
        /\ arrived = 0 /\ closed = FALSE /\ taken = 0 /\ handed = 0
        /\ below = <<>> /\ pre_buffers = <<>> /\ pre_receives = <<>> /\ buffers = <<>>
        /\ pc = FirstStage /\ field = 0 /\ buf = Empty /\ addressed = FALSE
        /\ blank = FALSE /\ told = FALSE
    BY DEF Init
  <1>2. /\ Empty \in Chunk /\ <<>> \in Seq(Chunk)
    BY DEF Empty, Chunk
  <1>3. /\ wire.header \in Headers /\ wire.length \in Nat /\ listener.tls \in BOOLEAN
        /\ listener.proxy \in {"none", "v1", "v2", "mixed"}
    BY <1>1, LengthsAssumption DEF Wires, Listeners, LengthsAssumption
  <1>4. \/ pc = "v1_peek" /\ listener.proxy \in {"v1", "mixed"}
        \/ pc = "v2_peek" /\ listener.proxy = "v2"
        \/ pc = "tls_peek" /\ listener.proxy = "none" /\ listener.tls
        \/ pc = "auto_peek" /\ listener.proxy = "none" /\ ~listener.tls
    BY <1>1, <1>3 DEF FirstStage, AfterProxy
  <1>5. Len(HelloFields) \in Nat \ {0}
    BY LengthsAssumption, EmptySeq DEF LengthsAssumption
  <1>6. TypeOK
    <2>1. V2Header \in Nat /\ V1Line \in Nat
      BY LengthsAssumption DEF LengthsAssumption, V2Header
    <2>2. Total \in Nat
      BY <1>3, <2>1 DEF Total, HeaderLength, Headers
    <2>3. pc \in PeekStages
      BY <1>4 DEF PeekStages
    <2>4. arrived \in 0 .. Total /\ taken \in 0 .. arrived /\ handed \in 0 .. taken
      BY <1>1, <2>2
    <2>5. field \in 0 .. Len(HelloFields)
      BY <1>1, <1>5
    <2>6. {closed, addressed, blank, told} \subseteq BOOLEAN
      <3>1. {closed, addressed, blank, told} = {FALSE}
        BY <1>1, Zenon
      <3>. QED  BY <3>1
    <2>. QED  BY <1>1, <1>2, <2>3, <2>4, <2>5, <2>6 DEF TypeOK
  <1>7. Streams
    <2>1. Run(<<>>, 0, 0, Least)
      BY RunOfNothing
    <2>2. Reach(buf, taken) = 0
      BY <1>1 DEF Reach
    <2>. QED  BY <1>1, <2>1, <2>2 DEF Streams
  <1>8. LineAhead
    BY <1>1 DEF LineAhead
  <1>9. LocalBuf
    BY <1>1, <1>2, <1>4 DEF LocalBuf, Held, ReadStages
  <1>10. Place
    <2>1. listener.proxy = "none" => Settled
      BY <1>1 DEF Settled, Understood
    <2>2. listener.proxy = "v2" /\ wire.header \notin {"v2", "v2_local"} => Settled
      BY <1>1 DEF Settled, Understood
    <2>. QED  BY <1>1, <1>4, <1>5, <2>1, <2>2 DEF Place, ReadStages
  <1>11. BlankKnown /\ HandoffAtPayload
    BY <1>1, <1>4 DEF BlankKnown, HandoffAtPayload, Handlers, Dropped
  <1>. QED  BY <1>6, <1>7, <1>8, <1>9, <1>10, <1>11 DEF IInv

\* Every reachable state satisfies the inductive invariant.
THEOREM Invariant == Spec => []IInv
  <1>1. IInv /\ [Next]_vars => IInv'
    <2>. SUFFICES ASSUME IInv, [Next]_vars PROVE IInv'
      OBVIOUS
    <2>. QED
      BY ArriveKeeps, HangupKeeps, PeekKeeps, ReadKeeps, ReadLineKeeps, V1PeekedKeeps,
         V1LineReadKeeps, V2PeekedKeeps, V2PartReadKeeps, V2AddressReadKeeps, TlsPeekedKeeps,
         HelloFieldPeekedKeeps, AutoPeekedKeeps, EndOfStreamKeeps, ReceiveKeeps, UnreadEndKeeps
      DEF Next, Progress
  <1>. QED  BY <1>1, Initially, PTL DEF Spec

\* The places, lengths and parts of the streams keep their types: no read asks
\* for a field the hello does not have, and no more is taken than arrived.
THEOREM TypesCorrect == Spec => []TypeOK
  BY Invariant, PTL DEF IInv

\* Peeking, reading a header and wrapping a stream lose, double or reorder no
\* byte, wherever the wire is cut and whatever listeners fail on the way.
THEOREM BytesServedInOrder == Spec => []ServedInOrder
  <1>1. IInv => ServedInOrder
    <2>. SUFFICES ASSUME IInv PROVE ServedInOrder
      OBVIOUS
    <2>. QED  BY UnreadIsRun DEF IInv, Run, ServedInOrder
  <1>. QED  BY <1>1, Invariant, PTL

\* The handler is the one the payload asks for and starts at its first byte;
\* only a client that hung up gets none.
THEOREM HandlerStartsAtPayload == Spec => []HandoffAtPayload
  BY Invariant, PTL DEF IInv

\* receive returns the b'' that h11 takes for the end of file only behind a
\* version 1 header that a listener reads.
THEOREM BlankReadOnlyAfterV1 == Spec => []BlankOnlyAfterV1
  <1>1. IInv => BlankOnlyAfterV1
    BY DEF IInv, BlankKnown, Least, BlankOnlyAfterV1
  <1>. QED  BY <1>1, Invariant, PTL

\* The wrapped streams together are a byte channel from the client to whoever
\* reads: every step sends, receives, closes, tells of the end, or is none of
\* the channel's.
THEOREM ImplementsChannel == Spec => ChannelSpec
  <1>1. Init => Channel!Init
    BY DEF Init, Channel!Init
  <1>2. ASSUME IInv, IInv', [Next]_vars PROVE [Channel!Next]_(Channel!channel)
    <2>1. /\ arrived \in Nat /\ taken \in Nat /\ taken <= arrived
          /\ MaxReceive \in Nat \ {0} /\ V1Line \in Nat
      BY <1>2, Lengths DEF IInv, TypeOK
    <2>2. arrived' \in Nat /\ taken' \in Nat /\ taken' <= arrived'
      <3>1. TypeOK'
        BY <1>2 DEF IInv
      <3>2. Total' = Total
        <4>1. wire' = wire
          BY <1>2 DEF Next, Progress, vars, setup, Arrive, Hangup, Peek, Read, ReadLine, V1Peeked,
             V1LineRead, V2Peeked, V2PartRead, V2AddressRead, TlsPeeked, HelloFieldPeeked,
             AutoPeeked, EndOfStream, Receive, ReceiveEnd
        <4>. QED  BY <4>1 DEF Total
      <3>3. Total \in Nat
        BY <1>2, Lengths DEF IInv
      <3>. QED  BY <3>1, <3>2, <3>3 DEF TypeOK
    <2>3. ASSUME UNCHANGED <<arrived, closed, told>>, taken' >= taken
          PROVE  [Channel!Next]_(Channel!channel)
      <3>1. CASE taken' = taken
        BY <2>3, <3>1 DEF Channel!channel
      <3>2. CASE taken' # taken
        BY <2>1, <2>2, <2>3, <3>2 DEF Channel!Next, Channel!Receive
      <3>. QED  BY <3>1, <3>2
    <2>4. CASE Arrive
      <3>1. PICK n \in ChunkSizes : arrived' = arrived + n
        BY <2>4 DEF Arrive
      <3>2. n \in Nat /\ n >= 1
        BY LengthsAssumption DEF LengthsAssumption
      <3>3. Channel!Send
        BY <2>1, <2>2, <2>4, <3>1, <3>2 DEF Arrive, Channel!Send
      <3>. QED  BY <3>3 DEF Channel!Next
    <2>5. CASE Hangup
      BY <2>5 DEF Hangup, Channel!Next, Channel!Close
    <2>6. CASE Peek \/ V1Peeked \/ V2Peeked \/ V2PartRead \/ V2AddressRead \/ TlsPeeked
               \/ HelloFieldPeeked \/ AutoPeeked \/ EndOfStream \/ UNCHANGED vars
      <3>1. UNCHANGED <<arrived, closed, told, taken>>
        BY <2>6 DEF Peek, V1Peeked, V2Peeked, V2PartRead, V2AddressRead, TlsPeeked,
           HelloFieldPeeked, AutoPeeked, EndOfStream, vars
      <3>. QED  BY <3>1 DEF Channel!channel
    <2>7. CASE Read
      <3>1. ReadMissing \in Nat \ {0}
        <4>1. /\ ReadMissing > 0 /\ ReadLength \in Nat
          BY <1>2, <2>7, Lengths DEF Read, ReadLength, ReadStages, IInv
        <4>2. buf.lo \in Nat /\ buf.hi \in Nat
          BY <1>2 DEF IInv, TypeOK, Chunk
        <4>. QED  BY <4>1, <4>2 DEF ReadMissing, Size
      <3>2. taken' \in taken .. arrived
        BY <1>2, <2>7, <3>1, RemoveKeepsRuns DEF Read, IInv
      <3>. QED  BY <2>1, <2>3, <2>7, <3>2 DEF Read
    <2>8. CASE ReadLine
      <3>1. taken' \in taken .. arrived
        BY <1>2, <2>1, <2>8, RemoveKeepsRuns DEF ReadLine, Line, IInv
      <3>. QED  BY <2>1, <2>3, <2>8, <3>1 DEF ReadLine
    <2>9. CASE V1LineRead
      <3>1. taken < V1Line /\ taken' = V1Line
        BY <1>2, <2>9 DEF V1LineRead, IInv, Place
      <3>. QED  BY <2>1, <2>3, <2>9, <3>1 DEF V1LineRead
    <2>10. CASE Receive
      <3>1. taken' \in taken .. arrived
        BY <1>2, <2>1, <2>10, RemoveKeepsRuns DEF Receive, IInv
      <3>. QED  BY <2>1, <2>3, <2>10, <3>1 DEF Receive
    <2>11. CASE ReceiveEnd
      <3>1. taken = arrived
        BY <1>2, <2>1, <2>11, UnreadIsRun, EmptyRun DEF ReceiveEnd, IInv
      <3>. QED  BY <2>11, <3>1 DEF ReceiveEnd, Channel!Next, Channel!Finish
    <2>. QED
      BY <1>2, <2>4, <2>5, <2>6, <2>7, <2>8, <2>9, <2>10, <2>11 DEF Next, Progress
  <1>. QED  BY <1>1, <1>2, Invariant, PTL DEF Spec, ChannelSpec, Channel!Spec
=============================================================================
