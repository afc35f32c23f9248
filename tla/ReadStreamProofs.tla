---------------------------- MODULE ReadStreamProofs ----------------------------
(***************************************************************************)
(* Theorems about ReadStream and ByteReadStream.receive, for any number of *)
(* readers and feeders and any sizes.                                      *)
(***************************************************************************)
EXTENDS ReadStream, SequenceTheorems, FiniteSetTheorems, TLAPS

(***************************************************************************)
(* The chunks: what receive returns and puts back.                         *)
(***************************************************************************)
Placed(c) == c \in Chunk /\ 1 <= c.lo /\ c.lo <= c.hi + 1

\* The returned part and the rest together are the chunk, and neither reaches
\* beyond it.
LEMMA Cut ==
    ASSUME NEW c, Placed(c), NEW m \in Nat
    PROVE  /\ LastTaken(c, m) \in Nat
           /\ c.lo - 1 <= LastTaken(c, m) /\ LastTaken(c, m) <= c.hi
           /\ \/ Rest(c, m) = <<>> /\ LastTaken(c, m) = c.hi
              \/ \E d : /\ Rest(c, m) = <<d>> /\ Placed(d)
                        /\ d.lo = LastTaken(c, m) + 1 /\ d.hi = c.hi
  <1>1. c.lo \in Nat /\ c.hi \in Nat
    BY DEF Placed, Chunk
  <1>2. CASE Size(c) > m
    <2>. DEFINE d == [lo |-> c.lo + m, hi |-> c.hi]
    <2>1. Rest(c, m) = <<d>> /\ LastTaken(c, m) = c.lo + m - 1
      BY <1>2 DEF Rest, LastTaken
    <2>2. Placed(d)
      BY <1>1, <1>2 DEF Placed, Chunk, Size
    <2>. QED  BY <1>1, <1>2, <2>1, <2>2 DEF Placed, Size
  <1>3. CASE ~(Size(c) > m)
    BY <1>1, <1>3 DEF Rest, LastTaken, Placed
  <1>. QED  BY <1>2, <1>3

(***************************************************************************)
(* A run of chunks q covers the places after `before' up to `last'.         *)
(***************************************************************************)
Covers(q, before, last) ==
    /\ \A i \in 1 .. Len(q) : Placed(q[i]) /\ q[i].hi <= last
    /\ q = <<>> => before = last
    /\ q # <<>> => q[1].lo = before + 1 /\ q[Len(q)].hi = last
    /\ \A i \in 1 .. Len(q) - 1 : q[i + 1].lo = q[i].hi + 1

\* Without its first chunk it covers what follows that chunk.
LEMMA CoversTail ==
    ASSUME NEW q \in Seq(Chunk), q # <<>>, NEW b \in Nat, NEW l \in Nat, Covers(q, b, l)
    PROVE  Covers(Tail(q), Head(q).hi, l) /\ Tail(q) \in Seq(Chunk)
  <1>. DEFINE t == Tail(q)
  <1>1. /\ t \in Seq(Chunk) /\ Len(t) = Len(q) - 1 /\ Len(q) \in Nat /\ Len(q) > 0
        /\ \A i \in 1 .. Len(t) : t[i] = q[i + 1]
        /\ Head(q) = q[1]
    BY HeadTailProperties, LenProperties, EmptySeq
  <1>2. \A i \in 1 .. Len(t) : Placed(t[i]) /\ t[i].hi <= l
    BY <1>1 DEF Covers
  <1>3. CASE t = <<>>
    <2>1. Len(t) = 0 /\ Len(q) = 1
      BY <1>1, <1>3
    <2>2. Head(q).hi = l
      BY <1>1, <2>1 DEF Covers
    <2>. HIDE DEF t
    <2>3. \A i \in 1 .. Len(t) - 1 : t[i + 1].lo = t[i].hi + 1
      <3>1. ASSUME NEW i \in 1 .. Len(t) - 1 PROVE FALSE
        BY <2>1
      <3>. QED  BY <3>1
    <2>. QED  BY <1>2, <1>3, <2>2, <2>3, <1>1 DEF Covers
  <1>4. CASE t # <<>>
    <2>1. Len(t) > 0
      BY <1>1, <1>4, EmptySeq
    <2>2. t[1].lo = Head(q).hi + 1
      BY <1>1, <2>1 DEF Covers
    <2>3. t[Len(t)].hi = l
      BY <1>1, <2>1 DEF Covers
    <2>4. \A i \in 1 .. Len(t) - 1 : t[i + 1].lo = t[i].hi + 1
      BY <1>1 DEF Covers
    <2>. QED  BY <1>1, <1>2, <1>4, <2>2, <2>3, <2>4 DEF Covers
  <1>. QED  BY <1>3, <1>4, <1>1

\* A chunk put back at the left end.
LEMMA CoversCons ==
    ASSUME NEW q \in Seq(Chunk), NEW b \in Nat, NEW l \in Nat,
           NEW d, Placed(d), d.lo = b + 1, d.hi <= l, Covers(q, d.hi, l)
    PROVE  Covers(<<d>> \o q, b, l) /\ <<d>> \o q \in Seq(Chunk)
  <1>. DEFINE t == <<d>> \o q
  <1>1. /\ t \in Seq(Chunk) /\ Len(t) = Len(q) + 1 /\ Len(q) \in Nat
        /\ t[1] = d /\ \A i \in 1 .. Len(q) : t[i + 1] = q[i]
    <2>1. d \in Chunk
      BY DEF Placed
    <2>2. Len(q) \in Nat
      BY LenProperties
    <2>. QED  BY <2>1, <2>2
  <1>2. \A i \in 1 .. Len(t) : i = 1 \/ (i - 1 \in 1 .. Len(q) /\ t[i] = q[i - 1])
    <2>1. ASSUME NEW i \in 1 .. Len(t), i # 1 PROVE i - 1 \in 1 .. Len(q) /\ t[(i - 1) + 1] = q[i - 1]
      BY <1>1, <2>1
    <2>. QED  BY <2>1
  <1>3. \A i \in 1 .. Len(t) : Placed(t[i]) /\ t[i].hi <= l
    BY <1>1, <1>2 DEF Covers
  <1>4. t # <<>> /\ t[1].lo = b + 1
    BY <1>1, EmptySeq
  <1>5. t[Len(t)].hi = l
    <2>1. CASE q = <<>>
      BY <1>1, <2>1 DEF Covers
    <2>2. CASE q # <<>>
      <3>1. Len(q) > 0 /\ t[Len(q) + 1] = q[Len(q)]
        BY <1>1, <2>2, EmptySeq
      <3>. QED  BY <1>1, <2>2, <3>1 DEF Covers
    <2>. QED  BY <2>1, <2>2
  <1>6. \A i \in 1 .. Len(t) - 1 : t[i + 1].lo = t[i].hi + 1
    <2>1. ASSUME NEW i \in 1 .. Len(t) - 1, i = 1 PROVE t[i + 1].lo = t[i].hi + 1
      <3>1. q # <<>> /\ t[2] = q[1]
        BY <1>1, <2>1
      <3>. QED  BY <1>1, <2>1, <3>1 DEF Covers
    <2>2. ASSUME NEW i \in 1 .. Len(t) - 1, i # 1 PROVE t[i + 1].lo = t[i].hi + 1
      <3>1. i - 1 \in 1 .. Len(q) - 1 /\ t[i] = q[i - 1] /\ t[i + 1] = q[(i - 1) + 1]
        BY <1>1, <1>2, <2>2
      <3>. QED  BY <3>1 DEF Covers
    <2>. QED  BY <2>1, <2>2
  <1>. QED  BY <1>1, <1>3, <1>4, <1>5, <1>6 DEF Covers

\* A chunk put in at the right end.
LEMMA CoversAppend ==
    ASSUME NEW q \in Seq(Chunk), NEW b \in Nat, NEW l \in Nat, NEW n \in Nat, Covers(q, b, l)
    PROVE  LET d == [lo |-> l + 1, hi |-> l + n]
           IN  Covers(Append(q, d), b, l + n) /\ Append(q, d) \in Seq(Chunk)
  <1>. DEFINE d == [lo |-> l + 1, hi |-> l + n]  t == Append(q, d)
  <1>1. d \in Chunk /\ Placed(d)
    BY DEF Chunk, Placed
  <1>2. /\ t \in Seq(Chunk) /\ Len(t) = Len(q) + 1 /\ Len(q) \in Nat
        /\ \A i \in 1 .. Len(q) : t[i] = q[i]
        /\ t[Len(q) + 1] = d /\ t # <<>>
    BY <1>1, AppendProperties, LenProperties
  <1>3. \A i \in 1 .. Len(q) : q[i].hi \in Nat
    BY DEF Covers, Placed, Chunk
  <1>4. \A i \in 1 .. Len(t) : Placed(t[i]) /\ t[i].hi <= l + n
    <2>1. ASSUME NEW i \in 1 .. Len(t), i <= Len(q) PROVE Placed(t[i]) /\ t[i].hi <= l + n
      BY <1>2, <1>3, <2>1 DEF Covers
    <2>2. ASSUME NEW i \in 1 .. Len(t), i = Len(q) + 1 PROVE Placed(t[i]) /\ t[i].hi <= l + n
      BY <1>1, <1>2, <2>2
    <2>. QED  BY <1>2, <2>1, <2>2
  <1>5. t[Len(t)].hi = l + n
    BY <1>2
  <1>6. t[1].lo = b + 1
    <2>1. CASE q = <<>>
      BY <1>2, <2>1 DEF Covers
    <2>2. CASE q # <<>>
      BY <1>2, <2>2, EmptySeq DEF Covers
    <2>. QED  BY <2>1, <2>2
  <1>7. \A i \in 1 .. Len(t) - 1 : t[i + 1].lo = t[i].hi + 1
    <2>1. ASSUME NEW i \in 1 .. Len(t) - 1, i = Len(q) PROVE t[i + 1].lo = t[i].hi + 1
      BY <1>2, <2>1 DEF Covers
    <2>2. ASSUME NEW i \in 1 .. Len(t) - 1, i # Len(q) PROVE t[i + 1].lo = t[i].hi + 1
      BY <1>2, <2>2 DEF Covers
    <2>. QED  BY <2>1, <2>2
  <1>. QED  BY <1>2, <1>4, <1>5, <1>6, <1>7 DEF Covers
(***************************************************************************)
(* What the steps do to the bytes and to the deques of events.             *)
(***************************************************************************)
LEMMA TakeBytes ==
    ASSUME TypeOK, Covers(buffers, taken, fed), NEW r \in Readers, NEW m \in Nat, Take(r, m)
    PROVE  /\ buffers' \in Seq(Chunk) /\ taken' \in Nat
           /\ Covers(buffers', taken', fed)
           /\ taken <= taken' /\ taken' <= fed
  <1>1. CASE buffers # <<>> /\ buffers' = Rest(Head(buffers), m) \o Tail(buffers)
             /\ taken' = LastTaken(Head(buffers), m)
    <2>. DEFINE c == Head(buffers)
    <2>1. Placed(c) /\ c.hi <= fed /\ c.lo = taken + 1
      <3>1. c = buffers[1] /\ Len(buffers) \in Nat /\ Len(buffers) > 0
        BY <1>1, LenProperties, EmptySeq DEF TypeOK
      <3>. QED  BY <1>1, <3>1 DEF Covers
    <2>2. c.lo \in Nat /\ c.hi \in Nat
      BY <2>1 DEF Placed, Chunk
    <2>3. Covers(Tail(buffers), c.hi, fed) /\ Tail(buffers) \in Seq(Chunk)
      BY <1>1, CoversTail DEF TypeOK
    <2>4. taken' \in Nat /\ taken <= taken' /\ taken' <= fed
      <3>1. /\ LastTaken(c, m) \in Nat
            /\ c.lo - 1 <= LastTaken(c, m) /\ LastTaken(c, m) <= c.hi
        BY <2>1, Cut
      <3>2. taken \in Nat /\ fed \in Nat
        BY DEF TypeOK
      <3>. QED  BY <1>1, <2>1, <2>2, <3>1, <3>2
    <2>5. CASE Rest(c, m) = <<>> /\ LastTaken(c, m) = c.hi
      <3>1. buffers' = Tail(buffers)
        BY <1>1, <2>3, <2>5
      <3>. QED  BY <1>1, <2>3, <2>4, <2>5, <3>1
    <2>6. ASSUME NEW d, Rest(c, m) = <<d>>, Placed(d), d.lo = LastTaken(c, m) + 1, d.hi = c.hi
          PROVE  Covers(buffers', taken', fed) /\ buffers' \in Seq(Chunk)
      <3>1. buffers' = <<d>> \o Tail(buffers)
        BY <1>1, <2>6
      <3>2. d.lo = taken' + 1 /\ d.hi <= fed /\ Covers(Tail(buffers), d.hi, fed)
        BY <1>1, <2>1, <2>3, <2>6
      <3>. QED  BY <2>3, <2>4, <2>6, <3>1, <3>2, CoversCons DEF TypeOK
    <2>. QED  BY <1>1, <2>1, <2>4, <2>5, <2>6, Cut
  <1>2. CASE UNCHANGED <<buffers, taken>>
    <2>1. \A i \in 1 .. Len(buffers) : buffers[i].lo \in Nat /\ buffers[i].hi \in Nat
      BY DEF Covers, Placed, Chunk
    <2>2. taken <= fed
      <3>1. CASE buffers = <<>>
        BY <3>1 DEF Covers, TypeOK
      <3>2. CASE buffers # <<>>
        <4>1. Len(buffers) \in Nat /\ Len(buffers) > 0
          BY <3>2, LenProperties, EmptySeq DEF TypeOK
        <4>2. 1 \in 1 .. Len(buffers)
          BY <4>1
        <4>3. Placed(buffers[1]) /\ buffers[1].hi <= fed /\ buffers[1].lo = taken + 1
          BY <3>2, <4>2 DEF Covers
        <4>4. taken \in Nat /\ fed \in Nat
          BY DEF TypeOK
        <4>. QED  BY <2>1, <4>2, <4>3, <4>4 DEF Placed
      <3>. QED  BY <3>1, <3>2
    <2>. QED  BY <1>2, <2>2 DEF TypeOK
  <1>. QED  BY <1>1, <1>2 DEF Take

LEMMA TakeReader ==
    ASSUME TypeOK, NEW r \in Readers, NEW m, Take(r, m)
    PROVE  /\ rpc' \in [Readers -> {"idle", "waiting", "woken", "failed"}]
           /\ rpc'[r] # "waiting" /\ rpc'[r] # "woken"
           /\ \A q \in Readers \ {r} : rpc'[q] = rpc[q]
           /\ ended' \in BOOLEAN
           /\ rpc'[r] = "failed" => MustWait
  BY DEF Take, TypeOK, MustWait

LEMMA PutInBytes ==
    ASSUME TypeOK, Covers(buffers, taken, fed), NEW n \in Nat, PutIn(n)
    PROVE  /\ buffers' \in Seq(Chunk) /\ fed' \in Nat /\ fed <= fed'
           /\ taken \in 0 .. fed'
           /\ Covers(buffers', taken, fed') /\ buffers' # <<>>
           /\ readWaiters' = <<>>
           /\ rpc' \in [Readers -> {"idle", "waiting", "woken", "failed"}]
  <1>1. rpc' \in [Readers -> {"idle", "waiting", "woken", "failed"}]
    BY DEF PutIn, SetAll, TypeOK
  <1>2. buffers' # <<>>
    <2>. DEFINE d == [lo |-> fed + 1, hi |-> fed + n]
    <2>1. d \in Chunk /\ buffers \in Seq(Chunk)
      BY DEF TypeOK, Chunk
    <2>2. buffers' = Append(buffers, d)
      BY DEF PutIn
    <2>. HIDE DEF d
    <2>. QED  BY <2>1, <2>2, AppendProperties
  <1>3. /\ buffers \in Seq(Chunk) /\ taken \in Nat /\ fed \in Nat
        /\ buffers' = Append(buffers, [lo |-> fed + 1, hi |-> fed + n])
        /\ fed' = fed + n /\ readWaiters' = <<>>
    BY DEF PutIn, TypeOK
  <1>4. Covers(buffers', taken, fed') /\ buffers' \in Seq(Chunk)
    BY <1>3, CoversAppend
  <1>5. taken <= fed
    BY DEF TypeOK
  <1>. QED  BY <1>1, <1>2, <1>3, <1>4, <1>5

LEMMA AbandonedType ==
    ASSUME NEW q \in Seq(Readers \cup {Stale}), NEW r
    PROVE  Abandoned(q, r) \in Seq(Readers \cup {Stale})
  <1>1. q \in [1 .. Len(q) -> Readers \cup {Stale}] /\ Len(q) \in Nat
    BY LenProperties
  <1>2. Abandoned(q, r) \in [1 .. Len(q) -> Readers \cup {Stale}]
    BY <1>1 DEF Abandoned
  <1>. QED  BY <1>1, <1>2

(***************************************************************************)
(* Types, and the bytes: a byte that has been fed and not returned is in   *)
(* the buffer, once and in its place.                                      *)
(***************************************************************************)
Bytes == TypeOK /\ Covers(buffers, taken, fed)

LEMMA BytesStep == Bytes /\ [Next]_vars => Bytes'
  <1>. SUFFICES ASSUME TypeOK, Covers(buffers, taken, fed), [Next]_vars
                PROVE  TypeOK' /\ Covers(buffers', taken', fed')
    BY DEF Bytes
  <1>. USE SizesAssumption
  <1>1. ASSUME NEW r \in Readers, ReceiveNow(r)
        PROVE  TypeOK' /\ Covers(buffers', taken', fed')
    <2>1. PICK m \in ReadSizes : Take(r, m)
      BY <1>1 DEF ReceiveNow
    <2>2. m \in Nat
      BY <2>1
    <2>. QED  BY <1>1, <2>1, <2>2, TakeBytes, TakeReader DEF ReceiveNow, TypeOK, feeders
  <1>2. ASSUME NEW r \in Readers, ReceiveWait(r)
        PROVE  TypeOK' /\ Covers(buffers', taken', fed')
    <2>1. readWaiters' \in Seq(Readers \cup {Stale})
      BY <1>2, AppendProperties DEF ReceiveWait, TypeOK
    <2>2. want' \in [Readers -> Nat]
      BY <1>2 DEF ReceiveWait, TypeOK
    <2>. QED  BY <1>2, <2>1, <2>2 DEF ReceiveWait, TypeOK, feeders
  <1>3. ASSUME NEW r \in Readers, ReceiveResume(r)
        PROVE  TypeOK' /\ Covers(buffers', taken', fed')
    <2>1. want[r] \in Nat /\ Take(r, want[r])
      BY <1>3 DEF ReceiveResume, TypeOK
    <2>. QED  BY <1>3, <2>1, TakeBytes, TakeReader DEF ReceiveResume, TypeOK, feeders
  <1>4. ASSUME NEW r \in Readers, Cancel(r)
        PROVE  TypeOK' /\ Covers(buffers', taken', fed')
    <2>1. readWaiters' \in Seq(Readers \cup {Stale})
      BY <1>4, AbandonedType DEF Cancel, TypeOK
    <2>. QED  BY <1>4, <2>1 DEF Cancel, TypeOK, feeders
  <1>5. ASSUME NEW f \in Feeders, FeedNow(f)
        PROVE  TypeOK' /\ Covers(buffers', taken', fed')
    <2>1. PICK n \in FeedSizes : PutIn(n)
      BY <1>5 DEF FeedNow
    <2>2. n \in Nat
      BY <2>1
    <2>3. UNCHANGED <<feedWaiters, eof, paused, want, fpc, load, callers, taken, ended>>
      BY <1>5 DEF FeedNow, feeders
    <2>4. <<>> \in Seq(Readers \cup {Stale})
      BY EmptySeq
    <2>. QED  BY <2>1, <2>2, <2>3, <2>4, PutInBytes DEF TypeOK
  <1>6. ASSUME NEW f \in Feeders, FeedWait(f)
        PROVE  TypeOK' /\ Covers(buffers', taken', fed')
    <2>1. feedWaiters' \in Seq(Feeders)
      BY <1>6, AppendProperties DEF FeedWait, TypeOK
    <2>2. load' \in [Feeders -> Nat]
      BY <1>6 DEF FeedWait, TypeOK
    <2>. QED  BY <1>6, <2>1, <2>2 DEF FeedWait, TypeOK, readers
  <1>7. ASSUME NEW f \in Feeders, FeedResume(f)
        PROVE  TypeOK' /\ Covers(buffers', taken', fed')
    <2>1. load[f] \in Nat /\ PutIn(load[f])
      BY <1>7 DEF FeedResume, TypeOK
    <2>2. /\ UNCHANGED <<feedWaiters, eof, paused, want, load, callers, taken, ended>>
          /\ fpc' \in [Feeders -> {"idle", "waiting", "woken"}]
      BY <1>7 DEF FeedResume, TypeOK
    <2>3. <<>> \in Seq(Readers \cup {Stale})
      BY EmptySeq
    <2>. QED  BY <2>1, <2>2, <2>3, PutInBytes DEF TypeOK
  <1>8. ASSUME NEW f \in Feeders, FeedEof(f)
        PROVE  TypeOK' /\ Covers(buffers', taken', fed')
    BY <1>8, EmptySeq DEF FeedEof, SetAll, TypeOK, feeders
  <1>9. CASE Pause
    BY <1>9 DEF Pause, TypeOK, deques, readers, feeders
  <1>10. CASE Resume
    BY <1>10, EmptySeq DEF Resume, SetAll, TypeOK, readers
  <1>11. CASE UNCHANGED vars
    BY <1>11 DEF vars, TypeOK, deques, readers, feeders
  <1>. QED
    BY <1>1, <1>2, <1>3, <1>4, <1>5, <1>6, <1>7, <1>8, <1>9, <1>10, <1>11 DEF Next

LEMMA BytesInit == Init => Bytes
  <1>1. <<>> \in Seq(Chunk) /\ <<>> \in Seq(Readers \cup {Stale}) /\ <<>> \in Seq(Feeders)
    BY EmptySeq
  <1>2. ASSUME Init PROVE TypeOK
    <2>1. /\ rpc \in [Readers -> {"idle", "waiting", "woken", "failed"}]
          /\ want \in [Readers -> Nat]
          /\ fpc \in [Feeders -> {"idle", "waiting", "woken"}]
          /\ load \in [Feeders -> Nat]
      BY <1>2 DEF Init
    <2>2. /\ buffers \in Seq(Chunk) /\ readWaiters \in Seq(Readers \cup {Stale})
          /\ feedWaiters \in Seq(Feeders)
      BY <1>1, <1>2, Zenon DEF Init
    <2>3. /\ eof = FALSE /\ paused = FALSE /\ ended = FALSE
          /\ callers = {} /\ fed = 0 /\ taken = 0
      BY <1>2 DEF Init
    <2>4. 0 \in 0 .. 0
      OBVIOUS
    <2>. QED  BY <2>1, <2>2, <2>3, <2>4 DEF TypeOK
  <1>3. ASSUME NEW q, q = <<>>, Len(q) = 0 PROVE Covers(q, 0, 0)
    <2>1. ASSUME NEW i \in 1 .. Len(q) PROVE FALSE
      BY <1>3
    <2>2. ASSUME NEW i \in 1 .. Len(q) - 1 PROVE FALSE
      BY <1>3
    <2>. QED  BY <1>3, <2>1, <2>2 DEF Covers
  <1>4. Covers(<<>>, 0, 0)
    <2>1. Len(<<>>) = 0
      OBVIOUS
    <2>. QED  BY <1>3, <2>1
  <1>. QED  BY <1>2, <1>4 DEF Init, Bytes

THEOREM BytesHold == Spec => []Bytes
  BY BytesInit, BytesStep, PTL DEF Spec

THEOREM ReadStreamType == Spec => []TypeOK
  <1>1. Bytes => TypeOK
    BY DEF Bytes
  <1>. QED  BY <1>1, BytesHold, PTL

THEOREM BacklogHolds == Spec => []Backlog
  <1>1. Bytes => Backlog
    BY DEF Bytes, Covers, Backlog
  <1>. QED  BY <1>1, BytesHold, PTL
(***************************************************************************)
(* No lost wake-up.  A reader that waits has its event in the deque, and   *)
(* what ends MustWait sets every event of the deque; a stale event or the  *)
(* cancellation of another reader takes no live event out of it.           *)
(***************************************************************************)
Listed == \A r \in Readers : rpc[r] = "waiting" => r \in Range(readWaiters) /\ MustWait

LEMMA WakesAll ==
    ASSUME NEW pc, NEW w, NEW t \in DOMAIN pc, t \in Range(w)
    PROVE  SetAll(pc, w)[t] = "woken"
  BY DEF SetAll

LEMMA ListedStep == Bytes /\ Listed /\ [Next]_vars => Listed'
  <1>. SUFFICES ASSUME TypeOK, Covers(buffers, taken, fed), Listed, [Next]_vars,
                       NEW r \in Readers, rpc'[r] = "waiting"
                PROVE  r \in Range(readWaiters') /\ MustWait'
    BY DEF Listed, Bytes
  <1>. USE SizesAssumption
  <1>1. ASSUME NEW q \in Readers, NEW m, Take(q, m), UNCHANGED <<readWaiters, eof>>
        PROVE  r \in Range(readWaiters') /\ MustWait'
    <2>1. rpc[r] = "waiting"
      BY <1>1, TakeReader
    <2>. QED  BY <1>1, <2>1 DEF Listed, MustWait, Take
  <1>2. ASSUME NEW q \in Readers, ReceiveNow(q) \/ ReceiveResume(q)
        PROVE  r \in Range(readWaiters') /\ MustWait'
    BY <1>1, <1>2 DEF ReceiveNow, ReceiveResume
  <1>3. ASSUME NEW q \in Readers, ReceiveWait(q)
        PROVE  r \in Range(readWaiters') /\ MustWait'
    <2>1. readWaiters' = Append(readWaiters, q) /\ MustWait /\ MustWait'
      BY <1>3 DEF ReceiveWait, MustWait
    <2>2. /\ readWaiters' \in Seq(Readers \cup {Stale}) /\ Len(readWaiters) \in Nat
          /\ Len(readWaiters') = Len(readWaiters) + 1
          /\ \A i \in 1 .. Len(readWaiters) : readWaiters'[i] = readWaiters[i]
          /\ readWaiters'[Len(readWaiters) + 1] = q
      BY <2>1, AppendProperties, LenProperties DEF TypeOK
    <2>3. CASE r = q
      BY <2>1, <2>2, <2>3 DEF Range
    <2>4. CASE r # q
      <3>1. rpc[r] = "waiting"
        BY <1>3, <2>4 DEF ReceiveWait, TypeOK
      <3>2. PICK i \in 1 .. Len(readWaiters) : readWaiters[i] = r
        BY <3>1 DEF Listed, Range, TypeOK
      <3>. QED  BY <2>1, <2>2, <3>2 DEF Range
    <2>. QED  BY <2>3, <2>4
  <1>4. ASSUME NEW q \in Readers, Cancel(q)
        PROVE  r \in Range(readWaiters') /\ MustWait'
    <2>1. rpc[r] = "waiting" /\ r # q
      BY <1>4 DEF Cancel, TypeOK
    <2>2. PICK i \in DOMAIN readWaiters : readWaiters[i] = r
      BY <2>1 DEF Listed, Range
    <2>3. i \in DOMAIN readWaiters' /\ readWaiters'[i] = r
      BY <1>4, <2>1, <2>2 DEF Cancel, Abandoned
    <2>. QED  BY <1>4, <2>1, <2>3 DEF Cancel, Listed, MustWait, Range
  <1>5. ASSUME rpc' = SetAll(rpc, readWaiters) PROVE FALSE
    <2>1. rpc[r] = "waiting" /\ r \notin Range(readWaiters)
      BY <1>5 DEF SetAll, TypeOK
    <2>. QED  BY <2>1 DEF Listed
  <1>6. ASSUME NEW f \in Feeders, FeedNow(f) \/ FeedResume(f) \/ FeedEof(f) PROVE FALSE
    BY <1>5, <1>6 DEF FeedNow, FeedResume, FeedEof, PutIn
  <1>7. ASSUME UNCHANGED <<buffers, eof, readWaiters, rpc>>
        PROVE  r \in Range(readWaiters') /\ MustWait'
    BY <1>7 DEF Listed, MustWait
  <1>8. ASSUME (\E f \in Feeders : FeedWait(f)) \/ Pause \/ Resume \/ UNCHANGED vars
        PROVE  r \in Range(readWaiters') /\ MustWait'
    BY <1>7, <1>8 DEF FeedWait, Pause, Resume, vars, deques, readers
  <1>. QED  BY <1>2, <1>3, <1>4, <1>6, <1>8 DEF Next

THEOREM NoReaderSleepsOnData == Spec => []NoSleepingReader
  <1>1. Init => Listed
    BY DEF Init, Listed
  <1>2. Listed => NoSleepingReader
    BY DEF Listed, NoSleepingReader
  <1>. QED  BY <1>1, <1>2, ListedStep, BytesHold, PTL DEF Spec

(***************************************************************************)
(* Likewise for the feeders and resume().                                  *)
(***************************************************************************)
Held == \A f \in Feeders : fpc[f] = "waiting" => f \in Range(feedWaiters) /\ paused

LEMMA HeldStep == TypeOK /\ Held /\ [Next]_vars => Held'
  <1>. SUFFICES ASSUME TypeOK, Held, [Next]_vars, NEW f \in Feeders, fpc'[f] = "waiting"
                PROVE  f \in Range(feedWaiters') /\ paused'
    BY DEF Held
  <1>1. ASSUME UNCHANGED <<feedWaiters, paused, fpc>>
        PROVE  f \in Range(feedWaiters') /\ paused'
    BY <1>1 DEF Held
  <1>2. ASSUME NEW r \in Readers,
               ReceiveNow(r) \/ ReceiveWait(r) \/ ReceiveResume(r) \/ Cancel(r)
        PROVE  f \in Range(feedWaiters') /\ paused'
    BY <1>1, <1>2 DEF ReceiveNow, ReceiveWait, ReceiveResume, Cancel, feeders
  <1>3. ASSUME NEW g \in Feeders, FeedNow(g) \/ FeedEof(g)
        PROVE  f \in Range(feedWaiters') /\ paused'
    BY <1>1, <1>3 DEF FeedNow, FeedEof, feeders
  <1>4. ASSUME NEW g \in Feeders, FeedWait(g)
        PROVE  f \in Range(feedWaiters') /\ paused'
    <2>1. /\ feedWaiters' = Append(feedWaiters, g) /\ paused /\ paused' = paused
          /\ fpc' = [fpc EXCEPT ![g] = "waiting"]
      BY <1>4 DEF FeedWait
    <2>2. /\ feedWaiters' \in Seq(Feeders) /\ Len(feedWaiters) \in Nat
          /\ Len(feedWaiters') = Len(feedWaiters) + 1
          /\ \A i \in 1 .. Len(feedWaiters) : feedWaiters'[i] = feedWaiters[i]
          /\ feedWaiters'[Len(feedWaiters) + 1] = g
      BY <2>1, AppendProperties, LenProperties DEF TypeOK
    <2>3. CASE f = g
      BY <2>1, <2>2, <2>3 DEF Range
    <2>4. CASE f # g
      <3>1. fpc[f] = "waiting"
        BY <2>1, <2>4 DEF TypeOK
      <3>2. PICK i \in 1 .. Len(feedWaiters) : feedWaiters[i] = f
        <4>1. DOMAIN feedWaiters = 1 .. Len(feedWaiters)
          BY LenProperties DEF TypeOK
        <4>. QED  BY <3>1, <4>1 DEF Held, Range
      <3>. QED  BY <2>1, <2>2, <3>2 DEF Range
    <2>. QED  BY <2>3, <2>4
  <1>5. ASSUME NEW g \in Feeders, FeedResume(g)
        PROVE  f \in Range(feedWaiters') /\ paused'
    BY <1>5 DEF FeedResume, Held, TypeOK
  <1>6. CASE Pause
    BY <1>6 DEF Pause, Held, deques, feeders
  <1>7. CASE Resume
    <2>1. fpc[f] = "waiting" /\ f \notin Range(feedWaiters)
      BY <1>7 DEF Resume, SetAll, TypeOK
    <2>. QED  BY <2>1 DEF Held
  <1>8. CASE UNCHANGED vars
    BY <1>1, <1>8 DEF vars, deques, feeders
  <1>. QED  BY <1>2, <1>3, <1>4, <1>5, <1>6, <1>7, <1>8 DEF Next

THEOREM NoFeederSleepsUnpaused == Spec => []NoSleepingFeeder
  <1>1. Init => Held
    BY DEF Init, Held
  <1>2. Held => NoSleepingFeeder
    BY DEF Held, NoSleepingFeeder
  <1>. QED  BY <1>1, <1>2, HeldStep, ReadStreamType, PTL DEF Spec

(***************************************************************************)
(* No wake-up is lost on either side of the stream, whoever is cancelled   *)
(* and whatever stale events the deques hold.                              *)
(***************************************************************************)
THEOREM NoWakeupIsLost == Spec => []NoLostWakeup
  <1>1. NoSleepingReader /\ NoSleepingFeeder => NoLostWakeup
    BY DEF NoLostWakeup
  <1>. QED  BY <1>1, NoReaderSleepsOnData, NoFeederSleepsUnpaused, PTL

(***************************************************************************)
(* A lone reader never pops from an empty buffer: what wakes it is there    *)
(* until it runs, since nobody else takes chunks and nothing unsets _eof.  *)
(***************************************************************************)
LoneInv ==
    /\ IsFiniteSet(callers)
    /\ \A r \in Readers : rpc[r] # "idle" => r \in callers
    /\ Range(readWaiters) \subseteq callers \cup {Stale}
    /\ OneReader => \A r \in Readers : rpc[r] # "failed" /\ (rpc[r] = "woken" => ~MustWait)

LEMMA Alone ==
    ASSUME IsFiniteSet(callers), OneReader, NEW a \in callers, NEW b \in callers
    PROVE  a = b
  <1>1. /\ IsFiniteSet(callers \ {a})
        /\ Cardinality(callers \ {a}) = Cardinality(callers) - 1
        /\ Cardinality(callers) \in Nat
    BY FS_RemoveElement, FS_CardinalityType
  <1>2. Cardinality(callers \ {a}) = 0
    BY <1>1, FS_CardinalityType DEF OneReader
  <1>3. callers \ {a} = {}
    BY <1>1, <1>2, FS_EmptySet
  <1>. QED  BY <1>3

LEMMA LoneStep == Bytes /\ LoneInv /\ [Next]_vars => LoneInv'
  <1>. SUFFICES ASSUME TypeOK, Covers(buffers, taken, fed), LoneInv, [Next]_vars
                PROVE  LoneInv'
    BY DEF Bytes
  <1>. USE SizesAssumption
  <1>1. ASSUME UNCHANGED <<rpc, callers, readWaiters, buffers, eof>> PROVE LoneInv'
    BY <1>1 DEF LoneInv, OneReader, MustWait
  <1>2. ASSUME NEW q \in Readers, callers' = callers \cup {q}, OneReader'
        PROVE  OneReader
    <2>1. IsFiniteSet(callers') /\ callers \subseteq callers'
      BY <1>2, FS_AddElement DEF LoneInv
    <2>2. /\ Cardinality(callers) <= Cardinality(callers')
          /\ Cardinality(callers) \in Nat /\ Cardinality(callers') \in Nat
      BY <2>1, FS_Subset, FS_CardinalityType DEF LoneInv
    <2>. QED  BY <1>2, <2>2 DEF OneReader
  <1>3. ASSUME NEW q \in Readers, NEW m, Take(q, m), UNCHANGED <<readWaiters, eof>>,
               callers' = callers \cup {q}, OneReader => ~MustWait
        PROVE  LoneInv'
    <2>1. IsFiniteSet(callers')
      BY <1>3, FS_AddElement DEF LoneInv
    <2>2. \A r \in Readers : rpc'[r] # "idle" => r \in callers'
      BY <1>3, TakeReader DEF LoneInv
    <2>3. Range(readWaiters') \subseteq callers' \cup {Stale}
      BY <1>3 DEF LoneInv
    <2>4. ASSUME OneReader', NEW r \in Readers
          PROVE  rpc'[r] # "failed" /\ rpc'[r] # "woken"
      <3>1. OneReader /\ ~MustWait
        BY <1>2, <1>3, <2>4
      <3>2. CASE r = q
        BY <1>3, <3>1, <3>2, TakeReader
      <3>3. CASE r # q
        <4>1. rpc'[r] = rpc[r]
          BY <1>3, <3>3, TakeReader
        <4>2. CASE rpc[r] = "idle"
          BY <4>1, <4>2
        <4>3. CASE rpc[r] # "idle"
          <5>1. r \in callers' /\ q \in callers'
            BY <1>3, <4>3 DEF LoneInv
          <5>2. \A a, b \in callers' : a = b
            <6>1. \A a, b \in callers : a = b
              BY <3>1, Alone DEF LoneInv
            <6>2. CASE q \in callers
              BY <1>3, <6>1, <6>2
            <6>3. CASE q \notin callers
              <7>1. Cardinality(callers') = Cardinality(callers) + 1
                BY <1>3, <6>3, FS_AddElement DEF LoneInv
              <7>2. Cardinality(callers) = 0
                BY <2>4, <7>1, FS_CardinalityType DEF OneReader, LoneInv
              <7>3. callers = {}
                BY <7>2, FS_EmptySet DEF LoneInv
              <7>. QED  BY <1>3, <7>3
            <6>. QED  BY <6>2, <6>3
          <5>. QED  BY <3>3, <5>1, <5>2
        <4>. QED  BY <4>2, <4>3
      <3>. QED  BY <3>2, <3>3
    <2>. QED  BY <2>1, <2>2, <2>3, <2>4 DEF LoneInv
  <1>4. ASSUME NEW r \in Readers, ReceiveNow(r) PROVE LoneInv'
    BY <1>3, <1>4 DEF ReceiveNow
  <1>5. ASSUME NEW r \in Readers, ReceiveResume(r) PROVE LoneInv'
    <2>1. r \in callers /\ (OneReader => ~MustWait)
      BY <1>5 DEF ReceiveResume, LoneInv
    <2>2. callers' = callers \cup {r}
      BY <1>5, <2>1 DEF ReceiveResume
    <2>. QED  BY <1>3, <1>5, <2>1, <2>2 DEF ReceiveResume
  <1>6. ASSUME NEW q \in Readers, ReceiveWait(q) PROVE LoneInv'
    <2>1. /\ callers' = callers \cup {q} /\ rpc' = [rpc EXCEPT ![q] = "waiting"]
          /\ readWaiters' = Append(readWaiters, q) /\ MustWait' = MustWait
      BY <1>6 DEF ReceiveWait, MustWait
    <2>2. ASSUME NEW i \in 1 .. Len(readWaiters')
          PROVE  readWaiters'[i] = q \/ readWaiters'[i] \in Range(readWaiters)
      BY <2>1, AppendProperties, LenProperties DEF Range, TypeOK
    <2>3. readWaiters' \in Seq(Readers \cup {Stale})
      BY <2>1, AppendProperties DEF TypeOK
    <2>4. Range(readWaiters') \subseteq callers' \cup {Stale}
      BY <2>1, <2>2, <2>3 DEF Range, LoneInv
    <2>5. IsFiniteSet(callers')
      BY <2>1, FS_AddElement DEF LoneInv
    <2>6. \A r \in Readers : /\ rpc'[r] # "idle" => r \in callers'
                             /\ rpc'[r] = "failed" => rpc[r] = "failed"
                             /\ rpc'[r] = "woken" => rpc[r] = "woken"
      BY <2>1 DEF LoneInv, TypeOK
    <2>. QED  BY <1>2, <2>1, <2>4, <2>5, <2>6 DEF LoneInv
  <1>7. ASSUME NEW q \in Readers, Cancel(q) PROVE LoneInv'
    <2>1. /\ UNCHANGED <<callers, buffers, eof>> /\ rpc' = [rpc EXCEPT ![q] = "idle"]
          /\ readWaiters' = Abandoned(readWaiters, q)
      BY <1>7 DEF Cancel
    <2>2. Range(readWaiters') \subseteq Range(readWaiters) \cup {Stale}
      BY <2>1 DEF Range, Abandoned
    <2>. QED  BY <2>1, <2>2 DEF LoneInv, OneReader, MustWait, TypeOK
  <1>8. ASSUME rpc' = SetAll(rpc, readWaiters), readWaiters' = <<>>, ~MustWait',
               UNCHANGED callers
        PROVE  LoneInv'
    <2>1. Range(readWaiters') = {}
      BY <1>8 DEF Range
    <2>2. \A r \in Readers : rpc'[r] = "woken" \/ rpc'[r] = rpc[r]
      BY <1>8 DEF SetAll, TypeOK
    <2>3. \A r \in Readers : rpc'[r] # "idle" => r \in callers
      BY <1>8, StaleAssumption DEF SetAll, TypeOK, LoneInv
    <2>. QED  BY <1>8, <2>1, <2>2, <2>3 DEF LoneInv, OneReader
  <1>9. ASSUME NEW n \in Nat, PutIn(n), UNCHANGED callers PROVE LoneInv'
    <2>1. buffers' # <<>>
      BY <1>9, PutInBytes
    <2>. QED  BY <1>8, <1>9, <2>1 DEF PutIn, MustWait
  <1>10. ASSUME NEW f \in Feeders, FeedNow(f) PROVE LoneInv'
    <2>1. PICK n \in FeedSizes : PutIn(n)
      BY <1>10 DEF FeedNow
    <2>2. n \in Nat
      BY <2>1
    <2>. QED  BY <1>9, <1>10, <2>1, <2>2 DEF FeedNow
  <1>11. ASSUME NEW f \in Feeders, FeedResume(f) PROVE LoneInv'
    BY <1>9, <1>11 DEF FeedResume, TypeOK
  <1>12. ASSUME NEW f \in Feeders, FeedEof(f) PROVE LoneInv'
    BY <1>8, <1>12 DEF FeedEof, MustWait
  <1>13. ASSUME (\E f \in Feeders : FeedWait(f)) \/ Pause \/ Resume \/ UNCHANGED vars
         PROVE  LoneInv'
    BY <1>1, <1>13 DEF FeedWait, Pause, Resume, vars, deques, readers
  <1>. QED
    BY <1>4, <1>5, <1>6, <1>7, <1>10, <1>11, <1>12, <1>13 DEF Next

THEOREM LoneReaderNeverFails == Spec => []NoPopFromEmpty
  <1>1. ASSUME Init PROVE LoneInv
    <2>1. IsFiniteSet(callers) /\ Range(readWaiters) = {}
      BY <1>1, FS_EmptySet DEF Init, Range
    <2>2. \A r \in Readers : rpc[r] = "idle"
      BY <1>1 DEF Init
    <2>. QED  BY <2>1, <2>2 DEF LoneInv
  <1>2. LoneInv => NoPopFromEmpty
    BY DEF LoneInv, NoPopFromEmpty
  <1>. QED  BY <1>1, <1>2, LoneStep, BytesHold, PTL DEF Spec

(***************************************************************************)
(* The stream, with its chunks and its waiters, implements ByteChannel: a   *)
(* step of ReadStream is a step of the channel or leaves it alone.          *)
(***************************************************************************)
THEOREM ReadStreamRefinesChannel == Spec => ChannelSpec
  <1>1. Init => Channel!Init
    BY DEF Init, Channel!Init
  <1>2. Bytes /\ [Next]_vars => [Channel!Next]_<<fed, taken, eof, ended>>
    <2>. SUFFICES ASSUME Bytes, TypeOK, Covers(buffers, taken, fed), [Next]_vars
                  PROVE  Channel!Next \/ UNCHANGED <<fed, taken, eof, ended>>
      BY DEF Bytes
    <2>. DEFINE Goal == Channel!Next \/ UNCHANGED <<fed, taken, eof, ended>>
    <2>. USE SizesAssumption
    <2>1. taken \in Nat /\ fed \in Nat /\ ended \in BOOLEAN
      BY DEF TypeOK
    <2>2. ASSUME NEW r \in Readers, NEW m \in Nat, Take(r, m), UNCHANGED <<eof, fed>>
          PROVE  Goal
      <3>1. taken' \in Nat /\ taken <= taken' /\ taken' <= fed
        BY <2>2, TakeBytes
      <3>2. CASE UNCHANGED ended
        BY <2>1, <2>2, <3>1, <3>2 DEF Channel!Next, Channel!Receive
      <3>3. CASE ended' # ended
        <4>1. eof /\ ended' = TRUE /\ taken' = taken /\ taken = fed
          BY <2>2, <3>3 DEF Take, Covers
        <4>. QED  BY <2>1, <2>2, <3>3, <4>1 DEF Channel!Next, Channel!Finish
      <3>. QED  BY <3>2, <3>3
    <2>3. ASSUME NEW n \in Nat, PutIn(n), UNCHANGED <<taken, eof, ended>> PROVE Goal
      <3>1. fed' \in Nat /\ fed <= fed'
        BY <2>3, PutInBytes
      <3>. QED  BY <2>1, <2>3, <3>1 DEF Channel!Next, Channel!Send
    <2>4. ASSUME NEW r \in Readers, ReceiveNow(r) \/ ReceiveResume(r) PROVE Goal
      <3>1. CASE ReceiveNow(r)
        <4>1. PICK m \in ReadSizes : Take(r, m)
          BY <3>1 DEF ReceiveNow
        <4>2. m \in Nat
          BY <4>1
        <4>. QED  BY <2>2, <3>1, <4>1, <4>2 DEF ReceiveNow
      <3>2. CASE ReceiveResume(r)
        <4>1. want[r] \in Nat /\ Take(r, want[r])
          BY <3>2 DEF ReceiveResume, TypeOK
        <4>. QED  BY <2>2, <3>2, <4>1 DEF ReceiveResume
      <3>. QED  BY <2>4, <3>1, <3>2
    <2>5. ASSUME NEW f \in Feeders, FeedNow(f) PROVE Goal
      <3>1. PICK n \in FeedSizes : PutIn(n)
        BY <2>5 DEF FeedNow
      <3>2. n \in Nat
        BY <3>1
      <3>. QED  BY <2>3, <2>5, <3>1, <3>2 DEF FeedNow
    <2>6. ASSUME NEW f \in Feeders, FeedResume(f) PROVE Goal
      <3>1. load[f] \in Nat
        BY <2>6 DEF FeedResume, TypeOK
      <3>. QED  BY <2>3, <2>6, <3>1 DEF FeedResume
    <2>7. ASSUME NEW f \in Feeders, FeedEof(f) PROVE Goal
      BY <2>7 DEF FeedEof, Channel!Next, Channel!Close, TypeOK
    <2>8. ASSUME \/ \E r \in Readers : ReceiveWait(r) \/ Cancel(r)
                 \/ \E f \in Feeders : FeedWait(f)
                 \/ Pause \/ Resume \/ UNCHANGED vars
          PROVE  Goal
      BY <2>8 DEF ReceiveWait, Cancel, FeedWait, Pause, Resume, vars
    <2>. QED  BY <2>4, <2>5, <2>6, <2>7, <2>8 DEF Next
  <1>. QED
    BY <1>1, <1>2, BytesHold, PTL DEF Spec, ChannelSpec, Channel!Spec, Channel!channel
=============================================================================
