-------------------------- MODULE H2ConnectionProofs --------------------------
(***************************************************************************)
(* Theorems about H2Connection, for any number of streams, any windows,     *)
(* frames and chunks and any bounds on what the client does.               *)
(***************************************************************************)
EXTENDS H2Connection, SequenceTheorems, TLAPS

USE DEF Spot, Reason

(***************************************************************************)
(* Sequences: what Tail, Append and RemoveAt do to the elements.           *)
(***************************************************************************)
LEMMA TailOf ==
    ASSUME NEW S, NEW q \in Seq(S), q # <<>>
    PROVE  /\ Tail(q) \in Seq(S) /\ Head(q) = q[1] /\ q[1] \in S
           /\ Len(q) \in Nat /\ Len(q) > 0 /\ Len(Tail(q)) = Len(q) - 1
           /\ DOMAIN q = 1 .. Len(q) /\ DOMAIN Tail(q) = 1 .. Len(q) - 1
           /\ 1 \in DOMAIN q
           /\ \A i \in DOMAIN Tail(q) : i + 1 \in DOMAIN q /\ Tail(q)[i] = q[i + 1]
  <1>1. /\ Tail(q) \in Seq(S) /\ Len(q) \in Nat /\ Len(q) > 0 /\ Len(Tail(q)) = Len(q) - 1
        /\ \A i \in 1 .. Len(Tail(q)) : Tail(q)[i] = q[i + 1]
        /\ Head(q) = q[1]
    BY HeadTailProperties, LenProperties, EmptySeq
  <1>2. DOMAIN q = 1 .. Len(q) /\ DOMAIN Tail(q) = 1 .. Len(Tail(q))
    BY <1>1, LenProperties
  <1>3. 1 \in DOMAIN q
    BY <1>1, <1>2
  <1>4. q[1] \in S
    BY <1>3, ElementOfSeq, <1>2
  <1>5. \A i \in DOMAIN Tail(q) : i + 1 \in DOMAIN q
    BY <1>1, <1>2
  <1>. QED  BY <1>1, <1>2, <1>3, <1>4, <1>5

LEMMA AppendOf ==
    ASSUME NEW S, NEW q \in Seq(S), NEW e \in S
    PROVE  /\ Append(q, e) \in Seq(S) /\ Len(q) \in Nat
           /\ DOMAIN q = 1 .. Len(q) /\ DOMAIN Append(q, e) = 1 .. Len(q) + 1
           /\ Len(Append(q, e)) = Len(q) + 1
           /\ Append(q, e) # <<>>
           /\ \A i \in DOMAIN q : i \in DOMAIN Append(q, e) /\ Append(q, e)[i] = q[i]
           /\ Len(q) + 1 \in DOMAIN Append(q, e) /\ Append(q, e)[Len(q) + 1] = e
  <1>1. /\ Append(q, e) \in Seq(S) /\ Len(q) \in Nat /\ Len(Append(q, e)) = Len(q) + 1
        /\ \A i \in 1 .. Len(q) : Append(q, e)[i] = q[i]
        /\ Append(q, e)[Len(q) + 1] = e
    BY AppendProperties, LenProperties
  <1>2. DOMAIN q = 1 .. Len(q) /\ DOMAIN Append(q, e) = 1 .. Len(Append(q, e))
    BY <1>1, LenProperties
  <1>3. Append(q, e) # <<>>
    BY <1>1, EmptySeq
  <1>. QED  BY <1>1, <1>2, <1>3

LEMMA RemoveAtOf ==
    ASSUME NEW S, NEW q \in Seq(S), NEW i \in DOMAIN q
    PROVE  /\ RemoveAt(q, i) \in Seq(S)
           /\ DOMAIN q = 1 .. Len(q) /\ Len(q) \in Nat
           /\ DOMAIN RemoveAt(q, i) = 1 .. Len(q) - 1
           /\ \A j \in DOMAIN RemoveAt(q, i) :
                RemoveAt(q, i)[j] = IF j < i THEN q[j] ELSE q[j + 1]
  <1>1. Len(q) \in Nat /\ i \in 1 .. Len(q) /\ DOMAIN q = 1 .. Len(q)
    BY LenProperties
  <1>. DEFINE l == SubSeq(q, 1, i - 1)  r == SubSeq(q, i + 1, Len(q))
  <1>2. l \in Seq(S) /\ Len(l) = i - 1 /\ \A j \in 1 .. i - 1 : l[j] = q[j]
    <2>1. 1 \in 1 .. Len(q) + 1 /\ i - 1 \in 0 .. Len(q)
      BY <1>1
    <2>. QED  BY <1>1, <2>1, SubSeqProperties
  <1>3. r \in Seq(S) /\ Len(r) = Len(q) - i /\ \A j \in 1 .. Len(q) - i : r[j] = q[i + j]
    <2>1. i + 1 \in 1 .. Len(q) + 1 /\ Len(q) \in 0 .. Len(q)
      BY <1>1
    <2>2. /\ r \in Seq(S) /\ Len(r) = IF i + 1 <= Len(q) THEN Len(q) - (i + 1) + 1 ELSE 0
          /\ \A j \in 1 .. Len(q) - (i + 1) + 1 : r[j] = q[i + 1 + j - 1]
      BY <1>1, <2>1, SubSeqProperties
    <2>3. Len(r) = Len(q) - i
      BY <1>1, <2>2
    <2>4. ASSUME NEW j \in 1 .. Len(q) - i PROVE r[j] = q[i + j]
      <3>1. j \in 1 .. Len(q) - (i + 1) + 1 /\ i + 1 + j - 1 = i + j
        BY <1>1
      <3>. QED  BY <2>2, <3>1
    <2>. QED  BY <2>2, <2>3, <2>4
  <1>. HIDE DEF l, r
  <1>4. /\ l \o r \in Seq(S) /\ Len(l \o r) = Len(q) - 1
        /\ \A j \in 1 .. Len(q) - 1 : (l \o r)[j] = IF j < i THEN q[j] ELSE q[j + 1]
    <2>1. /\ l \o r \in Seq(S) /\ Len(l \o r) = Len(l) + Len(r)
          /\ \A j \in 1 .. Len(l) + Len(r) :
                (l \o r)[j] = IF j <= Len(l) THEN l[j] ELSE r[j - Len(l)]
      BY <1>2, <1>3, ConcatProperties
    <2>2. Len(l) + Len(r) = Len(q) - 1
      BY <1>1, <1>2, <1>3
    <2>3. ASSUME NEW j \in 1 .. Len(q) - 1 PROVE (l \o r)[j] = IF j < i THEN q[j] ELSE q[j + 1]
      <3>1. CASE j < i
        <4>1. j \in 1 .. i - 1 /\ j <= Len(l)
          BY <1>1, <1>2, <3>1
        <4>. QED  BY <1>2, <2>1, <2>2, <3>1, <4>1
      <3>2. CASE ~(j < i)
        <4>1. j - (i - 1) \in 1 .. Len(q) - i /\ ~(j <= Len(l)) /\ i + (j - (i - 1)) = j + 1
          BY <1>1, <1>2, <3>2
        <4>2. r[j - (i - 1)] = q[j + 1]
          BY <1>3, <4>1
        <4>. QED  BY <1>2, <2>1, <2>2, <3>2, <4>1, <4>2
      <3>. QED  BY <3>1, <3>2
    <2>. QED  BY <2>1, <2>2, <2>3
  <1>5. RemoveAt(q, i) = l \o r
    BY DEF RemoveAt, l, r
  <1>6. DOMAIN (l \o r) = 1 .. Len(q) - 1
    BY <1>4, LenProperties
  <1>. QED  BY <1>1, <1>4, <1>5, <1>6

\* min of two numbers
LEMMA MinOfTwo ==
    ASSUME NEW a \in Nat, NEW b \in Nat
    PROVE  Min({a, b}) \in Nat /\ Min({a, b}) <= a /\ Min({a, b}) <= b /\ Min({a, b}) \in {a, b}
  <1>1. \E x \in {a, b} : \A y \in {a, b} : x <= y
    <2>1. CASE a <= b
      BY <2>1
    <2>2. CASE b <= a
      BY <2>2
    <2>. QED  BY <2>1, <2>2
  <1>2. Min({a, b}) \in {a, b} /\ \A y \in {a, b} : Min({a, b}) <= y
    BY <1>1 DEF Min
  <1>. QED  BY <1>2

LEMMA MinOfThree ==
    ASSUME NEW a \in Nat, NEW b \in Nat, NEW c \in Nat
    PROVE  LET x == Min({a, b, c})
           IN  x \in Nat /\ x <= a /\ x <= b /\ x <= c /\ x \in {a, b, c}
  <1>1. \E x \in {a, b, c} : \A y \in {a, b, c} : x <= y
    <2>1. CASE a <= b /\ a <= c
      BY <2>1
    <2>2. CASE b <= a /\ b <= c
      BY <2>2
    <2>3. CASE c <= a /\ c <= b
      BY <2>3
    <2>. QED  BY <2>1, <2>2, <2>3
  <1>2. Min({a, b, c}) \in {a, b, c} /\ \A y \in {a, b, c} : Min({a, b, c}) <= y
    BY <1>1 DEF Min
  <1>. QED  BY <1>2

-----------------------------------------------------------------------------
(***************************************************************************)
(* Runs of chunks.  A writer holds the bytes of the body after b up to l,   *)
(* in order and without a gap.                                             *)
(***************************************************************************)
Run(q, b, l) ==
    /\ q \in Seq(Chunk) /\ b <= l
    /\ q = <<>> => b = l
    /\ q # <<>> => q[1].lo = b + 1 /\ q[Len(q)].hi = l
    /\ \A i \in 1 .. Len(q) : q[i].hi <= l
    /\ \A i \in 1 .. Len(q) - 1 : q[i + 1].lo = q[i].hi + 1

\* The first chunk of a run begins it, the others go on behind it.
LEMMA FirstOfRun ==
    ASSUME NEW b \in Nat, NEW l \in Nat, NEW q, Run(q, b, l), q # <<>>
    PROVE  /\ Head(q) \in Chunk /\ Head(q) = q[1] /\ Head(q).lo = b + 1
           /\ Head(q).hi \in Nat /\ b < Head(q).hi /\ Head(q).hi <= l
           /\ Run(Tail(q), Head(q).hi, l)
  <1>. DEFINE t == Tail(q)
  <1>1. q \in Seq(Chunk)
    BY DEF Run
  <1>2. /\ t \in Seq(Chunk) /\ Head(q) = q[1] /\ q[1] \in Chunk
        /\ Len(q) \in Nat /\ Len(q) > 0 /\ Len(t) = Len(q) - 1
        /\ \A i \in DOMAIN t : t[i] = q[i + 1]
        /\ DOMAIN t = 1 .. Len(q) - 1
    BY <1>1, TailOf
  <1>3. q[1].lo = b + 1 /\ q[1].hi <= l /\ q[1].lo \in Nat /\ q[1].hi \in Nat
        /\ q[1].lo <= q[1].hi
    <2>1. 1 \in 1 .. Len(q)
      <3>1. Len(q) \in Nat /\ Len(q) > 0
        BY <1>2
      <3>. QED  BY <3>1
    <2>2. q[1].lo = b + 1 /\ q[1].hi <= l
      BY <2>1 DEF Run
    <2>. QED  BY <1>2, <2>2 DEF Chunk
  <1>. HIDE DEF t
  <1>4. \A i \in 1 .. Len(t) : t[i].hi <= l
    <2>1. \A i \in 1 .. Len(t) : i + 1 \in 1 .. Len(q) /\ t[i] = q[i + 1]
      BY <1>2
    <2>. QED  BY <2>1 DEF Run
  <1>5. \A i \in 1 .. Len(t) - 1 : t[i + 1].lo = t[i].hi + 1
    <2>1. \A i \in 1 .. Len(t) - 1 : /\ i + 1 \in 1 .. Len(q) - 1
                                     /\ t[i] = q[i + 1] /\ t[i + 1] = q[(i + 1) + 1]
      <3>1. Len(q) \in Nat /\ Len(q) > 0 /\ Len(t) = Len(q) - 1
        BY <1>2
      <3>2. \A i \in 1 .. Len(t) - 1 : i \in 1 .. Len(q) - 1 /\ i + 1 \in 1 .. Len(q) - 1
        BY <3>1
      <3>3. \A i \in 1 .. Len(q) - 1 : t[i] = q[i + 1]
        BY <1>2
      <3>. QED  BY <3>2, <3>3
    <2>2. \A i \in 1 .. Len(q) - 1 : q[i + 1].lo = q[i].hi + 1
      BY DEF Run
    <2>. QED  BY <2>1, <2>2
  <1>6. CASE t = <<>>
    <2>1. Len(q) = 1
      BY <1>2, <1>6, EmptySeq
    <2>2. q[1].hi = l
      BY <1>1, <2>1 DEF Run
    <2>. QED  BY <1>2, <1>3, <1>4, <1>5, <1>6, <2>2 DEF Run, t
  <1>7. CASE t # <<>>
    <2>1. Len(t) > 0
      BY <1>2, <1>7, EmptySeq
    <2>2. 1 \in 1 .. Len(q) - 1 /\ 1 \in DOMAIN t /\ Len(t) \in DOMAIN t /\ Len(t) + 1 = Len(q)
      BY <1>2, <2>1
    <2>3. t[1] = q[1 + 1] /\ t[Len(t)] = q[Len(t) + 1]
      BY <1>2, <2>2
    <2>4. t[1].lo = q[1].hi + 1 /\ t[Len(t)].hi = l
      BY <2>2, <2>3 DEF Run
    <2>. QED  BY <1>2, <1>3, <1>4, <1>5, <1>7, <2>4 DEF Run, t
  <1>. QED  BY <1>6, <1>7

\* receive(n): the first d bytes go out, the rest is put back.
LEMMA CutOfRun ==
    ASSUME NEW b \in Nat, NEW l \in Nat, NEW q, Run(q, b, l), q # <<>>,
           NEW d \in Nat, d <= Size(Head(q))
    PROVE  b + d <= l /\ Run(Rest(Head(q), d) \o Tail(q), b + d, l)
  <1>. DEFINE c == Head(q)  t == Tail(q)
  <1>1. /\ c \in Chunk /\ c = q[1] /\ c.lo = b + 1 /\ c.hi \in Nat /\ b < c.hi /\ c.hi <= l
        /\ Run(t, c.hi, l)
    BY FirstOfRun
  <1>2. q \in Seq(Chunk)
    BY DEF Run
  <1>3. t \in Seq(Chunk) /\ Len(q) \in Nat /\ Len(q) > 0 /\ Len(t) = Len(q) - 1
        /\ \A i \in 1 .. Len(q) - 1 : t[i] = q[i + 1]
    BY <1>2, TailOf
  <1>. HIDE DEF c, t
  <1>4. d <= c.hi + 1 - c.lo /\ Size(c) = c.hi + 1 - c.lo /\ b + d <= l
    BY <1>1 DEF Size, c
  <1>5. CASE d < Size(c)
    <2>. DEFINE f == [c EXCEPT !.lo = c.lo + d]  r == <<f>> \o t
    <2>1. f \in Chunk /\ f.lo = b + d + 1 /\ f.hi = c.hi
      BY <1>1, <1>4, <1>5 DEF Chunk
    <2>2. Rest(c, d) = <<f>>
      BY <1>5 DEF Rest
    <2>. HIDE DEF f
    <2>3. /\ r \in Seq(Chunk) /\ Len(r) = Len(q) /\ r[1] = f
          /\ \A i \in 2 .. Len(q) : r[i] = q[i]
      <3>1. <<f>> \in Seq(Chunk) /\ Len(<<f>>) = 1 /\ <<f>>[1] = f
        BY <2>1
      <3>2. /\ r \in Seq(Chunk) /\ Len(r) = 1 + Len(t)
            /\ \A i \in 1 .. 1 + Len(t) : r[i] = IF i <= 1 THEN <<f>>[i] ELSE t[i - 1]
        BY <1>3, <3>1, ConcatProperties
      <3>3. ASSUME NEW i \in 2 .. Len(q) PROVE r[i] = q[i]
        <4>1. i - 1 \in 1 .. Len(q) - 1 /\ i \in 1 .. 1 + Len(t) /\ ~(i <= 1) /\ (i - 1) + 1 = i
          BY <1>3
        <4>. QED  BY <1>3, <3>2, <4>1
      <3>4. 1 \in 1 .. 1 + Len(t)
        BY <1>3
      <3>. QED  BY <1>3, <3>1, <3>2, <3>3, <3>4
    <2>. HIDE DEF r
    <2>4. r # <<>> /\ r[1].lo = b + d + 1
      BY <1>3, <2>1, <2>3, EmptySeq
    <2>5. r[Len(r)].hi = l
      <3>1. q[Len(q)].hi = l
        BY DEF Run
      <3>. QED  BY <1>1, <1>3, <2>1, <2>3, <3>1
    <2>6. \A i \in 1 .. Len(r) : r[i].hi <= l
      <3>1. \A i \in 1 .. Len(q) : q[i].hi <= l
        BY DEF Run
      <3>2. \A i \in 1 .. Len(q) : i = 1 \/ i \in 2 .. Len(q)
        BY <1>3
      <3>. QED  BY <1>1, <2>1, <2>3, <3>1, <3>2
    <2>7. ASSUME NEW i \in 1 .. Len(r) - 1 PROVE r[i + 1].lo = r[i].hi + 1
      <3>1. q[i + 1].lo = q[i].hi + 1
        BY <2>3 DEF Run
      <3>2. i + 1 \in 2 .. Len(q) /\ (i = 1 \/ i \in 2 .. Len(q))
        BY <1>3, <2>3
      <3>. QED  BY <1>1, <2>1, <2>3, <3>1, <3>2
    <2>8. Run(r, b + d, l)
      BY <1>4, <2>3, <2>4, <2>5, <2>6, <2>7 DEF Run
    <2>. QED  BY <1>4, <2>2, <2>8 DEF c, t, r
  <1>6. CASE ~(d < Size(c))
    <2>1. Rest(c, d) = <<>> /\ b + d = c.hi
      BY <1>1, <1>4, <1>6 DEF Rest
    <2>2. Rest(c, d) \o t = t
      BY <1>3, <2>1, ConcatEmptySeq
    <2>. QED  BY <1>1, <1>4, <2>1, <2>2 DEF c, t
  <1>. QED  BY <1>5, <1>6

\* feed: a chunk of the next n bytes.
LEMMA GrownRun ==
    ASSUME NEW b \in Nat, NEW l \in Nat, NEW q, Run(q, b, l), NEW n \in Nat \ {0}
    PROVE  Run(Append(q, [lo |-> l + 1, hi |-> l + n]), b, l + n)
  <1>. DEFINE c == [lo |-> l + 1, hi |-> l + n]  r == Append(q, c)
  <1>1. c \in Chunk /\ c.lo = l + 1 /\ c.hi = l + n
    BY DEF Chunk
  <1>2. q \in Seq(Chunk) /\ b <= l
    BY DEF Run
  <1>. HIDE DEF c
  <1>3. /\ r \in Seq(Chunk) /\ Len(q) \in Nat /\ Len(r) = Len(q) + 1 /\ r # <<>>
        /\ \A i \in 1 .. Len(q) : r[i] = q[i]
        /\ r[Len(q) + 1] = c
    BY <1>1, <1>2, AppendProperties, LenProperties
  <1>. HIDE DEF r
  <1>4. r[1].lo = b + 1
    <2>1. CASE q = <<>>
      BY <1>1, <1>3, <2>1 DEF Run
    <2>2. CASE q # <<>>
      <3>1. 1 \in 1 .. Len(q)
        BY <1>2, <1>3, <2>2, EmptySeq
      <3>. QED  BY <1>3, <2>2, <3>1 DEF Run
    <2>. QED  BY <2>1, <2>2
  <1>5. \A i \in 1 .. Len(r) : r[i].hi <= l + n
    <2>1. ASSUME NEW i \in 1 .. Len(r) PROVE r[i].hi <= l + n
      <3>1. CASE i \in 1 .. Len(q)
        <4>1. q[i] \in Chunk
          BY <1>2, <3>1, ElementOfSeq
        <4>2. q[i].hi \in Nat /\ q[i].hi <= l
          BY <3>1, <4>1 DEF Run, Chunk
        <4>. QED  BY <1>3, <3>1, <4>2
      <3>2. CASE i = Len(q) + 1
        BY <1>1, <1>3, <3>2
      <3>. QED  BY <1>3, <3>1, <3>2
    <2>. QED  BY <2>1
  <1>6. ASSUME NEW i \in 1 .. Len(r) - 1 PROVE r[i + 1].lo = r[i].hi + 1
    <2>1. CASE i \in 1 .. Len(q) - 1
      <3>1. i \in 1 .. Len(q) /\ i + 1 \in 1 .. Len(q)
        BY <1>3, <2>1
      <3>. QED  BY <1>3, <2>1, <3>1 DEF Run
    <2>2. CASE i = Len(q)
      <3>1. q # <<>> /\ i \in 1 .. Len(q)
        BY <1>3, <2>2
      <3>2. q[Len(q)].hi = l
        BY <3>1 DEF Run
      <3>. QED  BY <1>1, <1>3, <2>2, <3>1, <3>2
    <2>. QED  BY <1>3, <2>1, <2>2
  <1>7. r[Len(r)].hi = l + n /\ b <= l + n
    BY <1>1, <1>2, <1>3
  <1>8. Run(r, b, l + n)
    BY <1>3, <1>4, <1>5, <1>6, <1>7 DEF Run
  <1>. QED  BY <1>8 DEF r, c

\* writer.size() of a run is the number of its bytes.
LEMMA SizeOfRun ==
    ASSUME NEW s, NEW b \in Nat, NEW l \in Nat, Run(wbuf[s], b, l)
    PROVE  Buffered(s) = l - b /\ Buffered(s) \in Nat
  <1>1. CASE wbuf[s] = <<>>
    BY <1>1 DEF Run, Buffered
  <1>2. CASE wbuf[s] # <<>>
    <2>1. wbuf[s][1].lo = b + 1 /\ wbuf[s][Len(wbuf[s])].hi = l /\ b <= l
      BY <1>2 DEF Run
    <2>2. Buffered(s) = l + 1 - (b + 1)
      BY <1>2, <2>1 DEF Buffered
    <2>. QED  BY <2>1, <2>2
  <1>. QED  BY <1>1, <1>2

-----------------------------------------------------------------------------
(***************************************************************************)
(* Where tasks stand, what is known of streams that events and snapshots    *)
(* name, and what the writers hold.                                        *)
(***************************************************************************)
Flushing(t) == pc[t] \in {"scan", "take", "woken", "flush"}

Places ==
    /\ \A s \in Streams : pc[s] \notin {"idle", "arriving", "handle", "update"}
    /\ pc[Loop] \notin {"none", "app", "read", "headers"}
    /\ \A t \in Tasks : running = t <=> pc[t] \in {"scan", "arriving", "handle"}
    /\ \A t \in Tasks : pc[t] \in {"take", "woken"} => todo[t] # <<>>
    /\ pc[Loop] = "update" => events # <<>> /\ Head(events)[1] = "window"

\* the library knows every stream that an event, the dict or a snapshot names
EventsKnown == \A i \in DOMAIN events :
    events[i][1] \in {"request", "data", "ended", "reset"} =>
        events[i][2] \in Streams /\ h2[events[i][2]] # "idle"
StreamsKnown == \A i \in DOMAIN streams : h2[streams[i]] # "idle"
TodoKnown == \A t \in Tasks : \A i \in DOMAIN todo[t] : h2[todo[t][i]] # "idle"

\* what a writer holds ends with the last byte fed; nothing of it has been sent
Writers == \A s \in Streams :
    \E b \in Nat : sent[s] <= b /\ Run(wbuf[s], b, fed[s])

Base == TypeOK /\ Places /\ EventsKnown /\ StreamsKnown /\ TodoKnown /\ Writers

LEMMA Numbers ==
    /\ N \in Nat /\ N > 0 /\ Loop \in Tasks /\ Loop \notin Streams /\ Streams \subseteq Tasks
    /\ Nobody \notin Tasks /\ Streams \subseteq Nat \ {0} /\ Tasks \subseteq Nat
    /\ \A s \in Streams : s # Loop
  BY StreamsAssumption DEF StreamsAssumption, Loop, Tasks, Streams, Nobody

\* what a snapshot and the dict name are streams
LEMMA Elements ==
    ASSUME TypeOK
    PROVE  /\ \A i \in DOMAIN streams : streams[i] \in Streams
           /\ \A t \in Tasks : \A i \in DOMAIN todo[t] : todo[t][i] \in Streams
           /\ \A i \in DOMAIN events : events[i] \in Event
           /\ \A t \in Tasks : todo[t] \in Seq(Streams)
  <1>1. \A q \in Seq(Streams) : \A i \in DOMAIN q : q[i] \in Streams
    <2>1. ASSUME NEW q \in Seq(Streams), NEW i \in DOMAIN q PROVE q[i] \in Streams
      BY LenProperties, ElementOfSeq
    <2>. QED  BY <2>1
  <1>2. \A i \in DOMAIN events : events[i] \in Event
    <2>1. events \in Seq(Event)
      BY DEF TypeOK
    <2>. QED  BY <2>1, LenProperties, ElementOfSeq
  <1>3. streams \in Seq(Streams) /\ \A t \in Tasks : todo[t] \in Seq(Streams)
    BY DEF TypeOK
  <1>. QED  BY <1>1, <1>2, <1>3

\* What touches neither the writers nor the counts leaves Writers alone.
LEMMA WritersKept ==
    ASSUME Writers, UNCHANGED <<wbuf, fed, sent>>
    PROVE  Writers'
  BY DEF Writers
-----------------------------------------------------------------------------
(***************************************************************************)
(* Frames arrive.                                                          *)
(***************************************************************************)
LEMMA ArriveKeeps ==
    ASSUME Base, NEW e \in Event, Arrive(e),
           acked' \in BOOLEAN, inbound' \in BOOLEAN, goaway' \in BOOLEAN,
           h2' \in [Streams -> {"idle", "open", "ended", "reset"}],
           rend' \in [Streams -> BOOLEAN], rsent' \in [Streams -> Nat],
           window' \in Nat, swindow' \in [Streams -> Nat],
           \A s \in Streams : h2[s] # "idle" => h2'[s] # "idle",
           e[1] \in {"request", "data", "ended", "reset"} =>
               e[2] \in Streams /\ h2'[e[2]] # "idle"
    PROVE  Base'
  <1>1. events \in Seq(Event) /\ events' = Append(events, e)
    BY DEF Base, TypeOK, Arrive
  <1>2. /\ events' \in Seq(Event) /\ DOMAIN events = 1 .. Len(events) /\ Len(events) \in Nat
        /\ DOMAIN events' = 1 .. Len(events) + 1 /\ events' # <<>>
        /\ \A i \in DOMAIN events : events'[i] = events[i]
        /\ events'[Len(events) + 1] = e
    BY <1>1, AppendOf
  <1>3. TypeOK'
    BY <1>2, Numbers DEF Base, TypeOK, Arrive, Goto, readerVars, writerVars
  <1>4. Places'
    BY Numbers DEF Base, TypeOK, Places, Arrive, Receiving, Goto
  <1>5. EventsKnown'
    <2>1. ASSUME NEW i \in DOMAIN events',
                 events'[i][1] \in {"request", "data", "ended", "reset"}
          PROVE  events'[i][2] \in Streams /\ h2'[events'[i][2]] # "idle"
      <3>1. CASE i \in DOMAIN events
        BY <1>2, <2>1, <3>1 DEF Base, EventsKnown
      <3>2. CASE i = Len(events) + 1
        BY <1>2, <2>1, <3>2
      <3>. QED  BY <1>2, <3>1, <3>2
    <2>. QED  BY <2>1 DEF EventsKnown
  <1>6. StreamsKnown' /\ TodoKnown'
    <2>1. /\ streams' = streams /\ todo' = todo
          /\ \A i \in DOMAIN streams : streams[i] \in Streams
          /\ \A t \in Tasks : \A i \in DOMAIN todo[t] : todo[t][i] \in Streams
      BY Elements DEF Base, Arrive
    <2>. QED  BY <2>1 DEF Base, StreamsKnown, TodoKnown
  <1>7. Writers'
    BY WritersKept DEF Base, Arrive, writerVars
  <1>. QED  BY <1>3, <1>4, <1>5, <1>6, <1>7 DEF Base

LEMMA ArrivalKeeps ==
    ASSUME Base, Arrival
    PROVE  Base'
  <1>. USE DEF Event
  <1>1. ASSUME NEW s \in Streams, ArriveRequest(s) PROVE Base'
    <2>1. <<"request", s>> \in Event /\ Arrive(<<"request", s>>)
      BY <1>1, Numbers DEF ArriveRequest, Streams
    <2>2. /\ h2' \in [Streams -> {"idle", "open", "ended", "reset"}]
          /\ \A r \in Streams : h2[r] # "idle" => h2'[r] # "idle"
          /\ h2'[s] # "idle"
      BY <1>1 DEF ArriveRequest, Base, TypeOK
    <2>3. /\ acked' \in BOOLEAN /\ inbound' \in BOOLEAN /\ goaway' \in BOOLEAN
          /\ rend' \in [Streams -> BOOLEAN] /\ rsent' \in [Streams -> Nat]
          /\ window' \in Nat /\ swindow' \in [Streams -> Nat]
      BY <1>1 DEF ArriveRequest, Base, TypeOK
    <2>. QED  BY <2>1, <2>2, <2>3, ArriveKeeps
  <1>2. ASSUME NEW s \in Streams, ArriveData(s) PROVE Base'
    <2>1. <<"data", s>> \in Event /\ Arrive(<<"data", s>>) /\ h2[s] # "idle"
      BY <1>2, Numbers DEF ArriveData, ClientSends, Streams
    <2>2. h2' = h2 /\ h2' \in [Streams -> {"idle", "open", "ended", "reset"}]
      BY <1>2 DEF ArriveData, Base, TypeOK
    <2>3. /\ acked' \in BOOLEAN /\ inbound' \in BOOLEAN /\ goaway' \in BOOLEAN
          /\ rend' \in [Streams -> BOOLEAN] /\ rsent' \in [Streams -> Nat]
          /\ window' \in Nat /\ swindow' \in [Streams -> Nat]
      BY <1>2 DEF ArriveData, Base, TypeOK
    <2>. QED  BY <2>1, <2>2, <2>3, ArriveKeeps
  <1>3. ASSUME NEW s \in Streams, ArriveEnded(s) PROVE Base'
    <2>1. <<"ended", s>> \in Event /\ Arrive(<<"ended", s>>) /\ h2[s] # "idle"
      BY <1>3, Numbers DEF ArriveEnded, ClientSends, Streams
    <2>2. h2' = h2 /\ h2' \in [Streams -> {"idle", "open", "ended", "reset"}]
      BY <1>3 DEF ArriveEnded, Base, TypeOK
    <2>3. /\ acked' \in BOOLEAN /\ inbound' \in BOOLEAN /\ goaway' \in BOOLEAN
          /\ rend' \in [Streams -> BOOLEAN] /\ rsent' \in [Streams -> Nat]
          /\ window' \in Nat /\ swindow' \in [Streams -> Nat]
      BY <1>3 DEF ArriveEnded, Base, TypeOK
    <2>. QED  BY <2>1, <2>2, <2>3, ArriveKeeps
  <1>4. ASSUME NEW s \in Streams, ArriveReset(s) PROVE Base'
    <2>1. <<"reset", s>> \in Event /\ Arrive(<<"reset", s>>)
      BY <1>4, Numbers DEF ArriveReset, Streams
    <2>2. /\ h2' \in [Streams -> {"idle", "open", "ended", "reset"}]
          /\ \A r \in Streams : h2[r] # "idle" => h2'[r] # "idle"
          /\ h2'[s] # "idle"
      BY <1>4 DEF ArriveReset, Base, TypeOK
    <2>3. /\ acked' \in BOOLEAN /\ inbound' \in BOOLEAN /\ goaway' \in BOOLEAN
          /\ rend' \in [Streams -> BOOLEAN] /\ rsent' \in [Streams -> Nat]
          /\ window' \in Nat /\ swindow' \in [Streams -> Nat]
      BY <1>4 DEF ArriveReset, Base, TypeOK
    <2>. QED  BY <2>1, <2>2, <2>3, ArriveKeeps
  <1>5. ASSUME NEW s \in Streams, ArriveStreamWindow(s) PROVE Base'
    <2>1. <<"window", s>> \in Event /\ Arrive(<<"window", s>>)
      BY <1>5, Numbers DEF ArriveStreamWindow, Streams
    <2>2. h2' = h2 /\ h2' \in [Streams -> {"idle", "open", "ended", "reset"}]
      BY <1>5 DEF ArriveStreamWindow, Base, TypeOK
    <2>3. /\ acked' \in BOOLEAN /\ inbound' \in BOOLEAN /\ goaway' \in BOOLEAN
          /\ rend' \in [Streams -> BOOLEAN] /\ rsent' \in [Streams -> Nat]
          /\ window' \in Nat
      BY <1>5 DEF ArriveStreamWindow, Base, TypeOK
    <2>4. swindow' \in [Streams -> Nat]
      BY <1>5, LimitsAssumption DEF ArriveStreamWindow, Base, TypeOK, LimitsAssumption
    <2>. QED  BY <2>1, <2>2, <2>3, <2>4, ArriveKeeps
  <1>6. ASSUME ArriveWindow PROVE Base'
    <2>1. <<"window", 0>> \in Event /\ Arrive(<<"window", 0>>)
      BY <1>6, Numbers DEF ArriveWindow
    <2>2. h2' = h2 /\ h2' \in [Streams -> {"idle", "open", "ended", "reset"}]
      BY <1>6 DEF ArriveWindow, Base, TypeOK
    <2>3. /\ acked' \in BOOLEAN /\ inbound' \in BOOLEAN /\ goaway' \in BOOLEAN
          /\ rend' \in [Streams -> BOOLEAN] /\ rsent' \in [Streams -> Nat]
          /\ swindow' \in [Streams -> Nat]
      BY <1>6 DEF ArriveWindow, Base, TypeOK
    <2>4. window' \in Nat
      BY <1>6, LimitsAssumption DEF ArriveWindow, Base, TypeOK, LimitsAssumption
    <2>. QED  BY <2>1, <2>2, <2>3, <2>4, ArriveKeeps
  <1>7. ASSUME ArriveAck \/ ArrivePing \/ ArriveGoaway PROVE Base'
    <2>1. PICK kind \in {"ack", "ping", "goaway"} : Arrive(<<kind, 0>>)
      BY <1>7 DEF ArriveAck, ArrivePing, ArriveGoaway
    <2>2. <<kind, 0>> \in Event /\ <<kind, 0>>[1] = kind
      BY Numbers
    <2>3. h2' = h2 /\ h2' \in [Streams -> {"idle", "open", "ended", "reset"}]
      BY <1>7 DEF ArriveAck, ArrivePing, ArriveGoaway, Base, TypeOK
    <2>4. /\ acked' \in BOOLEAN /\ inbound' \in BOOLEAN /\ goaway' \in BOOLEAN
          /\ rend' \in [Streams -> BOOLEAN] /\ rsent' \in [Streams -> Nat]
          /\ window' \in Nat /\ swindow' \in [Streams -> Nat]
      BY <1>7 DEF ArriveAck, ArrivePing, ArriveGoaway, Base, TypeOK
    <2>. QED  BY <2>1, <2>2, <2>3, <2>4, ArriveKeeps
  <1>8. ASSUME ArriveRefused PROVE Base'
    <2>1. events' = <<>> /\ <<>> \in Seq(Event) /\ DOMAIN <<>> = {}
      BY <1>8 DEF ArriveRefused
    <2>2. TypeOK'
      BY <1>8, <2>1, Numbers
      DEF ArriveRefused, Fail, Base, TypeOK, peerVars, readerVars, writerVars
    <2>3. Places'
      BY <1>8, Numbers DEF ArriveRefused, Fail, Base, Places, TypeOK
    <2>4. EventsKnown'
      BY <2>1 DEF EventsKnown
    <2>5. StreamsKnown' /\ TodoKnown'
      BY <1>8 DEF ArriveRefused, Fail, Base, StreamsKnown, TodoKnown, peerVars
    <2>6. Writers'
      BY <1>8, WritersKept DEF ArriveRefused, Base, writerVars
    <2>. QED  BY <2>2, <2>3, <2>4, <2>5, <2>6 DEF Base
  <1>. QED  BY <1>1, <1>2, <1>3, <1>4, <1>5, <1>6, <1>7, <1>8 DEF Arrival
-----------------------------------------------------------------------------
(***************************************************************************)
(* flush_data.                                                             *)
(***************************************************************************)
\* What the library says to a frame of d bytes for a stream it knows.
LEMMA Refusals ==
    ASSUME TypeOK, NEW s \in Streams, h2[s] # "idle", NEW d \in Nat
    PROVE  /\ Refusal(s, d) \in {"goaway", "reset", "ended", "window", "none"}
           /\ Refusal(s, d) = "goaway" <=> goaway
           /\ Refusal(s, d) \in {"reset", "ended"} => h2[s] = Refusal(s, d)
           /\ Refusal(s, d) = "window" =>
                  h2[s] = "open" /\ (d > MaxFrame \/ d > window \/ d > swindow[s])
           /\ Refusal(s, d) = "none" =>
                  ~goaway /\ h2[s] = "open" /\ d <= window /\ d <= swindow[s]
  <1>1. MaxFrame \in Nat /\ window \in Nat /\ swindow[s] \in Nat
        /\ goaway \in BOOLEAN /\ h2[s] \in {"idle", "open", "ended", "reset"}
    BY WindowsAssumption DEF WindowsAssumption, TypeOK
  <1>. DEFINE x == Min({MaxFrame, window, swindow[s]})
  <1>2. x \in Nat /\ x <= MaxFrame /\ x <= window /\ x <= swindow[s]
        /\ x \in {MaxFrame, window, swindow[s]}
    BY <1>1, MinOfThree
  <1>3. Refusal(s, d) = CASE goaway -> "goaway"
                          [] ~goaway /\ h2[s] # "open" -> h2[s]
                          [] ~goaway /\ h2[s] = "open" /\ d > x -> "window"
                          [] OTHER -> "none"
    BY DEF Refusal
  <1>. HIDE DEF x
  <1>4. CASE goaway
    BY <1>3, <1>4
  <1>5. CASE ~goaway /\ h2[s] # "open"
    <2>1. Refusal(s, d) = h2[s]
      BY <1>3, <1>5
    <2>. QED  BY <1>1, <1>5, <2>1
  <1>6. CASE ~goaway /\ h2[s] = "open" /\ d > x
    <2>1. Refusal(s, d) = "window"
      BY <1>3, <1>6
    <2>. QED  BY <1>1, <1>2, <1>6, <2>1
  <1>7. CASE ~goaway /\ h2[s] = "open" /\ ~(d > x)
    <2>1. Refusal(s, d) = "none"
      BY <1>3, <1>7
    <2>. QED  BY <1>1, <1>2, <1>7, <2>1
  <1>. QED  BY <1>4, <1>5, <1>6, <1>7

\* The first d bytes leave the writer, and go out as a frame or are refused.
FrameOut(t, s, b, d, left) ==
    /\ sent[s] <= b /\ Run(wbuf[s], b, fed[s]) /\ Run(left, b + d, fed[s]) /\ b + d <= fed[s]
    /\ wbuf' = [wbuf EXCEPT ![s] = left]
    /\ d = 0 => left = wbuf[s]
    /\ UNCHANGED <<streams, events, acked, rend, inbound, rsent, goaway, readerVars,
                   weof, fed, whole, sentHeaders>>
FrameTaken(t, s, d, left) ==
    /\ ~goaway /\ h2[s] = "open" /\ d <= window /\ d <= swindow[s]
    /\ h2' = [h2 EXCEPT ![s] = IF EndStream(s, left) THEN "ended" ELSE @]
    /\ window' = window - d
    /\ swindow' = [swindow EXCEPT ![s] = @ - d]
    /\ sent' = [sent EXCEPT ![s] = @ + d]
    /\ Goto(t, "flush") /\ running' = Nobody
    /\ todo' = [todo EXCEPT ![t] = Tail(@)]
    /\ UNCHANGED fault
FrameRefused(t, s, d) ==
    /\ Refusal(s, d) # "none" /\ Fail(t, Refusal(s, d))
    /\ UNCHANGED <<h2, window, swindow, sent>>

LEMMA HeadSent ==
    ASSUME TypeOK, Writers, NEW t \in Tasks, NEW s \in Streams, h2[s] # "idle",
           NEW n \in Nat, wbuf[s] # <<>>, SendHead(t, s, n)
    PROVE  \E d \in Nat, b \in Nat, left \in Seq(Chunk) :
               /\ d <= n /\ FrameOut(t, s, b, d, left)
               /\ FrameTaken(t, s, d, left) \/ FrameRefused(t, s, d)
  <1>1. PICK b \in Nat : sent[s] <= b /\ Run(wbuf[s], b, fed[s])
    BY DEF Writers
  <1>2. fed[s] \in Nat /\ wbuf[s] \in Seq(Chunk)
    BY DEF TypeOK
  <1>. DEFINE c == Head(wbuf[s])  d == Min({Size(c), n})
              left == Rest(c, d) \o Tail(wbuf[s])
  <1>3. c \in Chunk /\ c.lo = b + 1 /\ c.hi \in Nat /\ b < c.hi
    BY <1>1, <1>2, FirstOfRun
  <1>4. Size(c) \in Nat /\ Size(c) > 0
    <2>. HIDE DEF c
    <2>. QED  BY <1>3 DEF Size
  <1>5. d \in Nat /\ d <= Size(c) /\ d <= n
    BY <1>4, MinOfTwo
  <1>6. b + d <= fed[s] /\ Run(left, b + d, fed[s])
    <2>. HIDE DEF d
    <2>. QED  BY <1>1, <1>2, <1>5, CutOfRun
  <1>7. left \in Seq(Chunk)
    BY <1>6 DEF Run
  <1>8. d = 0 => left = wbuf[s]
    <2>1. ASSUME d = 0 PROVE left = wbuf[s]
      <3>1. Rest(c, d) = <<[c EXCEPT !.lo = c.lo + 0]>>
        BY <1>4, <2>1 DEF Rest
      <3>2. [c EXCEPT !.lo = c.lo + 0] = c
        BY <1>3 DEF Chunk
      <3>3. left = <<c>> \o Tail(wbuf[s])
        BY <3>1, <3>2
      <3>. HIDE DEF left
      <3>4. <<c>> \o Tail(wbuf[s]) = wbuf[s]
        <4>. DEFINE q == wbuf[s]  r == <<c>> \o Tail(q)
        <4>1. Tail(q) \in Seq(Chunk) /\ Head(q) = q[1] /\ Len(q) \in Nat /\ Len(q) > 0
              /\ Len(Tail(q)) = Len(q) - 1
              /\ \A i \in 1 .. Len(q) - 1 : Tail(q)[i] = q[i + 1]
          BY <1>2, TailOf
        <4>2. <<c>> \in Seq(Chunk) /\ Len(<<c>>) = 1 /\ <<c>>[1] = c
          BY <1>3
        <4>3. /\ r \in Seq(Chunk) /\ Len(r) = 1 + Len(Tail(q))
              /\ \A i \in 1 .. 1 + Len(Tail(q)) :
                    r[i] = IF i <= 1 THEN <<c>>[i] ELSE Tail(q)[i - 1]
          BY <4>1, <4>2, ConcatProperties
        <4>4. ASSUME NEW i \in 1 .. Len(q) PROVE r[i] = q[i]
          <5>1. CASE i = 1
            BY <4>1, <4>2, <4>3, <5>1
          <5>2. CASE i # 1
            <6>1. i - 1 \in 1 .. Len(q) - 1 /\ ~(i <= 1) /\ i \in 1 .. 1 + Len(Tail(q))
                  /\ (i - 1) + 1 = i
              BY <4>1, <5>2
            <6>. QED  BY <4>1, <4>3, <6>1
          <5>. QED  BY <5>1, <5>2
        <4>5. Len(r) = Len(q)
          BY <4>1, <4>3
        <4>. HIDE DEF r
        <4>6. r = q
          BY <1>2, <4>3, <4>4, <4>5, SeqEqual
        <4>. QED  BY <4>6 DEF r
      <3>. QED  BY <3>3, <3>4
    <2>. QED  BY <2>1
  <1>9. /\ wbuf' = [wbuf EXCEPT ![s] = left]
        /\ UNCHANGED <<streams, events, acked, rend, inbound, rsent, goaway, readerVars,
                       weof, fed, whole, sentHeaders>>
        /\ IF Refusal(s, d) # "none"
           THEN FrameRefused(t, s, d)
           ELSE /\ h2' = [h2 EXCEPT ![s] = IF EndStream(s, left) THEN "ended" ELSE @]
                /\ window' = window - d
                /\ swindow' = [swindow EXCEPT ![s] = @ - d]
                /\ sent' = [sent EXCEPT ![s] = @ + d]
                /\ Goto(t, "flush") /\ running' = Nobody
                /\ todo' = [todo EXCEPT ![t] = Tail(@)]
                /\ UNCHANGED fault
    BY DEF SendHead, FrameRefused
  <1>. HIDE DEF d, left, c
  <1>10. Refusal(s, d) = "none" => ~goaway /\ h2[s] = "open" /\ d <= window /\ d <= swindow[s]
    BY <1>5, Refusals
  <1>11. FrameTaken(t, s, d, left) \/ FrameRefused(t, s, d)
    BY <1>9, <1>10 DEF FrameTaken
  <1>12. FrameOut(t, s, b, d, left)
    BY <1>1, <1>6, <1>8, <1>9 DEF FrameOut
  <1>. QED  BY <1>5, <1>7, <1>11, <1>12

\* The sizes that flush_data computes.
LEMMA FrameSize ==
    ASSUME TypeOK, Writers, NEW s \in Streams
    PROVE  /\ Buffered(s) \in Nat /\ Frame \in Nat /\ Frame <= window /\ Frame <= MaxFrame
           /\ Min({Buffered(s), Frame}) \in Nat /\ Min({Buffered(s), Frame}) <= Frame
           /\ Frame = 0 => window = 0
  <1>1. PICK b \in Nat : Run(wbuf[s], b, fed[s])
    BY DEF Writers
  <1>2. Buffered(s) \in Nat
    BY <1>1, SizeOfRun DEF TypeOK
  <1>3. MaxFrame \in Nat /\ MaxFrame > 0 /\ window \in Nat
    BY WindowsAssumption DEF WindowsAssumption, TypeOK
  <1>4. Frame \in Nat /\ Frame <= window /\ Frame <= MaxFrame /\ Frame \in {MaxFrame, window}
    BY <1>3, MinOfTwo DEF Frame
  <1>5. Min({Buffered(s), Frame}) \in Nat /\ Min({Buffered(s), Frame}) <= Frame
    BY <1>2, <1>4, MinOfTwo
  <1>. QED  BY <1>2, <1>3, <1>4, <1>5

\* Every step that sends a frame: a scan that comes to a chunk, or a writer.receive
\* that waited.
Sends(t) == \E s \in Streams, n \in Nat :
    /\ todo[t] # <<>> /\ s = Head(todo[t]) /\ wbuf[s] # <<>> /\ SendHead(t, s, n)
    /\ n <= window /\ n <= MaxFrame
    /\ \/ running = t /\ pc[t] = "scan"
       \/ running = Nobody /\ pc[t] = "woken" /\ n = 0

LEMMA SendSteps ==
    ASSUME Base, NEW t \in Tasks,
           ScanSend(t) \/ (TakeReturns(t) /\ wbuf[Head(todo[t])] # <<>>)
    PROVE  Sends(t)
  <1>1. CASE ScanSend(t)
    <2>1. todo[t] # <<>> /\ running = t /\ pc[t] = "scan" /\ wbuf[Head(todo[t])] # <<>>
          /\ SendHead(t, Head(todo[t]), Min({Buffered(Head(todo[t])), Frame}))
      BY <1>1 DEF ScanSend, Scanning
    <2>2. Head(todo[t]) \in Streams
      BY <2>1, TailOf, Elements DEF Base
    <2>3. Min({Buffered(Head(todo[t])), Frame}) \in Nat
          /\ Min({Buffered(Head(todo[t])), Frame}) <= Frame /\ Frame <= window
          /\ Frame \in Nat /\ window \in Nat /\ Frame <= MaxFrame /\ MaxFrame \in Nat
      BY <2>2, FrameSize, WindowsAssumption DEF Base, TypeOK, WindowsAssumption
    <2>4. /\ Min({Buffered(Head(todo[t])), Frame}) <= window
          /\ Min({Buffered(Head(todo[t])), Frame}) <= MaxFrame
      BY <2>3
    <2>. QED  BY <2>1, <2>2, <2>3, <2>4 DEF Sends
  <1>2. CASE TakeReturns(t) /\ wbuf[Head(todo[t])] # <<>>
    <2>1. running = Nobody /\ pc[t] = "woken" /\ SendHead(t, Head(todo[t]), 0)
      BY <1>2 DEF TakeReturns, Drained
    <2>2. todo[t] # <<>> /\ window \in Nat /\ MaxFrame \in Nat
      BY <2>1, WindowsAssumption DEF Base, Places, TypeOK, WindowsAssumption
    <2>3. Head(todo[t]) \in Streams
      BY <2>2, TailOf, Elements DEF Base
    <2>. QED  BY <1>2, <2>1, <2>2, <2>3 DEF Sends
  <1>. QED  BY <1>1, <1>2

LEMMA HeadKnown ==
    ASSUME Base, NEW t \in Tasks, todo[t] # <<>>
    PROVE  /\ Head(todo[t]) \in Streams /\ h2[Head(todo[t])] # "idle"
           /\ Tail(todo[t]) \in Seq(Streams)
           /\ \A i \in DOMAIN Tail(todo[t]) : h2[Tail(todo[t])[i]] # "idle"
           /\ \A i \in DOMAIN Tail(todo[t]) : Tail(todo[t])[i] \in Streams
           /\ \A i \in DOMAIN Tail(todo[t]) :
                 i + 1 \in DOMAIN todo[t] /\ Tail(todo[t])[i] = todo[t][i + 1]
           /\ 1 \in DOMAIN todo[t] /\ Head(todo[t]) = todo[t][1]
  <1>1. todo[t] \in Seq(Streams) /\ \A i \in DOMAIN todo[t] : todo[t][i] \in Streams
    BY Elements DEF Base
  <1>2. /\ Tail(todo[t]) \in Seq(Streams) /\ Head(todo[t]) = todo[t][1]
        /\ 1 \in DOMAIN todo[t]
        /\ \A i \in DOMAIN Tail(todo[t]) :
              i + 1 \in DOMAIN todo[t] /\ Tail(todo[t])[i] = todo[t][i + 1]
    BY <1>1, TailOf
  <1>3. \A i \in DOMAIN todo[t] : h2[todo[t][i]] # "idle"
    BY DEF Base, TodoKnown
  <1>. QED  BY <1>1, <1>2, <1>3

\* The places after a task has failed, and after one has gone on.
LEMMA FailKeeps ==
    ASSUME Base, NEW t \in Tasks, NEW why, Fail(t, why), running = t \/ running = Nobody,
           why \in Reason,
           events' = events \/ t = Loop
    PROVE  /\ Places' /\ running' \in Tasks \cup {Nobody} /\ todo' = todo
           /\ pc' \in [Tasks -> Spot]
           /\ fault' \in [Tasks -> Reason]
  <1>1. /\ pc' = [u \in Tasks |-> IF t = Loop \/ u = t THEN "over" ELSE pc[u]]
        /\ fault' = [fault EXCEPT ![t] = why] /\ running' = Nobody /\ todo' = todo
    BY DEF Fail
  <1>2. pc \in [Tasks -> Spot]
        /\ fault \in [Tasks -> Reason]
    BY DEF Base, TypeOK
  <1>3. Places'
    BY <1>1, <1>2, Numbers DEF Base, Places
  <1>. QED  BY <1>1, <1>2, <1>3

LEMMA SendsKeeps ==
    ASSUME Base, NEW t \in Tasks, Sends(t)
    PROVE  Base'
  <1>1. PICK s \in Streams, n \in Nat :
            /\ todo[t] # <<>> /\ s = Head(todo[t]) /\ wbuf[s] # <<>> /\ SendHead(t, s, n)
            /\ running = t \/ running = Nobody
            /\ pc[t] \in {"scan", "woken"}
    BY DEF Sends
  <1>2. /\ h2[s] # "idle" /\ Tail(todo[t]) \in Seq(Streams)
        /\ \A i \in DOMAIN Tail(todo[t]) : h2[Tail(todo[t])[i]] # "idle"
        /\ \A i \in DOMAIN Tail(todo[t]) : Tail(todo[t])[i] \in Streams
    BY <1>1, HeadKnown
  <1>3. PICK d \in Nat, b \in Nat, left \in Seq(Chunk) :
            /\ d <= n /\ FrameOut(t, s, b, d, left)
            /\ FrameTaken(t, s, d, left) \/ FrameRefused(t, s, d)
    BY <1>1, <1>2, HeadSent DEF Base
  <1>4. wbuf' \in [Streams -> Seq(Chunk)] /\ fed' = fed /\ weof' = weof /\ whole' = whole
    BY <1>3 DEF FrameOut, Base, TypeOK
  <1>5. CASE FrameTaken(t, s, d, left)
    <2>1. TypeOK'
      <3>1. h2' \in [Streams -> {"idle", "open", "ended", "reset"}]
        BY <1>5 DEF FrameTaken, Base, TypeOK
      <3>2. window' \in Nat /\ swindow' \in [Streams -> Nat] /\ sent' \in [Streams -> Nat]
        BY <1>5 DEF FrameTaken, Base, TypeOK
      <3>3. todo' \in [Tasks -> Seq(Streams)]
        BY <1>2, <1>5 DEF FrameTaken, Base, TypeOK
      <3>4. /\ running' \in Tasks \cup {Nobody} /\ fault' = fault
            /\ pc' \in [Tasks -> Spot]
        BY <1>5 DEF FrameTaken, Goto, Base, TypeOK
      <3>. QED  BY <1>3, <1>4, <3>1, <3>2, <3>3, <3>4 DEF FrameOut, Base, TypeOK, readerVars
    <2>2. Places'
      BY <1>1, <1>3, <1>5, Numbers DEF FrameTaken, FrameOut, Goto, Base, TypeOK, Places
    <2>3. \A r \in Streams : h2[r] # "idle" => h2'[r] # "idle"
      BY <1>5 DEF FrameTaken, Base, TypeOK
    <2>4. EventsKnown' /\ StreamsKnown'
      BY <1>3, <2>3, Elements DEF FrameOut, Base, EventsKnown, StreamsKnown
    <2>5. TodoKnown'
      BY <1>2, <1>5, <2>3, Elements DEF FrameTaken, Base, TypeOK, TodoKnown
    <2>6. Writers'
      <3>1. ASSUME NEW r \in Streams
            PROVE  \E k \in Nat : sent'[r] <= k /\ Run(wbuf'[r], k, fed[r])
        <4>1. CASE r = s
          <5>1. sent'[s] = sent[s] + d /\ wbuf'[s] = left
            BY <1>3, <1>5 DEF FrameTaken, FrameOut, Base, TypeOK
          <5>2. sent[s] + d <= b + d /\ b + d \in Nat
            BY <1>3 DEF FrameOut, Base, TypeOK
          <5>. QED  BY <1>3, <4>1, <5>1, <5>2 DEF FrameOut
        <4>2. CASE r # s
          BY <1>3, <1>5, <4>2 DEF FrameTaken, FrameOut, Base, TypeOK, Writers
        <4>. QED  BY <4>1, <4>2
      <3>. QED  BY <1>4, <3>1 DEF Writers
    <2>. QED  BY <2>1, <2>2, <2>4, <2>5, <2>6 DEF Base
  <1>6. CASE FrameRefused(t, s, d)
    <2>1. Refusal(s, d) \in Reason
      BY <1>2, <1>6, Refusals DEF FrameRefused, Base
    <2>2. /\ Places' /\ running' \in Tasks \cup {Nobody} /\ todo' = todo
          /\ pc' \in [Tasks -> Spot]
          /\ fault' \in [Tasks -> Reason]
      BY <1>1, <1>3, <1>6, <2>1, FailKeeps DEF FrameRefused, FrameOut
    <2>3. TypeOK'
      BY <1>3, <1>4, <1>6, <2>2 DEF FrameRefused, FrameOut, Base, TypeOK, readerVars
    <2>4. EventsKnown' /\ StreamsKnown' /\ TodoKnown'
      BY <1>3, <1>6, <2>2 DEF FrameRefused, FrameOut, Base, EventsKnown, StreamsKnown, TodoKnown
    <2>5. Writers'
      <3>1. ASSUME NEW r \in Streams
            PROVE  \E k \in Nat : sent[r] <= k /\ Run(wbuf'[r], k, fed[r])
        <4>1. CASE r = s
          <5>1. wbuf'[s] = left
            BY <1>3 DEF FrameOut, Base, TypeOK
          <5>2. sent[s] <= b + d /\ b + d \in Nat
            BY <1>3 DEF FrameOut, Base, TypeOK
          <5>. QED  BY <1>3, <4>1, <5>1, <5>2 DEF FrameOut
        <4>2. CASE r # s
          BY <1>3, <4>2 DEF FrameOut, Base, TypeOK, Writers
        <4>. QED  BY <4>1, <4>2
      <3>. QED  BY <1>4, <1>6, <3>1 DEF Writers, FrameRefused
    <2>. QED  BY <2>2, <2>3, <2>4, <2>5 DEF Base
  <1>. QED  BY <1>3, <1>5, <1>6

\* Steps that leave the dict, the events, the library's state and the writers alone.
LEMMA TaskKeeps ==
    ASSUME Base, TypeOK', Places',
           UNCHANGED <<streams, events, h2, wbuf, fed, sent>>,
           \A t \in Tasks :
               \/ todo'[t] = todo[t] \/ todo'[t] = streams
               \/ todo[t] # <<>> /\ todo'[t] = Tail(todo[t])
    PROVE  Base'
  <1>1. EventsKnown' /\ StreamsKnown'
    BY DEF Base, EventsKnown, StreamsKnown
  <1>2. TodoKnown'
    <2>1. ASSUME NEW t \in Tasks, NEW i \in DOMAIN todo'[t] PROVE h2[todo'[t][i]] # "idle"
      <3>1. CASE todo'[t] = todo[t] \/ todo'[t] = streams
        BY <2>1, <3>1 DEF Base, TodoKnown, StreamsKnown
      <3>2. CASE todo[t] # <<>> /\ todo'[t] = Tail(todo[t])
        BY <2>1, <3>2, HeadKnown
      <3>. QED  BY <3>1, <3>2
    <2>. QED  BY <2>1 DEF TodoKnown
  <1>3. Writers'
    BY WritersKept DEF Base
  <1>. QED  BY <1>1, <1>2, <1>3 DEF Base

LEMMA FlushKeeps ==
    ASSUME Base, NEW t \in Tasks, FlushData(t)
    PROVE  Base'
  <1>1. CASE ScanSkip(t)
    <2>1. todo[t] # <<>> /\ todo' = [todo EXCEPT ![t] = Tail(@)]
      BY <1>1 DEF ScanSkip, Scanning
    <2>2. Tail(todo[t]) \in Seq(Streams)
      BY <2>1, HeadKnown
    <2>3. TypeOK'
      BY <1>1, <2>1, <2>2
      DEF ScanSkip, Base, TypeOK, peerVars, readerVars, writerVars
    <2>4. Places'
      BY <1>1, <2>1 DEF ScanSkip, Scanning, Base, TypeOK, Places
    <2>5. UNCHANGED <<streams, events, h2, wbuf, fed, sent>>
      BY <1>1 DEF ScanSkip, peerVars, writerVars
    <2>6. \A u \in Tasks : todo'[u] = todo[u] \/ (u = t /\ todo'[t] = Tail(todo[t]))
      BY <2>1 DEF Base, TypeOK
    <2>. QED  BY <2>1, <2>3, <2>4, <2>5, <2>6, TaskKeeps
  <1>2. CASE ScanWait(t) \/ ScanDone(t) \/ FlushReturns(t)
    <2>1. PICK p \in {"take", "handle", "app", "scan"} :
              /\ Goto(t, p) /\ (p = "handle" => t = Loop) /\ (p = "app" => t # Loop)
              /\ p = "take" => todo[t] # <<>>
              /\ running' = IF p \in {"handle", "scan"} THEN t ELSE Nobody
      BY <1>2, Numbers DEF ScanWait, ScanDone, FlushReturns, Scanning
    <2>2. /\ UNCHANGED <<streams, events, peerVars, readerVars, writerVars, sentHeaders,
                         todo, fault, sent>>
          /\ running = t \/ running = Nobody
      BY <1>2 DEF ScanWait, ScanDone, FlushReturns, Scanning
    <2>3. pc' = [pc EXCEPT ![t] = p] /\ pc' \in [Tasks -> Spot]
      BY <2>1 DEF Goto, Base, TypeOK
    <2>4. TypeOK'
      BY <2>1, <2>2, <2>3 DEF Base, TypeOK, peerVars, readerVars, writerVars
    <2>5. Places'
      BY <2>1, <2>2, <2>3, Numbers DEF Base, TypeOK, Places
    <2>6. UNCHANGED <<streams, events, h2, wbuf, fed, sent, todo>>
      BY <2>2 DEF peerVars, writerVars
    <2>. QED  BY <2>4, <2>5, <2>6, TaskKeeps
  <1>3. CASE ScanSend(t)
    BY <1>3, SendSteps, SendsKeeps
  <1>4. CASE TakeReturns(t)
    <2>1. CASE wbuf[Head(todo[t])] # <<>>
      BY <1>4, <2>1, SendSteps, SendsKeeps
    <2>2. ASSUME wbuf[Head(todo[t])] = <<>> PROVE Base'
      <3>1. running = Nobody /\ pc[t] = "woken" /\ todo[t] # <<>>
        BY <1>4 DEF TakeReturns, Base, Places
      <3>2. Tail(todo[t]) \in Seq(Streams)
        BY <3>1, HeadKnown
      <3>3. UNCHANGED <<streams, events, h2, wbuf, fed, sent>>
        BY <1>4, <2>2 DEF TakeReturns, peerVars, writerVars
      <3>4. CASE Drained(Head(todo[t]))
        <4>1. /\ todo' = [todo EXCEPT ![t] = Tail(@)] /\ Goto(t, "scan") /\ running' = t
              /\ UNCHANGED <<streams, events, peerVars, readerVars, writerVars,
                             sentHeaders, fault, sent>>
          BY <1>4, <2>2, <3>4 DEF TakeReturns, Drained
        <4>2. TypeOK'
          BY <3>2, <4>1 DEF Goto, Base, TypeOK, peerVars, readerVars, writerVars
        <4>3. Places'
          BY <3>1, <4>1, Numbers DEF Goto, Base, TypeOK, Places
        <4>4. \A u \in Tasks : todo'[u] = todo[u] \/ (u = t /\ todo'[t] = Tail(todo[t]))
          BY <4>1 DEF Base, TypeOK
        <4>. QED  BY <3>1, <3>3, <4>2, <4>3, <4>4, TaskKeeps
      <3>5. CASE ~Drained(Head(todo[t]))
        <4>1. Fail(t, "empty") /\ UNCHANGED <<streams, events, peerVars, readerVars, writerVars,
                                             sentHeaders, sent>>
          BY <1>4, <2>2, <3>5 DEF TakeReturns, Drained
        <4>2. /\ Places' /\ running' \in Tasks \cup {Nobody} /\ todo' = todo
              /\ pc' \in [Tasks -> Spot]
              /\ fault' \in [Tasks -> Reason]
          BY <3>1, <4>1, FailKeeps
        <4>3. TypeOK'
          BY <4>1, <4>2 DEF Base, TypeOK, peerVars, readerVars, writerVars
        <4>. QED  BY <3>3, <4>2, <4>3, TaskKeeps
      <3>. QED  BY <3>4, <3>5
    <2>. QED  BY <2>1, <2>2
  <1>5. CASE FlushRaises(t)
    <2>1. Fail(t, "broken") /\ running = Nobody
          /\ UNCHANGED <<streams, events, peerVars, readerVars, writerVars, sentHeaders, sent>>
      BY <1>5 DEF FlushRaises
    <2>2. /\ Places' /\ running' \in Tasks \cup {Nobody} /\ todo' = todo
          /\ pc' \in [Tasks -> Spot]
          /\ fault' \in [Tasks -> Reason]
      BY <2>1, FailKeeps
    <2>3. TypeOK'
      BY <2>1, <2>2 DEF Base, TypeOK, peerVars, readerVars, writerVars
    <2>4. UNCHANGED <<streams, events, h2, wbuf, fed, sent>>
      BY <2>1 DEF peerVars, writerVars
    <2>. QED  BY <2>2, <2>3, <2>4, TaskKeeps
  <1>. QED  BY <1>1, <1>2, <1>3, <1>4, <1>5 DEF FlushData
-----------------------------------------------------------------------------
(***************************************************************************)
(* The applications.                                                       *)
(***************************************************************************)
LEMMA WokenTyped ==
    ASSUME Base, NEW s
    PROVE  /\ Woken(s) \in [Tasks -> Spot]
           /\ \A t \in Tasks :
                 \/ Woken(s)[t] = pc[t]
                 \/ pc[t] = "take" /\ Head(todo[t]) = s /\ Woken(s)[t] = "woken"
           /\ \A t \in Tasks : Woken(s)[t] = "take" => Head(todo[t]) # s
  <1>1. \A t \in Tasks : Woken(s)[t] = IF pc[t] = "take" /\ Head(todo[t]) = s THEN "woken" ELSE pc[t]
    BY DEF Woken
  <1>2. pc \in [Tasks -> Spot] /\ "woken" \in Spot
    BY DEF Base, TypeOK
  <1>3. Woken(s) \in [Tasks -> Spot]
    BY <1>2 DEF Woken
  <1>4. \A t \in Tasks : Woken(s)[t] = "take" => Head(todo[t]) # s
    BY <1>1
  <1>5. ASSUME NEW t \in Tasks
        PROVE  \/ Woken(s)[t] = pc[t]
               \/ pc[t] = "take" /\ Head(todo[t]) = s /\ Woken(s)[t] = "woken"
    <2>1. CASE pc[t] = "take" /\ Head(todo[t]) = s
      BY <1>1, <2>1
    <2>2. CASE ~(pc[t] = "take" /\ Head(todo[t]) = s)
      BY <1>1, <2>2
    <2>. QED  BY <2>1, <2>2
  <1>. QED  BY <1>3, <1>4, <1>5

LEMMA StartKeeps ==
    ASSUME Base, NEW t \in Tasks, NEW s, StartFlush(t, Woken(s)), running = Nobody, events' = events
    PROVE  /\ Places' /\ running' \in Tasks \cup {Nobody} /\ todo' \in [Tasks -> Seq(Streams)]
           /\ pc' \in [Tasks -> Spot]
           /\ \A u \in Tasks : todo'[u] = todo[u] \/ (u = t /\ todo'[u] = streams)
  <1>1. /\ pc' = [Woken(s) EXCEPT ![t] = "scan"] /\ todo' = [todo EXCEPT ![t] = streams]
        /\ running' = t
    BY DEF StartFlush
  <1>. DEFINE w == Woken(s)
  <1>2. /\ w \in [Tasks -> Spot]
        /\ \A u \in Tasks : w[u] = pc[u] \/ (pc[u] = "take" /\ w[u] = "woken")
    BY WokenTyped
  <1>. HIDE DEF w
  <1>3. pc' = [w EXCEPT ![t] = "scan"]
    BY <1>1 DEF w
  <1>4. /\ pc' \in [Tasks -> Spot]
        /\ pc'[t] = "scan" /\ \A u \in Tasks \ {t} : pc'[u] = w[u]
    BY <1>2, <1>3
  <1>5. todo' \in [Tasks -> Seq(Streams)] /\ \A u \in Tasks : u # t => todo'[u] = todo[u]
    BY <1>1 DEF Base, TypeOK
  <1>6. Places'
    <2>1. \A u \in Tasks : pc'[u] \in {pc[u], "woken", "scan"}
      BY <1>2, <1>4
    <2>2. \A u \in Tasks : pc[u] \notin {"scan", "arriving", "handle"}
      BY Numbers DEF Base, Places
    <2>3. \A u \in Tasks : running' = u <=> pc'[u] \in {"scan", "arriving", "handle"}
      BY <1>1, <1>2, <1>4, <2>2
    <2>4. \A u \in Tasks : pc'[u] \in {"take", "woken"} => todo'[u] # <<>>
      BY <1>2, <1>4, <1>5 DEF Base, Places
    <2>5. pc'[Loop] = "update" => events' # <<>> /\ Head(events')[1] = "window"
      BY <1>2, <1>4, Numbers DEF Base, Places
    <2>. QED  BY <2>1, <2>3, <2>4, <2>5, Numbers DEF Base, Places
  <1>7. todo'[t] = streams
    BY <1>1 DEF Base, TypeOK
  <1>. QED  BY <1>1, <1>4, <1>5, <1>6, <1>7

LEMMA ApplicationKeeps ==
    ASSUME Base, NEW s \in Streams, Application(s) \/ ResponseSent(s) \/ ReadReturns(s)
    PROVE  Base'
  <1>0. s \in Tasks /\ s # Loop
    BY Numbers
  <1>1. CASE SendResponse(s)
    <2>1. running = Nobody /\ h2[s] # "idle"
      BY <1>1 DEF SendResponse, AtApp, InDict, Base, StreamsKnown
    <2>2. /\ sentHeaders' \in [Streams -> BOOLEAN]
          /\ UNCHANGED <<streams, events, peerVars, readerVars, writerVars, sent>>
      BY <1>1 DEF SendResponse, Base, TypeOK
    <2>3. CASE HeadersRefusal(s) # "none"
      <3>1. Fail(s, HeadersRefusal(s))
        BY <1>1, <2>3 DEF SendResponse
      <3>2. HeadersRefusal(s) \in Reason
        BY <2>1, <2>3, Refusals DEF Base, HeadersRefusal, Reason
      <3>3. /\ Places' /\ running' \in Tasks \cup {Nobody} /\ todo' = todo
            /\ pc' \in [Tasks -> Spot]
            /\ fault' \in [Tasks -> Reason]
        BY <1>0, <2>1, <2>2, <3>1, <3>2, FailKeeps
      <3>4. TypeOK'
        BY <2>2, <3>3 DEF Base, TypeOK, peerVars, readerVars, writerVars
      <3>5. UNCHANGED <<streams, events, h2, wbuf, fed, sent>>
        BY <2>2 DEF peerVars, writerVars
      <3>. QED  BY <3>3, <3>4, <3>5, TaskKeeps
    <2>4. CASE HeadersRefusal(s) = "none"
      <3>1. Goto(s, "headers") /\ UNCHANGED <<todo, running, fault>>
        BY <1>1, <2>4 DEF SendResponse
      <3>2. TypeOK'
        BY <1>0, <2>2, <3>1 DEF Goto, Base, TypeOK, peerVars, readerVars, writerVars
      <3>3. Places'
        BY <1>0, <1>1, <2>2, <3>1, Numbers DEF SendResponse, AtApp, Goto, Base, TypeOK, Places
      <3>4. UNCHANGED <<streams, events, h2, wbuf, fed, sent>>
        BY <2>2 DEF peerVars, writerVars
      <3>. QED  BY <3>1, <3>2, <3>3, <3>4, TaskKeeps
    <2>. QED  BY <2>3, <2>4
  <1>2. CASE SendData(s)
    <2>1. PICK n \in ChunkSizes :
              /\ wbuf' = [wbuf EXCEPT ![s] = Append(@, [lo |-> fed[s] + 1, hi |-> fed[s] + n])]
              /\ fed' = [fed EXCEPT ![s] = @ + n]
      BY <1>2 DEF SendData
    <2>2. n \in Nat \ {0}
      BY WindowsAssumption DEF WindowsAssumption
    <2>3. /\ StartFlush(s, Woken(s)) /\ running = Nobody
          /\ UNCHANGED <<streams, events, peerVars, readerVars, weof, whole, sentHeaders, fault, sent>>
      BY <1>2 DEF SendData, AtApp
    <2>4. /\ Places' /\ running' \in Tasks \cup {Nobody} /\ todo' \in [Tasks -> Seq(Streams)]
          /\ pc' \in [Tasks -> Spot]
          /\ \A u \in Tasks : todo'[u] = todo[u] \/ (u = s /\ todo'[u] = streams)
      BY <1>0, <2>3, StartKeeps
    <2>. DEFINE r == Append(wbuf[s], [lo |-> fed[s] + 1, hi |-> fed[s] + n])
    <2>5. PICK b \in Nat : sent[s] <= b /\ Run(wbuf[s], b, fed[s])
      BY DEF Base, Writers
    <2>6. Run(r, b, fed[s] + n) /\ r \in Seq(Chunk)
      <3>1. fed[s] \in Nat
        BY DEF Base, TypeOK
      <3>2. Run(r, b, fed[s] + n)
        BY <2>2, <2>5, <3>1, GrownRun
      <3>. QED  BY <3>2 DEF Run
    <2>7. wbuf' = [wbuf EXCEPT ![s] = r]
      BY <2>1
    <2>. HIDE DEF r
    <2>8. wbuf' \in [Streams -> Seq(Chunk)] /\ fed' \in [Streams -> Nat]
      BY <2>1, <2>2, <2>6, <2>7 DEF Base, TypeOK
    <2>9. TypeOK'
      BY <2>3, <2>4, <2>8 DEF Base, TypeOK, peerVars, readerVars
    <2>10. EventsKnown' /\ StreamsKnown'
      BY <2>3 DEF Base, EventsKnown, StreamsKnown, peerVars
    <2>11. TodoKnown'
      BY <2>3, <2>4 DEF Base, TodoKnown, StreamsKnown, peerVars
    <2>12. Writers'
      <3>1. ASSUME NEW u \in Streams
            PROVE  \E k \in Nat : sent[u] <= k /\ Run(wbuf'[u], k, fed'[u])
        <4>1. CASE u = s
          <5>1. wbuf'[s] = r /\ fed'[s] = fed[s] + n
            BY <2>1, <2>7 DEF Base, TypeOK
          <5>. QED  BY <2>5, <2>6, <4>1, <5>1
        <4>2. CASE u # s
          BY <2>1, <4>2 DEF Base, TypeOK, Writers
        <4>. QED  BY <4>1, <4>2
      <3>. QED  BY <2>3, <3>1 DEF Writers
    <2>. QED  BY <2>4, <2>9, <2>10, <2>11, <2>12 DEF Base
  <1>3. CASE SendEof(s)
    <2>1. /\ StartFlush(s, Woken(s)) /\ running = Nobody
          /\ UNCHANGED <<streams, events, peerVars, readerVars, wbuf, fed, sentHeaders, fault, sent>>
      BY <1>3 DEF SendEof, AtApp
    <2>2. /\ Places' /\ running' \in Tasks \cup {Nobody} /\ todo' \in [Tasks -> Seq(Streams)]
          /\ pc' \in [Tasks -> Spot]
          /\ \A u \in Tasks : todo'[u] = todo[u] \/ (u = s /\ todo'[u] = streams)
      BY <1>0, <2>1, StartKeeps
    <2>3. weof' \in [Streams -> BOOLEAN] /\ whole' \in [Streams -> Nat]
      BY <1>3 DEF SendEof, Base, TypeOK
    <2>4. TypeOK'
      BY <2>1, <2>2, <2>3 DEF Base, TypeOK, peerVars, readerVars
    <2>5. UNCHANGED <<streams, events, h2, wbuf, fed, sent>>
      BY <2>1 DEF peerVars
    <2>. QED  BY <2>2, <2>4, <2>5, TaskKeeps
  <1>4. CASE Read(s) \/ ReadWaits(s) \/ HandlerEnds(s) \/ ResponseSent(s) \/ ReadReturns(s)
    <2>1. PICK p \in {"app", "read", "over"} : pc' = [pc EXCEPT ![s] = p]
      <3>1. CASE Read(s)
        <4>1. pc' = [pc EXCEPT ![s] = "app"]
          BY <1>0, <3>1 DEF Read, AtApp, taskVars, Base, TypeOK
        <4>. QED  BY <4>1
      <3>2. CASE ~Read(s)
        BY <1>4, <3>2 DEF ReadWaits, HandlerEnds, ResponseSent, ReadReturns, Goto
      <3>. QED  BY <3>1, <3>2
    <2>2. rbuf' \in [Streams -> Nat]
      <3>1. CASE rbuf' = rbuf
        BY <3>1 DEF Base, TypeOK
      <3>2. CASE rbuf[s] > 0 /\ rbuf' = [rbuf EXCEPT ![s] = @ - 1]
        BY <3>2 DEF Base, TypeOK
      <3>. QED  BY <1>4, <3>1, <3>2 DEF Read, ReadWaits, HandlerEnds, ResponseSent, ReadReturns,
                                        readerVars
    <2>3. /\ UNCHANGED <<streams, events, peerVars, reof, writerVars, sentHeaders,
                         todo, running, fault, sent>>
          /\ running = Nobody
      <3>1. CASE Read(s) \/ ReadReturns(s)
        BY <3>1 DEF Read, ReadReturns, AtApp, taskVars
      <3>2. CASE ReadWaits(s) \/ HandlerEnds(s) \/ ResponseSent(s)
        BY <3>2 DEF ReadWaits, HandlerEnds, ResponseSent, AtApp, readerVars
      <3>. QED  BY <1>4, <3>1, <3>2
    <2>4. pc' \in [Tasks -> Spot]
      BY <2>1 DEF Base, TypeOK
    <2>5. TypeOK'
      BY <2>2, <2>3, <2>4 DEF Base, TypeOK, peerVars, writerVars
    <2>6. Places'
      BY <1>0, <2>1, <2>3, Numbers DEF Base, TypeOK, Places
    <2>7. UNCHANGED <<streams, events, h2, wbuf, fed, sent, todo>>
      BY <2>3 DEF peerVars, writerVars
    <2>. QED  BY <2>5, <2>6, <2>7, TaskKeeps
  <1>. QED  BY <1>1, <1>2, <1>3, <1>4 DEF Application
-----------------------------------------------------------------------------
(***************************************************************************)
(* The body of the loop.                                                   *)
(***************************************************************************)
\* An event is handled: the others move up.
LEMMA NextEvents ==
    ASSUME TypeOK, events # <<>>
    PROVE  /\ Tail(events) \in Seq(Event) /\ Head(events) = events[1] /\ 1 \in DOMAIN events
           /\ Head(events) \in Event
           /\ DOMAIN events = 1 .. Len(events) /\ Len(events) \in Nat
           /\ DOMAIN Tail(events) = 1 .. Len(events) - 1
           /\ \A i \in DOMAIN Tail(events) :
                 i + 1 \in DOMAIN events /\ Tail(events)[i] = events[i + 1]
  <1>1. events \in Seq(Event)
    BY DEF TypeOK
  <1>. QED  BY <1>1, TailOf

\* What the event is about.
LEMMA Subjects ==
    ASSUME Base, NEW kind, Handling(kind)
    PROVE  /\ events # <<>> /\ running = Loop /\ pc[Loop] = "handle"
           /\ Subject \in 0 .. N /\ Head(events) = <<kind, Subject>>
           /\ kind \in {"request", "data", "ended", "reset"} =>
                  Subject \in Streams /\ Subject \in Tasks /\ h2[Subject] # "idle"
  <1>1. events # <<>> /\ running = Loop /\ pc[Loop] = "handle" /\ Head(events)[1] = kind
    BY DEF Handling
  <1>2. Head(events) = events[1] /\ 1 \in DOMAIN events /\ Head(events) \in Event
    BY <1>1, NextEvents DEF Base
  <1>3. Subject \in 0 .. N /\ Head(events) = <<kind, Subject>>
    BY <1>1, <1>2 DEF Event, Subject
  <1>4. kind \in {"request", "data", "ended", "reset"} =>
            Subject \in Streams /\ h2[Subject] # "idle"
    BY <1>1, <1>2 DEF Base, EventsKnown, Subject
  <1>. QED  BY <1>1, <1>3, <1>4, Numbers

LEMMA Forgotten ==
    ASSUME TypeOK, NEW s, Forget(s)
    PROVE  /\ streams' \in Seq(Streams)
           /\ \A j \in DOMAIN streams' : \E k \in DOMAIN streams : streams'[j] = streams[k]
           /\ \A r \in Streams \ {s} : InDict(r) => InDict(r)'
           /\ ~InDict(s) => streams' = streams
           /\ (\A i, j \in DOMAIN streams : streams[i] = streams[j] => i = j) =>
                 /\ \A i, j \in DOMAIN streams' : streams'[i] = streams'[j] => i = j
                 /\ ~InDict(s)'
  <1>1. CASE ~InDict(s)
    <2>1. streams' = streams /\ streams \in Seq(Streams)
      BY <1>1 DEF Forget, TypeOK
    <2>. QED  BY <1>1, <2>1 DEF InDict
  <1>2. CASE InDict(s)
    <2>1. PICK i \in DOMAIN streams : streams[i] = s /\ streams' = RemoveAt(streams, i)
      BY <1>2 DEF Forget
    <2>2. /\ streams' \in Seq(Streams) /\ DOMAIN streams = 1 .. Len(streams) /\ Len(streams) \in Nat
          /\ DOMAIN streams' = 1 .. Len(streams) - 1
          /\ \A j \in DOMAIN streams' : streams'[j] = IF j < i THEN streams[j] ELSE streams[j + 1]
      <3>1. streams \in Seq(Streams)
        BY DEF TypeOK
      <3>. QED  BY <2>1, <3>1, RemoveAtOf
    <2>. DEFINE up(j) == IF j < i THEN j ELSE j + 1
    <2>3. \A j \in DOMAIN streams' : up(j) \in DOMAIN streams /\ streams'[j] = streams[up(j)] /\ up(j) # i
      BY <2>2
    <2>4. \A j, k \in DOMAIN streams' : up(j) = up(k) => j = k
      BY <2>2
    <2>5. ASSUME NEW r \in Streams \ {s}, InDict(r) PROVE InDict(r)'
      <3>1. PICK k \in DOMAIN streams : streams[k] = r
        BY <2>5 DEF InDict
      <3>2. k # i
        BY <2>1, <2>5, <3>1
      <3>3. CASE k < i
        <4>1. k \in DOMAIN streams' /\ streams'[k] = streams[k]
          BY <2>2, <3>3
        <4>. QED  BY <3>1, <4>1 DEF InDict
      <3>4. CASE k > i
        <4>1. k - 1 \in DOMAIN streams' /\ ~(k - 1 < i) /\ (k - 1) + 1 = k
          BY <2>2, <3>4
        <4>2. streams'[k - 1] = streams[k]
          BY <2>2, <4>1
        <4>. QED  BY <3>1, <4>1, <4>2 DEF InDict
      <3>. QED  BY <2>2, <3>2, <3>3, <3>4
    <2>. HIDE DEF up
    <2>6. ASSUME \A k, j \in DOMAIN streams : streams[k] = streams[j] => k = j
          PROVE  /\ \A k, j \in DOMAIN streams' : streams'[k] = streams'[j] => k = j
                 /\ ~InDict(s)'
      <3>1. \A k, j \in DOMAIN streams' : streams'[k] = streams'[j] => k = j
        BY <2>3, <2>4, <2>6
      <3>2. ASSUME NEW j \in DOMAIN streams', streams'[j] = s PROVE FALSE
        BY <2>1, <2>3, <2>6, <3>2
      <3>. QED  BY <3>1, <3>2 DEF InDict
    <2>. QED  BY <1>2, <2>2, <2>3, <2>5, <2>6
  <1>. QED  BY <1>1, <1>2

LEMMA LoopKeeps ==
    ASSUME Base, TypeOK', Places', UNCHANGED <<h2, wbuf, fed, sent>>,
           \A i \in DOMAIN streams' : h2[streams'[i]] # "idle",
           \/ events' = events \/ events' = <<>>
           \/ events # <<>> /\ events' = Tail(events),
           \A t \in Tasks : todo'[t] = todo[t] \/ todo'[t] = streams
    PROVE  Base'
  <1>1. EventsKnown'
    <2>1. CASE events' = events
      BY <2>1 DEF Base, EventsKnown
    <2>2. CASE events' = <<>>
      <3>1. DOMAIN <<>> = {}
        OBVIOUS
      <3>. QED  BY <2>2, <3>1 DEF EventsKnown
    <2>3. CASE events # <<>> /\ events' = Tail(events)
      BY <2>3, NextEvents DEF Base, EventsKnown
    <2>. QED  BY <2>1, <2>2, <2>3
  <1>2. StreamsKnown' /\ TodoKnown'
    BY DEF Base, StreamsKnown, TodoKnown
  <1>3. Writers'
    BY WritersKept DEF Base
  <1>. QED  BY <1>1, <1>2, <1>3 DEF Base

\* flush_data called by the loop itself.
LEMMA LoopFlushes ==
    ASSUME Base, StartFlush(Loop, pc), pc[Loop] \in {"handle", "update"},
           running = Loop \/ running = Nobody
    PROVE  /\ Places' /\ running' \in Tasks \cup {Nobody} /\ todo' \in [Tasks -> Seq(Streams)]
           /\ pc' \in [Tasks -> Spot]
           /\ \A t \in Tasks : todo'[t] = todo[t] \/ todo'[t] = streams
  <1>1. /\ pc' = [pc EXCEPT ![Loop] = "scan"] /\ todo' = [todo EXCEPT ![Loop] = streams]
        /\ running' = Loop
    BY DEF StartFlush
  <1>2. pc' \in [Tasks -> Spot] /\ todo' \in [Tasks -> Seq(Streams)]
    BY <1>1 DEF Base, TypeOK
  <1>3. \A t \in Tasks : todo'[t] = todo[t] \/ todo'[t] = streams
    BY <1>1 DEF Base, TypeOK
  <1>4. Places'
    BY <1>1, Numbers DEF Base, TypeOK, Places
  <1>. QED  BY <1>1, <1>2, <1>3, <1>4, Numbers

LEMMA HandleKeeps ==
    ASSUME Base, Handle
    PROVE  Base'
  <1>0. \A i \in DOMAIN streams : h2[streams[i]] # "idle"
    BY DEF Base, StreamsKnown
  <1>1. CASE BatchEnds \/ HandlingEnds \/ ReceiveRaises
    <2>1. PICK p \in {"handle", "idle", "over"} :
              pc' = [pc EXCEPT ![Loop] = p] /\ running' = IF p = "handle" THEN Loop ELSE Nobody
      BY <1>1 DEF BatchEnds, HandlingEnds, ReceiveRaises, Goto
    <2>2. /\ UNCHANGED <<streams, events, peerVars, readerVars, writerVars, sentHeaders,
                         todo, fault, sent>>
          /\ running = Loop \/ running = Nobody
      BY <1>1 DEF BatchEnds, HandlingEnds, ReceiveRaises
    <2>3. pc' \in [Tasks -> Spot]
      BY <2>1 DEF Base, TypeOK
    <2>4. TypeOK'
      BY <2>1, <2>2, <2>3, Numbers DEF Base, TypeOK, peerVars, readerVars, writerVars
    <2>5. Places'
      BY <2>1, <2>2, Numbers DEF Base, TypeOK, Places
    <2>6. UNCHANGED <<streams, events, h2, wbuf, fed, sent, todo>>
      BY <2>2 DEF peerVars, writerVars
    <2>. QED  BY <1>0, <2>4, <2>5, <2>6, LoopKeeps
  <1>2. CASE HandleRequest
    <2>1. /\ events # <<>> /\ Subject \in Streams /\ Subject \in Tasks /\ h2[Subject] # "idle"
          /\ running = Loop /\ pc[Loop] = "handle"
      BY <1>2, Subjects DEF HandleRequest
    <2>2. /\ streams' = Append(streams, Subject) /\ pc' = [pc EXCEPT ![Subject] = "app"]
          /\ events' = Tail(events)
          /\ UNCHANGED <<peerVars, readerVars, writerVars, sentHeaders, todo, running, fault, sent>>
      BY <1>2 DEF HandleRequest, Goto
    <2>3. /\ streams' \in Seq(Streams)
          /\ DOMAIN streams = 1 .. Len(streams) /\ DOMAIN streams' = 1 .. Len(streams) + 1
          /\ Len(streams) \in Nat
          /\ \A i \in DOMAIN streams : streams'[i] = streams[i]
          /\ streams'[Len(streams) + 1] = Subject
      BY <2>1, <2>2, AppendOf DEF Base, TypeOK
    <2>4. events' \in Seq(Event) /\ pc' \in [Tasks -> Spot]
      BY <2>1, <2>2, NextEvents DEF Base, TypeOK
    <2>5. TypeOK'
      BY <2>2, <2>3, <2>4 DEF Base, TypeOK, peerVars, readerVars, writerVars
    <2>6. Places'
      BY <2>1, <2>2, Numbers DEF Base, TypeOK, Places
    <2>7. \A i \in DOMAIN streams' : h2[streams'[i]] # "idle"
      <3>1. \A i \in DOMAIN streams' : i \in DOMAIN streams \/ i = Len(streams) + 1
        BY <2>3
      <3>. QED  BY <1>0, <2>1, <2>3, <3>1
    <2>8. UNCHANGED <<h2, wbuf, fed, sent, todo>>
      BY <2>2 DEF peerVars, writerVars
    <2>. QED  BY <2>1, <2>2, <2>5, <2>6, <2>7, <2>8, LoopKeeps
  <1>3. CASE HandleData
    <2>1. events # <<>> /\ running = Loop /\ pc[Loop] = "handle"
      BY <1>3, Subjects DEF HandleData
    <2>2. /\ events' = Tail(events) /\ events' \in Seq(Event)
          /\ UNCHANGED <<streams, peerVars, reof, writerVars, sentHeaders, fault, sent>>
          /\ rbuf' \in [Streams -> Nat]
      <3>1. /\ events' = Tail(events)
            /\ UNCHANGED <<streams, peerVars, reof, writerVars, sentHeaders, fault, sent>>
            /\ rbuf' = rbuf \/ rbuf' = [rbuf EXCEPT ![Subject] = @ + 1]
        BY <1>3 DEF HandleData
      <3>2. Tail(events) \in Seq(Event)
        BY <2>1, NextEvents DEF Base
      <3>3. Subject \in Streams
        BY <1>3, Subjects DEF HandleData
      <3>4. rbuf' \in [Streams -> Nat]
        <4>1. rbuf \in [Streams -> Nat]
          BY DEF Base, TypeOK
        <4>2. CASE rbuf' = [rbuf EXCEPT ![Subject] = @ + 1]
          BY <3>3, <4>1, <4>2
        <4>. QED  BY <3>1, <4>1, <4>2
      <3>. QED  BY <3>1, <3>2, <3>4
    <2>3. CASE InDict(Subject)
      <3>1. /\ Places' /\ running' \in Tasks \cup {Nobody} /\ todo' \in [Tasks -> Seq(Streams)]
            /\ pc' \in [Tasks -> Spot]
            /\ \A t \in Tasks : todo'[t] = todo[t] \/ todo'[t] = streams
        BY <1>3, <2>1, <2>3, LoopFlushes DEF HandleData
      <3>2. TypeOK'
        BY <2>2, <3>1 DEF Base, TypeOK, peerVars, writerVars
      <3>3. UNCHANGED <<streams, h2, wbuf, fed, sent>>
        BY <2>2 DEF peerVars, writerVars
      <3>. QED  BY <1>0, <2>1, <2>2, <3>1, <3>2, <3>3, LoopKeeps
    <2>4. CASE ~InDict(Subject)
      <3>1. UNCHANGED <<pc, todo, running>>
        BY <1>3, <2>4 DEF HandleData
      <3>2. TypeOK' /\ Places'
        BY <2>1, <2>2, <3>1, Numbers DEF Base, TypeOK, Places, peerVars, writerVars
      <3>3. UNCHANGED <<streams, h2, wbuf, fed, sent>>
        BY <2>2 DEF peerVars, writerVars
      <3>. QED  BY <1>0, <2>1, <2>2, <3>1, <3>2, <3>3, LoopKeeps
    <2>. QED  BY <2>3, <2>4
  <1>4. CASE HandleEnded \/ HandleAck \/ HandleReset
    <2>1. events # <<>> /\ running = Loop /\ pc[Loop] = "handle"
      BY <1>4, Subjects DEF HandleEnded, HandleAck, HandleReset
    <2>2. /\ events' = Tail(events) /\ events' \in Seq(Event)
          /\ UNCHANGED <<peerVars, rbuf, writerVars, sentHeaders, taskVars, sent>>
          /\ reof' \in [Streams -> BOOLEAN]
      <3>1. CASE HandleAck
        BY <2>1, <3>1, NextEvents DEF HandleAck, Base, TypeOK, readerVars
      <3>2. CASE HandleEnded \/ HandleReset
        BY <2>1, <3>2, NextEvents DEF HandleEnded, HandleReset, Base, TypeOK, InDict
      <3>. QED  BY <1>4, <3>1, <3>2
    <2>3. /\ streams' \in Seq(Streams)
          /\ \A j \in DOMAIN streams' : \E k \in DOMAIN streams : streams'[j] = streams[k]
      <3>1. CASE HandleReset
        BY <3>1, Forgotten DEF HandleReset, Base
      <3>2. CASE HandleEnded \/ HandleAck
        BY <3>2 DEF HandleEnded, HandleAck, Base, TypeOK
      <3>. QED  BY <1>4, <3>1, <3>2
    <2>4. TypeOK'
      BY <2>2, <2>3 DEF Base, TypeOK, peerVars, writerVars, taskVars
    <2>5. Places'
      BY <2>1, <2>2, Numbers DEF Base, TypeOK, Places, taskVars
    <2>6. UNCHANGED <<h2, wbuf, fed, sent, todo>>
      BY <2>2 DEF peerVars, writerVars, taskVars
    <2>7. \A i \in DOMAIN streams' : h2[streams'[i]] # "idle"
      BY <1>0, <2>3
    <2>. QED  BY <2>1, <2>2, <2>4, <2>5, <2>6, <2>7, LoopKeeps
  <1>5. CASE HandlePing \/ HandleGoaway
    <2>1. events # <<>> /\ running = Loop /\ pc[Loop] = "handle"
      BY <1>5, Subjects DEF HandlePing, HandleGoaway
    <2>2. /\ events' = Tail(events) \/ events' = <<>>
          /\ events' \in Seq(Event)
          /\ UNCHANGED <<streams, peerVars, readerVars, writerVars, sentHeaders, sent>>
      <3>1. Tail(events) \in Seq(Event) /\ <<>> \in Seq(Event)
        BY <2>1, NextEvents DEF Base
      <3>. QED  BY <1>5, <3>1 DEF HandlePing, HandleGoaway
    <2>3. /\ Places' /\ running' \in Tasks \cup {Nobody} /\ todo' = todo
          /\ pc' \in [Tasks -> Spot] /\ fault' \in [Tasks -> Reason]
      <3>1. CASE Fail(Loop, "goaway")
        BY <2>1, <3>1, FailKeeps, Numbers
      <3>2. CASE UNCHANGED taskVars
        BY <2>1, <3>2, Numbers DEF Base, TypeOK, Places, taskVars
      <3>. QED  BY <1>5, <3>1, <3>2 DEF HandlePing, HandleGoaway
    <2>4. TypeOK'
      BY <2>2, <2>3 DEF Base, TypeOK, peerVars, readerVars, writerVars
    <2>5. UNCHANGED <<streams, h2, wbuf, fed, sent, todo>>
      BY <2>2, <2>3 DEF peerVars, writerVars
    <2>. QED  BY <1>0, <2>1, <2>2, <2>3, <2>4, <2>5, LoopKeeps
  <1>6. CASE HandleWindow
    <2>1. events # <<>> /\ running = Loop /\ pc[Loop] = "handle" /\ Head(events)[1] = "window"
      BY <1>6 DEF HandleWindow, Handling
    <2>2. /\ UNCHANGED <<streams, acked, h2, rend, window, swindow, rsent, goaway,
                         readerVars, writerVars, sentHeaders, sent>>
          /\ inbound' \in BOOLEAN
          /\ events' = events \/ events' = Tail(events)
          /\ events' \in Seq(Event)
      <3>1. CASE inbound /\ goaway
        BY <1>6, <3>1 DEF HandleWindow, Base, TypeOK
      <3>2. CASE inbound /\ ~goaway
        BY <1>6, <3>2 DEF HandleWindow, Base, TypeOK
      <3>3. CASE ~inbound
        BY <1>6, <2>1, <3>3, NextEvents DEF HandleWindow, Base, TypeOK
      <3>. QED  BY <3>1, <3>2, <3>3
    <2>3. /\ Places' /\ running' \in Tasks \cup {Nobody} /\ todo' \in [Tasks -> Seq(Streams)]
          /\ pc' \in [Tasks -> Spot] /\ fault' \in [Tasks -> Reason]
          /\ \A t \in Tasks : todo'[t] = todo[t] \/ todo'[t] = streams
      <3>1. CASE inbound /\ goaway
        <4>1. Fail(Loop, "goaway")
          BY <1>6, <3>1 DEF HandleWindow
        <4>2. /\ Places' /\ running' \in Tasks \cup {Nobody} /\ todo' = todo
              /\ pc' \in [Tasks -> Spot] /\ fault' \in [Tasks -> Reason]
          BY <2>1, <4>1, FailKeeps, Numbers
        <4>. QED  BY <4>2 DEF Base, TypeOK
      <3>2. CASE inbound /\ ~goaway
        <4>1. /\ pc' = [pc EXCEPT ![Loop] = "update"] /\ running' = Nobody
              /\ UNCHANGED <<todo, events, fault>>
          BY <1>6, <3>2 DEF HandleWindow, Goto
        <4>2. pc' \in [Tasks -> Spot]
          BY <4>1 DEF Base, TypeOK
        <4>3. Places'
          BY <2>1, <4>1, Numbers DEF Base, TypeOK, Places
        <4>. QED  BY <4>1, <4>2, <4>3 DEF Base, TypeOK
      <3>3. CASE ~inbound /\ Subject # 0
        <4>1. StartFlush(Loop, pc) /\ fault' = fault
          BY <1>6, <3>3 DEF HandleWindow
        <4>. QED  BY <2>1, <4>1, LoopFlushes DEF Base, TypeOK
      <3>4. CASE ~inbound /\ Subject = 0
        <4>1. UNCHANGED <<pc, todo, running, fault>>
          BY <1>6, <3>4 DEF HandleWindow
        <4>. QED  BY <2>1, <4>1, Numbers DEF Base, TypeOK, Places
      <3>. QED  BY <3>1, <3>2, <3>3, <3>4
    <2>4. TypeOK'
      BY <2>2, <2>3 DEF Base, TypeOK, readerVars, writerVars
    <2>5. UNCHANGED <<streams, h2, wbuf, fed, sent>>
      BY <2>2 DEF writerVars
    <2>. QED  BY <1>0, <2>1, <2>2, <2>3, <2>4, <2>5, LoopKeeps
  <1>7. CASE WindowFlushed
    <2>1. events # <<>> /\ running = Nobody /\ pc[Loop] = "update"
      BY <1>7 DEF WindowFlushed, Base, Places
    <2>2. /\ events' = Tail(events) /\ events' \in Seq(Event)
          /\ UNCHANGED <<streams, peerVars, readerVars, writerVars, sentHeaders, fault, sent>>
      BY <1>7, <2>1, NextEvents DEF WindowFlushed, Base
    <2>3. /\ Places' /\ running' \in Tasks \cup {Nobody} /\ todo' \in [Tasks -> Seq(Streams)]
          /\ pc' \in [Tasks -> Spot]
          /\ \A t \in Tasks : todo'[t] = todo[t] \/ todo'[t] = streams
      <3>1. CASE Subject # 0
        BY <1>7, <2>1, <3>1, LoopFlushes DEF WindowFlushed
      <3>2. CASE Subject = 0
        <4>1. pc' = [pc EXCEPT ![Loop] = "handle"] /\ running' = Loop /\ todo' = todo
          BY <1>7, <3>2 DEF WindowFlushed, Goto
        <4>. QED  BY <2>1, <4>1, Numbers DEF Base, TypeOK, Places
      <3>. QED  BY <3>1, <3>2
    <2>4. TypeOK'
      BY <2>2, <2>3 DEF Base, TypeOK, peerVars, readerVars, writerVars
    <2>5. UNCHANGED <<streams, h2, wbuf, fed, sent>>
      BY <2>2 DEF peerVars, writerVars
    <2>. QED  BY <1>0, <2>1, <2>2, <2>3, <2>4, <2>5, LoopKeeps
  <1>. QED  BY <1>1, <1>2, <1>3, <1>4, <1>5, <1>6, <1>7 DEF Handle
-----------------------------------------------------------------------------
LEMMA BaseInitially == Init => Base
  <1>. SUFFICES ASSUME Init PROVE Base
    OBVIOUS
  <1>1. <<>> \in Seq(Streams) /\ <<>> \in Seq(Event) /\ <<>> \in Seq(Chunk) /\ DOMAIN <<>> = {}
        /\ Len(<<>>) = 0
    OBVIOUS
  <1>2. TypeOK
    BY <1>1, WindowsAssumption DEF Init, TypeOK, WindowsAssumption
  <1>3. Places
    BY Numbers DEF Init, Places
  <1>4. EventsKnown /\ StreamsKnown /\ TodoKnown
    BY <1>1 DEF Init, EventsKnown, StreamsKnown, TodoKnown
  <1>5. Writers
    <2>1. Run(<<>>, 0, 0)
      BY <1>1 DEF Run
    <2>. QED  BY <2>1 DEF Init, Writers
  <1>. QED  BY <1>2, <1>3, <1>4, <1>5 DEF Base

LEMMA BaseKept == Base /\ [Next]_vars => Base'
  <1>. SUFFICES ASSUME Base, [Next]_vars PROVE Base'
    OBVIOUS
  <1>1. CASE Next
    BY <1>1, ArrivalKeeps, HandleKeeps, FlushKeeps, ApplicationKeeps DEF Next
  <1>2. CASE UNCHANGED vars
    BY <1>2 DEF vars, peerVars, readerVars, writerVars, taskVars, Base, TypeOK, Places,
                EventsKnown, StreamsKnown, TodoKnown, Writers
  <1>. QED  BY <1>1, <1>2

LEMMA BaseHolds == Spec => []Base
  BY BaseInitially, BaseKept, PTL DEF Spec

\* Every attribute, the windows and the places of the tasks keep their types: no window
\* gets below zero, a task that takes from a writer has one to take from, and the
\* library is never asked about a stream it does not know (h2.py 177-193).
THEOREM TypesCorrect == Spec => []TypeOK
  BY BaseHolds, PTL DEF Base
-----------------------------------------------------------------------------
(***************************************************************************)
(* The responses.  Few steps concern them: these.                          *)
(***************************************************************************)
LEMMA ResponseSteps ==
    ASSUME Base, [Next]_vars
    PROVE  \/ \E t \in Tasks : Sends(t)
           \/ \E s \in Streams : SendData(s) \/ SendEof(s)
           \/ \E s \in Streams : ArriveRequest(s) \/ ArriveReset(s) \/ ArriveStreamWindow(s)
           \/ ArriveGoaway
           \/ UNCHANGED <<h2, weof, wbuf, fed, whole, sent, swindow, goaway>>
  <1>1. CASE Arrival
    <2>1. CASE ArriveRefused \/ ArriveWindow \/ ArriveAck \/ ArrivePing
      BY <2>1 DEF ArriveRefused, ArriveWindow, ArriveAck, ArrivePing, Arrive, peerVars, writerVars
    <2>2. CASE \E s \in Streams : ArriveData(s) \/ ArriveEnded(s)
      BY <2>2 DEF ArriveData, ArriveEnded, Arrive, writerVars
    <2>. QED  BY <1>1, <2>1, <2>2 DEF Arrival
  <1>2. CASE Handle
    <2>1. CASE HandleWindow
      BY <2>1 DEF HandleWindow, writerVars
    <2>2. CASE Handle /\ ~HandleWindow
      <3>1. UNCHANGED <<peerVars, writerVars, sent>>
        BY <2>2 DEF Handle, BatchEnds, HandleRequest, HandleData, HandleEnded, HandleReset,
                    HandleAck, HandlePing, HandleGoaway, WindowFlushed, HandlingEnds, ReceiveRaises
      <3>. QED  BY <3>1 DEF peerVars, writerVars
    <2>. QED  BY <1>2, <2>1, <2>2
  <1>3. ASSUME NEW t \in Tasks, FlushData(t) PROVE Sends(t) \/ UNCHANGED <<peerVars, writerVars, sent>>
    <2>1. CASE ScanSend(t) \/ (TakeReturns(t) /\ wbuf[Head(todo[t])] # <<>>)
      BY <2>1, SendSteps
    <2>2. CASE ScanSkip(t) \/ ScanWait(t) \/ ScanDone(t) \/ FlushReturns(t) \/ FlushRaises(t)
      BY <2>2 DEF ScanSkip, ScanWait, ScanDone, FlushReturns, FlushRaises
    <2>3. CASE TakeReturns(t) /\ wbuf[Head(todo[t])] = <<>>
      BY <2>3 DEF TakeReturns
    <2>. QED  BY <1>3, <2>1, <2>2, <2>3 DEF FlushData
  <1>4. ASSUME NEW s \in Streams, Application(s) \/ ResponseSent(s) \/ ReadReturns(s)
        PROVE  SendData(s) \/ SendEof(s) \/ UNCHANGED <<peerVars, writerVars, sent>>
    BY <1>4 DEF Application, SendResponse, Read, ReadWaits, HandlerEnds, ResponseSent, ReadReturns
  <1>5. CASE UNCHANGED vars
    BY <1>5 DEF vars, peerVars, writerVars
  <1>6. UNCHANGED <<peerVars, writerVars, sent>> =>
            UNCHANGED <<h2, weof, wbuf, fed, whole, sent, swindow, goaway>>
    BY DEF peerVars, writerVars
  <1>. QED  BY <1>1, <1>2, <1>3, <1>4, <1>5, <1>6 DEF Next

\* What a step that sends a frame does.
LEMMA SendsDoes ==
    ASSUME Base, NEW t \in Tasks, Sends(t)
    PROVE  \E s \in Streams, d \in Nat, b \in Nat, left \in Seq(Chunk) :
               /\ todo[t] # <<>> /\ s = Head(todo[t]) /\ wbuf[s] # <<>> /\ h2[s] # "idle"
               /\ d <= window /\ d <= MaxFrame
               /\ FrameOut(t, s, b, d, left)
               /\ FrameTaken(t, s, d, left) \/ FrameRefused(t, s, d)
  <1>1. PICK s \in Streams, n \in Nat :
            /\ todo[t] # <<>> /\ s = Head(todo[t]) /\ wbuf[s] # <<>> /\ SendHead(t, s, n)
            /\ n <= window /\ n <= MaxFrame
    BY DEF Sends
  <1>2. h2[s] # "idle" /\ window \in Nat /\ MaxFrame \in Nat
    BY <1>1, HeadKnown, WindowsAssumption DEF Base, TypeOK, WindowsAssumption
  <1>3. PICK d \in Nat, b \in Nat, left \in Seq(Chunk) :
            /\ d <= n /\ FrameOut(t, s, b, d, left)
            /\ FrameTaken(t, s, d, left) \/ FrameRefused(t, s, d)
    BY <1>1, <1>2, HeadSent DEF Base
  <1>4. d <= window /\ d <= MaxFrame
    BY <1>1, <1>2, <1>3
  <1>. QED  BY <1>1, <1>2, <1>3, <1>4

\* Where a run ends and its chunks say where it begins.
LEMMA RunBegin ==
    ASSUME NEW q, NEW b \in Nat, NEW c \in Nat, NEW l \in Nat, Run(q, b, l), Run(q, c, l)
    PROVE  b = c
  <1>1. CASE q = <<>>
    BY <1>1 DEF Run
  <1>2. CASE q # <<>>
    BY <1>2 DEF Run
  <1>. QED  BY <1>1, <1>2

\* a stream ends when nothing is left in its writer; what is fed after that is late
Ended == \A s \in Streams :
    /\ h2[s] = "ended" => weof[s] /\ (wbuf[s] = <<>> \/ Late(s))
    /\ whole[s] <= fed[s]

\* what a feed does to the history
LEMMA FeedHistory ==
    ASSUME Base, Ended, NEW s \in Streams, SendData(s) \/ SendEof(s)
    PROVE  /\ h2' = h2 /\ \A r \in Streams \ {s} : fed'[r] = fed[r] /\ whole'[r] = whole[r]
           /\ fed[s] <= fed'[s] /\ whole'[s] <= fed'[s]
           /\ weof[s] => whole'[s] = whole[s]
           /\ weof[s] /\ wbuf'[s] # wbuf[s] => fed[s] < fed'[s]
           /\ weof' = weof \/ weof' = [weof EXCEPT ![s] = TRUE]
           /\ \A r \in Streams \ {s} : wbuf'[r] = wbuf[r]
  <1>0. /\ fed \in [Streams -> Nat] /\ whole \in [Streams -> Nat] /\ ChunkSizes \subseteq Nat \ {0}
        /\ whole[s] <= fed[s] /\ wbuf \in [Streams -> Seq(Chunk)] /\ weof \in [Streams -> BOOLEAN]
    BY WindowsAssumption DEF WindowsAssumption, Base, TypeOK, Ended
  <1>1. CASE SendData(s)
    <2>1. PICK n \in ChunkSizes :
              /\ wbuf' = [wbuf EXCEPT ![s] = Append(@, [lo |-> fed[s] + 1, hi |-> fed[s] + n])]
              /\ fed' = [fed EXCEPT ![s] = @ + n]
      BY <1>1 DEF SendData
    <2>2. fed'[s] = fed[s] + n /\ n \in Nat /\ n > 0 /\ UNCHANGED <<h2, weof, whole>>
      BY <1>0, <1>1, <2>1 DEF SendData, peerVars
    <2>3. \A r \in Streams \ {s} : wbuf'[r] = wbuf[r] /\ fed'[r] = fed[r]
      BY <1>0, <2>1
    <2>. QED  BY <1>0, <2>2, <2>3
  <1>2. CASE SendEof(s)
    <2>1. /\ whole' = [whole EXCEPT ![s] = IF weof[s] THEN @ ELSE fed[s]]
          /\ weof' = [weof EXCEPT ![s] = TRUE] /\ UNCHANGED <<h2, fed, wbuf>>
      BY <1>2 DEF SendEof, peerVars
    <2>. QED  BY <1>0, <2>1
  <1>. QED  BY <1>1, <1>2

LEMMA EndedKept ==
    ASSUME Base, Ended, [Next]_vars
    PROVE  Ended'
  <1>0. h2 \in [Streams -> {"idle", "open", "ended", "reset"}] /\ weof \in [Streams -> BOOLEAN]
        /\ wbuf \in [Streams -> Seq(Chunk)] /\ fed \in [Streams -> Nat] /\ whole \in [Streams -> Nat]
    BY DEF Base, TypeOK
  <1>1. ASSUME NEW t \in Tasks, Sends(t) PROVE Ended'
    <2>1. PICK s \in Streams, d \in Nat, b \in Nat, left \in Seq(Chunk) :
              /\ wbuf[s] # <<>> /\ FrameOut(t, s, b, d, left)
              /\ FrameTaken(t, s, d, left) \/ FrameRefused(t, s, d)
      BY <1>1, SendsDoes
    <2>2. /\ wbuf' = [wbuf EXCEPT ![s] = left] /\ UNCHANGED <<weof, fed, whole>>
          /\ h2[s] = "ended" => Late(s)
      BY <2>1 DEF FrameOut, Ended
    <2>3. \A r \in Streams : Late(r)' = Late(r) /\ (r # s => wbuf'[r] = wbuf[r])
      BY <1>0, <2>2 DEF Late
    <2>4. CASE FrameTaken(t, s, d, left)
      <3>1. h2' = [h2 EXCEPT ![s] = IF weof[s] /\ left = <<>> THEN "ended" ELSE @]
        BY <2>4 DEF FrameTaken, EndStream
      <3>2. wbuf'[s] = left /\ (h2'[s] = "ended" => weof[s] /\ (left = <<>> \/ Late(s)))
        BY <1>0, <2>2, <3>1 DEF Ended
      <3>3. \A r \in Streams \ {s} : h2'[r] = h2[r]
        BY <1>0, <3>1
      <3>. QED  BY <2>2, <2>3, <3>2, <3>3 DEF Ended
    <2>5. CASE FrameRefused(t, s, d)
      <3>1. h2' = h2
        BY <2>5 DEF FrameRefused
      <3>. QED  BY <2>2, <2>3, <3>1 DEF Ended
    <2>. QED  BY <2>1, <2>4, <2>5
  <1>2. ASSUME NEW s \in Streams, SendData(s) \/ SendEof(s) PROVE Ended'
    <2>1. ASSUME NEW r \in Streams, r # s
          PROVE  /\ h2'[r] = "ended" => weof'[r] /\ (wbuf'[r] = <<>> \/ Late(r)')
                 /\ whole'[r] <= fed'[r]
      <3>1. weof'[r] = weof[r] /\ UNCHANGED <<h2, wbuf[r], fed[r], whole[r]>>
        BY <1>0, <1>2, <2>1, FeedHistory
      <3>. QED  BY <3>1 DEF Ended, Late
    <2>2. h2[s] = "ended" => weof'[s] /\ (wbuf'[s] = <<>> \/ Late(s)')
      <3>1. ASSUME h2[s] = "ended" PROVE weof'[s] /\ (wbuf'[s] = <<>> \/ Late(s)')
        <4>1. weof[s] /\ weof'[s] /\ whole'[s] = whole[s] /\ fed[s] <= fed'[s]
          BY <1>0, <1>2, <3>1, FeedHistory DEF Ended
        <4>2. fed'[s] \in Nat /\ whole[s] <= fed[s]
          <5>1. TypeOK'
            BY <1>2, ApplicationKeeps DEF Application, Base
          <5>. QED  BY <5>1 DEF TypeOK, Ended
        <4>3. CASE wbuf'[s] = wbuf[s]
          BY <1>0, <3>1, <4>1, <4>2, <4>3 DEF Ended, Late
        <4>4. CASE wbuf'[s] # wbuf[s]
          <5>1. fed[s] < fed'[s]
            BY <1>2, <4>1, <4>4, FeedHistory
          <5>. QED  BY <1>0, <4>1, <4>2, <5>1 DEF Late
        <4>. QED  BY <4>3, <4>4
      <3>. QED  BY <3>1
    <2>3. whole'[s] <= fed'[s] /\ h2' = h2
      BY <1>2, FeedHistory
    <2>. QED  BY <2>1, <2>2, <2>3 DEF Ended
  <1>3. ASSUME NEW s \in Streams, ArriveRequest(s) \/ ArriveReset(s) \/ ArriveStreamWindow(s)
        PROVE  Ended'
    <2>1. /\ UNCHANGED <<wbuf, weof, fed, whole>>
          /\ \A r \in Streams : h2'[r] = h2[r] \/ h2'[r] \in {"open", "reset"}
      BY <1>0, <1>3 DEF ArriveRequest, ArriveReset, ArriveStreamWindow, Arrive, writerVars
    <2>. QED  BY <2>1 DEF Ended, Late
  <1>4. CASE ArriveGoaway
    BY <1>4 DEF ArriveGoaway, Arrive, writerVars, Ended, Late
  <1>5. CASE UNCHANGED <<h2, weof, wbuf, fed, whole, sent, swindow, goaway>>
    BY <1>5 DEF Ended, Late
  <1>. QED  BY <1>1, <1>2, <1>3, <1>4, <1>5, ResponseSteps

\* a stream whose application has gone on after an end stays one
LEMMA LateStays ==
    ASSUME Base, Ended, [Next]_vars, NEW r \in Streams, Late(r)
    PROVE  Late(r)'
  <1>0. fed \in [Streams -> Nat] /\ whole \in [Streams -> Nat] /\ weof \in [Streams -> BOOLEAN]
        /\ fed' \in [Streams -> Nat]
    BY BaseKept DEF Base, TypeOK
  <1>1. CASE UNCHANGED <<weof, fed, whole>>
    BY <1>1 DEF Late
  <1>2. ASSUME NEW s \in Streams, SendData(s) \/ SendEof(s) PROVE Late(r)'
    <2>1. weof'[r] /\ whole'[r] = whole[r] /\ fed[r] <= fed'[r]
      BY <1>0, <1>2, FeedHistory DEF Late
    <2>. QED  BY <1>0, <2>1 DEF Late
  <1>3. ASSUME NEW t \in Tasks, Sends(t) PROVE UNCHANGED <<weof, fed, whole>>
    BY <1>3, SendsDoes DEF FrameOut
  <1>4. ASSUME NEW s \in Streams, ArriveRequest(s) \/ ArriveReset(s) \/ ArriveStreamWindow(s)
        PROVE  UNCHANGED <<weof, fed, whole>>
    BY <1>4 DEF ArriveRequest, ArriveReset, ArriveStreamWindow, Arrive, writerVars
  <1>5. CASE ArriveGoaway
    BY <1>1, <1>5 DEF ArriveGoaway, Arrive, writerVars
  <1>. QED  BY <1>1, <1>2, <1>3, <1>4, <1>5, ResponseSteps

\* Why tasks fail.
LEMMA Faults ==
    ASSUME Base, [Next]_vars, NEW t \in Tasks
    PROVE  \/ fault'[t] = fault[t]
           \/ fault'[t] \in {"broken", "refused"}
           \/ fault'[t] = "empty" /\ pc[t] = "woken" /\ wbuf[Head(todo[t])] = <<>>
                 /\ ~weof[Head(todo[t])]
           \/ fault'[t] = "goaway" /\ t = Loop /\ (HandlePing \/ HandleWindow) /\ goaway
           \/ \E s \in Streams, d \in Nat, b \in Nat, left \in Seq(Chunk) :
                 /\ todo[t] # <<>> /\ s = Head(todo[t]) /\ wbuf[s] # <<>> /\ h2[s] # "idle"
                 /\ d <= window /\ d <= MaxFrame /\ Sends(t)
                 /\ FrameOut(t, s, b, d, left)
                 /\ FrameRefused(t, s, d) /\ fault'[t] = Refusal(s, d)
           \/ t \in Streams /\ SendResponse(t) /\ fault'[t] \in {"again", Refusal(t, 0)}
  <1>0. fault \in [Tasks -> Reason]
    BY DEF Base, TypeOK
  <1>1. CASE Arrival
    <2>1. CASE ArriveRefused
      BY <1>0, <2>1 DEF ArriveRefused, Fail
    <2>2. CASE ~ArriveRefused
      <3>1. fault' = fault
        BY <1>1, <2>2 DEF Arrival, ArriveRequest, ArriveData, ArriveEnded, ArriveReset,
             ArriveStreamWindow, ArriveWindow, ArriveAck, ArrivePing, ArriveGoaway, Arrive
      <3>. QED  BY <3>1
    <2>. QED  BY <2>1, <2>2
  <1>2. CASE Handle
    <2>1. CASE HandlePing \/ HandleWindow
      <3>1. CASE fault' = fault
        BY <3>1
      <3>2. CASE Fail(Loop, "goaway") /\ goaway
        BY <1>0, <2>1, <3>2 DEF Fail
      <3>. QED  BY <2>1, <3>1, <3>2 DEF HandlePing, HandleWindow, taskVars
    <2>2. CASE ~(HandlePing \/ HandleWindow)
      <3>1. fault' = fault
        BY <1>2, <2>2 DEF Handle, BatchEnds, HandleRequest, HandleData, HandleEnded, HandleReset,
                    HandleAck, HandleGoaway, WindowFlushed, HandlingEnds, ReceiveRaises, taskVars
      <3>. QED  BY <3>1
    <2>. QED  BY <2>1, <2>2
  <1>3. ASSUME NEW u \in Tasks, FlushData(u)
        PROVE  \/ fault'[t] = fault[t]
               \/ fault'[t] = "broken"
               \/ fault'[t] = "empty" /\ pc[t] = "woken" /\ wbuf[Head(todo[t])] = <<>>
                     /\ ~weof[Head(todo[t])]
               \/ u = t /\ \E s \in Streams, d \in Nat, b \in Nat, left \in Seq(Chunk) :
                     /\ todo[t] # <<>> /\ s = Head(todo[t]) /\ wbuf[s] # <<>> /\ h2[s] # "idle"
                     /\ d <= window /\ d <= MaxFrame /\ Sends(t)
                     /\ FrameOut(t, s, b, d, left)
                     /\ FrameRefused(t, s, d) /\ fault'[t] = Refusal(s, d)
    <2>1. CASE ScanSend(u) \/ (TakeReturns(u) /\ wbuf[Head(todo[u])] # <<>>)
      <3>0. Sends(u)
        BY <2>1, SendSteps
      <3>1. PICK s \in Streams, d \in Nat, b \in Nat, left \in Seq(Chunk) :
               /\ todo[u] # <<>> /\ s = Head(todo[u]) /\ wbuf[s] # <<>> /\ h2[s] # "idle"
               /\ d <= window /\ d <= MaxFrame
               /\ FrameOut(u, s, b, d, left)
               /\ FrameTaken(u, s, d, left) \/ FrameRefused(u, s, d)
        BY <3>0, SendsDoes
      <3>2. CASE FrameTaken(u, s, d, left)
        BY <3>2 DEF FrameTaken
      <3>3. CASE FrameRefused(u, s, d)
        <4>1. fault' = [fault EXCEPT ![u] = Refusal(s, d)]
          BY <3>3 DEF FrameRefused, Fail
        <4>2. CASE u = t
          BY <1>0, <3>0, <3>1, <3>3, <4>1, <4>2
        <4>3. CASE u # t
          BY <1>0, <4>1, <4>3
        <4>. QED  BY <4>2, <4>3
      <3>. QED  BY <3>1, <3>2, <3>3
    <2>2. CASE ScanSkip(u) \/ ScanWait(u) \/ ScanDone(u) \/ FlushReturns(u)
      BY <2>2 DEF ScanSkip, ScanWait, ScanDone, FlushReturns
    <2>3. CASE FlushRaises(u)
      BY <1>0, <2>3 DEF FlushRaises, Fail
    <2>4. CASE TakeReturns(u) /\ wbuf[Head(todo[u])] = <<>>
      <3>1. CASE fault' = fault
        BY <3>1
      <3>2. CASE Fail(u, "empty")
        BY <1>0, <2>4, <3>2 DEF TakeReturns, Fail, Drained
      <3>. QED  BY <2>4, <3>1, <3>2 DEF TakeReturns
    <2>. QED  BY <1>3, <2>1, <2>2, <2>3, <2>4 DEF FlushData
  <1>4. ASSUME NEW s \in Streams, Application(s) \/ ResponseSent(s) \/ ReadReturns(s)
        PROVE  \/ fault'[t] = fault[t]
               \/ t = s /\ SendResponse(t) /\ fault'[t] \in {"again", Refusal(t, 0)}
    <2>1. CASE SendResponse(s)
      <3>1. CASE fault' = fault
        BY <3>1
      <3>2. CASE Fail(s, HeadersRefusal(s))
        BY <1>0, <2>1, <3>2, Numbers DEF Fail, HeadersRefusal
      <3>. QED  BY <2>1, <3>1, <3>2 DEF SendResponse
    <2>2. CASE ~SendResponse(s)
      <3>1. fault' = fault
        BY <1>4, <2>2 DEF Application, SendData, SendEof, Read, ReadWaits, HandlerEnds,
                         ResponseSent, ReadReturns, taskVars
      <3>. QED  BY <3>1
    <2>. QED  BY <2>1, <2>2
  <1>5. CASE UNCHANGED vars
    BY <1>5 DEF vars, taskVars
  <1>6. CASE \E u \in Tasks : FlushData(u)
    BY <1>3, <1>6
  <1>7. CASE \E s \in Streams : Application(s) \/ ResponseSent(s) \/ ReadReturns(s)
    BY <1>4, <1>7
  <1>. QED  BY <1>1, <1>2, <1>5, <1>6, <1>7 DEF Next

LEMMA EndedHolds == Spec => []Ended
  <1>1. Init => Ended
    BY Numbers DEF Init, Ended
  <1>2. Base /\ Ended /\ [Next]_vars => Ended'
    BY EndedKept
  <1>. QED  BY <1>1, <1>2, BaseHolds, PTL DEF Spec
-----------------------------------------------------------------------------
(***************************************************************************)
(* The windows of the streams are as wide as the bodies.  (When they are    *)
(* not, a chunk is refused and lost: flush_data looks at the window of the   *)
(* connection only, and EndMeansComplete does not hold.)                   *)
(***************************************************************************)
WideWindows == \A w \in StreamWindows : MaxBody <= w

Wide == \A s \in Streams : fed[s] <= MaxBody /\ MaxBody <= swindow[s] + sent[s]

\* what has left a writer has been sent, unless the stream or the connection is gone
Kept == \A s \in Streams :
    ~goaway /\ h2[s] \in {"idle", "open"} => Run(wbuf[s], sent[s], fed[s])

NoneTooWide == \A t \in Tasks : fault[t] # "window"

Responses == Wide /\ Kept /\ EndMeansComplete /\ NoneTooWide

\* No frame is larger than a window.
LEMMA FrameFits ==
    ASSUME Base, Wide, NEW t, NEW s \in Streams, h2[s] # "idle", NEW d \in Nat, NEW b \in Nat,
           NEW left, FrameOut(t, s, b, d, left), d <= window, d <= MaxFrame
    PROVE  Refusal(s, d) # "window"
  <1>1. /\ sent[s] \in Nat /\ fed[s] \in Nat /\ swindow[s] \in Nat /\ window \in Nat
        /\ MaxFrame \in Nat /\ MaxBody \in Nat
    BY WindowsAssumption, LimitsAssumption DEF WindowsAssumption, LimitsAssumption, Base, TypeOK
  <1>2. sent[s] <= b /\ b + d <= fed[s] /\ fed[s] <= MaxBody /\ MaxBody <= swindow[s] + sent[s]
    BY DEF FrameOut, Wide
  <1>3. d <= swindow[s]
    BY <1>1, <1>2
  <1>. QED  BY <1>1, <1>3, Refusals DEF Base

LEMMA ResponsesKept ==
    ASSUME Base, Ended, Responses, [Next]_vars
    PROVE  Responses'
  <1>0. /\ h2 \in [Streams -> {"idle", "open", "ended", "reset"}] /\ weof \in [Streams -> BOOLEAN]
        /\ wbuf \in [Streams -> Seq(Chunk)] /\ fed \in [Streams -> Nat]
        /\ sent \in [Streams -> Nat] /\ swindow \in [Streams -> Nat] /\ MaxBody \in Nat
        /\ ChunkSizes \subseteq Nat \ {0} /\ whole \in [Streams -> Nat]
    BY WindowsAssumption, LimitsAssumption DEF WindowsAssumption, LimitsAssumption, Base, TypeOK
  <1>. DEFINE Rest3 == Wide /\ Kept /\ EndMeansComplete
  <1>1. ASSUME NEW t \in Tasks, Sends(t) PROVE Rest3'
    <2>1. PICK s \in Streams, d \in Nat, b \in Nat, left \in Seq(Chunk) :
              /\ wbuf[s] # <<>> /\ h2[s] # "idle" /\ d <= window /\ d <= MaxFrame
              /\ FrameOut(t, s, b, d, left)
              /\ FrameTaken(t, s, d, left) \/ FrameRefused(t, s, d)
      BY <1>1, SendsDoes
    <2>2. /\ wbuf' = [wbuf EXCEPT ![s] = left] /\ UNCHANGED <<weof, fed, whole, goaway>>
          /\ Run(wbuf[s], b, fed[s]) /\ Run(left, b + d, fed[s])
      BY <2>1 DEF FrameOut
    <2>3. CASE FrameTaken(t, s, d, left)
      <3>1. /\ ~goaway /\ h2[s] = "open" /\ d <= swindow[s]
            /\ h2' = [h2 EXCEPT ![s] = IF weof[s] /\ left = <<>> THEN "ended" ELSE @]
            /\ swindow' = [swindow EXCEPT ![s] = @ - d] /\ sent' = [sent EXCEPT ![s] = @ + d]
        BY <2>3 DEF FrameTaken, EndStream
      <3>2. b = sent[s]
        BY <1>0, <2>2, <3>1, RunBegin DEF Responses, Kept
      <3>3. sent'[s] = b + d /\ swindow'[s] = swindow[s] - d /\ wbuf'[s] = left
        BY <1>0, <2>2, <3>1, <3>2
      <3>4. Wide'
        BY <1>0, <2>2, <3>1, <3>2 DEF Responses, Wide
      <3>5. Kept'
        BY <1>0, <2>2, <3>1, <3>3 DEF Responses, Kept
      <3>6. EndMeansComplete'
        <4>1. left = <<>> => b + d = fed[s]
          BY <2>2 DEF Run
        <4>2. whole[s] <= fed[s]
          BY DEF Ended
        <4>3. h2'[s] = "ended" => weof[s] /\ whole[s] <= sent'[s]
          BY <1>0, <3>1, <3>3, <4>1, <4>2
        <4>4. \A r \in Streams \ {s} : h2'[r] = h2[r] /\ sent'[r] = sent[r]
          BY <1>0, <3>1
        <4>. QED  BY <2>2, <4>3, <4>4 DEF Responses, EndMeansComplete
      <3>. QED  BY <3>4, <3>5, <3>6
    <2>4. CASE FrameRefused(t, s, d)
      <3>1. UNCHANGED <<h2, swindow, sent>> /\ Refusal(s, d) # "none"
        BY <2>4 DEF FrameRefused
      <3>2. goaway \/ h2[s] \notin {"idle", "open"}
        <4>1. Refusal(s, d) # "window"
          BY <2>1, FrameFits DEF Responses
        <4>. QED  BY <2>1, <3>1, <4>1, Refusals DEF Base
      <3>3. Wide' /\ EndMeansComplete'
        BY <2>2, <3>1 DEF Responses, Wide, EndMeansComplete
      <3>4. Kept'
        BY <1>0, <2>2, <3>1, <3>2 DEF Responses, Kept
      <3>. QED  BY <3>3, <3>4
    <2>. QED  BY <2>1, <2>3, <2>4
  <1>2. ASSUME NEW s \in Streams, SendData(s) PROVE Rest3'
    <2>1. PICK n \in ChunkSizes :
              /\ fed[s] + n <= MaxBody
              /\ wbuf' = [wbuf EXCEPT ![s] = Append(@, [lo |-> fed[s] + 1, hi |-> fed[s] + n])]
              /\ fed' = [fed EXCEPT ![s] = @ + n]
      BY <1>2 DEF SendData
    <2>2. UNCHANGED <<h2, weof, whole, sent, swindow, goaway>> /\ n \in Nat \ {0}
      BY <1>0, <1>2 DEF SendData, peerVars
    <2>3. Wide'
      BY <1>0, <2>1, <2>2 DEF Responses, Wide
    <2>4. Kept'
      <3>1. ASSUME NEW r \in Streams, ~goaway, h2[r] \in {"idle", "open"}
            PROVE  Run(wbuf'[r], sent[r], fed'[r])
        <4>1. Run(wbuf[r], sent[r], fed[r])
          BY <3>1 DEF Responses, Kept
        <4>2. CASE r = s
          <5>1. Run(Append(wbuf[s], [lo |-> fed[s] + 1, hi |-> fed[s] + n]), sent[s], fed[s] + n)
            BY <1>0, <2>2, <4>1, <4>2, GrownRun
          <5>. QED  BY <1>0, <2>1, <4>2, <5>1
        <4>3. CASE r # s
          BY <1>0, <2>1, <4>1, <4>3
        <4>. QED  BY <4>2, <4>3
      <3>. QED  BY <2>2, <3>1 DEF Kept
    <2>5. EndMeansComplete'
      BY <1>0, <2>1, <2>2 DEF Responses, EndMeansComplete
    <2>. QED  BY <2>3, <2>4, <2>5
  <1>3. ASSUME NEW s \in Streams, SendEof(s) PROVE Rest3'
    <2>1. /\ weof' = [weof EXCEPT ![s] = TRUE]
          /\ whole' = [whole EXCEPT ![s] = IF weof[s] THEN @ ELSE fed[s]]
          /\ UNCHANGED <<h2, wbuf, fed, sent, swindow, goaway>>
      BY <1>3 DEF SendEof, peerVars
    <2>2. Wide' /\ Kept'
      BY <2>1 DEF Responses, Wide, Kept
    <2>3. \A r \in Streams : weof[r] => weof'[r] /\ whole'[r] = whole[r]
      BY <1>0, <2>1
    <2>. QED  BY <2>1, <2>2, <2>3 DEF Responses, EndMeansComplete
  <1>4. ASSUME NEW s \in Streams, ArriveRequest(s) \/ ArriveReset(s) PROVE Rest3'
    <2>1. /\ UNCHANGED <<wbuf, weof, fed, whole, sent, swindow, goaway>>
          /\ \/ h2' = [h2 EXCEPT ![s] = "reset"]
             \/ h2[s] = "idle" /\ h2' = [h2 EXCEPT ![s] = "open"]
      BY <1>0, <1>4 DEF ArriveRequest, ArriveReset, Arrive, writerVars
    <2>2. \A r \in Streams :
              /\ h2'[r] \in {"idle", "open"} => h2[r] \in {"idle", "open"}
              /\ h2'[r] = "ended" => h2[r] = "ended"
      BY <1>0, <2>1
    <2>3. Wide'
      BY <2>1 DEF Responses, Wide
    <2>4. Kept'
      <3>1. ASSUME NEW r \in Streams, ~goaway, h2'[r] \in {"idle", "open"}
            PROVE  Run(wbuf[r], sent[r], fed[r])
        BY <2>2, <3>1 DEF Responses, Kept
      <3>. QED  BY <2>1, <3>1 DEF Kept
    <2>5. EndMeansComplete'
      <3>1. ASSUME NEW r \in Streams, h2'[r] = "ended" PROVE weof[r] /\ whole[r] <= sent[r]
        BY <2>2, <3>1 DEF Responses, EndMeansComplete
      <3>. QED  BY <2>1, <3>1 DEF EndMeansComplete
    <2>. QED  BY <2>3, <2>4, <2>5
  <1>5. ASSUME NEW s \in Streams, ArriveStreamWindow(s) PROVE Rest3'
    <2>1. /\ UNCHANGED <<h2, wbuf, weof, fed, whole, sent, goaway>>
          /\ \E w \in swindow[s] + 1 .. MaxWindow : swindow' = [swindow EXCEPT ![s] = w]
      BY <1>5 DEF ArriveStreamWindow, Arrive, writerVars
    <2>2. Wide'
      BY <1>0, <2>1, LimitsAssumption DEF Responses, Wide, LimitsAssumption
    <2>3. Kept' /\ EndMeansComplete'
      BY <2>1 DEF Responses, Kept, EndMeansComplete
    <2>. QED  BY <2>2, <2>3
  <1>6. ASSUME ArriveGoaway PROVE Rest3'
    <2>1. UNCHANGED <<h2, wbuf, weof, fed, whole, sent, swindow>> /\ goaway'
      BY <1>6 DEF ArriveGoaway, Arrive, writerVars
    <2>2. Wide' /\ EndMeansComplete'
      BY <2>1 DEF Responses, Wide, EndMeansComplete
    <2>3. Kept'
      BY <2>1 DEF Kept
    <2>. QED  BY <2>2, <2>3
  <1>7. ASSUME UNCHANGED <<h2, weof, wbuf, fed, whole, sent, swindow, goaway>> PROVE Rest3'
    <2>1. Wide' /\ EndMeansComplete'
      BY <1>7 DEF Responses, Wide, EndMeansComplete
    <2>2. Kept'
      BY <1>7 DEF Responses, Kept
    <2>. QED  BY <2>1, <2>2
  <1>. HIDE DEF Rest3
  <1>8. Rest3'
    BY <1>1, <1>2, <1>3, <1>4, <1>5, <1>6, <1>7, ResponseSteps
  <1>9. NoneTooWide'
    <2>1. ASSUME NEW t \in Tasks PROVE fault'[t] # "window"
      <3>1. CASE fault'[t] = fault[t] \/ fault'[t] \in {"broken", "refused", "empty", "goaway"}
        BY <3>1 DEF Responses, NoneTooWide
      <3>2. ASSUME NEW s \in Streams, NEW d \in Nat, NEW b \in Nat, NEW left \in Seq(Chunk),
                   h2[s] # "idle", d <= window, d <= MaxFrame,
                   FrameOut(t, s, b, d, left), fault'[t] = Refusal(s, d)
            PROVE  fault'[t] # "window"
        BY <3>2, FrameFits DEF Responses
      <3>3. CASE t \in Streams /\ SendResponse(t) /\ fault'[t] \in {"again", Refusal(t, 0)}
        <4>1. h2[t] # "idle" /\ window \in Nat /\ swindow[t] \in Nat /\ MaxFrame \in Nat
          BY <1>0, <3>3, WindowsAssumption
          DEF SendResponse, InDict, Base, StreamsKnown, TypeOK, WindowsAssumption
        <4>. QED  BY <3>3, <4>1, Refusals DEF Base
      <3>. QED  BY <3>1, <3>2, <3>3, Faults
    <2>. QED  BY <2>1 DEF NoneTooWide
  <1>. QED  BY <1>8, <1>9 DEF Responses, Rest3

LEMMA ResponsesInitially ==
    ASSUME WideWindows, Init
    PROVE  Responses
  <1>1. \A s \in Streams : /\ fed[s] = 0 /\ sent[s] = 0 /\ wbuf[s] = <<>> /\ h2[s] = "idle"
                           /\ swindow[s] \in StreamWindows
    BY DEF Init
  <1>2. StreamWindows \subseteq Nat /\ MaxBody \in Nat
    BY WindowsAssumption, LimitsAssumption DEF WindowsAssumption, LimitsAssumption
  <1>3. Wide
    BY <1>1, <1>2 DEF Wide, WideWindows
  <1>4. Run(<<>>, 0, 0)
    <2>1. <<>> \in Seq(Chunk) /\ Len(<<>>) = 0
      OBVIOUS
    <2>. QED  BY <2>1 DEF Run
  <1>5. Kept /\ EndMeansComplete
    BY <1>1, <1>4 DEF Kept, EndMeansComplete
  <1>6. NoneTooWide
    BY DEF Init, NoneTooWide
  <1>. QED  BY <1>3, <1>5, <1>6 DEF Responses

LEMMA ResponsesHold ==
    ASSUME WideWindows
    PROVE  Spec => []Responses
  <1>1. Init => Responses
    BY ResponsesInitially
  <1>2. Base /\ Ended /\ Responses /\ [Next]_vars => Responses'
    BY ResponsesKept
  <1>. QED  BY <1>1, <1>2, BaseHolds, EndedHolds, PTL DEF Spec

\* What a client takes for the whole body of a response holds all that was sent before
\* its first end, also when streams are reset, the connection is shut down and tasks
\* fail, and whatever is sent after that end (h2.py 189-208).
THEOREM EndsComplete ==
    ASSUME WideWindows
    PROVE  Spec => []EndMeansComplete
  <1>1. Responses => EndMeansComplete
    BY DEF Responses
  <1>. QED  BY <1>1, ResponsesHold, PTL
-----------------------------------------------------------------------------
(***************************************************************************)
(* Where a task goes.                                                      *)
(***************************************************************************)
\* A task flushes because it did or because it starts to; it sleeps in a writer
\* because it did or because the scan has come to an empty one; only the feeds of
\* that writer wake it; and no task comes back that has not begun or is over.
TaskStep(t) ==
    /\ pc'[t] = "take" => ScanWait(t) \/ (pc[t] = "take" /\ todo'[t] = todo[t])
    /\ pc'[t] = "woken" =>
          /\ todo'[t] = todo[t]
          /\ \/ pc[t] = "woken"
             \/ /\ pc[t] = "take"
                /\ \E s \in Streams : Head(todo[t]) = s /\ (SendData(s) \/ SendEof(s))
    /\ Flushing(t)' =>
          \/ Flushing(t) /\ todo'[t] = todo[t]
          \/ Flushing(t) /\ todo[t] # <<>> /\ todo'[t] = Tail(todo[t])
          \/ t \in Streams /\ (SendData(t) \/ SendEof(t)) /\ todo'[t] = streams
          \/ t = Loop /\ StartFlush(Loop, pc) /\ pc[Loop] \in {"handle", "update"}
             /\ todo'[t] = streams
    /\ pc'[t] \notin {"none", "over"} =>
          pc[t] \notin {"none", "over"} \/ (HandleRequest /\ t = Subject)
    /\ pc[t] = "over" =>
          (pc'[t] = "over" /\ todo'[t] = todo[t]) \/ (HandleRequest /\ t = Subject)

LEMMA Rests ==
    ASSUME NEW t, pc'[t] = pc[t] \/ pc'[t] = "over", todo'[t] = todo[t]
    PROVE  TaskStep(t)
  BY DEF TaskStep, Flushing

LEMMA Leaves ==
    ASSUME NEW t, pc[t] \notin {"none", "over"},
           pc'[t] \in {"app", "read", "headers", "idle", "arriving", "handle", "update", "over"}
    PROVE  TaskStep(t)
  BY DEF TaskStep, Flushing

LEMMA LoopStarts ==
    ASSUME Base, NEW t \in Tasks, StartFlush(Loop, pc), pc[Loop] \in {"handle", "update"}
    PROVE  TaskStep(t)
  <1>1. /\ pc' = [pc EXCEPT ![Loop] = "scan"] /\ todo' = [todo EXCEPT ![Loop] = streams]
    BY DEF StartFlush
  <1>2. CASE t = Loop
    BY <1>1, <1>2 DEF TaskStep, Base, TypeOK
  <1>3. CASE t # Loop
    BY <1>1, <1>3, Rests DEF Base, TypeOK
  <1>. QED  BY <1>2, <1>3

\* flush_data moves its own task only; an exception of the loop ends every other.
LEMMA OthersRest ==
    ASSUME Base, NEW t \in Tasks, NEW u \in Tasks, u # t, FlushData(u)
    PROVE  /\ pc'[t] = pc[t] \/ pc'[t] = "over"
           /\ todo'[t] = todo[t]
  <1>0. pc \in [Tasks -> Spot] /\ todo \in [Tasks -> Seq(Streams)]
    BY DEF Base, TypeOK
  <1>1. CASE ScanSkip(u) \/ ScanWait(u) \/ ScanDone(u) \/ FlushReturns(u) \/ FlushRaises(u)
    BY <1>0, <1>1 DEF ScanSkip, ScanWait, ScanDone, FlushReturns, FlushRaises, Fail, Goto
  <1>2. CASE ScanSend(u) \/ TakeReturns(u)
    BY <1>0, <1>2 DEF ScanSend, TakeReturns, SendHead, Fail, Goto
  <1>. QED  BY <1>1, <1>2 DEF FlushData

LEMMA TaskSteps ==
    ASSUME Base, [Next]_vars, NEW t \in Tasks
    PROVE  TaskStep(t)
  <1>0. pc \in [Tasks -> Spot] /\ todo \in [Tasks -> Seq(Streams)]
    BY DEF Base, TypeOK
  <1>1. CASE Arrival
    <2>1. CASE ArriveRefused
      BY <1>0, <2>1, Rests DEF ArriveRefused, Fail
    <2>2. CASE ~ArriveRefused
      <3>1. pc[Loop] \in {"idle", "arriving"} /\ pc' = [pc EXCEPT ![Loop] = "arriving"] /\ todo' = todo
        BY <1>1, <2>2 DEF Arrival, ArriveRequest, ArriveData, ArriveEnded, ArriveReset,
             ArriveStreamWindow, ArriveWindow, ArriveAck, ArrivePing, ArriveGoaway, Arrive,
             Receiving, Goto
      <3>2. CASE t = Loop
        BY <1>0, <3>1, <3>2, Leaves
      <3>3. CASE t # Loop
        BY <1>0, <3>1, <3>3, Rests
      <3>. QED  BY <3>2, <3>3
    <2>. QED  BY <2>1, <2>2
  <1>2. CASE Handle
    <2>1. CASE BatchEnds \/ HandlingEnds \/ ReceiveRaises
      <3>1. /\ pc[Loop] \in {"arriving", "handle", "idle"} /\ todo' = todo
            /\ \E p \in {"handle", "idle", "over"} : pc' = [pc EXCEPT ![Loop] = p]
        BY <2>1 DEF BatchEnds, HandlingEnds, ReceiveRaises, Goto
      <3>2. CASE t = Loop
        BY <1>0, <3>1, <3>2, Leaves
      <3>3. CASE t # Loop
        BY <1>0, <3>1, <3>3, Rests
      <3>. QED  BY <3>2, <3>3
    <2>2. CASE HandleRequest
      <3>1. pc' = [pc EXCEPT ![Subject] = "app"] /\ todo' = todo
        BY <2>2 DEF HandleRequest, Goto
      <3>2. CASE t = Subject
        BY <1>0, <2>2, <3>1, <3>2 DEF TaskStep, Flushing
      <3>3. CASE t # Subject
        BY <1>0, <3>1, <3>3, Rests
      <3>. QED  BY <3>2, <3>3
    <2>3. CASE HandleData \/ HandleWindow \/ WindowFlushed
      <3>0. pc[Loop] \in {"handle", "update"}
        BY <2>3 DEF HandleData, HandleWindow, WindowFlushed, Handling
      <3>1. CASE StartFlush(Loop, pc)
        BY <3>0, <3>1, LoopStarts
      <3>2. CASE ~StartFlush(Loop, pc)
        <4>1. /\ todo' = todo
              /\ \/ pc' = pc
                 \/ pc' = [pc EXCEPT ![Loop] = "update"]
                 \/ pc' = [pc EXCEPT ![Loop] = "handle"]
                 \/ \A u \in Tasks : pc'[u] = "over"
          BY <2>3, <3>2 DEF HandleData, HandleWindow, WindowFlushed, Fail, Goto
        <4>2. CASE t = Loop
          BY <1>0, <3>0, <4>1, <4>2, Leaves
        <4>3. CASE t # Loop
          BY <1>0, <4>1, <4>3, Rests
        <4>. QED  BY <4>2, <4>3
      <3>. QED  BY <3>1, <3>2
    <2>4. CASE HandleEnded \/ HandleReset \/ HandleAck \/ HandlePing \/ HandleGoaway
      <3>1. todo' = todo /\ (pc' = pc \/ \A u \in Tasks : pc'[u] = "over")
        BY <2>4 DEF HandleEnded, HandleReset, HandleAck, HandlePing, HandleGoaway, Fail, taskVars
      <3>. QED  BY <3>1, Rests
    <2>. QED  BY <1>2, <2>1, <2>2, <2>3, <2>4 DEF Handle
  <1>3. ASSUME NEW u \in Tasks, FlushData(u) PROVE TaskStep(t)
    <2>1. CASE u # t
      BY <1>3, <2>1, OthersRest, Rests
    <2>2. CASE u = t
      <3>1. CASE ScanSkip(t)
        BY <1>0, <3>1 DEF ScanSkip, Scanning, TaskStep, Flushing
      <3>2. CASE ScanWait(t)
        BY <1>0, <3>2 DEF ScanWait, Scanning, Goto, TaskStep, Flushing
      <3>3. CASE ScanDone(t)
        <4>1. pc[t] = "scan" /\ pc'[t] \in {"handle", "app"}
          BY <1>0, <3>3 DEF ScanDone, Goto
        <4>. QED  BY <4>1, Leaves
      <3>4. CASE FlushReturns(t)
        BY <1>0, <3>4 DEF FlushReturns, Goto, TaskStep, Flushing
      <3>5. CASE FlushRaises(t)
        BY <1>0, <3>5, Rests DEF FlushRaises, Fail
      <3>6. CASE ScanSend(t) \/ TakeReturns(t)
        <4>1. todo[t] # <<>> /\ Flushing(t)
          BY <3>6 DEF ScanSend, TakeReturns, Scanning, Base, Places, Flushing
        <4>2. \/ pc'[t] = "over" /\ todo'[t] = todo[t]
              \/ pc'[t] \in {"flush", "scan"} /\ todo'[t] = Tail(todo[t])
          BY <1>0, <3>6 DEF ScanSend, TakeReturns, SendHead, Fail, Goto
        <4>3. pc[t] \notin {"none", "over"}
          BY <4>1 DEF Flushing
        <4>. QED  BY <4>1, <4>2, <4>3 DEF TaskStep, Flushing
      <3>. QED  BY <1>3, <2>2, <3>1, <3>2, <3>3, <3>4, <3>5, <3>6 DEF FlushData
    <2>. QED  BY <2>1, <2>2
  <1>4. ASSUME NEW s \in Streams, Application(s) \/ ResponseSent(s) \/ ReadReturns(s)
        PROVE  TaskStep(t)
    <2>0. s \in Tasks
      BY Numbers
    <2>1. CASE SendData(s) \/ SendEof(s)
      <3>1. /\ pc' = [Woken(s) EXCEPT ![s] = "scan"] /\ todo' = [todo EXCEPT ![s] = streams]
            /\ pc[s] = "app"
        BY <2>1 DEF SendData, SendEof, StartFlush, AtApp
      <3>2. /\ Woken(s) \in [Tasks -> Spot]
            /\ \A u \in Tasks :
                  \/ Woken(s)[u] = pc[u]
                  \/ pc[u] = "take" /\ Head(todo[u]) = s /\ Woken(s)[u] = "woken"
        BY WokenTyped
      <3>3. CASE t = s
        <4>1. pc'[t] = "scan" /\ todo'[t] = streams
          BY <1>0, <2>0, <3>1, <3>2, <3>3
        <4>. QED  BY <2>1, <3>1, <3>3, <4>1 DEF TaskStep, Flushing
      <3>4. CASE t # s
        <4>1. pc'[t] = Woken(s)[t] /\ todo'[t] = todo[t]
          BY <1>0, <2>0, <3>1, <3>2, <3>4
        <4>2. CASE Woken(s)[t] = pc[t]
          BY <4>1, <4>2, Rests
        <4>3. CASE pc[t] = "take" /\ Head(todo[t]) = s /\ Woken(s)[t] = "woken"
          BY <2>1, <4>1, <4>3 DEF TaskStep, Flushing
        <4>. QED  BY <3>2, <4>2, <4>3
      <3>. QED  BY <3>3, <3>4
    <2>2. CASE ~(SendData(s) \/ SendEof(s))
      <3>1. /\ todo' = todo /\ pc[s] \in {"app", "headers", "read"}
            /\ \/ pc' = pc
               \/ pc' = [u \in Tasks |-> IF s = Loop \/ u = s THEN "over" ELSE pc[u]]
               \/ \E p \in {"app", "read", "headers", "over"} : pc' = [pc EXCEPT ![s] = p]
        BY <1>4, <2>2 DEF Application, SendResponse, Read, ReadWaits, HandlerEnds,
                          ResponseSent, ReadReturns, AtApp, Fail, Goto, taskVars
      <3>2. CASE t = s
        BY <1>0, <2>0, <3>1, <3>2, Leaves
      <3>3. CASE t # s
        BY <1>0, <3>1, <3>3, Rests
      <3>. QED  BY <3>2, <3>3
    <2>. QED  BY <2>1, <2>2
  <1>5. CASE UNCHANGED vars
    BY <1>5, Rests DEF vars, taskVars
  <1>6. CASE \E u \in Tasks : FlushData(u)
    BY <1>3, <1>6
  <1>7. CASE \E s \in Streams : Application(s) \/ ResponseSent(s) \/ ReadReturns(s)
    BY <1>4, <1>7
  <1>. QED  BY <1>1, <1>2, <1>5, <1>6, <1>7 DEF Next
-----------------------------------------------------------------------------
(***************************************************************************)
(* Sleepers.                                                               *)
(***************************************************************************)
\* Writers change when a frame is taken from one and when one is fed.
LEMMA WriterSteps ==
    ASSUME Base, [Next]_vars
    PROVE  \/ UNCHANGED <<wbuf, weof>>
           \/ \E s \in Streams, d \in Nat, b \in Nat, left \in Seq(Chunk) :
                 /\ wbuf[s] # <<>> /\ d <= window
                 /\ wbuf' = [wbuf EXCEPT ![s] = left] /\ weof' = weof
                 /\ d = 0 => left = wbuf[s]
           \/ \E s \in Streams : SendData(s) \/ SendEof(s)
  <1>1. ASSUME NEW t \in Tasks, Sends(t)
        PROVE  \E s \in Streams, d \in Nat, b \in Nat, left \in Seq(Chunk) :
                 /\ wbuf[s] # <<>> /\ d <= window
                 /\ wbuf' = [wbuf EXCEPT ![s] = left] /\ weof' = weof
                 /\ d = 0 => left = wbuf[s]
    BY <1>1, SendsDoes DEF FrameOut
  <1>2. CASE \E s \in Streams : ArriveRequest(s) \/ ArriveReset(s) \/ ArriveStreamWindow(s)
    BY <1>2 DEF ArriveRequest, ArriveReset, ArriveStreamWindow, Arrive, writerVars
  <1>3. CASE ArriveGoaway
    BY <1>3 DEF ArriveGoaway, Arrive, writerVars
  <1>. QED  BY <1>1, <1>2, <1>3, ResponseSteps

\* What a feed does to a writer and to those that sleep in it.
LEMMA FeedSteps ==
    ASSUME Base, NEW s \in Streams, SendData(s) \/ SendEof(s)
    PROVE  /\ pc[s] = "app" /\ running = Nobody /\ InDict(s)
           /\ wbuf'[s] # <<>> \/ weof'[s]
           /\ \A r \in Streams \ {s} : wbuf'[r] = wbuf[r] /\ weof'[r] = weof[r]
           /\ \A r \in Streams : wbuf[r] # <<>> => wbuf'[r] # <<>>
           /\ \A r \in Streams : weof[r] => weof'[r]
           /\ \A t \in Tasks : pc'[t] = "take" =>
                 pc[t] = "take" /\ todo'[t] = todo[t] /\ Head(todo[t]) # s
           /\ UNCHANGED <<streams, events, peerVars, readerVars, sent>>
  <1>0. /\ wbuf \in [Streams -> Seq(Chunk)] /\ weof \in [Streams -> BOOLEAN]
        /\ fed \in [Streams -> Nat] /\ s \in Tasks /\ ChunkSizes \subseteq Nat \ {0}
        /\ pc \in [Tasks -> Spot] /\ todo \in [Tasks -> Seq(Streams)]
    BY Numbers, WindowsAssumption DEF Base, TypeOK, WindowsAssumption
  <1>1. /\ pc[s] = "app" /\ running = Nobody /\ InDict(s) /\ StartFlush(s, Woken(s))
        /\ UNCHANGED <<streams, events, peerVars, readerVars, sent>>
    BY DEF SendData, SendEof, AtApp
  <1>2. /\ wbuf'[s] # <<>> \/ weof'[s]
        /\ \A r \in Streams \ {s} : wbuf'[r] = wbuf[r] /\ weof'[r] = weof[r]
        /\ wbuf[s] # <<>> => wbuf'[s] # <<>>
        /\ weof[s] => weof'[s]
    <2>1. CASE SendData(s)
      <3>1. PICK n \in ChunkSizes :
                wbuf' = [wbuf EXCEPT ![s] = Append(@, [lo |-> fed[s] + 1, hi |-> fed[s] + n])]
        BY <2>1 DEF SendData
      <3>. DEFINE c == [lo |-> fed[s] + 1, hi |-> fed[s] + n]
      <3>2. c \in Chunk /\ wbuf[s] \in Seq(Chunk)
        BY <1>0 DEF Chunk
      <3>3. Append(wbuf[s], c) # <<>>
        <4>. HIDE DEF c
        <4>. QED  BY <3>2, AppendOf
      <3>4. weof' = weof
        BY <2>1 DEF SendData
      <3>. QED  BY <1>0, <3>1, <3>3, <3>4
    <2>2. CASE SendEof(s)
      BY <1>0, <2>2 DEF SendEof
    <2>. QED  BY <2>1, <2>2
  <1>3. ASSUME NEW t \in Tasks, pc'[t] = "take"
        PROVE  pc[t] = "take" /\ todo'[t] = todo[t] /\ Head(todo[t]) # s
    <2>1. /\ pc' = [Woken(s) EXCEPT ![s] = "scan"] /\ todo' = [todo EXCEPT ![s] = streams]
      BY <1>1 DEF StartFlush
    <2>2. /\ Woken(s) \in [Tasks -> Spot]
          /\ \A u \in Tasks :
                \/ Woken(s)[u] = pc[u]
                \/ pc[u] = "take" /\ Head(todo[u]) = s /\ Woken(s)[u] = "woken"
          /\ \A u \in Tasks : Woken(s)[u] = "take" => Head(todo[u]) # s
      BY WokenTyped
    <2>3. t # s
      BY <1>0, <1>3, <2>1, <2>2
    <2>4. pc'[t] = Woken(s)[t] /\ todo'[t] = todo[t]
      BY <1>0, <2>1, <2>2, <2>3
    <2>. QED  BY <1>3, <2>2, <2>4
  <1>4. /\ \A r \in Streams : wbuf[r] # <<>> => wbuf'[r] # <<>>
        /\ \A r \in Streams : weof[r] => weof'[r]
    BY <1>2
  <1>. QED  BY <1>1, <1>2, <1>3, <1>4

LEMMA SleepersKept ==
    ASSUME Base, NoSleepOnData, [Next]_vars
    PROVE  NoSleepOnData'
  <1>1. ASSUME NEW t \in Tasks, pc'[t] = "take"
        PROVE  wbuf'[Head(todo'[t])] = <<>> /\ ~weof'[Head(todo'[t])]
    <2>1. CASE ScanWait(t)
      BY <2>1 DEF ScanWait, writerVars
    <2>2. CASE pc[t] = "take" /\ todo'[t] = todo[t]
      <3>. DEFINE h == Head(todo[t])
      <3>1. h \in Streams /\ wbuf[h] = <<>> /\ ~weof[h]
        BY <2>2, HeadKnown DEF Base, Places, NoSleepOnData
      <3>. HIDE DEF h
      <3>2. wbuf'[h] = <<>> /\ ~weof'[h]
        <4>1. CASE UNCHANGED <<wbuf, weof>>
          BY <3>1, <4>1
        <4>2. ASSUME NEW s \in Streams, NEW left, wbuf[s] # <<>>,
                     wbuf' = [wbuf EXCEPT ![s] = left], weof' = weof
              PROVE  wbuf'[h] = <<>> /\ ~weof'[h]
          BY <3>1, <4>2 DEF Base, TypeOK
        <4>3. ASSUME NEW s \in Streams, SendData(s) \/ SendEof(s)
              PROVE  wbuf'[h] = <<>> /\ ~weof'[h]
          BY <1>1, <3>1, <4>3, FeedSteps DEF h
        <4>. QED  BY <4>1, <4>2, <4>3, WriterSteps
      <3>. QED  BY <2>2, <3>2 DEF h
    <2>. QED  BY <1>1, <2>1, <2>2, TaskSteps DEF TaskStep
  <1>. QED  BY <1>1 DEF NoSleepOnData

\* No task sleeps in writer.receive(0) while that writer has a chunk or its end: the
\* flush of another task never puts one behind the back of the sleeper, and a feed
\* wakes everyone (h2.py 177-184; types.py 104-116).
THEOREM SleepersHaveNothing == Spec => []NoSleepOnData
  <1>1. Init => NoSleepOnData
    BY DEF Init, NoSleepOnData
  <1>2. Base /\ NoSleepOnData /\ [Next]_vars => NoSleepOnData'
    BY SleepersKept
  <1>. QED  BY <1>1, <1>2, BaseHolds, PTL DEF Spec
-----------------------------------------------------------------------------
(***************************************************************************)
(* Readers.  A handler that runs is in the dict, or its reader has ended.   *)
(***************************************************************************)
Reachable == \A s \in Streams : pc[s] \notin {"none", "over"} => InDict(s) \/ reof[s]

\* The dict and the ends of the readers change when one of three events is handled.
LEMMA DictSteps ==
    ASSUME Base, [Next]_vars
    PROVE  \/ HandleRequest \/ HandleReset \/ HandleEnded
           \/ UNCHANGED <<streams, reof>>
  <1>1. CASE Arrival
    <2>1. UNCHANGED <<streams, readerVars>>
      BY <1>1 DEF Arrival, ArriveRequest, ArriveData, ArriveEnded, ArriveReset,
           ArriveStreamWindow, ArriveWindow, ArriveAck, ArrivePing, ArriveGoaway,
           ArriveRefused, Arrive
    <2>. QED  BY <2>1 DEF readerVars
  <1>2. CASE Handle /\ ~(HandleRequest \/ HandleReset \/ HandleEnded)
    BY <1>2 DEF Handle, BatchEnds, HandleData, HandleAck, HandlePing, HandleGoaway,
                HandleWindow, WindowFlushed, HandlingEnds, ReceiveRaises, readerVars
  <1>3. ASSUME NEW t \in Tasks, FlushData(t) PROVE UNCHANGED <<streams, reof>>
    BY <1>3 DEF FlushData, ScanSkip, ScanWait, ScanSend, ScanDone, TakeReturns, FlushReturns,
                FlushRaises, SendHead, readerVars
  <1>4. ASSUME NEW s \in Streams, Application(s) \/ ResponseSent(s) \/ ReadReturns(s)
        PROVE  UNCHANGED <<streams, reof>>
    BY <1>4 DEF Application, SendResponse, SendData, SendEof, Read, ReadWaits, HandlerEnds,
                ResponseSent, ReadReturns, readerVars
  <1>5. CASE UNCHANGED vars
    BY <1>5 DEF vars, readerVars
  <1>. QED  BY <1>1, <1>2, <1>3, <1>4, <1>5 DEF Next

LEMMA ReachableKept ==
    ASSUME Base, Reachable, [Next]_vars
    PROVE  Reachable'
  <1>1. ASSUME NEW s \in Streams, pc'[s] \notin {"none", "over"} PROVE InDict(s)' \/ reof'[s]
    <2>0. s \in Tasks /\ reof \in [Streams -> BOOLEAN]
      BY Numbers DEF Base, TypeOK
    <2>1. CASE HandleRequest
      <3>1. Subject \in Streams /\ streams' = Append(streams, Subject) /\ reof' = reof
        BY <2>1, Subjects DEF HandleRequest, readerVars
      <3>2. /\ DOMAIN streams' = 1 .. Len(streams) + 1 /\ Len(streams) \in Nat
            /\ DOMAIN streams = 1 .. Len(streams)
            /\ \A i \in DOMAIN streams : i \in DOMAIN streams' /\ streams'[i] = streams[i]
            /\ Len(streams) + 1 \in DOMAIN streams' /\ streams'[Len(streams) + 1] = Subject
        BY <3>1, AppendOf DEF Base, TypeOK
      <3>3. CASE s = Subject
        BY <3>2, <3>3 DEF InDict
      <3>4. CASE s # Subject
        <4>1. InDict(s) \/ reof[s]
          BY <1>1, <2>0, <3>4, TaskSteps DEF TaskStep, Reachable
        <4>. QED  BY <3>1, <3>2, <4>1 DEF InDict
      <3>. QED  BY <3>3, <3>4
    <2>2. ASSUME ~HandleRequest PROVE InDict(s)' \/ reof'[s]
      <3>1. InDict(s) \/ reof[s]
        BY <1>1, <2>0, <2>2, TaskSteps DEF TaskStep, Reachable
      <3>2. CASE HandleReset
        <4>1. /\ Subject \in Streams /\ Forget(Subject)
              /\ reof' = [reof EXCEPT ![Subject] = @ \/ InDict(Subject)]
          BY <3>2, Subjects DEF HandleReset
        <4>2. CASE s = Subject
          BY <2>0, <3>1, <4>1, <4>2
        <4>3. CASE s # Subject
          <5>1. InDict(s) => InDict(s)'
            BY <4>1, <4>3, Forgotten DEF Base
          <5>2. reof[s] => reof'[s]
            BY <2>0, <4>1, <4>3
          <5>. QED  BY <3>1, <5>1, <5>2
        <4>. QED  BY <4>2, <4>3
      <3>3. CASE HandleEnded
        <4>1. streams' = streams /\ reof' = [reof EXCEPT ![Subject] = @ \/ InDict(Subject)]
          BY <3>3 DEF HandleEnded
        <4>2. reof[s] => reof'[s]
          BY <2>0, <4>1
        <4>3. InDict(s) => InDict(s)'
          BY <4>1 DEF InDict
        <4>. QED  BY <3>1, <4>2, <4>3
      <3>4. CASE UNCHANGED <<streams, reof>>
        BY <3>1, <3>4 DEF InDict
      <3>. QED  BY <2>2, <3>2, <3>3, <3>4, DictSteps
    <2>. QED  BY <2>1, <2>2
  <1>. QED  BY <1>1 DEF Reachable

\* A handler never waits for a request body that cannot come any more because its
\* stream was reset and forgotten: whatever is forgotten has been told (h2.py 101-105).
THEOREM ResetsWakeReaders == Spec => []ResetWakesReader
  <1>1. Init => Reachable
    BY Numbers DEF Init, Reachable
  <1>2. Base /\ Reachable /\ [Next]_vars => Reachable'
    BY ReachableKept
  <1>3. Reachable => ResetWakesReader
    BY DEF Reachable, ResetWakesReader
  <1>. QED  BY <1>1, <1>2, <1>3, BaseHolds, PTL DEF Spec
-----------------------------------------------------------------------------
(***************************************************************************)
(* The responses are byte channels.                                        *)
(***************************************************************************)
ResponseStep(s) == Response(s)!Next \/ UNCHANGED Response(s)!channel

LEMMA ChannelsKept ==
    ASSUME Base, Ended, Responses, [Next]_vars, NEW r \in Streams
    PROVE  ResponseStep(r) \/ ArriveReset(r)
  <1>0. /\ h2 \in [Streams -> {"idle", "open", "ended", "reset"}] /\ weof \in [Streams -> BOOLEAN]
        /\ fed \in [Streams -> Nat] /\ sent \in [Streams -> Nat] /\ ChunkSizes \subseteq Nat \ {0}
        /\ wbuf \in [Streams -> Seq(Chunk)]
    BY WindowsAssumption DEF WindowsAssumption, Base, TypeOK
  <1>1. ASSUME UNCHANGED <<fed, sent, weof>>, (h2'[r] = "ended") = (h2[r] = "ended")
        PROVE  ResponseStep(r)
    BY <1>1 DEF ResponseStep, Response!channel
  <1>2. ASSUME NEW t \in Tasks, Sends(t) PROVE ResponseStep(r)
    <2>1. PICK s \in Streams, d \in Nat, b \in Nat, left \in Seq(Chunk) :
              /\ wbuf[s] # <<>> /\ FrameOut(t, s, b, d, left)
              /\ FrameTaken(t, s, d, left) \/ FrameRefused(t, s, d)
      BY <1>2, SendsDoes
    <2>2. UNCHANGED <<weof, fed>> /\ Run(wbuf[s], b, fed[s]) /\ Run(left, b + d, fed[s])
          /\ b + d <= fed[s]
      BY <2>1 DEF FrameOut
    <2>3. CASE FrameTaken(t, s, d, left)
      <3>1. /\ ~goaway /\ h2[s] = "open"
            /\ h2' = [h2 EXCEPT ![s] = IF weof[s] /\ left = <<>> THEN "ended" ELSE @]
            /\ sent' = [sent EXCEPT ![s] = @ + d]
        BY <2>3 DEF FrameTaken, EndStream
      <3>2. b = sent[s]
        BY <1>0, <2>2, <3>1, RunBegin DEF Responses, Kept
      <3>3. CASE r # s
        <4>1. h2'[r] = h2[r] /\ sent'[r] = sent[r] /\ weof'[r] = weof[r] /\ fed'[r] = fed[r]
          BY <1>0, <2>2, <3>1, <3>3
        <4>. QED  BY <4>1 DEF ResponseStep, Response!channel
      <3>4. CASE r = s /\ weof[s] /\ left = <<>>
        <4>1. b + d = fed[s]
          BY <2>2, <3>4 DEF Run
        <4>2. h2'[s] = "ended" /\ sent'[s] = fed[s] /\ weof'[s] = weof[s] /\ fed'[s] = fed[s]
              /\ h2[s] # "ended"
          BY <1>0, <2>2, <3>1, <3>2, <3>4, <4>1
        <4>. QED  BY <3>4, <4>2 DEF ResponseStep, Response!Next, Response!Finish
      <3>5. CASE r = s /\ ~(weof[s] /\ left = <<>>)
        <4>1. /\ h2'[s] = h2[s] /\ sent'[s] = sent[s] + d /\ weof'[s] = weof[s]
              /\ fed'[s] = fed[s] /\ sent[s] + d <= fed[s] /\ sent[s] \in Nat
          BY <1>0, <2>2, <3>1, <3>2, <3>5
        <4>2. CASE d = 0
          <5>1. sent'[s] = sent[s]
            BY <4>1, <4>2
          <5>. QED  BY <3>5, <4>1, <5>1 DEF ResponseStep, Response!channel
        <4>3. CASE d # 0
          <5>1. sent'[s] \in Nat /\ sent'[s] > sent[s] /\ sent'[s] <= fed[s]
            BY <4>1, <4>3
          <5>. QED  BY <3>5, <4>1, <5>1 DEF ResponseStep, Response!Next, Response!Receive
        <4>. QED  BY <4>2, <4>3
      <3>. QED  BY <3>3, <3>4, <3>5
    <2>4. CASE FrameRefused(t, s, d)
      BY <1>1, <2>2, <2>4 DEF FrameRefused
    <2>. QED  BY <2>1, <2>3, <2>4
  <1>3. ASSUME NEW s \in Streams, SendData(s) PROVE ResponseStep(r)
    <2>1. PICK n \in ChunkSizes : fed' = [fed EXCEPT ![s] = @ + n]
      BY <1>3 DEF SendData
    <2>2. UNCHANGED <<h2, weof, sent>> /\ n \in Nat /\ n > 0
      BY <1>0, <1>3 DEF SendData, peerVars
    <2>3. CASE r = s
      <3>1. fed'[s] \in Nat /\ fed'[s] > fed[s]
        BY <1>0, <2>1, <2>2
      <3>. QED  BY <2>2, <2>3, <3>1 DEF ResponseStep, Response!Next, Response!Send
    <2>4. CASE r # s
      <3>1. fed'[r] = fed[r]
        BY <1>0, <2>1, <2>4
      <3>. QED  BY <2>2, <3>1 DEF ResponseStep, Response!channel
    <2>. QED  BY <2>3, <2>4
  <1>4. ASSUME NEW s \in Streams, SendEof(s) PROVE ResponseStep(r)
    <2>1. weof' = [weof EXCEPT ![s] = TRUE] /\ UNCHANGED <<h2, fed, sent>>
      BY <1>4 DEF SendEof, peerVars
    <2>2. CASE r = s
      <3>1. weof'[s] = TRUE
        BY <1>0, <2>1
      <3>. QED  BY <1>0, <2>1, <2>2, <3>1 DEF ResponseStep, Response!Next, Response!Close,
                                             Response!channel
    <2>3. CASE r # s
      <3>1. weof'[r] = weof[r]
        BY <1>0, <2>1, <2>3
      <3>. QED  BY <2>1, <3>1 DEF ResponseStep, Response!channel
    <2>. QED  BY <2>2, <2>3
  <1>5. ASSUME NEW s \in Streams, ArriveRequest(s) \/ ArriveReset(s) \/ ArriveStreamWindow(s),
               ~ArriveReset(r)
        PROVE  ResponseStep(r)
    <2>1. /\ UNCHANGED <<weof, fed, sent>>
          /\ \/ h2' = h2
             \/ h2[s] = "idle" /\ h2' = [h2 EXCEPT ![s] = "open"]
             \/ s # r /\ h2' = [h2 EXCEPT ![s] = "reset"]
      BY <1>5 DEF ArriveRequest, ArriveReset, ArriveStreamWindow, Arrive, writerVars
    <2>2. (h2'[r] = "ended") = (h2[r] = "ended")
      BY <1>0, <2>1
    <2>. QED  BY <1>1, <2>1, <2>2
  <1>6. CASE ArriveGoaway
    BY <1>1, <1>6 DEF ArriveGoaway, Arrive, writerVars
  <1>7. CASE UNCHANGED <<h2, weof, wbuf, fed, whole, sent, swindow, goaway>>
    BY <1>1, <1>7
  <1>. QED  BY <1>2, <1>3, <1>4, <1>5, <1>6, <1>7, ResponseSteps

\* The response of every stream is a byte channel, whoever sends its frames, until the
\* client resets the stream (h2.py 89-105, 176-193).
ChannelsUntilReset == \A s \in Streams : ResponseStep(s) \/ ArriveReset(s)

THEOREM ResponsesUntilReset ==
    ASSUME WideWindows
    PROVE  Spec => (\A s \in Streams : Response(s)!Init) /\ [][ChannelsUntilReset]_vars
  <1>1. Init => \A s \in Streams : Response(s)!Init
    BY DEF Init, Response!Init
  <1>2. Base /\ Ended /\ Responses /\ [Next]_vars => [ChannelsUntilReset]_vars
    BY ChannelsKept DEF ChannelsUntilReset
  <1>. QED  BY <1>1, <1>2, BaseHolds, EndedHolds, ResponsesHold, PTL DEF Spec

\* A client that resets no stream gets byte channels.
THEOREM ResponsesAreChannels ==
    ASSUME WideWindows, "reset" \notin Peer
    PROVE  Spec => ResponseSpec
  <1>1. [ChannelsUntilReset]_vars =>
            [\A s \in Streams : Response(s)!Next \/ UNCHANGED Response(s)!channel]_vars
    BY DEF ChannelsUntilReset, ResponseStep, ArriveReset
  <1>. QED  BY <1>1, ResponsesUntilReset, PTL DEF ResponseSpec
-----------------------------------------------------------------------------
(***************************************************************************)
(* The events of the loop.                                                 *)
(***************************************************************************)
Turning == {"request", "reset", "goaway"}

\* an event of another kind arrives
OtherArrives == \E e \in Event :
    /\ Arrive(e) /\ e[1] \notin Turning
    /\ UNCHANGED <<h2, goaway>>

\* an event of another kind is handled
Popped ==
    /\ pc[Loop] \in {"handle", "update"} /\ events # <<>>
    /\ Head(events)[1] \notin Turning
    /\ events' = Tail(events)
    /\ UNCHANGED <<streams, h2, goaway, weof>>
    /\ pc'[Loop] \in {"handle", "scan", "over"}
    /\ pc'[Loop] = "scan" => todo'[Loop] = streams

\* a step that concerns neither the dict nor the events
Calm ==
    /\ UNCHANGED <<streams, events, goaway>>
    /\ \A s \in Streams : h2'[s] = h2[s] \/ (h2[s] = "open" /\ h2'[s] = "ended")
    /\ \A s \in Streams : weof[s] => weof'[s]
    /\ pc[Loop] = "over" => pc'[Loop] = "over"
    /\ pc[Loop] = "idle" => pc'[Loop] \in {"idle", "over"}
    /\ pc[Loop] = "handle" /\ events = <<>> => pc'[Loop] \in {"handle", "idle", "over"}
    /\ Flushing(Loop)' =>
          /\ Flushing(Loop)
          /\ \A i \in DOMAIN todo'[Loop] : \E j \in DOMAIN todo[Loop] :
                todo'[Loop][i] = todo[Loop][j]

\* Responses and ends of writers in steps that concern neither the dict nor the events.
LEMMA CalmWriters ==
    ASSUME Base, [Next]_vars, UNCHANGED <<streams, events, goaway>>
    PROVE  /\ \A s \in Streams : h2'[s] = h2[s] \/ (h2[s] = "open" /\ h2'[s] = "ended")
           /\ \A s \in Streams : weof[s] => weof'[s]
  <1>0. h2 \in [Streams -> {"idle", "open", "ended", "reset"}] /\ weof \in [Streams -> BOOLEAN]
        /\ events \in Seq(Event)
    BY DEF Base, TypeOK
  <1>1. ASSUME NEW t \in Tasks, Sends(t)
        PROVE  /\ \A s \in Streams : h2'[s] = h2[s] \/ (h2[s] = "open" /\ h2'[s] = "ended")
               /\ weof' = weof
    <2>1. PICK s \in Streams, d \in Nat, b \in Nat, left \in Seq(Chunk) :
              /\ FrameOut(t, s, b, d, left)
              /\ FrameTaken(t, s, d, left) \/ FrameRefused(t, s, d)
      BY <1>1, SendsDoes
    <2>2. /\ weof' = weof
          /\ \/ h2' = h2
             \/ h2[s] = "open" /\ h2' = [h2 EXCEPT ![s] = "ended"]
      BY <1>0, <2>1 DEF FrameOut, FrameTaken, FrameRefused
    <2>. QED  BY <1>0, <2>2
  <1>2. ASSUME NEW s \in Streams, SendData(s) \/ SendEof(s)
        PROVE  h2' = h2 /\ \A r \in Streams : weof[r] => weof'[r]
    BY <1>2, FeedSteps DEF peerVars
  <1>3. ASSUME NEW e, Arrive(e), e \in Event PROVE FALSE
    <2>1. events' = Append(events, e) /\ events' = events
      BY <1>3 DEF Arrive
    <2>2. Len(events) \in Nat /\ Len(events') = Len(events) + 1
      BY <1>0, <1>3, <2>1, AppendOf
    <2>. QED  BY <2>1, <2>2
  <1>4. ASSUME NEW s \in Streams, ArriveRequest(s) \/ ArriveReset(s) \/ ArriveStreamWindow(s)
        PROVE  FALSE
    <2>1. <<"request", s>> \in Event /\ <<"reset", s>> \in Event /\ <<"window", s>> \in Event
      BY Numbers DEF Event, Streams
    <2>. QED  BY <1>3, <1>4, <2>1 DEF ArriveRequest, ArriveReset, ArriveStreamWindow
  <1>5. CASE ArriveGoaway
    BY <1>5 DEF ArriveGoaway, Arrive, writerVars
  <1>6. CASE UNCHANGED <<h2, weof, wbuf, fed, whole, sent, swindow, goaway>>
    BY <1>6
  <1>. QED  BY <1>1, <1>2, <1>4, <1>5, <1>6, ResponseSteps

LEMMA FlushIsCalm ==
    ASSUME Base, [Next]_vars, NEW t \in Tasks, FlushData(t)
    PROVE  Calm
  <1>1. UNCHANGED <<streams, events, goaway>>
    BY DEF FlushData, ScanSkip, ScanWait, ScanSend, ScanDone, TakeReturns, FlushReturns,
           FlushRaises, SendHead, peerVars
  <1>2. (running = t /\ pc[t] = "scan") \/ running = Nobody
    BY DEF FlushData, ScanSkip, ScanWait, ScanSend, ScanDone, TakeReturns, FlushReturns,
           FlushRaises, Scanning
  <1>3. pc[Loop] # "handle"
    BY <1>2, Numbers DEF Base, Places
  <1>4. CASE t # Loop
    <2>1. pc'[Loop] = pc[Loop] \/ pc'[Loop] = "over"
      BY <1>4, OthersRest, Numbers
    <2>2. todo'[Loop] = todo[Loop]
      BY <1>4, OthersRest, Numbers
    <2>. QED  BY <1>1, <1>3, <2>1, <2>2, CalmWriters DEF Calm, Flushing
  <1>5. CASE t = Loop
    <2>1. pc[Loop] \in {"scan", "take", "woken", "flush", "headers", "update"}
          /\ (pc[Loop] \in {"headers", "update"} => pc'[Loop] = "over")
      BY <1>5, Numbers
      DEF FlushData, ScanSkip, ScanWait, ScanSend, ScanDone, TakeReturns, FlushReturns,
          FlushRaises, Scanning, Fail, Base, TypeOK
    <2>2. TaskStep(Loop)
      BY TaskSteps, Numbers
    <2>3. ASSUME Flushing(Loop)'
          PROVE  /\ Flushing(Loop)
                 /\ \A i \in DOMAIN todo'[Loop] : \E j \in DOMAIN todo[Loop] :
                       todo'[Loop][i] = todo[Loop][j]
      <3>1. pc[Loop] \notin {"handle", "update"}
        BY <2>1, <2>3 DEF Flushing
      <3>2. \/ Flushing(Loop) /\ todo'[Loop] = todo[Loop]
            \/ Flushing(Loop) /\ todo[Loop] # <<>> /\ todo'[Loop] = Tail(todo[Loop])
        BY <2>2, <2>3, <3>1, Numbers DEF TaskStep
      <3>3. CASE todo'[Loop] = todo[Loop]
        BY <3>2, <3>3
      <3>4. CASE todo[Loop] # <<>> /\ todo'[Loop] = Tail(todo[Loop])
        <4>1. \A i \in DOMAIN Tail(todo[Loop]) :
                  i + 1 \in DOMAIN todo[Loop] /\ Tail(todo[Loop])[i] = todo[Loop][i + 1]
          BY <3>4, HeadKnown, Numbers
        <4>. QED  BY <3>2, <3>4, <4>1
      <3>. QED  BY <3>2, <3>3, <3>4
    <2>. QED  BY <1>1, <1>3, <2>1, <2>3, CalmWriters DEF Calm
  <1>. QED  BY <1>4, <1>5

LEMMA HandlersAreCalm ==
    ASSUME Base, [Next]_vars, NEW s \in Streams,
           Application(s) \/ ResponseSent(s) \/ ReadReturns(s)
    PROVE  Calm
  <1>0. pc \in [Tasks -> Spot] /\ todo \in [Tasks -> Seq(Streams)] /\ s # Loop /\ Loop \in Tasks
    BY Numbers DEF Base, TypeOK
  <1>1. UNCHANGED <<streams, events, goaway>> /\ running = Nobody
    BY DEF Application, SendResponse, SendData, SendEof, Read, ReadWaits, HandlerEnds,
           ResponseSent, ReadReturns, AtApp, peerVars
  <1>2. pc[Loop] # "handle"
    BY <1>1, Numbers DEF Base, Places
  <1>3. /\ todo'[Loop] = todo[Loop]
        /\ pc'[Loop] = pc[Loop] \/ (pc[Loop] = "take" /\ pc'[Loop] = "woken")
    <2>1. CASE SendData(s) \/ SendEof(s)
      <3>1. pc' = [Woken(s) EXCEPT ![s] = "scan"] /\ todo' = [todo EXCEPT ![s] = streams]
        BY <2>1 DEF SendData, SendEof, StartFlush
      <3>2. /\ Woken(s) \in [Tasks -> Spot]
            /\ \/ Woken(s)[Loop] = pc[Loop]
               \/ pc[Loop] = "take" /\ Head(todo[Loop]) = s /\ Woken(s)[Loop] = "woken"
        BY <1>0, WokenTyped
      <3>. QED  BY <1>0, <3>1, <3>2
    <2>2. CASE ~(SendData(s) \/ SendEof(s))
      <3>1. /\ todo' = todo
            /\ \/ pc' = pc
               \/ pc' = [u \in Tasks |-> IF s = Loop \/ u = s THEN "over" ELSE pc[u]]
               \/ \E p \in {"app", "read", "headers", "over"} : pc' = [pc EXCEPT ![s] = p]
        BY <2>2 DEF Application, SendResponse, Read, ReadWaits, HandlerEnds,
                    ResponseSent, ReadReturns, AtApp, Fail, Goto, taskVars
      <3>. QED  BY <1>0, <3>1
    <2>. QED  BY <2>1, <2>2
  <1>. QED  BY <1>1, <1>2, <1>3, CalmWriters DEF Calm, Flushing

LEMMA QueueSteps ==
    ASSUME Base, [Next]_vars
    PROVE  \/ \E s \in Streams : ArriveRequest(s) \/ ArriveReset(s)
           \/ ArriveGoaway \/ ArriveRefused \/ OtherArrives
           \/ HandleRequest \/ HandleReset \/ HandleGoaway
           \/ Popped \/ Calm
  <1>1. CASE Arrival
    <2>1. CASE \E s \in Streams : ArriveData(s) \/ ArriveEnded(s) \/ ArriveStreamWindow(s)
      <3>1. PICK s \in Streams : ArriveData(s) \/ ArriveEnded(s) \/ ArriveStreamWindow(s)
        BY <2>1
      <3>2. PICK kind \in {"data", "ended", "window"} : Arrive(<<kind, s>>)
        BY <3>1 DEF ArriveData, ArriveEnded, ArriveStreamWindow
      <3>3. <<kind, s>> \in Event /\ <<kind, s>>[1] \notin Turning
        BY Numbers DEF Event, Streams, Turning
      <3>4. UNCHANGED <<h2, goaway>>
        BY <3>1 DEF ArriveData, ArriveEnded, ArriveStreamWindow
      <3>. QED  BY <3>2, <3>3, <3>4 DEF OtherArrives
    <2>2. CASE ArriveWindow \/ ArriveAck \/ ArrivePing
      <3>1. PICK kind \in {"window", "ack", "ping"} : Arrive(<<kind, 0>>)
        BY <2>2 DEF ArriveWindow, ArriveAck, ArrivePing
      <3>2. <<kind, 0>> \in Event /\ <<kind, 0>>[1] \notin Turning
        BY Numbers DEF Event, Turning
      <3>3. UNCHANGED <<h2, goaway>>
        BY <2>2 DEF ArriveWindow, ArriveAck, ArrivePing
      <3>. QED  BY <3>1, <3>2, <3>3 DEF OtherArrives
    <2>. QED  BY <1>1, <2>1, <2>2 DEF Arrival
  <1>2. CASE Handle
    <2>0. pc \in [Tasks -> Spot] /\ Loop \in Tasks /\ todo \in [Tasks -> Seq(Streams)]
      BY Numbers DEF Base, TypeOK
    <2>1. CASE BatchEnds \/ HandlingEnds \/ ReceiveRaises
      <3>1. /\ UNCHANGED <<streams, events, goaway>>
            /\ pc[Loop] = "handle" => pc'[Loop] = "idle"
            /\ pc[Loop] = "idle" => pc'[Loop] = "over"
            /\ pc[Loop] # "over" /\ pc'[Loop] \in {"handle", "idle", "over"}
        BY <2>0, <2>1 DEF BatchEnds, HandlingEnds, ReceiveRaises, Goto, peerVars
      <3>. QED  BY <3>1, CalmWriters DEF Calm, Flushing
    <2>2. CASE HandleData \/ HandleEnded \/ HandleAck \/ HandlePing
      <3>1. /\ events # <<>> /\ pc[Loop] = "handle" /\ Head(events)[1] \notin Turning
            /\ events' = Tail(events) /\ UNCHANGED <<streams, h2, goaway, weof>>
        BY <2>2 DEF HandleData, HandleEnded, HandleAck, HandlePing, Handling, Turning,
                    peerVars, writerVars
      <3>2. \/ pc' = pc
            \/ StartFlush(Loop, pc)
            \/ pc'[Loop] = "over"
        BY <2>0, <2>2 DEF HandleData, HandleEnded, HandleAck, HandlePing, Fail, taskVars
      <3>3. StartFlush(Loop, pc) => pc'[Loop] = "scan" /\ todo'[Loop] = streams
        BY <2>0 DEF StartFlush
      <3>. QED  BY <3>1, <3>2, <3>3 DEF Popped
    <2>3. CASE HandleWindow
      <3>1. /\ events # <<>> /\ pc[Loop] = "handle" /\ Head(events)[1] \notin Turning
            /\ UNCHANGED <<streams, h2, goaway, weof>>
        BY <2>3 DEF HandleWindow, Handling, Turning, writerVars
      <3>2. CASE inbound
        <4>1. events' = events /\ pc'[Loop] \in {"over", "update"}
          BY <2>0, <2>3, <3>2 DEF HandleWindow, Fail, Goto
        <4>. QED  BY <3>1, <4>1 DEF Calm, Flushing
      <3>3. CASE ~inbound
        <4>1. events' = Tail(events) /\ (pc' = pc \/ StartFlush(Loop, pc))
          BY <2>3, <3>3 DEF HandleWindow
        <4>2. StartFlush(Loop, pc) => pc'[Loop] = "scan" /\ todo'[Loop] = streams
          BY <2>0 DEF StartFlush
        <4>. QED  BY <3>1, <4>1, <4>2 DEF Popped
      <3>. QED  BY <3>2, <3>3
    <2>4. CASE WindowFlushed
      <3>1. /\ events # <<>> /\ pc[Loop] = "update" /\ Head(events)[1] \notin Turning
            /\ events' = Tail(events) /\ UNCHANGED <<streams, h2, goaway, weof>>
        BY <2>4 DEF WindowFlushed, Base, Places, Turning, peerVars, writerVars
      <3>2. pc'[Loop] = "handle" \/ StartFlush(Loop, pc)
        BY <2>0, <2>4 DEF WindowFlushed, Goto
      <3>3. StartFlush(Loop, pc) => pc'[Loop] = "scan" /\ todo'[Loop] = streams
        BY <2>0 DEF StartFlush
      <3>. QED  BY <3>1, <3>2, <3>3 DEF Popped
    <2>. QED  BY <1>2, <2>1, <2>2, <2>3, <2>4 DEF Handle
  <1>3. CASE UNCHANGED vars
    BY <1>3 DEF vars, taskVars, peerVars, writerVars, Calm, Flushing
  <1>4. CASE \E t \in Tasks : FlushData(t)
    BY <1>4, FlushIsCalm
  <1>5. CASE \E s \in Streams : Application(s) \/ ResponseSent(s) \/ ReadReturns(s)
    BY <1>5, HandlersAreCalm
  <1>. QED  BY <1>1, <1>2, <1>3, <1>4, <1>5 DEF Next
-----------------------------------------------------------------------------
Queued(kind, s) == \E i \in DOMAIN events : events[i] = <<kind, s>>

LEMMA Grown ==
    ASSUME Base, NEW e \in Event, Arrive(e)
    PROVE  /\ DOMAIN events = 1 .. Len(events) /\ Len(events) \in Nat
           /\ DOMAIN events' = 1 .. Len(events) + 1
           /\ \A i \in DOMAIN events : i \in DOMAIN events' /\ events'[i] = events[i]
           /\ Len(events) + 1 \in DOMAIN events' /\ events'[Len(events) + 1] = e
           /\ \A i \in DOMAIN events' : i \in DOMAIN events \/ i = Len(events) + 1
           /\ UNCHANGED <<streams, weof, todo, fault>> /\ ~goaway
           /\ pc[Loop] \in {"idle", "arriving"} /\ pc'[Loop] = "arriving"
  <1>1. events \in Seq(Event) /\ events' = Append(events, e)
    BY DEF Base, TypeOK, Arrive
  <1>2. /\ DOMAIN events = 1 .. Len(events) /\ Len(events) \in Nat
        /\ DOMAIN events' = 1 .. Len(events) + 1
        /\ \A i \in DOMAIN events : i \in DOMAIN events' /\ events'[i] = events[i]
        /\ Len(events) + 1 \in DOMAIN events' /\ events'[Len(events) + 1] = e
    BY <1>1, AppendOf
  <1>3. \A i \in DOMAIN events' : i \in DOMAIN events \/ i = Len(events) + 1
    BY <1>2
  <1>4. /\ UNCHANGED <<streams, weof, todo, fault>> /\ ~goaway
        /\ pc[Loop] \in {"idle", "arriving"} /\ pc'[Loop] = "arriving"
    BY Numbers DEF Arrive, Receiving, Goto, writerVars, Base, TypeOK
  <1>. QED  BY <1>2, <1>3, <1>4

LEMMA Shifted ==
    ASSUME Base, events # <<>>, events' = Tail(events)
    PROVE  /\ DOMAIN events = 1 .. Len(events) /\ Len(events) \in Nat /\ 1 \in DOMAIN events
           /\ DOMAIN events' = 1 .. Len(events) - 1
           /\ Head(events) = events[1]
           /\ \A i \in DOMAIN events' : i + 1 \in DOMAIN events /\ events'[i] = events[i + 1]
           /\ \A k \in DOMAIN events :
                 k = 1 \/ (k - 1 \in DOMAIN events' /\ events'[k - 1] = events[k])
           /\ \A kind, s : Queued(kind, s)' => Queued(kind, s)
           /\ \A kind, s : Queued(kind, s) /\ Head(events) # <<kind, s>> => Queued(kind, s)'
  <1>1. /\ DOMAIN events = 1 .. Len(events) /\ Len(events) \in Nat /\ 1 \in DOMAIN events
        /\ DOMAIN events' = 1 .. Len(events) - 1
        /\ Head(events) = events[1]
        /\ \A i \in DOMAIN events' : i + 1 \in DOMAIN events /\ events'[i] = events[i + 1]
    BY NextEvents DEF Base
  <1>2. ASSUME NEW k \in DOMAIN events, k # 1
        PROVE  k - 1 \in DOMAIN events' /\ events'[k - 1] = events[k]
    <2>1. k - 1 \in DOMAIN events' /\ (k - 1) + 1 = k
      BY <1>1, <1>2
    <2>. QED  BY <1>1, <2>1
  <1>3. \A kind, s : Queued(kind, s)' => Queued(kind, s)
    BY <1>1 DEF Queued
  <1>4. \A kind, s : Queued(kind, s) /\ Head(events) # <<kind, s>> => Queued(kind, s)'
    BY <1>1, <1>2 DEF Queued
  <1>. QED  BY <1>1, <1>2, <1>3, <1>4

\* The loop is handed the events of a stream in order: a request only once, a reset after
\* the request; and the dict has a stream once, after its request.
Keys ==
    /\ \A i, j \in DOMAIN streams : streams[i] = streams[j] => i = j
    /\ \A s \in Streams : ~(InDict(s) /\ Queued("request", s))
    /\ \A i, j \in DOMAIN events : events[i][1] = "request" /\ events[i] = events[j] => i = j
    /\ \A i, j \in DOMAIN events :
          events[i] = <<"reset", events[j][2]>> /\ events[j][1] = "request" => j < i

LEMMA KeysGrow ==
    ASSUME Base, Keys, NEW e \in Event, Arrive(e),
           e[1] = "request" => e[2] \in Streams /\ h2[e[2]] = "idle"
    PROVE  Keys'
  <1>1. /\ DOMAIN events = 1 .. Len(events) /\ Len(events) \in Nat
        /\ \A i \in DOMAIN events : i \in DOMAIN events' /\ events'[i] = events[i]
        /\ events'[Len(events) + 1] = e
        /\ \A i \in DOMAIN events' : i \in DOMAIN events \/ i = Len(events) + 1
        /\ streams' = streams
    BY Grown
  <1>2. e[1] = "request" =>
           /\ ~InDict(e[2])
           /\ \A i \in DOMAIN events : events[i][1] \in {"request", "reset"} => events[i][2] # e[2]
    BY DEF Base, StreamsKnown, EventsKnown, InDict
  <1>3. \A i, j \in DOMAIN streams' : streams'[i] = streams'[j] => i = j
    BY <1>1 DEF Keys
  <1>4. ASSUME NEW s \in Streams, InDict(s)', Queued("request", s)' PROVE FALSE
    <2>1. InDict(s)
      BY <1>1, <1>4 DEF InDict
    <2>2. PICK i \in DOMAIN events' : events'[i] = <<"request", s>>
      BY <1>4 DEF Queued
    <2>3. CASE i \in DOMAIN events
      BY <1>1, <2>1, <2>2, <2>3 DEF Keys, Queued
    <2>4. CASE i = Len(events) + 1
      BY <1>1, <1>2, <2>1, <2>2, <2>4
    <2>. QED  BY <1>1, <2>3, <2>4
  <1>5. ASSUME NEW i \in DOMAIN events', NEW j \in DOMAIN events',
               events'[i][1] = "request", events'[i] = events'[j]
        PROVE  i = j
    <2>1. CASE i \in DOMAIN events /\ j \in DOMAIN events
      BY <1>1, <1>5, <2>1 DEF Keys
    <2>2. CASE i \in DOMAIN events /\ j = Len(events) + 1
      BY <1>1, <1>2, <1>5, <2>2
    <2>3. CASE i = Len(events) + 1 /\ j \in DOMAIN events
      BY <1>1, <1>2, <1>5, <2>3
    <2>. QED  BY <1>1, <2>1, <2>2, <2>3
  <1>6. ASSUME NEW i \in DOMAIN events', NEW j \in DOMAIN events',
               events'[i] = <<"reset", events'[j][2]>>, events'[j][1] = "request"
        PROVE  j < i
    <2>0. events'[i][1] = "reset" /\ events'[i][2] = events'[j][2]
      BY <1>6
    <2>1. CASE i \in DOMAIN events /\ j \in DOMAIN events
      BY <1>1, <1>6, <2>1 DEF Keys
    <2>2. CASE i \in DOMAIN events /\ j = Len(events) + 1
      BY <1>1, <1>2, <1>6, <2>0, <2>2
    <2>3. CASE i = Len(events) + 1 /\ j \in DOMAIN events
      BY <1>1, <2>3
    <2>4. CASE i = Len(events) + 1 /\ j = Len(events) + 1
      BY <1>6, <2>0, <2>4
    <2>. QED  BY <1>1, <2>1, <2>2, <2>3, <2>4
  <1>. QED  BY <1>3, <1>4, <1>5, <1>6 DEF Keys

LEMMA KeysShift ==
    ASSUME Base, Keys, events # <<>>, events' = Tail(events)
    PROVE  /\ \A i, j \in DOMAIN events' : events'[i][1] = "request" /\ events'[i] = events'[j] => i = j
           /\ \A i, j \in DOMAIN events' :
                 events'[i] = <<"reset", events'[j][2]>> /\ events'[j][1] = "request" => j < i
  <1>1. /\ DOMAIN events' = 1 .. Len(events) - 1 /\ Len(events) \in Nat
        /\ \A i \in DOMAIN events' : i + 1 \in DOMAIN events /\ events'[i] = events[i + 1]
    BY Shifted
  <1>2. ASSUME NEW i \in DOMAIN events', NEW j \in DOMAIN events',
               events'[i][1] = "request", events'[i] = events'[j]
        PROVE  i = j
    <2>1. i + 1 = j + 1
      BY <1>1, <1>2 DEF Keys
    <2>. QED  BY <1>1, <2>1
  <1>3. ASSUME NEW i \in DOMAIN events', NEW j \in DOMAIN events',
               events'[i] = <<"reset", events'[j][2]>>, events'[j][1] = "request"
        PROVE  j < i
    <2>1. /\ i + 1 \in DOMAIN events /\ j + 1 \in DOMAIN events
          /\ events[i + 1] = <<"reset", events[j + 1][2]>> /\ events[j + 1][1] = "request"
      BY <1>1, <1>3
    <2>2. j + 1 < i + 1
      BY <2>1 DEF Keys
    <2>. QED  BY <1>1, <2>2
  <1>. QED  BY <1>2, <1>3

LEMMA KeysKept ==
    ASSUME Base, Keys, [Next]_vars
    PROVE  Keys'
  <1>1. ASSUME NEW s \in Streams, ArriveRequest(s) PROVE Keys'
    <2>1. <<"request", s>> \in Event /\ Arrive(<<"request", s>>) /\ h2[s] = "idle"
      BY <1>1, Numbers DEF ArriveRequest, Event, Streams
    <2>. QED  BY <2>1, KeysGrow
  <1>2. ASSUME NEW s \in Streams, ArriveReset(s) PROVE Keys'
    <2>1. <<"reset", s>> \in Event /\ Arrive(<<"reset", s>>)
      BY <1>2, Numbers DEF ArriveReset, Event, Streams
    <2>. QED  BY <2>1, KeysGrow
  <1>3. CASE ArriveGoaway
    <2>1. <<"goaway", 0>> \in Event /\ Arrive(<<"goaway", 0>>)
      BY <1>3, Numbers DEF ArriveGoaway, Event
    <2>. QED  BY <2>1, KeysGrow
  <1>4. CASE OtherArrives
    BY <1>4, KeysGrow DEF OtherArrives, Turning
  <1>5. CASE ArriveRefused \/ HandleGoaway
    <2>1. events' = <<>> /\ streams' = streams /\ DOMAIN <<>> = {}
      BY <1>5 DEF ArriveRefused, HandleGoaway
    <2>. QED  BY <2>1 DEF Keys, InDict, Queued
  <1>6. CASE HandleRequest
    <2>1. /\ events # <<>> /\ Subject \in Streams /\ Head(events) = <<"request", Subject>>
          /\ events' = Tail(events) /\ streams' = Append(streams, Subject)
      BY <1>6, Subjects DEF HandleRequest
    <2>2. /\ DOMAIN events = 1 .. Len(events) /\ Len(events) \in Nat /\ 1 \in DOMAIN events
          /\ DOMAIN events' = 1 .. Len(events) - 1
          /\ events[1] = <<"request", Subject>>
          /\ \A i \in DOMAIN events' : i + 1 \in DOMAIN events /\ events'[i] = events[i + 1]
      BY <2>1, Shifted
    <2>3. /\ DOMAIN streams = 1 .. Len(streams) /\ Len(streams) \in Nat
          /\ DOMAIN streams' = 1 .. Len(streams) + 1
          /\ \A i \in DOMAIN streams : streams'[i] = streams[i]
          /\ streams'[Len(streams) + 1] = Subject
      BY <2>1, AppendOf DEF Base, TypeOK
    <2>4. ~InDict(Subject)
      BY <2>1, <2>2 DEF Keys, Queued
    <2>5. ASSUME NEW i \in DOMAIN streams', NEW j \in DOMAIN streams', streams'[i] = streams'[j]
          PROVE  i = j
      <3>1. CASE i \in DOMAIN streams /\ j \in DOMAIN streams
        BY <2>3, <2>5, <3>1 DEF Keys
      <3>2. CASE i \in DOMAIN streams /\ j = Len(streams) + 1
        BY <2>3, <2>4, <2>5, <3>2 DEF InDict
      <3>3. CASE i = Len(streams) + 1 /\ j \in DOMAIN streams
        BY <2>3, <2>4, <2>5, <3>3 DEF InDict
      <3>. QED  BY <2>3, <3>1, <3>2, <3>3
    <2>6. ASSUME NEW s \in Streams, InDict(s)', Queued("request", s)' PROVE FALSE
      <3>1. PICK i \in DOMAIN events' : events'[i] = <<"request", s>>
        BY <2>6 DEF Queued
      <3>2. i + 1 \in DOMAIN events /\ events[i + 1] = <<"request", s>> /\ i + 1 # 1
        BY <2>2, <3>1
      <3>3. CASE s = Subject
        BY <2>2, <3>2, <3>3 DEF Keys
      <3>4. CASE s # Subject
        <4>1. InDict(s)
          <5>1. PICK j \in DOMAIN streams' : streams'[j] = s
            BY <2>6 DEF InDict
          <5>2. j \in DOMAIN streams
            BY <2>3, <3>4, <5>1
          <5>. QED  BY <2>3, <5>1, <5>2 DEF InDict
        <4>. QED  BY <3>2, <4>1 DEF Keys, Queued
      <3>. QED  BY <3>3, <3>4
    <2>. QED  BY <2>1, <2>5, <2>6, KeysShift DEF Keys
  <1>7. CASE HandleReset
    <2>1. events # <<>> /\ events' = Tail(events) /\ Forget(Subject) /\ Subject \in Streams
      BY <1>7, Subjects DEF HandleReset
    <2>2. /\ \A j \in DOMAIN streams' : \E k \in DOMAIN streams : streams'[j] = streams[k]
          /\ \A i, j \in DOMAIN streams' : streams'[i] = streams'[j] => i = j
      BY <2>1, Forgotten DEF Base, Keys
    <2>3. \A s \in Streams : ~(InDict(s)' /\ Queued("request", s)')
      <3>1. \A s \in Streams : Queued("request", s)' => Queued("request", s)
        BY <2>1, Shifted
      <3>2. \A s \in Streams : InDict(s)' => InDict(s)
        BY <2>2 DEF InDict
      <3>. QED  BY <3>1, <3>2 DEF Keys
    <2>. QED  BY <2>1, <2>2, <2>3, KeysShift DEF Keys
  <1>8. CASE Popped
    <2>1. events # <<>> /\ events' = Tail(events) /\ streams' = streams
      BY <1>8 DEF Popped
    <2>2. \A i, j \in DOMAIN streams' : streams'[i] = streams'[j] => i = j
      BY <2>1 DEF Keys
    <2>3. \A s \in Streams : ~(InDict(s)' /\ Queued("request", s)')
      <3>1. \A s \in Streams : Queued("request", s)' => Queued("request", s)
        BY <2>1, Shifted
      <3>2. \A s \in Streams : InDict(s)' => InDict(s)
        BY <2>1 DEF InDict
      <3>. QED  BY <3>1, <3>2 DEF Keys
    <2>. QED  BY <2>1, <2>2, <2>3, KeysShift DEF Keys
  <1>9. CASE Calm
    BY <1>9 DEF Calm, Keys, InDict, Queued
  <1>. QED  BY <1>1, <1>2, <1>3, <1>4, <1>5, <1>6, <1>7, <1>8, <1>9, QueueSteps

\* the client opens its streams in the order of their numbers
InTurn == \A r, s \in Streams : r < s /\ h2[s] # "idle" => h2[r] # "idle"

LEMMA InTurnKept ==
    ASSUME Base, InTurn, [Next]_vars
    PROVE  InTurn'
  <1>0. h2 \in [Streams -> {"idle", "open", "ended", "reset"}]
    BY DEF Base, TypeOK
  <1>1. ASSUME NEW s \in Streams, ArriveRequest(s) PROVE InTurn'
    <2>1. /\ \A r \in Streams : r < s => h2[r] # "idle"
          /\ h2' = [h2 EXCEPT ![s] = "open"]
      BY <1>1 DEF ArriveRequest
    <2>. QED  BY <1>0, <2>1 DEF InTurn
  <1>2. ASSUME NEW s \in Streams, ArriveReset(s) PROVE InTurn'
    <2>1. h2[s] # "idle" /\ h2' = [h2 EXCEPT ![s] = "reset"]
      BY <1>2 DEF ArriveReset
    <2>. QED  BY <1>0, <2>1 DEF InTurn
  <1>3. CASE ArriveGoaway \/ ArriveRefused \/ OtherArrives \/ HandleRequest \/ HandleReset
             \/ HandleGoaway \/ Popped
    <2>1. h2' = h2
      BY <1>3 DEF ArriveGoaway, ArriveRefused, OtherArrives, HandleRequest, HandleReset,
                  HandleGoaway, Popped, peerVars
    <2>. QED  BY <2>1 DEF InTurn
  <1>4. CASE Calm
    BY <1>4 DEF Calm, InTurn
  <1>. QED  BY <1>1, <1>2, <1>3, <1>4, QueueSteps
-----------------------------------------------------------------------------
(***************************************************************************)
(* GOAWAY: the loop has the event, until it has handled it and gone back to *)
(* the transport, where nothing more arrives.                              *)
(***************************************************************************)
Parting ==
    /\ Pending("goaway") => goaway
    /\ goaway /\ pc[Loop] \notin {"idle", "over"} =>
          Pending("goaway") \/ (pc[Loop] = "handle" /\ events = <<>>)

\* An event of another kind is taken from the queue.
LEMMA PendingShift ==
    ASSUME Base, events # <<>>, events' = Tail(events), NEW kind
    PROVE  /\ Pending(kind)' => Pending(kind)
           /\ Pending(kind) /\ Head(events)[1] # kind => Pending(kind)'
  BY Shifted DEF Pending

LEMMA PendingGrow ==
    ASSUME Base, NEW e \in Event, Arrive(e), NEW kind
    PROVE  /\ Pending(kind)' => Pending(kind) \/ e[1] = kind
           /\ Pending(e[1])'
  <1>1. /\ \A i \in DOMAIN events : i \in DOMAIN events' /\ events'[i] = events[i]
        /\ Len(events) + 1 \in DOMAIN events' /\ events'[Len(events) + 1] = e
        /\ \A i \in DOMAIN events' : i \in DOMAIN events \/ i = Len(events) + 1
    BY Grown
  <1>. QED  BY <1>1 DEF Pending

LEMMA PartingKept ==
    ASSUME Base, Parting, [Next]_vars
    PROVE  Parting'
  <1>1. ASSUME NEW s \in Streams, ArriveRequest(s) \/ ArriveReset(s) PROVE Parting'
    <2>1. PICK kind \in {"request", "reset"} : Arrive(<<kind, s>>) /\ goaway' = goaway
      BY <1>1 DEF ArriveRequest, ArriveReset
    <2>2. <<kind, s>> \in Event /\ <<kind, s>>[1] # "goaway"
      BY Numbers DEF Event, Streams
    <2>3. ~goaway
      BY <2>1 DEF Arrive
    <2>. QED  BY <2>1, <2>2, <2>3, PendingGrow DEF Parting
  <1>2. CASE ArriveGoaway
    <2>1. <<"goaway", 0>> \in Event /\ Arrive(<<"goaway", 0>>) /\ goaway'
      BY <1>2, Numbers DEF ArriveGoaway, Event
    <2>2. Pending("goaway")'
      BY <2>1, PendingGrow
    <2>. QED  BY <2>1, <2>2 DEF Parting
  <1>3. CASE OtherArrives
    <2>1. PICK e \in Event : Arrive(e) /\ e[1] \notin Turning /\ UNCHANGED <<h2, goaway>>
      BY <1>3 DEF OtherArrives
    <2>2. ~goaway
      BY <2>1 DEF Arrive
    <2>. QED  BY <2>1, <2>2, PendingGrow DEF Parting, Turning
  <1>4. CASE ArriveRefused
    <2>1. pc'[Loop] = "over" /\ events' = <<>> /\ DOMAIN <<>> = {}
      BY <1>4, Numbers DEF ArriveRefused, Fail
    <2>. QED  BY <2>1 DEF Parting, Pending
  <1>5. CASE HandleRequest \/ HandleReset
    <2>1. /\ events # <<>> /\ Head(events)[1] # "goaway" /\ events' = Tail(events)
          /\ pc[Loop] = "handle" /\ goaway' = goaway
      BY <1>5 DEF HandleRequest, HandleReset, Handling, peerVars
    <2>. QED  BY <2>1, PendingShift DEF Parting
  <1>6. CASE HandleGoaway
    <2>1. /\ pc[Loop] = "handle" /\ pc' = pc /\ events' = <<>> /\ DOMAIN <<>> = {}
      BY <1>6 DEF HandleGoaway, Handling, taskVars
    <2>. QED  BY <2>1 DEF Parting, Pending
  <1>7. CASE Popped
    <2>1. /\ events # <<>> /\ Head(events)[1] # "goaway" /\ events' = Tail(events)
          /\ pc[Loop] \in {"handle", "update"} /\ goaway' = goaway
      BY <1>7 DEF Popped, Turning
    <2>. QED  BY <2>1, PendingShift DEF Parting
  <1>8. CASE Calm
    <2>1. Pending("goaway")' = Pending("goaway")
      BY <1>8 DEF Calm, Pending
    <2>2. pc'[Loop] \notin {"idle", "over"} => pc[Loop] \notin {"idle", "over"}
      BY <1>8 DEF Calm
    <2>3. pc[Loop] = "handle" /\ events = <<>> /\ pc'[Loop] \notin {"idle", "over"} =>
              pc'[Loop] = "handle" /\ events' = <<>>
      BY <1>8 DEF Calm
    <2>. QED  BY <1>8, <2>1, <2>2, <2>3 DEF Calm, Parting
  <1>. QED  BY <1>1, <1>2, <1>3, <1>4, <1>5, <1>6, <1>7, <1>8, QueueSteps
-----------------------------------------------------------------------------
(***************************************************************************)
(* A stream that the library has reset and the loop still holds has its     *)
(* reset in the batch that the loop handles.                               *)
(***************************************************************************)
Opened(s) == InDict(s) \/ Queued("request", s)
InSnapshot(s) == Flushing(Loop) /\ \E i \in DOMAIN todo[Loop] : todo[Loop][i] = s
Told == pc[Loop] # "over" /\ ~goaway =>
    \A s \in Streams : h2[s] = "reset" /\ (Opened(s) \/ InSnapshot(s)) => Queued("reset", s)

\* Events arrive: what was queued is, and only a request opens.
LEMMA ToldGrow ==
    ASSUME Base, NEW e \in Event, Arrive(e)
    PROVE  /\ \A kind, s : Queued(kind, s) => Queued(kind, s)'
           /\ \A kind, s : Queued(kind, s)' => Queued(kind, s) \/ e = <<kind, s>>
           /\ \A s : InDict(s)' = InDict(s)
           /\ \A s : ~InSnapshot(s)'
           /\ Queued(e[1], e[2])'
           /\ ~goaway /\ pc[Loop] # "over"
  <1>1. /\ \A i \in DOMAIN events : i \in DOMAIN events' /\ events'[i] = events[i]
        /\ Len(events) + 1 \in DOMAIN events' /\ events'[Len(events) + 1] = e
        /\ \A i \in DOMAIN events' : i \in DOMAIN events \/ i = Len(events) + 1
        /\ streams' = streams /\ pc'[Loop] = "arriving" /\ ~goaway
        /\ pc[Loop] \in {"idle", "arriving"}
    BY Grown
  <1>2. e = <<e[1], e[2]>>
    BY DEF Event
  <1>3. \A s : InDict(s)' = InDict(s)
    BY <1>1 DEF InDict
  <1>4. \A s : ~InSnapshot(s)'
    BY <1>1 DEF InSnapshot, Flushing
  <1>5. \A kind, s : Queued(kind, s) => Queued(kind, s)'
    BY <1>1 DEF Queued
  <1>6. \A kind, s : Queued(kind, s)' => Queued(kind, s) \/ e = <<kind, s>>
    BY <1>1 DEF Queued
  <1>7. Queued(e[1], e[2])'
    BY <1>1, <1>2 DEF Queued
  <1>. QED  BY <1>1, <1>3, <1>4, <1>5, <1>6, <1>7

\* A reset is handled: its stream is no longer in the dict, and not asked for again.
LEMMA ResetForgets ==
    ASSUME Base, Keys, HandleReset
    PROVE  \E s \in Streams :
              /\ events # <<>> /\ Head(events) = <<"reset", s>> /\ events' = Tail(events)
              /\ ~Opened(s)'
              /\ \A r \in Streams : Opened(r)' => Opened(r)
              /\ \A r \in Streams : InDict(r)' => InDict(r)
  <1>1. PICK s \in Streams :
            /\ events # <<>> /\ Head(events) = <<"reset", s>>
            /\ events' = Tail(events) /\ Forget(s)
    BY Subjects DEF HandleReset
  <1>2. /\ \A j \in DOMAIN streams' : \E k \in DOMAIN streams : streams'[j] = streams[k]
        /\ ~InDict(s)'
    BY <1>1, Forgotten DEF Base, Keys
  <1>3. ~Queued("request", s)'
    <2>1. ASSUME Queued("request", s) PROVE FALSE
      <3>1. PICK j \in DOMAIN events : events[j] = <<"request", s>>
        BY <2>1 DEF Queued
      <3>2. /\ 1 \in DOMAIN events /\ events[1] = <<"reset", events[j][2]>>
            /\ DOMAIN events = 1 .. Len(events) /\ events[j][1] = "request"
        BY <1>1, <3>1, Shifted
      <3>3. j < 1
        BY <3>2 DEF Keys
      <3>. QED  BY <3>2, <3>3
    <2>. QED  BY <1>1, <2>1, Shifted
  <1>4. \A r \in Streams : InDict(r)' => InDict(r)
    BY <1>2 DEF InDict
  <1>5. \A r \in Streams : Opened(r)' => Opened(r)
    <2>1. \A r \in Streams : Queued("request", r)' => Queued("request", r)
      BY <1>1, Shifted
    <2>. QED  BY <1>4, <2>1 DEF Opened
  <1>6. ~Opened(s)'
    BY <1>2, <1>3 DEF Opened
  <1>. QED  BY <1>1, <1>4, <1>5, <1>6

\* A request is handled: its stream enters the dict.
LEMMA RequestEnters ==
    ASSUME Base, HandleRequest
    PROVE  \E s \in Streams :
              /\ events # <<>> /\ Head(events) = <<"request", s>> /\ events' = Tail(events)
              /\ \A r \in Streams : InDict(r)' => InDict(r) \/ r = s
              /\ pc[Loop] = "handle" /\ pc'[Loop] = "handle"
              /\ UNCHANGED <<h2, weof, goaway>>
  <1>1. PICK s \in Streams :
            /\ events # <<>> /\ Head(events) = <<"request", s>>
            /\ events' = Tail(events) /\ streams' = Append(streams, s)
            /\ pc[Loop] = "handle" /\ pc' = [pc EXCEPT ![s] = "app"]
            /\ UNCHANGED <<h2, weof, goaway>>
    BY Subjects DEF HandleRequest, Goto, peerVars, writerVars
  <1>2. pc'[Loop] = "handle"
    BY <1>1, Numbers DEF Base, TypeOK
  <1>3. ASSUME NEW r \in Streams, InDict(r)' PROVE InDict(r) \/ r = s
    <2>1. streams \in Seq(Streams)
      BY DEF Base, TypeOK
    <2>2. /\ DOMAIN streams' = 1 .. Len(streams) + 1 /\ Len(streams) \in Nat
          /\ DOMAIN streams = 1 .. Len(streams)
          /\ \A i \in DOMAIN streams : streams'[i] = streams[i]
          /\ streams'[Len(streams) + 1] = s
      BY <1>1, <2>1, AppendOf
    <2>3. PICK j \in DOMAIN streams' : streams'[j] = r
      BY <1>3 DEF InDict
    <2>. QED  BY <2>2, <2>3 DEF InDict
  <1>. QED  BY <1>1, <1>2, <1>3

LEMMA ToldKept ==
    ASSUME Base, Keys, Parting, Told, [Next]_vars
    PROVE  Told'
  <1>0. h2 \in [Streams -> {"idle", "open", "ended", "reset"}]
    BY DEF Base, TypeOK
  <1>1. ASSUME NEW s \in Streams, ArriveRequest(s) PROVE Told'
    <2>1. <<"request", s>> \in Event /\ Arrive(<<"request", s>>)
          /\ h2' = [h2 EXCEPT ![s] = "open"]
      BY <1>1, Numbers DEF ArriveRequest, Event, Streams
    <2>2. \A r \in Streams : h2'[r] = "reset" => h2[r] = "reset" /\ r # s
      BY <1>0, <2>1
    <2>3. \A r \in Streams \ {s} : Opened(r)' => Opened(r)
      BY <2>1, ToldGrow DEF Opened
    <2>. QED  BY <2>1, <2>2, <2>3, ToldGrow DEF Told
  <1>2. ASSUME NEW s \in Streams, ArriveReset(s) PROVE Told'
    <2>1. <<"reset", s>> \in Event /\ Arrive(<<"reset", s>>)
          /\ h2' = [h2 EXCEPT ![s] = "reset"]
      BY <1>2, Numbers DEF ArriveReset, Event, Streams
    <2>2. \A r \in Streams : h2'[r] = "reset" => h2[r] = "reset" \/ r = s
      BY <1>0, <2>1
    <2>3. \A r \in Streams : Opened(r)' => Opened(r)
      BY <2>1, ToldGrow DEF Opened
    <2>4. Queued("reset", s)'
      BY <2>1, ToldGrow
    <2>. QED  BY <2>1, <2>2, <2>3, <2>4, ToldGrow DEF Told
  <1>3. CASE ArriveGoaway
    BY <1>3 DEF ArriveGoaway, Told
  <1>4. CASE OtherArrives
    <2>1. PICK e \in Event : Arrive(e) /\ e[1] \notin Turning /\ UNCHANGED <<h2, goaway>>
      BY <1>4 DEF OtherArrives
    <2>2. \A r \in Streams : Opened(r)' => Opened(r)
      BY <2>1, ToldGrow DEF Opened, Turning
    <2>. QED  BY <2>1, <2>2, ToldGrow DEF Told
  <1>5. CASE ArriveRefused
    <2>1. pc'[Loop] = "over"
      BY <1>5, Numbers DEF ArriveRefused, Fail
    <2>. QED  BY <2>1 DEF Told
  <1>6. CASE HandleRequest
    <2>1. PICK s \in Streams :
              /\ events # <<>> /\ Head(events) = <<"request", s>> /\ events' = Tail(events)
              /\ \A r \in Streams : InDict(r)' => InDict(r) \/ r = s
              /\ pc[Loop] = "handle" /\ pc'[Loop] = "handle"
              /\ UNCHANGED <<h2, weof, goaway>>
      BY <1>6, RequestEnters
    <2>2. Queued("request", s)
      BY <2>1, Shifted DEF Queued
    <2>3. \A r \in Streams : Queued("request", r)' => Queued("request", r)
      BY <2>1, Shifted
    <2>4. \A r \in Streams : Opened(r)' => Opened(r)
      BY <2>1, <2>2, <2>3 DEF Opened
    <2>5. \A r \in Streams : Queued("reset", r) => Queued("reset", r)'
      BY <2>1, Shifted
    <2>. QED  BY <2>1, <2>4, <2>5 DEF Told, InSnapshot, Flushing
  <1>7. CASE HandleReset
    <2>1. PICK s \in Streams :
              /\ events # <<>> /\ Head(events) = <<"reset", s>> /\ events' = Tail(events)
              /\ ~Opened(s)'
              /\ \A r \in Streams : Opened(r)' => Opened(r)
      BY <1>7, ResetForgets
    <2>2. pc[Loop] = "handle" /\ pc' = pc /\ UNCHANGED <<h2, goaway>>
      BY <1>7 DEF HandleReset, Handling, taskVars, peerVars
    <2>3. \A r \in Streams \ {s} : Queued("reset", r) => Queued("reset", r)'
      BY <2>1, Shifted
    <2>. QED  BY <2>1, <2>2, <2>3 DEF Told, InSnapshot, Flushing
  <1>8. CASE HandleGoaway
    <2>1. events # <<>> /\ Head(events)[1] = "goaway" /\ UNCHANGED <<h2, goaway, streams, pc, todo>>
          /\ pc[Loop] = "handle"
      BY <1>8 DEF HandleGoaway, Handling, peerVars, taskVars
    <2>2. Pending("goaway")
      BY <2>1, NextEvents DEF Base, Pending
    <2>. QED  BY <2>1, <2>2 DEF Parting, Told
  <1>9. CASE Popped
    <2>1. /\ events # <<>> /\ events' = Tail(events) /\ UNCHANGED <<streams, h2, goaway>>
          /\ Head(events)[1] \notin Turning /\ pc[Loop] \in {"handle", "update"}
          /\ pc'[Loop] \in {"handle", "scan", "over"}
          /\ pc'[Loop] = "scan" => todo'[Loop] = streams
      BY <1>9 DEF Popped
    <2>2. \A r \in Streams : Queued("reset", r) => Queued("reset", r)'
      BY <2>1, Shifted DEF Turning
    <2>3. \A r \in Streams : Opened(r)' => Opened(r)
      <3>1. \A r \in Streams : InDict(r)' => InDict(r)
        BY <2>1 DEF InDict
      <3>2. \A r \in Streams : Queued("request", r)' => Queued("request", r)
        BY <2>1, Shifted
      <3>. QED  BY <3>1, <3>2 DEF Opened
    <2>4. \A r \in Streams : InSnapshot(r)' => Opened(r)
      BY <2>1 DEF InSnapshot, Flushing, Opened, InDict
    <2>. QED  BY <2>1, <2>2, <2>3, <2>4 DEF Told
  <1>10. CASE Calm
    <2>1. \A r \in Streams : (h2'[r] = "reset") = (h2[r] = "reset")
      BY <1>10 DEF Calm
    <2>2. \A r \in Streams : InSnapshot(r)' => InSnapshot(r)
      BY <1>10 DEF Calm, InSnapshot
    <2>3. \A r \in Streams : Opened(r)' = Opened(r) /\ Queued("reset", r)' = Queued("reset", r)
      BY <1>10 DEF Calm, Opened, Queued, InDict
    <2>. QED  BY <1>10, <2>1, <2>2, <2>3 DEF Calm, Told
  <1>. QED  BY <1>1, <1>2, <1>3, <1>4, <1>5, <1>6, <1>7, <1>8, <1>9, <1>10, QueueSteps
-----------------------------------------------------------------------------
(***************************************************************************)
(* Why the loop ends.                                                      *)
(***************************************************************************)
\* An exception ends its task.
LEMMA FaultEnds ==
    ASSUME Base, [Next]_vars, NEW t \in Tasks
    PROVE  fault'[t] = fault[t] \/ pc'[t] = "over"
  <1>0. fault \in [Tasks -> Reason]
    BY DEF Base, TypeOK
  <1>1. ASSUME NEW u \in Tasks, NEW why, Fail(u, why) PROVE fault'[t] = fault[t] \/ pc'[t] = "over"
    BY <1>0, <1>1 DEF Fail
  <1>2. CASE Arrival
    <2>1. CASE ArriveRefused
      BY <1>1, <2>1, Numbers DEF ArriveRefused
    <2>2. CASE ~ArriveRefused
      <3>1. fault' = fault
        BY <1>2, <2>2 DEF Arrival, ArriveRequest, ArriveData, ArriveEnded, ArriveReset,
             ArriveStreamWindow, ArriveWindow, ArriveAck, ArrivePing, ArriveGoaway, Arrive
      <3>. QED  BY <3>1
    <2>. QED  BY <2>1, <2>2
  <1>3. CASE Handle
    <2>1. fault' = fault \/ Fail(Loop, "goaway")
      BY <1>3 DEF Handle, BatchEnds, HandleRequest, HandleData, HandleEnded, HandleReset,
         HandleAck, HandlePing, HandleGoaway, HandleWindow, WindowFlushed, HandlingEnds,
         ReceiveRaises, taskVars
    <2>. QED  BY <1>1, <2>1, Numbers
  <1>4. ASSUME NEW u \in Tasks, FlushData(u) PROVE fault'[t] = fault[t] \/ pc'[t] = "over"
    <2>1. fault' = fault \/ \E why : Fail(u, why)
      BY <1>4 DEF FlushData, ScanSkip, ScanWait, ScanSend, ScanDone, TakeReturns, FlushReturns,
                  FlushRaises, SendHead
    <2>. QED  BY <1>1, <2>1
  <1>5. ASSUME NEW s \in Streams, Application(s) \/ ResponseSent(s) \/ ReadReturns(s)
        PROVE  fault'[t] = fault[t] \/ pc'[t] = "over"
    <2>1. fault' = fault \/ Fail(s, HeadersRefusal(s))
      BY <1>5 DEF Application, SendResponse, SendData, SendEof, Read, ReadWaits, HandlerEnds,
                  ResponseSent, ReadReturns, taskVars
    <2>. QED  BY <1>1, <2>1, Numbers
  <1>6. CASE UNCHANGED vars
    BY <1>6 DEF vars, taskVars
  <1>. QED  BY <1>2, <1>3, <1>4, <1>5, <1>6 DEF Next

\* A loop that is over handles nothing more.
LEMMA OverIsOver ==
    ASSUME Base, [Next]_vars, pc[Loop] = "over"
    PROVE  pc'[Loop] = "over" /\ events' = events
  <1>1. ASSUME NEW e, Arrive(e) PROVE FALSE
    BY <1>1 DEF Arrive, Receiving
  <1>2. ~OtherArrives
    BY <1>1 DEF OtherArrives
  <1>3. \A s \in Streams : ~ArriveRequest(s) /\ ~ArriveReset(s)
    BY <1>1 DEF ArriveRequest, ArriveReset
  <1>4. ~ArriveGoaway /\ ~ArriveRefused
    BY <1>1 DEF ArriveGoaway, ArriveRefused, Receiving
  <1>5. ~HandleRequest /\ ~HandleReset /\ ~HandleGoaway
    BY DEF HandleRequest, HandleReset, HandleGoaway, Handling
  <1>6. ~Popped
    BY DEF Popped
  <1>. QED  BY <1>2, <1>3, <1>4, <1>5, <1>6, QueueSteps DEF Calm

LoopReasons ==
    /\ fault[Loop] # "none" => pc[Loop] = "over"
    /\ \A kind \in {"reset", "goaway"} : fault[Loop] = kind => Pending(kind)

LEMMA LoopReasonsKept ==
    ASSUME Base, Parting, Told, LoopReasons, [Next]_vars
    PROVE  LoopReasons'
  <1>0. Loop \in Tasks
    BY Numbers
  <1>1. fault'[Loop] # "none" => pc'[Loop] = "over"
    BY <1>0, FaultEnds, OverIsOver DEF LoopReasons
  <1>2. ASSUME NEW kind \in {"reset", "goaway"}, fault'[Loop] = kind PROVE Pending(kind)'
    <2>1. CASE fault'[Loop] = fault[Loop]
      <3>1. pc[Loop] = "over" /\ Pending(kind)
        BY <1>2, <2>1 DEF LoopReasons
      <3>2. events' = events
        BY <3>1, OverIsOver
      <3>. QED  BY <3>1, <3>2 DEF Pending
    <2>2. CASE fault'[Loop] = "goaway" /\ (HandlePing \/ HandleWindow) /\ goaway
      <3>1. /\ pc[Loop] = "handle" /\ events # <<>> /\ Head(events)[1] # "goaway"
            /\ events' = events \/ events' = Tail(events)
        BY <2>2 DEF HandlePing, HandleWindow, Handling
      <3>2. Pending("goaway")
        BY <2>2, <3>1 DEF Parting
      <3>3. CASE events' = events
        BY <1>2, <2>2, <3>2, <3>3 DEF Pending
      <3>4. CASE events' = Tail(events)
        BY <1>2, <2>2, <3>1, <3>2, <3>4, PendingShift
      <3>. QED  BY <3>1, <3>3, <3>4
    <2>3. ASSUME NEW s \in Streams, NEW d \in Nat, NEW b, NEW left,
                 todo[Loop] # <<>>, s = Head(todo[Loop]), h2[s] # "idle", Sends(Loop),
                 FrameOut(Loop, s, b, d, left), fault'[Loop] = Refusal(s, d)
          PROVE  Pending(kind)'
      <3>1. pc[Loop] \in {"scan", "woken"} /\ events' = events
        BY <2>3 DEF Sends, FrameOut
      <3>2. CASE kind = "goaway"
        <4>1. goaway
          BY <1>2, <2>3, <3>2, Refusals DEF Base
        <4>2. Pending("goaway")
          BY <3>1, <4>1 DEF Parting
        <4>. QED  BY <3>1, <3>2, <4>2 DEF Pending
      <3>3. CASE kind = "reset"
        <4>1. ~goaway /\ h2[s] = "reset"
          BY <1>2, <2>3, <3>3, Refusals DEF Base
        <4>2. InSnapshot(s)
          <5>1. 1 \in DOMAIN todo[Loop] /\ todo[Loop][1] = s
            BY <1>0, <2>3, HeadKnown
          <5>. QED  BY <3>1, <5>1 DEF InSnapshot, Flushing
        <4>3. Queued("reset", s)
          BY <3>1, <4>1, <4>2 DEF Told
        <4>. QED  BY <3>1, <3>3, <4>3 DEF Queued, Pending
      <3>. QED  BY <3>2, <3>3
    <2>4. fault'[Loop] \notin {"broken", "refused", "empty"} /\ Loop \notin Streams
      BY <1>2, Numbers
    <2>. QED  BY <1>0, <2>1, <2>2, <2>3, <2>4, Faults
  <1>. QED  BY <1>1, <1>2 DEF LoopReasons
-----------------------------------------------------------------------------
(***************************************************************************)
(* The loop sleeps in a writer only while the window of the connection is   *)
(* 0, and who sends a frame meanwhile takes nothing from it.               *)
(***************************************************************************)
LoopWaits ==
    /\ pc[Loop] \in {"take", "woken"} => window = 0
    /\ pc[Loop] = "woken" => wbuf[Head(todo[Loop])] # <<>> \/ weof[Head(todo[Loop])]
    /\ fault[Loop] # "empty"

LEMMA WindowSteps ==
    ASSUME Base, [Next]_vars
    PROVE  ArriveWindow \/ (window' \in Nat /\ window' <= window)
  <1>0. window \in Nat
    BY DEF Base, TypeOK
  <1>1. CASE Arrival /\ ~ArriveWindow
    <2>1. window' = window
      BY <1>1 DEF Arrival, ArriveRequest, ArriveData, ArriveEnded, ArriveReset,
         ArriveStreamWindow, ArriveAck, ArrivePing, ArriveGoaway, ArriveRefused, peerVars
    <2>. QED  BY <1>0, <2>1
  <1>2. CASE Handle
    <2>1. window' = window
      BY <1>2 DEF Handle, BatchEnds, HandleRequest, HandleData, HandleEnded, HandleReset,
         HandleAck, HandlePing, HandleGoaway, HandleWindow, WindowFlushed, HandlingEnds,
         ReceiveRaises, peerVars
    <2>. QED  BY <1>0, <2>1
  <1>3. ASSUME NEW t \in Tasks, FlushData(t) PROVE window' \in Nat /\ window' <= window
    <2>1. CASE ScanSend(t) \/ (TakeReturns(t) /\ wbuf[Head(todo[t])] # <<>>)
      <3>1. PICK s \in Streams, d \in Nat, b \in Nat, left \in Seq(Chunk) :
               /\ d <= window
               /\ FrameTaken(t, s, d, left) \/ FrameRefused(t, s, d)
        BY <2>1, SendSteps, SendsDoes
      <3>2. window' = window \/ window' = window - d
        BY <3>1 DEF FrameTaken, FrameRefused
      <3>. QED  BY <1>0, <3>1, <3>2
    <2>2. CASE ~(ScanSend(t) \/ (TakeReturns(t) /\ wbuf[Head(todo[t])] # <<>>))
      <3>1. window' = window
        BY <1>3, <2>2 DEF FlushData, ScanSkip, ScanWait, ScanDone, TakeReturns, FlushReturns,
                          FlushRaises, peerVars
      <3>. QED  BY <1>0, <3>1
    <2>. QED  BY <2>1, <2>2
  <1>4. ASSUME NEW s \in Streams, Application(s) \/ ResponseSent(s) \/ ReadReturns(s)
        PROVE  window' = window
    BY <1>4 DEF Application, SendResponse, SendData, SendEof, Read, ReadWaits, HandlerEnds,
                ResponseSent, ReadReturns, peerVars
  <1>5. CASE UNCHANGED vars
    BY <1>0, <1>5 DEF vars, peerVars
  <1>. QED  BY <1>0, <1>1, <1>2, <1>3, <1>4, <1>5 DEF Next

\* One task at a time feeds a writer.
LEMMA OneFeeds ==
    ASSUME NEW r \in Streams, NEW s \in Streams,
           SendData(r) \/ SendEof(r), SendData(s) \/ SendEof(s)
    PROVE  r = s
  BY DEF SendData, SendEof, StartFlush

LEMMA LoopWaitsKept ==
    ASSUME Base, LoopWaits, [Next]_vars
    PROVE  LoopWaits'
  <1>0. Loop \in Tasks /\ window \in Nat
    BY Numbers DEF Base, TypeOK
  <1>1. TaskStep(Loop)
    BY <1>0, TaskSteps
  <1>2. ASSUME pc'[Loop] \in {"take", "woken"} PROVE window' = 0
    <2>1. CASE ScanWait(Loop)
      <3>1. /\ todo[Loop] # <<>> /\ ~Held(Head(todo[Loop])) /\ wbuf[Head(todo[Loop])] = <<>>
            /\ ~weof[Head(todo[Loop])] /\ window' = window
        BY <2>1 DEF ScanWait, Scanning, peerVars
      <3>2. Head(todo[Loop]) \in Streams
        BY <1>0, <3>1, HeadKnown
      <3>3. Buffered(Head(todo[Loop])) = 0 /\ Frame \in Nat /\ (Frame = 0 => window = 0)
        BY <3>1, <3>2, FrameSize DEF Buffered, Base
      <3>. QED  BY <3>1, <3>3 DEF Held
    <2>2. CASE pc[Loop] \in {"take", "woken"}
      <3>1. window = 0
        BY <2>2 DEF LoopWaits
      <3>2. ~ArriveWindow
        BY <2>2 DEF ArriveWindow, Arrive, Receiving
      <3>. QED  BY <3>1, <3>2, WindowSteps
    <2>. QED  BY <1>1, <1>2, <2>1, <2>2 DEF TaskStep
  <1>3. ASSUME pc'[Loop] = "woken"
        PROVE  wbuf'[Head(todo'[Loop])] # <<>> \/ weof'[Head(todo'[Loop])]
    <2>. DEFINE h == Head(todo[Loop])
    <2>1. /\ todo'[Loop] = todo[Loop] /\ pc[Loop] \in {"take", "woken"}
          /\ \/ pc[Loop] = "woken"
             \/ \E s \in Streams : h = s /\ (SendData(s) \/ SendEof(s))
      BY <1>1, <1>3 DEF TaskStep
    <2>2. h \in Streams /\ window = 0
      BY <1>0, <2>1, HeadKnown DEF Base, Places, LoopWaits
    <2>3. pc[Loop] = "woken" => wbuf[h] # <<>> \/ weof[h]
      BY DEF LoopWaits
    <2>. HIDE DEF h
    <2>4. wbuf'[h] # <<>> \/ weof'[h]
      <3>1. ASSUME NEW s \in Streams, SendData(s) \/ SendEof(s)
            PROVE  wbuf'[h] # <<>> \/ weof'[h]
        <4>1. CASE h = s
          BY <3>1, <4>1, FeedSteps
        <4>2. CASE h # s
          <5>1. pc[Loop] = "woken"
            BY <2>1, <3>1, <4>2, OneFeeds
          <5>. QED  BY <2>2, <2>3, <3>1, <5>1, FeedSteps
        <4>. QED  BY <4>1, <4>2
      <3>2. CASE pc[Loop] = "woken" /\ UNCHANGED <<wbuf, weof>>
        BY <2>3, <3>2
      <3>3. ASSUME pc[Loop] = "woken", NEW s \in Streams, NEW d \in Nat, NEW left,
                   d <= window, wbuf' = [wbuf EXCEPT ![s] = left], weof' = weof,
                   d = 0 => left = wbuf[s]
            PROVE  wbuf'[h] # <<>> \/ weof'[h]
        <4>1. left = wbuf[s] /\ wbuf \in [Streams -> Seq(Chunk)]
          BY <2>2, <3>3 DEF Base, TypeOK
        <4>2. wbuf' = wbuf
          BY <3>3, <4>1
        <4>. QED  BY <2>3, <3>3, <4>2
      <3>. QED  BY <2>1, <3>1, <3>2, <3>3, WriterSteps
    <2>. QED  BY <2>1, <2>4 DEF h
  <1>4. fault'[Loop] # "empty"
    <2>1. CASE fault'[Loop] = fault[Loop] \/ fault'[Loop] \in {"broken", "refused", "goaway"}
      BY <2>1 DEF LoopWaits
    <2>2. ASSUME pc[Loop] = "woken", wbuf[Head(todo[Loop])] = <<>>, ~weof[Head(todo[Loop])]
          PROVE  FALSE
      BY <2>2 DEF LoopWaits
    <2>3. ASSUME NEW s \in Streams, NEW d \in Nat, h2[s] # "idle", fault'[Loop] = Refusal(s, d)
          PROVE  fault'[Loop] # "empty"
      BY <2>3, Refusals DEF Base
    <2>4. Loop \notin Streams
      BY Numbers
    <2>. QED  BY <1>0, <2>1, <2>2, <2>3, <2>4, Faults
  <1>. QED  BY <1>2, <1>3, <1>4 DEF LoopWaits

-----------------------------------------------------------------------------
(***************************************************************************)
(* A client that opens no stream early: of two streams in the dict one is   *)
(* over on both sides, and so it stays when the next request is handled,    *)
(* for the reset of a stream that was open is handled before.              *)
(***************************************************************************)
\* a stream that is over on both sides stays so
LEMMA FinishedStays ==
    ASSUME Base, [Next]_vars, NEW r \in Streams, Finished(r)
    PROVE  Finished(r)'
  <1>0. h2 \in [Streams -> {"idle", "open", "ended", "reset"}] /\ rend \in [Streams -> BOOLEAN]
    BY DEF Base, TypeOK
  <1>1. CASE UNCHANGED <<h2, rend>>
    BY <1>1 DEF Finished
  <1>2. CASE Arrival
    <2>1. ASSUME NEW s \in Streams, ArriveRequest(s) \/ ArriveReset(s) \/ ArriveEnded(s)
          PROVE  Finished(r)'
      BY <1>0, <2>1 DEF ArriveRequest, ArriveReset, ArriveEnded, Closed, Finished
    <2>2. CASE \E s \in Streams : ArriveData(s) \/ ArriveStreamWindow(s)
      BY <1>1, <2>2 DEF ArriveData, ArriveStreamWindow
    <2>3. CASE ArriveWindow \/ ArriveAck \/ ArrivePing \/ ArriveGoaway \/ ArriveRefused
      BY <1>1, <2>3 DEF ArriveWindow, ArriveAck, ArrivePing, ArriveGoaway, ArriveRefused, peerVars
    <2>. QED  BY <1>2, <2>1, <2>2, <2>3 DEF Arrival
  <1>3. CASE Handle
    <2>1. UNCHANGED <<h2, rend>>
      BY <1>3 DEF Handle, BatchEnds, HandleRequest, HandleData, HandleEnded, HandleReset,
         HandleAck, HandlePing, HandleGoaway, HandleWindow, WindowFlushed, HandlingEnds,
         ReceiveRaises, peerVars
    <2>. QED  BY <1>1, <2>1
  <1>4. ASSUME NEW t \in Tasks, FlushData(t) PROVE Finished(r)'
    <2>1. CASE ScanSend(t) \/ (TakeReturns(t) /\ wbuf[Head(todo[t])] # <<>>)
      <3>1. PICK s \in Streams, d \in Nat, b \in Nat, left \in Seq(Chunk) :
               /\ FrameOut(t, s, b, d, left)
               /\ FrameTaken(t, s, d, left) \/ FrameRefused(t, s, d)
        BY <2>1, SendSteps, SendsDoes
      <3>2. rend' = rend
        BY <3>1 DEF FrameOut
      <3>3. h2' = h2 \/ h2' = [h2 EXCEPT ![s] = "ended"]
        BY <1>0, <3>1 DEF FrameTaken, FrameRefused
      <3>. QED  BY <1>0, <3>2, <3>3 DEF Finished
    <2>2. CASE ~(ScanSend(t) \/ (TakeReturns(t) /\ wbuf[Head(todo[t])] # <<>>))
      <3>1. UNCHANGED <<h2, rend>>
        BY <1>4, <2>2 DEF FlushData, ScanSkip, ScanWait, ScanDone, TakeReturns, FlushReturns,
                          FlushRaises, peerVars
      <3>. QED  BY <1>1, <3>1
    <2>. QED  BY <2>1, <2>2
  <1>5. ASSUME NEW s \in Streams, Application(s) \/ ResponseSent(s) \/ ReadReturns(s)
        PROVE  UNCHANGED <<h2, rend>>
    BY <1>5 DEF Application, SendResponse, SendData, SendEof, Read, ReadWaits, HandlerEnds,
                ResponseSent, ReadReturns, peerVars
  <1>6. CASE UNCHANGED vars
    BY <1>1, <1>6 DEF vars, peerVars
  <1>. QED  BY <1>1, <1>2, <1>3, <1>4, <1>5, <1>6 DEF Next

OpenBefore(r, i)  == InDict(r) \/ \E k \in DOMAIN events : k < i /\ events[k] = <<"request", r>>
ResetBefore(r, i) == \E k \in DOMAIN events : k < i /\ events[k] = <<"reset", r>>

OneOpen == \A r, s \in Streams :
    /\ InDict(r) /\ InDict(s) => r = s \/ Finished(r) \/ Finished(s)
    /\ \A i \in DOMAIN events :
          events[i] = <<"request", s>> /\ r # s /\ OpenBefore(r, i)
              => Finished(r) \/ ResetBefore(r, i)

LEMMA OneOpenGrow ==
    ASSUME Base, OneOpen, NEW e \in Event, Arrive(e),
           \A r \in Streams : Finished(r) => Finished(r)',
           \A r, s \in Streams : e = <<"request", s>> /\ r # s /\ Opened(r)
               => Finished(r) \/ Queued("reset", r)
    PROVE  OneOpen'
  <1>1. /\ DOMAIN events = 1 .. Len(events) /\ Len(events) \in Nat
        /\ \A i \in DOMAIN events : i \in DOMAIN events' /\ events'[i] = events[i]
        /\ events'[Len(events) + 1] = e
        /\ \A i \in DOMAIN events' : i \in DOMAIN events \/ i = Len(events) + 1
        /\ streams' = streams
    BY Grown
  <1>2. \A r \in Streams : InDict(r)' = InDict(r)
    BY <1>1 DEF InDict
  <1>3. ASSUME NEW r \in Streams, NEW s \in Streams, NEW i \in DOMAIN events',
               events'[i] = <<"request", s>>, r # s, OpenBefore(r, i)'
        PROVE  Finished(r)' \/ ResetBefore(r, i)'
    <2>1. CASE i \in DOMAIN events
      <3>1. \A k \in DOMAIN events' : k < i => k \in DOMAIN events /\ events'[k] = events[k]
        BY <1>1, <2>1
      <3>2. OpenBefore(r, i)
        BY <1>2, <1>3, <3>1 DEF OpenBefore
      <3>3. Finished(r) \/ ResetBefore(r, i)
        BY <1>1, <1>3, <2>1, <3>2 DEF OneOpen
      <3>. QED  BY <1>1, <3>3 DEF ResetBefore
    <2>2. CASE i = Len(events) + 1
      <3>1. \A k \in DOMAIN events' : k < i => k \in DOMAIN events /\ events'[k] = events[k]
        BY <1>1, <2>2
      <3>2. Opened(r)
        BY <1>2, <1>3, <3>1 DEF OpenBefore, Opened, Queued
      <3>3. Finished(r) \/ Queued("reset", r)
        BY <1>1, <1>3, <2>2, <3>2
      <3>4. \A k \in DOMAIN events : k < i
        BY <1>1, <2>2
      <3>. QED  BY <1>1, <3>3, <3>4 DEF Queued, ResetBefore
    <2>. QED  BY <1>1, <2>1, <2>2
  <1>4. ASSUME NEW r \in Streams, NEW s \in Streams, InDict(r)', InDict(s)'
        PROVE  r = s \/ Finished(r)' \/ Finished(s)'
    BY <1>1, <1>2, <1>4 DEF OneOpen
  <1>. QED  BY <1>3, <1>4 DEF OneOpen

LEMMA OneOpenShift ==
    ASSUME Base, OneOpen, events # <<>>, events' = Tail(events),
           \A r \in Streams : Finished(r) => Finished(r)',
           \A r \in Streams : InDict(r)' => InDict(r) \/ Head(events) = <<"request", r>>,
           \A r \in Streams : Head(events) = <<"reset", r>> => ~Opened(r)'
    PROVE  OneOpen'
  <1>1. /\ DOMAIN events = 1 .. Len(events) /\ Len(events) \in Nat /\ 1 \in DOMAIN events
        /\ DOMAIN events' = 1 .. Len(events) - 1
        /\ Head(events) = events[1]
        /\ \A i \in DOMAIN events' : i + 1 \in DOMAIN events /\ events'[i] = events[i + 1]
        /\ \A k \in DOMAIN events :
              k = 1 \/ (k - 1 \in DOMAIN events' /\ events'[k - 1] = events[k])
    BY Shifted
  <1>2. \A r \in Streams : ~ResetBefore(r, 1)
    BY <1>1 DEF ResetBefore
  <1>3. ASSUME NEW r \in Streams, NEW s \in Streams, InDict(r)', InDict(s)'
        PROVE  r = s \/ Finished(r)' \/ Finished(s)'
    <2>1. CASE InDict(r) /\ InDict(s)
      BY <2>1 DEF OneOpen
    <2>2. CASE Head(events) = <<"request", s>> /\ InDict(r)
      BY <1>1, <1>2, <2>2 DEF OneOpen, OpenBefore
    <2>3. CASE Head(events) = <<"request", r>> /\ InDict(s)
      BY <1>1, <1>2, <2>3 DEF OneOpen, OpenBefore
    <2>4. CASE Head(events) = <<"request", r>> /\ Head(events) = <<"request", s>>
      BY <2>4
    <2>. QED  BY <1>3, <2>1, <2>2, <2>3, <2>4
  <1>4. ASSUME NEW r \in Streams, NEW s \in Streams, NEW i \in DOMAIN events',
               events'[i] = <<"request", s>>, r # s, OpenBefore(r, i)'
        PROVE  Finished(r)' \/ ResetBefore(r, i)'
    <2>1. i + 1 \in DOMAIN events /\ events[i + 1] = <<"request", s>> /\ 1 < i + 1
      BY <1>1, <1>4
    <2>2. OpenBefore(r, i + 1)
      <3>1. CASE InDict(r)'
        BY <1>1, <2>1, <3>1 DEF OpenBefore
      <3>2. ASSUME NEW k \in DOMAIN events', k < i, events'[k] = <<"request", r>>
            PROVE  OpenBefore(r, i + 1)
        <4>1. k + 1 \in DOMAIN events /\ k + 1 < i + 1 /\ events[k + 1] = <<"request", r>>
          BY <1>1, <3>2
        <4>. QED  BY <4>1 DEF OpenBefore
      <3>. QED  BY <1>4, <3>1, <3>2 DEF OpenBefore
    <2>3. CASE Finished(r)
      BY <2>3
    <2>4. ASSUME NEW k \in DOMAIN events, k < i + 1, events[k] = <<"reset", r>>
          PROVE  ResetBefore(r, i)'
      <3>1. Opened(r)'
        BY <1>4 DEF OpenBefore, Opened, Queued
      <3>2. k # 1
        BY <1>1, <2>4, <3>1
      <3>3. k - 1 \in DOMAIN events' /\ events'[k - 1] = <<"reset", r>> /\ k - 1 < i
        BY <1>1, <2>4, <3>2
      <3>. QED  BY <3>3 DEF ResetBefore
    <2>. QED  BY <1>4, <2>1, <2>2, <2>3, <2>4 DEF OneOpen, ResetBefore
  <1>. QED  BY <1>3, <1>4 DEF OneOpen

LEMMA OneOpenKept ==
    ASSUME Base, Keys, InTurn, Told, OneOpen, "early" \notin Peer, [Next]_vars
    PROVE  OneOpen'
  <1>0. \A r \in Streams : Finished(r) => Finished(r)'
    BY FinishedStays
  <1>1. ASSUME NEW s \in Streams, ArriveRequest(s) PROVE OneOpen'
    <2>1. /\ <<"request", s>> \in Event /\ Arrive(<<"request", s>>) /\ h2[s] = "idle"
          /\ \A r \in Streams : r < s => Closed(r)
      BY <1>1, Numbers DEF ArriveRequest, Event, Streams
    <2>2. pc[Loop] # "over" /\ ~goaway
      BY <2>1, ToldGrow
    <2>3. ASSUME NEW r \in Streams, r # s, Opened(r) PROVE Finished(r) \/ Queued("reset", r)
      <3>1. h2[r] # "idle"
        BY <2>3 DEF Opened, InDict, Queued, Base, StreamsKnown, EventsKnown
      <3>2. r < s
        <4>1. r \in Nat /\ s \in Nat
          BY Numbers
        <4>2. ~(s < r)
          BY <2>1, <3>1 DEF InTurn
        <4>. QED  BY <2>3, <4>1, <4>2
      <3>3. h2[r] = "reset" \/ h2[r] = "ended"
        BY <2>1, <3>2 DEF Closed
      <3>. QED  BY <2>1, <2>2, <2>3, <3>2, <3>3 DEF Told, Closed, Finished
    <2>4. \A r, u \in Streams : <<"request", s>> = <<"request", u>> /\ r # u /\ Opened(r)
              => Finished(r) \/ Queued("reset", r)
      BY <2>3
    <2>. QED  BY <2>1, <2>4, <1>0, OneOpenGrow
  <1>2. ASSUME NEW s \in Streams, ArriveReset(s) PROVE OneOpen'
    <2>1. <<"reset", s>> \in Event /\ Arrive(<<"reset", s>>)
          /\ \A u : <<"reset", s>> # <<"request", u>>
      BY <1>2, Numbers DEF ArriveReset, Event, Streams
    <2>. QED  BY <2>1, <1>0, OneOpenGrow
  <1>3. CASE ArriveGoaway
    <2>1. <<"goaway", 0>> \in Event /\ Arrive(<<"goaway", 0>>)
          /\ \A u : <<"goaway", 0>> # <<"request", u>>
      BY <1>3, Numbers DEF ArriveGoaway, Event
    <2>. QED  BY <2>1, <1>0, OneOpenGrow
  <1>4. CASE OtherArrives
    <2>1. PICK e \in Event : Arrive(e) /\ e[1] \notin Turning
      BY <1>4 DEF OtherArrives
    <2>2. \A u : e # <<"request", u>>
      BY <2>1 DEF Turning
    <2>. QED  BY <2>1, <2>2, <1>0, OneOpenGrow
  <1>5. CASE ArriveRefused \/ HandleGoaway
    <2>1. events' = <<>> /\ streams' = streams /\ DOMAIN <<>> = {}
      BY <1>5 DEF ArriveRefused, HandleGoaway
    <2>2. \A r \in Streams : InDict(r)' = InDict(r)
      BY <2>1 DEF InDict
    <2>. QED  BY <1>0, <2>1, <2>2 DEF OneOpen
  <1>6. CASE HandleRequest
    <2>1. PICK s \in Streams :
              /\ events # <<>> /\ Head(events) = <<"request", s>> /\ events' = Tail(events)
              /\ \A r \in Streams : InDict(r)' => InDict(r) \/ r = s
      BY <1>6, RequestEnters
    <2>2. \A r \in Streams : Head(events) # <<"reset", r>>
      BY <2>1
    <2>. QED  BY <2>1, <2>2, <1>0, OneOpenShift
  <1>7. CASE HandleReset
    <2>1. PICK s \in Streams :
              /\ events # <<>> /\ Head(events) = <<"reset", s>> /\ events' = Tail(events)
              /\ ~Opened(s)'
              /\ \A r \in Streams : InDict(r)' => InDict(r)
      BY <1>7, ResetForgets
    <2>3. \A r \in Streams : Head(events) = <<"reset", r>> => ~Opened(r)'
      BY <2>1
    <2>. QED  BY <2>1, <2>3, <1>0, OneOpenShift
  <1>8. CASE Popped
    <2>1. /\ events # <<>> /\ events' = Tail(events) /\ UNCHANGED streams
          /\ Head(events)[1] \notin Turning
      BY <1>8 DEF Popped
    <2>2. \A r \in Streams : InDict(r)' => InDict(r)
      BY <2>1 DEF InDict
    <2>3. \A r \in Streams : Head(events) # <<"reset", r>>
      BY <2>1 DEF Turning
    <2>. QED  BY <2>1, <2>2, <2>3, <1>0, OneOpenShift
  <1>9. CASE Calm
    <2>1. UNCHANGED <<streams, events>>
      BY <1>9 DEF Calm
    <2>2. \A r \in Streams : InDict(r)' = InDict(r)
      BY <2>1 DEF InDict
    <2>3. \A r \in Streams : \A i \in DOMAIN events :
              OpenBefore(r, i)' = OpenBefore(r, i) /\ ResetBefore(r, i)' = ResetBefore(r, i)
      BY <2>1, <2>2 DEF OpenBefore, ResetBefore
    <2>. QED  BY <1>0, <2>1, <2>2, <2>3 DEF OneOpen
  <1>. QED  BY <1>1, <1>2, <1>3, <1>4, <1>5, <1>6, <1>7, <1>8, <1>9, QueueSteps
-----------------------------------------------------------------------------
(***************************************************************************)
(* A handler whose stream is not over comes in flush_data to no open writer *)
(* but its own, which only it feeds: it never goes on with nothing in it.   *)
(***************************************************************************)
OwnWriter == \A s \in Streams : Finished(s) \/
    /\ pc[s] # "woken"
    /\ Flushing(s) => \A i \in DOMAIN todo[s] : todo[s][i] = s \/ Finished(todo[s][i])
    /\ pc[s] = "take" => Head(todo[s]) = s
    /\ fault[s] # "empty"

LEMMA OwnWriterKept ==
    ASSUME Base, Ended, OneOpen, OwnWriter, [Next]_vars
    PROVE  OwnWriter'
  <1>1. \A r \in Streams : Finished(r) => Finished(r)'
    BY FinishedStays
  <1>2. ASSUME NEW s \in Streams, ~Finished(s), pc'[s] = "woken" PROVE FALSE
    <2>1. s \in Tasks /\ TaskStep(s)
      BY Numbers, TaskSteps
    <2>2. PICK r \in Streams : Head(todo[s]) = r /\ (SendData(r) \/ SendEof(r)) /\ pc[s] = "take"
      BY <1>2, <2>1 DEF TaskStep, OwnWriter
    <2>3. r = s
      BY <1>2, <2>2 DEF OwnWriter
    <2>. QED  BY <2>2, <2>3, FeedSteps
  <1>3. ASSUME NEW s \in Streams, ~Finished(s), Flushing(s)', NEW i \in DOMAIN todo'[s]
        PROVE  (todo[s][i] = s \/ Finished(todo[s][i]))'
    <2>0. s \in Tasks /\ s # Loop /\ TaskStep(s)
      BY Numbers, TaskSteps
    <2>. SUFFICES todo'[s][i] \in Streams /\ (todo'[s][i] = s \/ Finished(todo'[s][i]))
      <3>1. ASSUME NEW k \in Streams, todo'[s][i] = k, Finished(k) PROVE Finished(todo[s][i])'
        <4>1. h2'[k] = "ended" /\ rend'[k]
          BY <1>1, <3>1 DEF Finished
        <4>. QED  BY <3>1, <4>1 DEF Finished
      <3>. QED  BY <3>1
    <2>1. CASE Flushing(s) /\ todo'[s] = todo[s]
      <3>1. todo[s][i] = s \/ Finished(todo[s][i])
        BY <1>3, <2>1 DEF OwnWriter
      <3>2. todo[s][i] \in Streams
        BY <1>3, <2>0, <2>1, Elements DEF Base
      <3>. QED  BY <2>1, <3>1, <3>2
    <2>2. CASE Flushing(s) /\ todo[s] # <<>> /\ todo'[s] = Tail(todo[s])
      <3>1. i + 1 \in DOMAIN todo[s] /\ todo'[s][i] = todo[s][i + 1] /\ todo'[s][i] \in Streams
        BY <1>3, <2>0, <2>2, HeadKnown
      <3>2. todo[s][i + 1] = s \/ Finished(todo[s][i + 1])
        BY <1>3, <2>2, <3>1 DEF OwnWriter
      <3>. QED  BY <3>1, <3>2
    <2>3. CASE (SendData(s) \/ SendEof(s)) /\ todo'[s] = streams
      <3>1. i \in DOMAIN streams /\ streams[i] \in Streams /\ InDict(streams[i])
        BY <1>3, <2>3, Elements DEF Base, InDict
      <3>2. InDict(s)
        BY <2>3, FeedSteps
      <3>3. streams[i] = s \/ Finished(streams[i])
        BY <1>3, <3>1, <3>2 DEF OneOpen
      <3>. QED  BY <2>3, <3>1, <3>3
    <2>. QED  BY <1>3, <2>0, <2>1, <2>2, <2>3 DEF TaskStep
  <1>4. ASSUME NEW s \in Streams, ~Finished(s), pc'[s] = "take" PROVE Head(todo'[s]) = s
    <2>0. s \in Tasks /\ TaskStep(s)
      BY Numbers, TaskSteps
    <2>1. CASE ScanWait(s)
      <3>1. /\ todo[s] # <<>> /\ ~weof[Head(todo[s])] /\ pc[s] = "scan" /\ todo' = todo
        BY <2>1 DEF ScanWait, Scanning
      <3>2. 1 \in DOMAIN todo[s] /\ Head(todo[s]) = todo[s][1] /\ Head(todo[s]) \in Streams
        BY <2>0, <3>1, HeadKnown
      <3>3. ~Finished(Head(todo[s]))
        BY <3>1, <3>2 DEF Finished, Ended
      <3>. QED  BY <1>4, <3>1, <3>2, <3>3 DEF OwnWriter, Flushing
    <2>2. CASE pc[s] = "take" /\ todo'[s] = todo[s]
      BY <1>4, <2>2 DEF OwnWriter
    <2>. QED  BY <1>4, <2>0, <2>1, <2>2 DEF TaskStep
  <1>5. ASSUME NEW s \in Streams, ~Finished(s) PROVE fault'[s] # "empty"
    <2>0. s \in Tasks /\ s # Loop /\ pc[s] # "woken"
      BY <1>5, Numbers DEF OwnWriter
    <2>1. CASE fault'[s] = fault[s] \/ fault'[s] \in {"broken", "refused"}
      BY <1>5, <2>1 DEF OwnWriter
    <2>2. ASSUME NEW r \in Streams, NEW d \in Nat, h2[r] # "idle", fault'[s] = Refusal(r, d)
          PROVE  fault'[s] # "empty"
      BY <2>2, Refusals DEF Base
    <2>3. CASE SendResponse(s) /\ fault'[s] \in {"again", Refusal(s, 0)}
      <3>1. h2[s] # "idle"
        BY <2>3 DEF SendResponse, InDict, Base, StreamsKnown
      <3>. QED  BY <2>3, <3>1, Refusals DEF Base
    <2>. QED  BY <2>0, <2>1, <2>2, <2>3, Faults
  <1>. QED  BY <1>1, <1>2, <1>3, <1>4, <1>5 DEF OwnWriter
-----------------------------------------------------------------------------
LoopInv == Keys /\ InTurn /\ Parting /\ Told /\ LoopReasons /\ LoopWaits

LEMMA LoopInvHolds == Spec => []LoopInv
  <1>1. Init => LoopInv
    <2>. SUFFICES ASSUME Init PROVE LoopInv
      OBVIOUS
    <2>1. /\ streams = <<>> /\ events = <<>> /\ DOMAIN <<>> = {}
          /\ \A s \in Streams : h2[s] = "idle"
          /\ pc[Loop] = "idle" /\ fault[Loop] = "none" /\ goaway = FALSE
      BY Numbers DEF Init
    <2>2. Keys /\ InTurn
      BY <2>1 DEF Keys, InTurn, InDict, Queued
    <2>3. Parting /\ Told
      BY <2>1 DEF Parting, Told, Pending
    <2>4. LoopReasons /\ LoopWaits
      BY <2>1 DEF LoopReasons, LoopWaits
    <2>. QED  BY <2>2, <2>3, <2>4 DEF LoopInv
  <1>2. Base /\ LoopInv /\ [Next]_vars => LoopInv'
    BY KeysKept, InTurnKept, PartingKept, ToldKept, LoopReasonsKept, LoopWaitsKept DEF LoopInv
  <1>. QED  BY <1>1, <1>2, BaseHolds, PTL DEF Spec

\* Whatever the client does, the receive loop is woken in a writer only to find there
\* what it was woken for, and a reset or a GOAWAY ends it only through an event before
\* it in the batch (h2.py 49-56, 101-105, 176-193).
LoopOnlyByItsBatch ==
    /\ fault[Loop] # "empty"
    /\ \A kind \in {"reset", "goaway"} : fault[Loop] = kind => Pending(kind)

THEOREM LoopEnds == Spec => []LoopOnlyByItsBatch
  <1>1. LoopInv => LoopOnlyByItsBatch
    BY DEF LoopInv, LoopReasons, LoopWaits, LoopOnlyByItsBatch
  <1>. QED  BY <1>1, LoopInvHolds, PTL

\* With one stream at a time, the SETTINGS of the server kept from the first request,
\* no handler either is woken in a writer with nothing in it, unless its own stream is
\* over on both sides and it goes on sending (h2.py 176-208).
THEOREM TasksEnd ==
    ASSUME "early" \notin Peer
    PROVE  Spec => []LoopFaults
  <1>1. Init => OneOpen /\ OwnWriter
    <2>. SUFFICES ASSUME Init PROVE OneOpen /\ OwnWriter
      OBVIOUS
    <2>1. /\ streams = <<>> /\ events = <<>> /\ DOMAIN <<>> = {}
          /\ \A s \in Streams : pc[s] = "none" /\ fault[s] = "none"
      BY Numbers DEF Init
    <2>2. OneOpen
      BY <2>1 DEF OneOpen, InDict
    <2>3. OwnWriter
      BY <2>1 DEF OwnWriter, Flushing
    <2>. QED  BY <2>2, <2>3
  <1>2. Base /\ Ended /\ LoopInv /\ (OneOpen /\ OwnWriter) /\ [Next]_vars
            => (OneOpen /\ OwnWriter)'
    BY OneOpenKept, OwnWriterKept DEF LoopInv
  <1>3. LoopInv /\ (OneOpen /\ OwnWriter) => LoopFaults
    BY DEF LoopInv, LoopReasons, LoopWaits, OwnWriter, LoopFaults, Tasks
  <1>. QED  BY <1>1, <1>2, <1>3, BaseHolds, EndedHolds, LoopInvHolds, PTL DEF Spec
-----------------------------------------------------------------------------
(***************************************************************************)
(* Refused frames.  The snapshot of a task that has ended names, at its      *)
(* head, the stream whose frame was refused, since no task begins again.     *)
(***************************************************************************)
\* A handler whose request the loop has not seen has done nothing.
Unborn == pc[Loop] # "over" => \A s \in Streams :
    h2[s] = "idle" \/ Queued("request", s)
        => pc[s] \in {"none", "over"} /\ fault[s] # "ended"

\* What is idle or queued was so before, unless the loop handles it.
LEMMA StillUnborn ==
    ASSUME Base, Keys, [Next]_vars, NEW s \in Streams, h2'[s] = "idle" \/ Queued("request", s)'
    PROVE  /\ h2[s] = "idle" \/ Queued("request", s)
           /\ ~(HandleRequest /\ s = Subject)
  <1>0. h2 \in [Streams -> {"idle", "open", "ended", "reset"}]
    BY DEF Base, TypeOK
  <1>1. ASSUME NEW e \in Event, Arrive(e), h2[s] # "idle", e # <<"request", s>>, h2'[s] # "idle"
        PROVE  Queued("request", s)
    <2>1. PICK i \in DOMAIN events' : events'[i] = <<"request", s>>
      BY <1>1 DEF Queued
    <2>2. i \in DOMAIN events /\ events[i] = <<"request", s>>
      BY <1>1, <2>1, Grown
    <2>. QED  BY <2>2 DEF Queued
  <1>2. ~(HandleRequest /\ s = Subject)
    <2>. SUFFICES ASSUME HandleRequest, s = Subject PROVE FALSE
      OBVIOUS
    <2>1. /\ events # <<>> /\ Head(events) = <<"request", s>> /\ h2[s] # "idle"
          /\ events' = Tail(events) /\ h2' = h2
      BY Subjects DEF HandleRequest, peerVars
    <2>2. PICK i \in DOMAIN events' : events'[i] = <<"request", s>>
      BY <2>1 DEF Queued
    <2>3. /\ 1 \in DOMAIN events /\ events[1] = <<"request", s>>
          /\ DOMAIN events' = 1 .. Len(events) - 1 /\ Len(events) \in Nat
          /\ i + 1 \in DOMAIN events /\ events[i + 1] = <<"request", s>>
      BY <2>1, <2>2, Shifted
    <2>4. i + 1 = 1
      BY <2>3 DEF Keys
    <2>. QED  BY <2>3, <2>4
  <1>3. ASSUME NEW r \in Streams, ArriveRequest(r)
        PROVE  h2[s] = "idle" \/ Queued("request", s)
    <2>1. /\ h2[r] = "idle" /\ h2' = [h2 EXCEPT ![r] = "open"]
          /\ <<"request", r>> \in Event /\ Arrive(<<"request", r>>)
      BY <1>3, Numbers DEF ArriveRequest, Event, Streams
    <2>2. CASE s # r /\ h2[s] # "idle"
      <3>1. h2'[s] # "idle" /\ <<"request", r>> # <<"request", s>>
        BY <1>0, <2>1, <2>2
      <3>. QED  BY <1>1, <2>1, <2>2, <3>1
    <2>. QED  BY <2>1, <2>2
  <1>4. ASSUME NEW r \in Streams, ArriveReset(r)
        PROVE  h2[s] = "idle" \/ Queued("request", s)
    <2>1. /\ h2' = [h2 EXCEPT ![r] = "reset"]
          /\ <<"reset", r>> \in Event /\ Arrive(<<"reset", r>>)
      BY <1>4, Numbers DEF ArriveReset, Event, Streams
    <2>2. h2[s] # "idle" => h2'[s] # "idle"
      BY <1>0, <2>1
    <2>. QED  BY <1>1, <2>1, <2>2
  <1>5. CASE ArriveGoaway
    <2>1. h2' = h2 /\ <<"goaway", 0>> \in Event /\ Arrive(<<"goaway", 0>>)
          /\ <<"goaway", 0>> # <<"request", s>>
      BY <1>5, Numbers DEF ArriveGoaway, Event
    <2>. QED  BY <1>1, <1>2, <2>1
  <1>6. CASE OtherArrives
    <2>1. PICK e \in Event : Arrive(e) /\ e[1] # "request" /\ h2' = h2
      BY <1>6 DEF OtherArrives, Turning
    <2>2. e # <<"request", s>>
      BY <2>1
    <2>. QED  BY <1>1, <1>2, <2>1, <2>2
  <1>7. CASE ArriveRefused \/ HandleGoaway
    <2>1. events' = <<>> /\ h2' = h2 /\ DOMAIN <<>> = {}
      BY <1>7 DEF ArriveRefused, HandleGoaway, peerVars
    <2>. QED  BY <1>2, <2>1 DEF Queued
  <1>8. CASE HandleRequest \/ HandleReset \/ Popped
    <2>1. events # <<>> /\ events' = Tail(events) /\ h2' = h2
      BY <1>8 DEF HandleRequest, HandleReset, Popped, Handling, peerVars
    <2>2. Queued("request", s)' => Queued("request", s)
      BY <2>1, Shifted
    <2>. QED  BY <1>2, <2>1, <2>2
  <1>9. CASE Calm
    <2>1. events' = events /\ (h2'[s] = h2[s] \/ h2'[s] = "ended")
      BY <1>9 DEF Calm
    <2>. QED  BY <1>2, <2>1 DEF Queued
  <1>. QED  BY <1>2, <1>3, <1>4, <1>5, <1>6, <1>7, <1>8, <1>9, QueueSteps

LEMMA UnbornKept ==
    ASSUME Base, Keys, Unborn, [Next]_vars
    PROVE  Unborn'
  <1>. SUFFICES ASSUME pc'[Loop] # "over", NEW s \in Streams,
                       h2'[s] = "idle" \/ Queued("request", s)'
                PROVE  pc'[s] \in {"none", "over"} /\ fault'[s] # "ended"
    BY DEF Unborn
  <1>1. /\ h2[s] = "idle" \/ Queued("request", s)
        /\ ~(HandleRequest /\ s = Subject)
    BY StillUnborn
  <1>2. pc[Loop] # "over"
    BY OverIsOver
  <1>3. pc[s] \in {"none", "over"} /\ fault[s] # "ended" /\ s \in Tasks
    BY <1>1, <1>2, Numbers DEF Unborn
  <1>4. pc'[s] \in {"none", "over"}
    BY <1>1, <1>3, TaskSteps DEF TaskStep
  <1>5. ~Sends(s) /\ ~SendResponse(s)
    BY <1>3 DEF Sends, SendResponse, AtApp
  <1>. QED  BY <1>3, <1>4, <1>5, Faults

\* A task is refused a frame for END_STREAM only on a stream whose application has
\* gone on after an end.
LateOnly == \A t \in Tasks : fault[t] = "ended" =>
    pc[t] = "over" /\ todo[t] # <<>> /\ Late(Head(todo[t]))

LEMMA LateOnlyKept ==
    ASSUME Base, Ended, Unborn, LateOnly, [Next]_vars
    PROVE  LateOnly'
  <1>0. todo \in [Tasks -> Seq(Streams)] /\ pc \in [Tasks -> Spot]
    BY DEF Base, TypeOK
  <1>. SUFFICES ASSUME NEW t \in Tasks, fault'[t] = "ended"
                PROVE  pc'[t] = "over" /\ todo'[t] # <<>> /\ Late(Head(todo[t]))'
    BY DEF LateOnly
  <1>1. CASE fault[t] = "ended"
    <2>0. PICK r : r = Head(todo[t])
      OBVIOUS
    <2>1. pc[t] = "over" /\ todo[t] # <<>> /\ Late(r) /\ r \in Streams
      BY <1>0, <1>1, <2>0, HeadKnown DEF LateOnly
    <2>2. ~(HandleRequest /\ t = Subject)
      <3>. SUFFICES ASSUME HandleRequest, t = Subject PROVE FALSE
        OBVIOUS
      <3>1. /\ events # <<>> /\ Head(events) = <<"request", t>> /\ t \in Streams
            /\ pc[Loop] = "handle" /\ events' = Tail(events)
        BY Subjects DEF HandleRequest
      <3>2. Queued("request", t)
        BY <3>1, Shifted DEF Queued
      <3>. QED  BY <1>1, <3>1, <3>2 DEF Unborn
    <2>3. pc'[t] = "over" /\ todo'[t] = todo[t]
      BY <2>1, <2>2, TaskSteps DEF TaskStep
    <2>4. Late(r)'
      BY <2>1, LateStays
    <2>5. Late(Head(todo[t]))'
      BY <2>0, <2>3, <2>4 DEF Late
    <2>. QED  BY <1>0, <2>1, <2>3, <2>5
  <1>2. CASE fault[t] # "ended"
    <2>1. ASSUME t \in Streams, SendResponse(t), fault'[t] \in {"again", Refusal(t, 0)}
          PROVE  FALSE
      <3>1. ~weof[t] /\ h2[t] # "idle"
        BY <2>1 DEF SendResponse, InDict, Base, StreamsKnown
      <3>. QED  BY <2>1, <3>1, Refusals DEF Ended, Base
    <2>2. PICK s \in Streams, d \in Nat :
              /\ todo[t] # <<>> /\ s = Head(todo[t]) /\ wbuf[s] # <<>> /\ h2[s] # "idle"
              /\ FrameRefused(t, s, d) /\ fault'[t] = Refusal(s, d)
      BY <1>2, <2>1, Faults
    <2>3. Late(s)
      BY <2>2, Refusals DEF Ended, Base
    <2>4. Late(s)'
      BY <2>3, LateStays
    <2>5. pc'[t] = "over" /\ todo' = todo
      BY <1>0, <2>2 DEF FrameRefused, Fail
    <2>6. Late(Head(todo[t]))'
      BY <2>2, <2>4, <2>5 DEF Late
    <2>. QED  BY <1>0, <2>2, <2>5, <2>6
  <1>. QED  BY <1>1, <1>2

LEMMA LateOnlyHolds == Spec => []LateOnly
  <1>1. Init => Unborn /\ LateOnly
    BY Numbers DEF Init, Unborn, LateOnly
  <1>2. Base /\ Ended /\ LoopInv /\ (Unborn /\ LateOnly) /\ [Next]_vars => (Unborn /\ LateOnly)'
    BY UnbornKept, LateOnlyKept DEF LoopInv
  <1>. QED  BY <1>1, <1>2, BaseHolds, EndedHolds, LoopInvHolds, PTL DEF Spec

\* With windows of the streams that are wide enough the library refuses no frame of
\* an application that sends nothing after an empty body: whoever flushes whose writer,
\* what is sent fits both windows and comes before END_STREAM (h2.py 176-208).
THEOREM FramesAccepted ==
    ASSUME WideWindows
    PROVE  Spec => []NoRefusedFrame
  <1>1. Responses /\ LateOnly => NoRefusedFrame
    BY DEF Responses, NoneTooWide, LateOnly, NoRefusedFrame
  <1>. QED  BY <1>1, ResponsesHold, LateOnlyHolds, PTL
=============================================================================
