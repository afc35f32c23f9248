---------------------------- MODULE PrimitivesProofs ----------------------------
(***************************************************************************)
(* Proofs about Locks: one owner of a Lock, but for the hand-overs to a last *)
(* waiter, nobody asleep on an open WaitLock, types; and the three parts of *)
(* MCPrimitives side by side.                                              *)
(***************************************************************************)
EXTENDS MCPrimitives, QueueProofs, ObjectIdProofs

\* While the lock is marked as free there is room for one owner more.
Slot == IF locked THEN 1 ELSE 0
OwnersInv ==
    /\ at \in [Tasks -> {"out", "waiting", "woken", "in"}] /\ locked \in BOOLEAN
    /\ drained \in 0 .. Cardinality(Tasks)
    /\ drained = Cardinality(Tasks) \/ Cardinality(Owners) <= drained + Slot

LEMMA OwnersFinite ==
    /\ IsFiniteSet(Owners) /\ Cardinality(Owners) \in Nat /\ Cardinality(Tasks) \in Nat
    /\ Cardinality(Owners) <= Cardinality(Tasks)
  BY TasksFinite, FS_Subset, FS_CardinalityType DEF Owners

LEMMA OneMore ==
    ASSUME NEW S, NEW x, IsFiniteSet(S)
    PROVE  /\ IsFiniteSet(S \cup {x}) /\ Cardinality(S \cup {x}) \in Nat
           /\ Cardinality(S \cup {x}) <= Cardinality(S) + 1
  <1>1. IsFiniteSet(S \cup {x}) /\ Cardinality(S) \in Nat
    BY FS_AddElement, FS_CardinalityType
  <1>2. Cardinality(S \cup {x}) \in Nat
    BY <1>1, FS_CardinalityType
  <1>3. Cardinality(S \cup {x}) = Cardinality(S) \/ Cardinality(S \cup {x}) = Cardinality(S) + 1
    BY FS_AddElement
  <1>. QED  BY <1>1, <1>2, <1>3

LEMMA OwnersStep == OwnersInv /\ [LocksNext]_locksVars => OwnersInv'
  <1>. SUFFICES ASSUME OwnersInv, [LocksNext]_locksVars PROVE OwnersInv'
    OBVIOUS
  <1>1. ASSUME UNCHANGED locked, UNCHANGED drained, Owners' = Owners,
               at' \in [Tasks -> {"out", "waiting", "woken", "in"}]
        PROVE  OwnersInv'
    BY <1>1 DEF OwnersInv, Slot
  <1>2. ASSUME NEW t \in Tasks, AcquireNow(t) PROVE OwnersInv'
    <2>1. /\ Owners' = Owners \cup {t} /\ ~locked /\ locked' /\ UNCHANGED drained
          /\ at' \in [Tasks -> {"out", "waiting", "woken", "in"}]
      BY <1>2 DEF AcquireNow, Owners, OwnersInv
    <2>2. Cardinality(Owners') <= Cardinality(Owners) + 1 /\ Cardinality(Owners') \in Nat
      BY <2>1, OwnersFinite, OneMore
    <2>. QED  BY <2>1, <2>2, OwnersFinite DEF OwnersInv, Slot
  <1>3. ASSUME NEW t \in Tasks, AcquireWait(t) \/ AcquireResume(t) \/ AcquireCancelled(t)
        PROVE  OwnersInv'
    BY <1>1, <1>3 DEF AcquireWait, AcquireResume, AcquireCancelled, Owners, OwnersInv
  <1>4. ASSUME NEW t \in Tasks, ReleaseAlone(t) PROVE OwnersInv'
    <2>1. /\ Owners' = Owners \ {t} /\ UNCHANGED <<locked, drained>>
          /\ at' \in [Tasks -> {"out", "waiting", "woken", "in"}]
      BY <1>4 DEF ReleaseAlone, Owners, OwnersInv
    <2>2. Cardinality(Owners') <= Cardinality(Owners) /\ Cardinality(Owners') \in Nat
      BY <2>1, OwnersFinite, FS_Subset, FS_CardinalityType
    <2>. QED  BY <2>1, <2>2, OwnersFinite DEF OwnersInv, Slot
  <1>5. ASSUME NEW t \in Tasks, HandOver(t) PROVE OwnersInv'
    <2>1. /\ t \in Owners /\ locked /\ locked' \in BOOLEAN
          /\ Owners' \subseteq (Owners \ {t}) \cup {Head(futs)}
          /\ at' \in [Tasks -> {"out", "waiting", "woken", "in"}]
      BY <1>5 DEF HandOver, Owners, OwnersInv
    <2>2. Cardinality(Owners') <= Cardinality(Owners) /\ Cardinality(Owners') \in Nat
      <3>1. /\ IsFiniteSet(Owners \ {t}) /\ Cardinality(Owners \ {t}) = Cardinality(Owners) - 1
        BY <2>1, OwnersFinite, FS_RemoveElement
      <3>. DEFINE All == (Owners \ {t}) \cup {Head(futs)}
      <3>2. IsFiniteSet(All) /\ Cardinality(All) <= Cardinality(Owners) /\ Cardinality(All) \in Nat
        <4>. DEFINE Others == Owners \ {t}
        <4>1. IsFiniteSet(Others) /\ Cardinality(Others) = Cardinality(Owners) - 1
          BY <3>1
        <4>2. Cardinality(Owners) \in Nat
          BY OwnersFinite
        <4>. HIDE DEF Others
        <4>3. /\ IsFiniteSet(Others \cup {Head(futs)}) /\ Cardinality(Others \cup {Head(futs)}) \in Nat
              /\ Cardinality(Others \cup {Head(futs)}) <= Cardinality(Others) + 1
          BY <4>1, OneMore
        <4>. QED  BY <4>1, <4>2, <4>3 DEF Others
      <3>3. Owners' \subseteq All
        BY <2>1
      <3>. HIDE DEF All
      <3>. QED  BY <3>2, <3>3, OwnersFinite, FS_Subset, FS_CardinalityType
    <2>3. \/ locked' /\ drained' = drained
          \/ drained' = drained + 1 /\ drained < Cardinality(Tasks)
          \/ drained' = drained /\ drained = Cardinality(Tasks)
      <3>1. /\ locked' = (Len(futs) # 1)
            /\ drained' = drained
                           + (IF Len(futs) = 1 /\ drained < Cardinality(Tasks) THEN 1 ELSE 0)
            /\ drained \in 0 .. Cardinality(Tasks)
        BY <1>5 DEF HandOver, OwnersInv
      <3>2. Cardinality(Tasks) \in Nat
        BY OwnersFinite
      <3>3. CASE Len(futs) = 1
        BY <3>1, <3>2, <3>3
      <3>4. CASE Len(futs) # 1
        <4>1. drained' = drained
          BY <3>1, <3>4
        <4>2. locked'
          BY <3>1, <3>4, Zenon
        <4>. QED  BY <4>1, <4>2
      <3>. QED  BY <3>3, <3>4
    <2>. QED  BY <2>1, <2>2, <2>3, OwnersFinite DEF OwnersInv, Slot
  <1>6. CASE WaitLockNext
    BY <1>1, <1>6 DEF WaitLockNext, Shut, Open, Wait, WaitEnds, lock, Owners, OwnersInv
  <1>7. CASE UNCHANGED locksVars
    BY <1>1, <1>7 DEF locksVars, lock, Owners, OwnersInv
  <1>. QED
    BY <1>2, <1>3, <1>4, <1>5, <1>6, <1>7 DEF LocksNext, LockNext

(***************************************************************************)
(* For any number of tasks the Lock has one owner, and at most one more for *)
(* every release that took the last waiter.                                 *)
(***************************************************************************)
THEOREM OneOwnerHolds == LocksSpec => []OneOwner
  <1>1. LocksInit => OwnersInv
    <2>. SUFFICES ASSUME LocksInit PROVE OwnersInv
      OBVIOUS
    <2>1. Owners = {} /\ Cardinality(Owners) = 0
      BY FS_EmptySet DEF LocksInit, Owners
    <2>2. /\ at \in [Tasks -> {"out", "waiting", "woken", "in"}] /\ locked = FALSE
          /\ drained = 0
      BY DEF LocksInit
    <2>3. Cardinality(Tasks) \in Nat /\ 0 \in 0 .. Cardinality(Tasks)
      BY OwnersFinite
    <2>4. Cardinality(Owners) <= drained + Slot
      BY <2>1, <2>2 DEF Slot
    <2>. QED  BY <2>2, <2>3, <2>4 DEF OwnersInv
  <1>2. OwnersInv => OneOwner
    BY OwnersFinite DEF OwnersInv, OneOwner, Slot
  <1>. QED  BY <1>1, <1>2, OwnersStep, PTL DEF LocksSpec

-----------------------------------------------------------------------------
(***************************************************************************)
(* The deques of futures.                                                  *)
(***************************************************************************)
LEMMA RemoveAtOf ==
    ASSUME NEW S, NEW q \in Seq(S), NEW i \in DOMAIN q
    PROVE  /\ RemoveAt(q, i) \in Seq(S)
           /\ DOMAIN q = 1 .. Len(q) /\ Len(q) \in Nat
           /\ DOMAIN RemoveAt(q, i) = 1 .. Len(q) - 1
           /\ \A j \in DOMAIN RemoveAt(q, i) :
                RemoveAt(q, i)[j] = IF j < i THEN q[j] ELSE q[j + 1]
  <1>1. Len(q) \in Nat /\ i \in 1 .. Len(q) /\ DOMAIN q = 1 .. Len(q)
    BY LenProperties
  <1>. DEFINE l == SubSeq(q, 1, i - 1)  r == SubSeq(q, i + 1, Len(q))
  <1>2. l \in Seq(S) /\ Len(l) = i - 1 /\ \A j \in 1 .. i - 1 : l[j] = q[j]
    <2>1. 1 \in 1 .. Len(q) + 1 /\ i - 1 \in 0 .. Len(q)
      BY <1>1
    <2>. QED  BY <1>1, <2>1, SubSeqProperties
  <1>3. r \in Seq(S) /\ Len(r) = Len(q) - i /\ \A j \in 1 .. Len(q) - i : r[j] = q[i + j]
    <2>1. i + 1 \in 1 .. Len(q) + 1 /\ Len(q) \in 0 .. Len(q)
      BY <1>1
    <2>2. /\ r \in Seq(S) /\ Len(r) = IF i + 1 <= Len(q) THEN Len(q) - (i + 1) + 1 ELSE 0
          /\ \A j \in 1 .. Len(q) - (i + 1) + 1 : r[j] = q[i + 1 + j - 1]
      BY <1>1, <2>1, SubSeqProperties
    <2>3. Len(r) = Len(q) - i
      BY <1>1, <2>2
    <2>4. ASSUME NEW j \in 1 .. Len(q) - i PROVE r[j] = q[i + j]
      <3>1. j \in 1 .. Len(q) - (i + 1) + 1 /\ i + 1 + j - 1 = i + j
        BY <1>1
      <3>. QED  BY <2>2, <3>1
    <2>. QED  BY <2>2, <2>3, <2>4
  <1>. HIDE DEF l, r
  <1>4. /\ l \o r \in Seq(S) /\ Len(l \o r) = Len(q) - 1
        /\ \A j \in 1 .. Len(q) - 1 : (l \o r)[j] = IF j < i THEN q[j] ELSE q[j + 1]
    <2>1. /\ l \o r \in Seq(S) /\ Len(l \o r) = Len(l) + Len(r)
          /\ \A j \in 1 .. Len(l) + Len(r) :
                (l \o r)[j] = IF j <= Len(l) THEN l[j] ELSE r[j - Len(l)]
      BY <1>2, <1>3, ConcatProperties
    <2>2. Len(l) + Len(r) = Len(q) - 1
      BY <1>1, <1>2, <1>3
    <2>3. ASSUME NEW j \in 1 .. Len(q) - 1 PROVE (l \o r)[j] = IF j < i THEN q[j] ELSE q[j + 1]
      <3>1. CASE j < i
        <4>1. j \in 1 .. i - 1 /\ j <= Len(l)
          BY <1>1, <1>2, <3>1
        <4>. QED  BY <1>2, <2>1, <2>2, <3>1, <4>1
      <3>2. CASE ~(j < i)
        <4>1. j - (i - 1) \in 1 .. Len(q) - i /\ ~(j <= Len(l)) /\ i + (j - (i - 1)) = j + 1
          BY <1>1, <1>2, <3>2
        <4>2. r[j - (i - 1)] = q[j + 1]
          BY <1>3, <4>1
        <4>. QED  BY <1>2, <2>1, <2>2, <3>2, <4>1, <4>2
      <3>. QED  BY <3>1, <3>2
    <2>. QED  BY <2>1, <2>2, <2>3
  <1>5. RemoveAt(q, i) = l \o r
    BY DEF RemoveAt, l, r
  <1>6. DOMAIN (l \o r) = 1 .. Len(q) - 1
    BY <1>4, LenProperties
  <1>. QED  BY <1>1, <1>4, <1>5, <1>6

In(q, t) == \E i \in DOMAIN q : q[i] = t
Once(q)  == \A i, j \in DOMAIN q : q[i] = q[j] => i = j

\* deque.remove of a future that is there once
LEMMA Removed ==
    ASSUME NEW S, NEW q \in Seq(S), Once(q), NEW t, In(q, t)
    PROVE  /\ RemoveFirst(q, t) \in Seq(S) /\ Once(RemoveFirst(q, t))
           /\ \A u : In(RemoveFirst(q, t), u) <=> In(q, u) /\ u # t
  <1>1. PICK i \in DOMAIN q : q[i] = t
    BY DEF In
  <1>2. DOMAIN q = 1 .. Len(q) /\ Len(q) \in Nat
    BY RemoveAtOf, <1>1
  <1>. DEFINE I == {k \in 1 .. Len(q) : q[k] = t}
  <1>3. I = {i}
    BY <1>1, <1>2 DEF Once
  <1>4. Min(I) = i
    <2>1. i \in Int
      BY <1>1, <1>2
    <2>. QED  BY <1>3, <2>1 DEF Min
  <1>5. RemoveFirst(q, t) = RemoveAt(q, i)
    <2>1. SelectInSeq(q, LAMBDA v : v = t) = IF I # {} THEN Min(I) ELSE 0
      BY DEF SelectInSeq
    <2>2. SelectInSeq(q, LAMBDA v : v = t) = i
      BY <1>3, <1>4, <2>1
    <2>. QED  BY <1>1, <1>2, <2>2 DEF RemoveFirst
  <1>. DEFINE r == RemoveAt(q, i)
  <1>6. /\ r \in Seq(S) /\ DOMAIN r = 1 .. Len(q) - 1
        /\ \A j \in DOMAIN r : r[j] = IF j < i THEN q[j] ELSE q[j + 1]
    BY <1>1, RemoveAtOf
  <1>. HIDE DEF r
  <1>7. \A j \in DOMAIN r : \E k \in DOMAIN q : k # i /\ r[j] = q[k] /\ k = IF j < i THEN j ELSE j + 1
    <2>1. ASSUME NEW j \in DOMAIN r, j < i
          PROVE  \E k \in DOMAIN q : k # i /\ r[j] = q[k] /\ k = IF j < i THEN j ELSE j + 1
      <3>1. j \in DOMAIN q /\ j # i /\ r[j] = q[j]
        BY <1>1, <1>2, <1>6, <2>1
      <3>. QED  BY <2>1, <3>1
    <2>2. ASSUME NEW j \in DOMAIN r, ~(j < i)
          PROVE  \E k \in DOMAIN q : k # i /\ r[j] = q[k] /\ k = IF j < i THEN j ELSE j + 1
      <3>1. j + 1 \in DOMAIN q /\ j + 1 # i /\ r[j] = q[j + 1]
        BY <1>1, <1>2, <1>6, <2>2
      <3>. QED  BY <2>2, <3>1
    <2>. QED  BY <2>1, <2>2
  <1>8. Once(r)
    <2>1. ASSUME NEW j \in DOMAIN r, NEW k \in DOMAIN r, r[j] = r[k] PROVE j = k
      <3>1. PICK a \in DOMAIN q : r[j] = q[a] /\ a = IF j < i THEN j ELSE j + 1
        BY <1>7
      <3>2. PICK b \in DOMAIN q : r[k] = q[b] /\ b = IF k < i THEN k ELSE k + 1
        BY <1>7
      <3>3. a = b
        BY <2>1, <3>1, <3>2 DEF Once
      <3>. QED  BY <1>1, <1>2, <1>6, <3>1, <3>2, <3>3
    <2>. QED  BY <2>1 DEF Once
  <1>9. ASSUME NEW u, In(q, u), u # t PROVE In(r, u)
    <2>1. PICK k \in DOMAIN q : q[k] = u
      BY <1>9 DEF In
    <2>2. CASE k < i
      <3>1. k \in DOMAIN r /\ r[k] = u
        BY <1>1, <1>2, <1>6, <2>1, <2>2
      <3>. QED  BY <3>1 DEF In
    <2>3. CASE ~(k < i)
      <3>1. k - 1 \in DOMAIN r /\ ~(k - 1 < i) /\ (k - 1) + 1 = k
        BY <1>1, <1>2, <1>6, <1>9, <2>1, <2>3
      <3>2. r[k - 1] = u
        BY <1>6, <2>1, <3>1
      <3>. QED  BY <3>1, <3>2 DEF In
    <2>. QED  BY <2>2, <2>3
  <1>10. ASSUME NEW u, In(r, u) PROVE In(q, u) /\ u # t
    <2>1. PICK k \in DOMAIN q : k # i /\ q[k] = u
      BY <1>7, <1>10 DEF In
    <2>2. u # t
      BY <1>1, <2>1 DEF Once
    <2>. QED  BY <2>1, <2>2 DEF In
  <1>. QED  BY <1>5, <1>6, <1>8, <1>9, <1>10 DEF r

LEMMA Appended ==
    ASSUME NEW S, NEW q \in Seq(S), Once(q), NEW t \in S, ~In(q, t)
    PROVE  /\ Append(q, t) \in Seq(S) /\ Once(Append(q, t))
           /\ \A u : In(Append(q, t), u) <=> In(q, u) \/ u = t
  <1>. DEFINE r == Append(q, t)
  <1>1. /\ r \in Seq(S) /\ Len(q) \in Nat /\ DOMAIN q = 1 .. Len(q)
        /\ DOMAIN r = 1 .. Len(q) + 1
        /\ \A i \in 1 .. Len(q) : r[i] = q[i]
        /\ r[Len(q) + 1] = t
    BY AppendProperties, LenProperties
  <1>. HIDE DEF r
  <1>2. \A i \in DOMAIN r : i \in DOMAIN q \/ i = Len(q) + 1
    BY <1>1
  <1>3. Len(q) + 1 \in DOMAIN r /\ \A i \in DOMAIN q : i \in DOMAIN r
    BY <1>1
  <1>4. Once(r)
    BY <1>1, <1>2 DEF Once, In
  <1>5. \A u : In(r, u) <=> In(q, u) \/ u = t
    BY <1>1, <1>2, <1>3 DEF In
  <1>. QED  BY <1>1, <1>4, <1>5 DEF r

LEMMA PoppedOff ==
    ASSUME NEW S, NEW q \in Seq(S), Once(q), q # <<>>
    PROVE  /\ Tail(q) \in Seq(S) /\ Once(Tail(q)) /\ Head(q) \in S /\ In(q, Head(q))
           /\ \A u : In(Tail(q), u) <=> In(q, u) /\ u # Head(q)
  <1>. DEFINE r == Tail(q)
  <1>1. /\ r \in Seq(S) /\ Len(q) \in Nat /\ Len(q) > 0 /\ DOMAIN q = 1 .. Len(q)
        /\ DOMAIN r = 1 .. Len(q) - 1
        /\ \A i \in 1 .. Len(q) - 1 : r[i] = q[i + 1]
        /\ Head(q) = q[1]
    BY HeadTailProperties, LenProperties, EmptySeq
  <1>2. 1 \in DOMAIN q /\ q[1] \in S
    <2>1. 1 \in DOMAIN q
      BY <1>1
    <2>. QED  BY <1>1, <2>1, ElementOfSeq
  <1>. HIDE DEF r
  <1>3. \A i \in DOMAIN r : i + 1 \in DOMAIN q /\ i + 1 # 1 /\ r[i] = q[i + 1]
    BY <1>1
  <1>4. \A k \in DOMAIN q : k # 1 => k - 1 \in DOMAIN r /\ r[k - 1] = q[k]
    <2>1. ASSUME NEW k \in DOMAIN q, k # 1 PROVE k - 1 \in DOMAIN r /\ r[k - 1] = q[k]
      <3>1. k - 1 \in DOMAIN r /\ (k - 1) + 1 = k
        BY <1>1, <2>1
      <3>. QED  BY <1>3, <3>1
    <2>. QED  BY <2>1
  <1>5. Once(r)
    <2>1. ASSUME NEW i \in DOMAIN r, NEW j \in DOMAIN r, r[i] = r[j] PROVE i = j
      <3>1. i + 1 = j + 1
        BY <1>3, <2>1 DEF Once
      <3>. QED  BY <1>1, <3>1
    <2>. QED  BY <2>1 DEF Once
  <1>6. \A u : In(r, u) <=> In(q, u) /\ u # Head(q)
    <2>1. ASSUME NEW u, In(r, u) PROVE In(q, u) /\ u # Head(q)
      <3>1. PICK i \in DOMAIN r : r[i] = u
        BY <2>1 DEF In
      <3>. QED  BY <1>1, <1>2, <1>3, <3>1 DEF In, Once
    <2>2. ASSUME NEW u, In(q, u), u # Head(q) PROVE In(r, u)
      <3>1. PICK k \in DOMAIN q : q[k] = u
        BY <2>2 DEF In
      <3>. QED  BY <1>1, <1>4, <2>2, <3>1 DEF In
    <2>. QED  BY <2>1, <2>2
  <1>. QED  BY <1>1, <1>2, <1>5, <1>6 DEF r, In
-----------------------------------------------------------------------------
(***************************************************************************)
(* A task that waits for the Lock has a future in its deque, and one that   *)
(* sleeps in a WaitLock too, each once.                                     *)
(***************************************************************************)
Futures ==
    /\ Once(futs) /\ Once(sleepers)
    /\ \A t \in Tasks : at[t] = "waiting" <=> In(futs, t)

LocksInv == LocksTypeOK /\ Futures /\ NoSleeperUnlocked

\* Sleepers are known by the futures of the deque.
LEMMA SleepersSet ==
    NoSleeperUnlocked <=> (~shut /\ ~raised => \A t : In(sleepers, t) => t \in set)
  BY DEF NoSleeperUnlocked, In

LEMMA LockStep ==
    ASSUME LocksInv, NEW t \in Tasks,
           \/ AcquireNow(t) \/ AcquireWait(t) \/ AcquireResume(t)
           \/ AcquireCancelled(t) \/ ReleaseAlone(t) \/ HandOver(t)
    PROVE  LocksInv'
  <1>0. /\ at \in [Tasks -> {"out", "waiting", "woken", "in"}] /\ futs \in Seq(Tasks)
        /\ locked \in BOOLEAN /\ drained \in 0 .. Cardinality(Tasks) /\ Cardinality(Tasks) \in Nat
        /\ Once(futs) /\ Once(sleepers) /\ \A u \in Tasks : at[u] = "waiting" <=> In(futs, u)
    BY OwnersFinite DEF LocksInv, LocksTypeOK, Futures
  <1>1. /\ UNCHANGED <<shut, sleepers, set, raised>> /\ Once(sleepers') /\ NoSleeperUnlocked'
        /\ {shut', raised'} \subseteq BOOLEAN /\ sleepers' \in Seq(Tasks) /\ set' \subseteq Tasks
    <2>1. UNCHANGED <<shut, sleepers, set, raised>>
      BY DEF AcquireNow, AcquireWait, AcquireResume, AcquireCancelled, ReleaseAlone, HandOver,
             waitLock
    <2>2. NoSleeperUnlocked'
      BY <2>1 DEF LocksInv, NoSleeperUnlocked
    <2>. QED  BY <1>0, <2>1, <2>2 DEF LocksInv, LocksTypeOK
  <1>2. ASSUME futs' \in Seq(Tasks), at' \in [Tasks -> {"out", "waiting", "woken", "in"}],
               locked' \in BOOLEAN, drained' \in 0 .. Cardinality(Tasks), Once(futs'),
               \A u \in Tasks : at'[u] = "waiting" <=> In(futs', u)
        PROVE  LocksInv'
    BY <1>1, <1>2 DEF LocksInv, LocksTypeOK, Futures, In, Once
  <1>3. CASE AcquireNow(t) \/ AcquireResume(t) \/ ReleaseAlone(t)
    <2>1. /\ UNCHANGED <<futs, drained>> /\ locked' \in BOOLEAN /\ at[t] # "waiting"
          /\ at' = [at EXCEPT ![t] = "in"] \/ at' = [at EXCEPT ![t] = "out"]
      BY <1>0, <1>3 DEF AcquireNow, AcquireResume, ReleaseAlone
    <2>2. \A u \in Tasks : at'[u] = "waiting" <=> In(futs', u)
      BY <1>0, <2>1
    <2>. QED  BY <1>0, <1>2, <2>1, <2>2
  <1>4. CASE AcquireWait(t)
    <2>1. /\ UNCHANGED <<locked, drained>> /\ at[t] = "out"
          /\ futs' = Append(futs, t) /\ at' = [at EXCEPT ![t] = "waiting"]
      BY <1>4 DEF AcquireWait
    <2>2. ~In(futs, t)
      BY <1>0, <2>1
    <2>3. /\ futs' \in Seq(Tasks) /\ Once(futs')
          /\ \A u : In(futs', u) <=> In(futs, u) \/ u = t
      BY <1>0, <2>1, <2>2, Appended
    <2>4. \A u \in Tasks : at'[u] = "waiting" <=> In(futs', u)
      BY <1>0, <2>1, <2>3
    <2>. QED  BY <1>0, <1>2, <2>1, <2>3, <2>4
  <1>5. CASE AcquireCancelled(t)
    <2>1. /\ UNCHANGED <<locked, drained>> /\ at[t] = "waiting"
          /\ futs' = RemoveFirst(futs, t) /\ at' = [at EXCEPT ![t] = "out"]
      BY <1>5 DEF AcquireCancelled
    <2>2. In(futs, t)
      BY <1>0, <2>1
    <2>3. /\ futs' \in Seq(Tasks) /\ Once(futs')
          /\ \A u : In(futs', u) <=> In(futs, u) /\ u # t
      BY <1>0, <2>1, <2>2, Removed
    <2>4. \A u \in Tasks : at'[u] = "waiting" <=> In(futs', u)
      BY <1>0, <2>1, <2>3
    <2>. QED  BY <1>0, <1>2, <2>1, <2>3, <2>4
  <1>6. CASE HandOver(t)
    <2>1. /\ at[t] = "in" /\ futs # <<>> /\ futs' = Tail(futs) /\ locked' \in BOOLEAN
          /\ at' = [at EXCEPT ![t] = "out", ![Head(futs)] = "woken"]
      BY <1>6 DEF HandOver
    <2>2. drained' \in 0 .. Cardinality(Tasks)
      <3>1. drained' = drained + (IF Len(futs) = 1 /\ drained < Cardinality(Tasks) THEN 1 ELSE 0)
        BY <1>6 DEF HandOver
      <3>2. CASE Len(futs) = 1 /\ drained < Cardinality(Tasks)
        BY <1>0, <3>1, <3>2
      <3>3. CASE ~(Len(futs) = 1 /\ drained < Cardinality(Tasks))
        BY <1>0, <3>1, <3>3
      <3>. QED  BY <3>2, <3>3
    <2>. DEFINE h == Head(futs)
    <2>3. /\ futs' \in Seq(Tasks) /\ Once(futs') /\ h \in Tasks /\ In(futs, h)
          /\ \A u : In(futs', u) <=> In(futs, u) /\ u # h
      BY <1>0, <2>1, PoppedOff
    <2>4. at' = [at EXCEPT ![t] = "out", ![h] = "woken"]
      BY <2>1
    <2>. HIDE DEF h
    <2>5. /\ at' \in [Tasks -> {"out", "waiting", "woken", "in"}]
          /\ \A u \in Tasks : at'[u] = "waiting" <=> In(futs', u)
      BY <1>0, <2>1, <2>3, <2>4
    <2>. QED  BY <1>2, <2>1, <2>2, <2>3, <2>5
  <1>. QED  BY <1>3, <1>4, <1>5, <1>6

LEMMA WaitLockStep ==
    ASSUME LocksInv, WaitLockNext
    PROVE  LocksInv'
  <1>0. /\ sleepers \in Seq(Tasks) /\ set \subseteq Tasks /\ Once(sleepers)
        /\ shut \in BOOLEAN /\ raised \in BOOLEAN
        /\ \A i \in DOMAIN sleepers : sleepers[i] \in Tasks
        /\ DOMAIN sleepers = 1 .. Len(sleepers) /\ Len(sleepers) \in Nat
    <2>1. sleepers \in Seq(Tasks) /\ set \subseteq Tasks /\ Once(sleepers)
          /\ shut \in BOOLEAN /\ raised \in BOOLEAN
      BY DEF LocksInv, LocksTypeOK, Futures
    <2>. QED  BY <2>1, LenProperties, ElementOfSeq
  <1>1. /\ LocksTypeOK' <=> /\ sleepers' \in Seq(Tasks) /\ set' \subseteq Tasks
                            /\ shut' \in BOOLEAN /\ raised' \in BOOLEAN
        /\ Futures' <=> Once(sleepers')
    <2>1. UNCHANGED <<locked, futs, at, drained>>
      BY DEF WaitLockNext, Shut, Open, Wait, WaitEnds, lock
    <2>. QED  BY <2>1 DEF LocksInv, LocksTypeOK, Futures, In, Once
  <1>2. CASE Shut
    <2>1. shut' = TRUE /\ UNCHANGED <<sleepers, set, raised>>
      BY <1>2 DEF Shut
    <2>. QED  BY <1>0, <1>1, <2>1 DEF LocksInv, NoSleeperUnlocked
  <1>3. CASE Open
    <2>. DEFINE Before(i) == \A j \in 1 .. i : sleepers[j] \notin set
                told == {sleepers[i] : i \in {j \in DOMAIN sleepers : Before(j)}}
    <2>1. /\ shut' = FALSE /\ set' = set \cup told /\ sleepers' = sleepers
          /\ raised' = \E i \in DOMAIN sleepers : sleepers[i] \in set
      BY <1>3 DEF Open
    <2>2. told \subseteq Tasks
      BY <1>0
    <2>3. ASSUME ~raised', NEW i \in DOMAIN sleepers PROVE sleepers[i] \in told
      <3>1. \A j \in 1 .. i : j \in DOMAIN sleepers
        BY <1>0, <2>3
      <3>2. Before(i)
        BY <2>1, <2>3, <3>1
      <3>. QED  BY <2>3, <3>2
    <2>. HIDE DEF told
    <2>4. NoSleeperUnlocked'
      BY <2>1, <2>3 DEF NoSleeperUnlocked
    <2>5. raised' \in BOOLEAN
      BY <2>1, Zenon
    <2>. QED  BY <1>0, <1>1, <2>1, <2>2, <2>4, <2>5 DEF LocksInv
  <1>4. ASSUME NEW t \in Tasks, Wait(t) PROVE LocksInv'
    <2>1. /\ shut /\ ~In(sleepers, t) /\ sleepers' = Append(sleepers, t)
          /\ UNCHANGED <<shut, set, raised>>
      BY <1>4 DEF Wait, In
    <2>2. sleepers' \in Seq(Tasks) /\ Once(sleepers')
      BY <1>0, <2>1, Appended
    <2>. QED  BY <1>0, <1>1, <2>1, <2>2 DEF LocksInv, NoSleeperUnlocked
  <1>5. ASSUME NEW t \in Tasks, WaitEnds(t) PROVE LocksInv'
    <2>1. /\ In(sleepers, t) /\ sleepers' = RemoveFirst(sleepers, t) /\ set' = set \ {t}
          /\ UNCHANGED <<shut, raised>>
      BY <1>5 DEF WaitEnds, In
    <2>2. /\ sleepers' \in Seq(Tasks) /\ Once(sleepers')
          /\ \A u : In(sleepers', u) <=> In(sleepers, u) /\ u # t
      BY <1>0, <2>1, Removed
    <2>3. NoSleeperUnlocked'
      <3>1. ASSUME ~shut', ~raised', NEW i \in DOMAIN sleepers' PROVE sleepers'[i] \in set'
        <4>1. In(sleepers', sleepers'[i])
          BY DEF In
        <4>2. In(sleepers, sleepers'[i]) /\ sleepers'[i] # t
          BY <2>2, <4>1
        <4>3. sleepers'[i] \in set
          BY <2>1, <3>1, <4>2, SleepersSet DEF LocksInv
        <4>. QED  BY <2>1, <4>2, <4>3
      <3>. QED  BY <3>1 DEF NoSleeperUnlocked
    <2>. QED  BY <1>0, <1>1, <2>1, <2>2, <2>3 DEF LocksInv
  <1>. QED  BY <1>2, <1>3, <1>4, <1>5 DEF WaitLockNext

LEMMA LocksInvHolds == LocksSpec => []LocksInv
  <1>1. LocksInit => LocksInv
    <2>. SUFFICES ASSUME LocksInit PROVE LocksInv
      OBVIOUS
    <2>1. /\ futs = <<>> /\ sleepers = <<>> /\ <<>> \in Seq(Tasks) /\ DOMAIN <<>> = {}
          /\ at = [t \in Tasks |-> "out"] /\ 0 \in 0 .. Cardinality(Tasks)
      BY OwnersFinite, EmptySeq DEF LocksInit
    <2>2. LocksTypeOK
      BY <2>1 DEF LocksInit, LocksTypeOK
    <2>. QED  BY <2>1, <2>2 DEF LocksInv, Futures, NoSleeperUnlocked, Once, In
  <1>2. LocksInv /\ [LocksNext]_locksVars => LocksInv'
    <2>. SUFFICES ASSUME LocksInv, [LocksNext]_locksVars PROVE LocksInv'
      OBVIOUS
    <2>1. CASE UNCHANGED locksVars
      BY <2>1 DEF locksVars, lock, waitLock, LocksInv, LocksTypeOK, Futures, NoSleeperUnlocked,
                  Once, In
    <2>. QED  BY <2>1, LockStep, WaitLockStep DEF LocksNext, LockNext
  <1>. QED  BY <1>1, <1>2, PTL DEF LocksSpec

(***************************************************************************)
(* Nobody sleeps in wait() on a WaitLock that is open, for any number of    *)
(* tasks, unless the release that opened it raised half-way (lock.py 58-76).*)
(***************************************************************************)
THEOREM OpenWakesAll == LocksSpec => []NoSleeperUnlocked
  <1>1. LocksInv => NoSleeperUnlocked
    BY DEF LocksInv
  <1>. QED  BY <1>1, LocksInvHolds, PTL
-----------------------------------------------------------------------------
(***************************************************************************)
(* The three parts of MCPrimitives: each runs as its own module says, and   *)
(* what the modules promise holds of all of them together.                 *)
(***************************************************************************)
THEOREM PartsSideBySide == MCSpec => Spec /\ LocksSpec /\ IdSpec
  <1>1. MCInit => Init /\ LocksInit /\ IdInit
    BY DEF MCInit
  <1>2. [MCNext]_allVars => [Next]_vars /\ [LocksNext]_locksVars /\ [IdNext]_idVars
    BY DEF MCNext, allVars, QueueStep, LocksStep, IdStep
  <1>. QED  BY <1>1, <1>2, PTL DEF MCSpec, Spec, LocksSpec, IdSpec

\* The variables of the three modules keep their types.
THEOREM TypesHold == MCSpec => []TypesOK
  <1>1. LocksInv => LocksTypeOK
    BY DEF LocksInv
  <1>2. TypeOK /\ LocksTypeOK /\ IdTypeOK => TypesOK
    BY DEF TypesOK
  <1>. QED  BY <1>1, <1>2, PartsSideBySide, QueueType, LocksInvHolds, IdType, PTL
=============================================================================
