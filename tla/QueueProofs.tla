------------------------------ MODULE QueueProofs ------------------------------
(***************************************************************************)
(* Theorems about anyio/queues.py Queue, for any number of tasks, any      *)
(* items and any limits.                                                   *)
(***************************************************************************)
EXTENDS Queue, SequenceTheorems, FiniteSetTheorems, TLAPS

(***************************************************************************)
(* What setting an event and abandoning one do to a deque and its tasks.   *)
(***************************************************************************)
LEMMA DequeType ==
    ASSUME NEW T, NEW w \in Seq(T \cup {Stale}), NEW pc \in [T -> PC]
    PROVE  /\ Popped(w) \in Seq(T \cup {Stale})
           /\ WakeFirst(pc, w) \in [T -> PC]
           /\ \A t \in T : /\ Append(w, t) \in Seq(T \cup {Stale})
                           /\ Abandoned(w, t) \in Seq(T \cup {Stale})
  <1>1. Popped(w) \in Seq(T \cup {Stale})
    BY HeadTailProperties, EmptySeq DEF Popped
  <1>2. WakeFirst(pc, w) \in [T -> PC]
    BY DEF WakeFirst, PC
  <1>3. ASSUME NEW t \in T PROVE Append(w, t) \in Seq(T \cup {Stale})
    BY AppendProperties
  <1>4. ASSUME NEW t \in T PROVE Abandoned(w, t) \in Seq(T \cup {Stale})
    <2>1. w \in [1 .. Len(w) -> T \cup {Stale}] /\ Len(w) \in Nat
      BY LenProperties
    <2>2. Abandoned(w, t) \in [1 .. Len(w) -> T \cup {Stale}]
      BY <2>1 DEF Abandoned
    <2>. QED  BY <2>1, <2>2
  <1>. QED  BY <1>1, <1>2, <1>3, <1>4

(***************************************************************************)
(* Every attribute keeps its type, whatever operations the program uses.   *)
(***************************************************************************)
LEMMA TypeStep == TypeOK /\ [Next]_vars => TypeOK'
  <1>. SUFFICES ASSUME TypeOK, [Next]_vars PROVE TypeOK'
    OBVIOUS
  <1>. USE SizesAssumption DEF TypeOK
  <1>1. /\ Popped(putWaiters) \in Seq(Putters \cup {Stale})
        /\ Popped(getWaiters) \in Seq(Getters \cup {Stale})
        /\ WakeFirst(ppc, putWaiters) \in [Putters -> PC]
        /\ WakeFirst(gpc, getWaiters) \in [Getters -> PC]
    BY DequeType
  <1>2. queue # <<>> => Tail(queue) \in Seq(Items) /\ Len(Tail(queue)) = Len(queue) - 1
    BY HeadTailProperties
  <1>16. \A i \in Items : /\ Append(queue, i) \in Seq(Items)
                          /\ Len(Append(queue, i)) = Len(queue) + 1
    BY AppendProperties
  <1>17. Len(queue) \in Nat
    BY LenProperties
  <1>3. ASSUME NEW p \in Putters, PutNow(p) PROVE TypeOK'
    BY <1>1, <1>3, <1>16, <1>17 DEF PutNow, Enqueue, Room, Full, putters
  <1>4. ASSUME NEW p \in Putters, PutWait(p) PROVE TypeOK'
    BY <1>4, DequeType DEF PutWait, getters, PC
  <1>5. ASSUME NEW p \in Putters, PutResume(p) PROVE TypeOK'
    BY <1>1, <1>5, <1>16, <1>17 DEF PutResume, Enqueue, Full, PC
  <1>6. ASSUME NEW p \in Putters, PutAgain(p) PROVE TypeOK'
    BY <1>6, DequeType DEF PutAgain, getters, PC
  <1>7. ASSUME NEW p \in Putters, CancelPut(p) PROVE TypeOK'
    BY <1>7, DequeType DEF CancelPut, Cancelled, Use, getters, PC
  <1>8. ASSUME NEW g \in Getters, GetNow(g) PROVE TypeOK'
    BY <1>1, <1>2, <1>17, <1>8 DEF GetNow, Dequeue, getters
  <1>9. ASSUME NEW g \in Getters, GetWait(g) PROVE TypeOK'
    BY <1>9, DequeType DEF GetWait, putters, PC
  <1>10. ASSUME NEW g \in Getters, GetResume(g) PROVE TypeOK'
    BY <1>1, <1>2, <1>17, <1>10 DEF GetResume, Dequeue, PC
  <1>11. ASSUME NEW g \in Getters, GetAgain(g) PROVE TypeOK'
    BY <1>11, DequeType DEF GetAgain, putters, PC
  <1>12. ASSUME NEW g \in Getters, GetNowait(g) PROVE TypeOK'
    BY <1>2, <1>17, <1>12 DEF GetNowait, Use, putters, getters
  <1>13. ASSUME NEW g \in Getters, CancelGet(g) PROVE TypeOK'
    BY <1>13, DequeType DEF CancelGet, Cancelled, Use, putters, PC
  <1>14. CASE Clear
    BY <1>14, EmptySeq DEF Clear, Use
  <1>15. CASE UNCHANGED vars
    BY <1>15 DEF vars, putters, getters
  <1>. QED
    BY <1>3, <1>4, <1>5, <1>6, <1>7, <1>8, <1>9, <1>10, <1>11, <1>12, <1>13,
       <1>14, <1>15 DEF Next, Put, Get, PutNowait

THEOREM QueueType == Spec => []TypeOK
  <1>1. Init => TypeOK
    BY EmptySeq, SizesAssumption DEF Init, TypeOK, PC
  <1>. QED  BY <1>1, TypeStep, PTL DEF Spec

(***************************************************************************)
(* Whatever is waiting, woken or cancelled around it, the deque of items   *)
(* is a bounded first-in first-out queue: every step of Queue is a step of *)
(* BoundedFifo or leaves the items alone.                                  *)
(***************************************************************************)
THEOREM QueueRefinesFifo == Spec => FifoSpec
  <1>1. Init => Fifo!Init
    BY SizesAssumption DEF Init, Fifo!Init
  <1>2. TypeOK /\ [Next]_vars => [Fifo!Next]_<<queue, maxsize>>
    <2>. SUFFICES ASSUME TypeOK, [Next]_vars
                  PROVE  Fifo!Next \/ UNCHANGED <<queue, maxsize>>
      OBVIOUS
    <2>1. maxsize \in Nat /\ Len(queue) \in Nat
      BY SizesAssumption, LenProperties DEF TypeOK
    <2>2. ASSUME ~Full, NEW i \in Items, Enqueue(i), UNCHANGED maxsize PROVE Fifo!Accept
      BY <2>1, <2>2 DEF Full, Enqueue, Fifo!Accept
    <2>3. ASSUME queue # <<>>, queue' = Tail(queue), UNCHANGED maxsize PROVE Fifo!Deliver
      BY <2>3 DEF Fifo!Deliver
    <2>4. ASSUME NEW p \in Putters, Put(p) \/ PutNowait(p) \/ CancelPut(p)
          PROVE  Fifo!Accept \/ UNCHANGED <<queue, maxsize>>
      <3>1. CASE PutNow(p)
        BY <2>2, <3>1 DEF PutNow, Room
      <3>2. CASE PutResume(p)
        BY <2>2, <3>2 DEF PutResume, TypeOK
      <3>. QED
        BY <2>4, <3>1, <3>2 DEF Put, PutNowait, PutWait, PutAgain, CancelPut
    <2>5. ASSUME NEW g \in Getters, Get(g) \/ GetNowait(g) \/ CancelGet(g)
          PROVE  Fifo!Deliver \/ UNCHANGED <<queue, maxsize>>
      BY <2>3, <2>5
      DEF Get, GetNow, GetWait, GetResume, GetAgain, GetNowait, CancelGet, Dequeue
    <2>6. CASE Clear
      BY <2>6 DEF Clear, Fifo!Next, Fifo!Drop
    <2>7. CASE UNCHANGED vars
      BY <2>7 DEF vars
    <2>. QED
      BY <2>4, <2>5, <2>6, <2>7 DEF Next, Fifo!Next
  <1>. QED
    BY <1>1, <1>2, QueueType, PTL DEF Spec, FifoSpec, Fifo!Spec

(***************************************************************************)
(* The wake-ups under way, for any number of tasks.  Both credits rest on  *)
(* the same fact about a deque: its events are those of the tasks that     *)
(* wait, each once.  clear() and a cancellation put an end to it.          *)
(***************************************************************************)
Deque(T, w, pc) ==
    /\ w \in Seq(T) /\ pc \in [T -> PC]
    /\ \A i, j \in 1 .. Len(w) : w[i] = w[j] => i = j
    /\ \A t \in T : pc[t] = "waiting" <=> \E i \in 1 .. Len(w) : w[i] = t

Awake(T, pc) == {t \in T : pc[t] = "woken"}

\* A task that begins to wait is at the end of the deque.
LEMMA Sleep ==
    ASSUME NEW T, NEW w, NEW pc, Deque(T, w, pc), NEW t \in T, pc[t] # "waiting"
    PROVE  Deque(T, Append(w, t), [pc EXCEPT ![t] = "waiting"])
  <1>. DEFINE v == Append(w, t)  qc == [pc EXCEPT ![t] = "waiting"]
  <1>1. /\ v \in Seq(T) /\ Len(v) = Len(w) + 1 /\ Len(w) \in Nat
        /\ \A i \in 1 .. Len(w) : v[i] = w[i]
        /\ v[Len(w) + 1] = t
    BY AppendProperties, LenProperties DEF Deque
  <1>2. qc \in [T -> PC]
    BY DEF Deque, PC
  <1>3. \A i \in 1 .. Len(w) : w[i] # t
    BY DEF Deque
  <1>4. \A i, j \in 1 .. Len(v) : v[i] = v[j] => i = j
    BY <1>1, <1>3 DEF Deque
  <1>5. ASSUME NEW u \in T PROVE qc[u] = "waiting" <=> \E i \in 1 .. Len(v) : v[i] = u
    <2>1. CASE u = t
      BY <1>1, <2>1 DEF Deque
    <2>2. CASE u # t
      BY <1>1, <2>2 DEF Deque
    <2>. QED  BY <2>1, <2>2
  <1>. QED  BY <1>1, <1>2, <1>4, <1>5 DEF Deque

\* A task that is not waiting may go on without touching the deque.
LEMMA GoOn ==
    ASSUME NEW T, NEW w, NEW pc, Deque(T, w, pc), NEW t \in T, pc[t] # "waiting"
    PROVE  Deque(T, w, [pc EXCEPT ![t] = "idle"])
  BY DEF Deque, PC

\* Setting the oldest event: nobody waited, or one more task is awake.
LEMMA Wake ==
    ASSUME NEW T, IsFiniteSet(T), Stale \notin T, NEW w, NEW pc, Deque(T, w, pc)
    PROVE  /\ Deque(T, Popped(w), WakeFirst(pc, w))
           /\ \/ \A t \in T : WakeFirst(pc, w)[t] # "waiting"
              \/ Cardinality(Awake(T, WakeFirst(pc, w))) = Cardinality(Awake(T, pc)) + 1
  <1>1. CASE w = <<>>
    <2>1. Popped(w) = w /\ WakeFirst(pc, w) = pc /\ Len(w) = 0
      BY <1>1 DEF Popped, WakeFirst
    <2>. QED  BY <2>1 DEF Deque
  <1>2. CASE w # <<>>
    <2>. DEFINE h == Head(w)  v == Tail(w)  qc == [pc EXCEPT ![h] = "woken"]
    <2>1. /\ v \in Seq(T) /\ Len(v) = Len(w) - 1 /\ Len(w) \in Nat /\ Len(w) > 0
          /\ \A i \in 1 .. Len(v) : v[i] = w[i + 1]
          /\ h \in T /\ h = w[1]
      BY <1>2, HeadTailProperties, LenProperties DEF Deque
    <2>2. Popped(w) = v /\ WakeFirst(pc, w) = qc
      BY <1>2, <2>1 DEF Popped, WakeFirst
    <2>3. pc[h] = "waiting"
      BY <2>1 DEF Deque
    <2>4. \A i, j \in 1 .. Len(v) : v[i] = v[j] => i = j
      BY <2>1 DEF Deque
    <2>5. ASSUME NEW u \in T PROVE qc[u] = "waiting" <=> \E i \in 1 .. Len(v) : v[i] = u
      <3>1. CASE u = h
        <4>1. \A i \in 1 .. Len(v) : w[i + 1] # w[1]
          BY <2>1 DEF Deque
        <4>. QED  BY <2>1, <3>1, <4>1 DEF Deque
      <3>2. CASE u # h
        <4>1. qc[u] = pc[u]
          BY <3>2 DEF Deque
        <4>2. (\E i \in 1 .. Len(w) : w[i] = u) <=> \E i \in 1 .. Len(v) : w[i + 1] = u
          <5>1. ASSUME NEW i \in 1 .. Len(w), w[i] = u PROVE i - 1 \in 1 .. Len(v) /\ w[(i - 1) + 1] = u
            BY <2>1, <3>2, <5>1
          <5>2. ASSUME NEW i \in 1 .. Len(v) PROVE i + 1 \in 1 .. Len(w)
            BY <2>1
          <5>. QED  BY <5>1, <5>2
        <4>. QED  BY <2>1, <4>1, <4>2 DEF Deque
      <3>. QED  BY <3>1, <3>2
    <2>6. Deque(T, v, qc)
      BY <2>1, <2>4, <2>5 DEF Deque, PC
    <2>7. Awake(T, qc) = Awake(T, pc) \cup {h} /\ h \notin Awake(T, pc)
      BY <2>1, <2>3 DEF Awake, Deque
    <2>8. IsFiniteSet(Awake(T, pc))
      BY FS_Subset DEF Awake
    <2>. QED  BY <2>2, <2>6, <2>7, <2>8, FS_AddElement
  <1>. QED  BY <1>1, <1>2

(***************************************************************************)
(* While a task waits, n units are covered by the tasks that are awake.    *)
(***************************************************************************)
Covered(T, pc, n) ==
    (\E t \in T : pc[t] = "waiting") => n <= Cardinality(Awake(T, pc))

LEMMA AwakeFinite ==
    ASSUME NEW T, IsFiniteSet(T), NEW pc
    PROVE  IsFiniteSet(Awake(T, pc)) /\ Cardinality(Awake(T, pc)) \in Nat
  BY FS_Subset, FS_CardinalityType DEF Awake

LEMMA CoveredWake ==
    ASSUME NEW T, IsFiniteSet(T), Stale \notin T, NEW w, NEW pc, Deque(T, w, pc),
           NEW n \in Int, Covered(T, pc, n)
    PROVE  Covered(T, WakeFirst(pc, w), n + 1)
  <1>1. CASE \A t \in T : WakeFirst(pc, w)[t] # "waiting"
    BY <1>1 DEF Covered
  <1>2. CASE /\ Cardinality(Awake(T, WakeFirst(pc, w))) = Cardinality(Awake(T, pc)) + 1
             /\ \E t \in T : WakeFirst(pc, w)[t] = "waiting"
    <2>1. \E t \in T : pc[t] = "waiting"
      BY <1>2 DEF WakeFirst, Deque
    <2>. QED  BY <1>2, <2>1, AwakeFinite DEF Covered
  <1>. QED  BY <1>1, <1>2, Wake

LEMMA CoveredGoOn ==
    ASSUME NEW T, IsFiniteSet(T), NEW w, NEW pc, Deque(T, w, pc),
           NEW n \in Int, Covered(T, pc, n), NEW t \in T, pc[t] = "woken"
    PROVE  Covered(T, [pc EXCEPT ![t] = "idle"], n - 1)
  <1>. DEFINE qc == [pc EXCEPT ![t] = "idle"]
  <1>1. Awake(T, qc) = Awake(T, pc) \ {t} /\ t \in Awake(T, pc)
    BY DEF Awake, Deque
  <1>2. Cardinality(Awake(T, qc)) = Cardinality(Awake(T, pc)) - 1
    BY <1>1, AwakeFinite, FS_RemoveElement
  <1>3. \A u \in T : qc[u] = "waiting" => pc[u] = "waiting"
    BY DEF Deque
  <1>. QED  BY <1>2, <1>3, AwakeFinite DEF Covered

LEMMA CoveredNone ==
    ASSUME NEW T, IsFiniteSet(T), NEW pc, NEW n \in Int, n <= 0
    PROVE  Covered(T, pc, n)
  BY AwakeFinite DEF Covered

LEMMA CoveredLess ==
    ASSUME NEW T, IsFiniteSet(T), NEW pc, NEW n \in Int, NEW m \in Int, m <= n,
           Covered(T, pc, n)
    PROVE  Covered(T, pc, m)
  BY AwakeFinite DEF Covered

(***************************************************************************)
(* While getters sleep, every item has a wake-up under way, as long as     *)
(* nothing but put, put_nowait, get and get_nowait is used.                *)
(***************************************************************************)
GetterInv ==
    used \subseteq {"get_nowait"} =>
        Deque(Getters, getWaiters, gpc) /\ Covered(Getters, gpc, Len(queue))

LEMMA GetterStep == TypeOK /\ GetterInv /\ [Next]_vars => GetterInv'
  <1>. SUFFICES ASSUME TypeOK, GetterInv, [Next]_vars, used' \subseteq {"get_nowait"}
                PROVE  /\ Deque(Getters, getWaiters', gpc')
                       /\ Covered(Getters, gpc', Len(queue'))
    BY DEF GetterInv
  <1>. DEFINE Goal == /\ Deque(Getters, getWaiters', gpc')
                      /\ Covered(Getters, gpc', Len(queue'))
  <1>1. IsFiniteSet(Getters) /\ Stale \notin Getters
    BY TasksAssumption
  <1>2. Len(queue) \in Nat /\ queue \in Seq(Items)
    BY LenProperties DEF TypeOK
  <1>3. \A i : i \in Items => Len(Append(queue, i)) = Len(queue) + 1
    BY <1>2, AppendProperties
  <1>4. queue # <<>> => Len(Tail(queue)) = Len(queue) - 1 /\ Len(Tail(queue)) \in Nat
    BY <1>2, HeadTailProperties, LenProperties
  <1>5. ASSUME used \subseteq {"get_nowait"}
        PROVE  Deque(Getters, getWaiters, gpc) /\ Covered(Getters, gpc, Len(queue))
    BY <1>5 DEF GetterInv
  <1>6. ASSUME NEW i \in Items, Enqueue(i), UNCHANGED used PROVE Goal
    <2>1. Deque(Getters, getWaiters, gpc) /\ Covered(Getters, gpc, Len(queue))
      BY <1>5, <1>6
    <2>2. Covered(Getters, WakeFirst(gpc, getWaiters), Len(queue) + 1)
      BY <1>1, <1>2, <2>1, CoveredWake
    <2>3. Deque(Getters, Popped(getWaiters), WakeFirst(gpc, getWaiters))
      BY <1>1, <2>1, Wake
    <2>. QED  BY <1>3, <1>6, <2>2, <2>3 DEF Enqueue
  <1>7. ASSUME UNCHANGED <<queue, getWaiters, gpc, used>> PROVE Goal
    BY <1>5, <1>7
  <1>8. ASSUME NEW p \in Putters, Put(p) \/ PutNowait(p) \/ CancelPut(p) PROVE Goal
    <2>1. CASE PutNow(p)
      BY <1>6, <2>1 DEF PutNow
    <2>2. CASE PutResume(p)
      BY <1>6, <2>2 DEF PutResume, TypeOK
    <2>3. CASE PutWait(p) \/ PutAgain(p)
      BY <1>7, <2>3 DEF PutWait, PutAgain, getters
    <2>4. CASE CancelPut(p)
      BY <2>4 DEF CancelPut, Cancelled, Use
    <2>. QED  BY <1>8, <2>1, <2>2, <2>3, <2>4 DEF Put, PutNowait
  <1>9. ASSUME queue # <<>>, queue' = Tail(queue), UNCHANGED getters,
               used \subseteq {"get_nowait"}
        PROVE  Goal
    <2>1. Covered(Getters, gpc, Len(queue) - 1)
      BY <1>1, <1>2, <1>5, <1>9, CoveredLess
    <2>. QED  BY <1>4, <1>5, <1>9, <2>1 DEF getters
  <1>10. ASSUME NEW g \in Getters, Get(g) \/ GetNowait(g) \/ CancelGet(g) PROVE Goal
    <2>1. CASE GetNow(g)
      BY <1>9, <2>1 DEF GetNow, Dequeue
    <2>2. CASE GetWait(g) \/ GetAgain(g)
      <3>1. /\ queue = <<>> /\ queue' = queue /\ used' = used /\ gpc[g] # "waiting"
            /\ getWaiters' = Append(getWaiters, g)
            /\ gpc' = [gpc EXCEPT ![g] = "waiting"]
        BY <2>2 DEF GetWait, GetAgain
      <3>2. Len(queue') = 0
        BY <3>1
      <3>3. Deque(Getters, getWaiters, gpc)
        BY <1>5, <3>1
      <3>4. Deque(Getters, Append(getWaiters, g), [gpc EXCEPT ![g] = "waiting"])
        BY <3>1, <3>3, Sleep, Zenon
      <3>5. Covered(Getters, gpc', Len(queue'))
        BY <1>1, <3>2, CoveredNone
      <3>. QED  BY <3>1, <3>4, <3>5
    <2>3. CASE GetResume(g)
      <3>1. /\ gpc[g] = "woken" /\ gpc' = [gpc EXCEPT ![g] = "idle"]
            /\ getWaiters' = getWaiters /\ used' = used
            /\ queue # <<>> /\ queue' = Tail(queue)
        BY <2>3 DEF GetResume, Dequeue
      <3>2. Deque(Getters, getWaiters, gpc) /\ Covered(Getters, gpc, Len(queue))
        BY <1>5, <3>1
      <3>3. Deque(Getters, getWaiters, [gpc EXCEPT ![g] = "idle"])
        BY <3>1, <3>2, GoOn
      <3>4. Covered(Getters, [gpc EXCEPT ![g] = "idle"], Len(queue) - 1)
        <4>1. Len(queue) \in Int /\ gpc[g] = "woken"
          BY <1>2, <3>1
        <4>. QED  BY <1>1, <3>2, <4>1, CoveredGoOn, Zenon
      <3>. QED  BY <1>4, <3>1, <3>3, <3>4
    <2>4. CASE GetNowait(g)
      BY <1>9, <2>4 DEF GetNowait, Use
    <2>5. CASE CancelGet(g)
      BY <2>5 DEF CancelGet, Cancelled, Use
    <2>. QED  BY <1>10, <2>1, <2>2, <2>3, <2>4, <2>5 DEF Get
  <1>11. CASE Clear
    BY <1>11 DEF Clear, Use
  <1>12. CASE UNCHANGED vars
    BY <1>7, <1>12 DEF vars, getters
  <1>. QED
    BY <1>8, <1>10, <1>11, <1>12 DEF Next

THEOREM GetterCreditHolds == Spec => []GetterCredit
  <1>1. Init => GetterInv
    <2>. SUFFICES ASSUME Init PROVE GetterInv
      OBVIOUS
    <2>1. Deque(Getters, getWaiters, gpc)
      BY EmptySeq DEF Init, Deque, PC
    <2>2. Covered(Getters, gpc, Len(queue))
      BY DEF Init, Covered
    <2>. QED  BY <2>1, <2>2 DEF GetterInv
  <1>2. GetterInv => GetterCredit
    BY DEF GetterInv, GetterCredit, Covered, Awake
  <1>. QED  BY <1>1, <1>2, GetterStep, QueueType, PTL DEF Spec

(***************************************************************************)
(* While putters sleep, every free slot has a wake-up under way, as long   *)
(* as nothing but put, put_nowait and get is used.                         *)
(***************************************************************************)
PutterInv ==
    used = {} =>
        Deque(Putters, putWaiters, ppc) /\ Covered(Putters, ppc, maxsize - Len(queue))

LEMMA PutterStep == TypeOK /\ PutterInv /\ [Next]_vars => PutterInv'
  <1>. SUFFICES ASSUME TypeOK, PutterInv, [Next]_vars, used' = {}
                PROVE  /\ Deque(Putters, putWaiters', ppc')
                       /\ Covered(Putters, ppc', maxsize' - Len(queue'))
    BY DEF PutterInv
  <1>. DEFINE Goal == /\ Deque(Putters, putWaiters', ppc')
                      /\ Covered(Putters, ppc', maxsize' - Len(queue'))
              n == maxsize - Len(queue)
  <1>1. IsFiniteSet(Putters) /\ Stale \notin Putters
    BY TasksAssumption
  <1>2. Len(queue) \in Nat /\ queue \in Seq(Items) /\ maxsize \in Nat /\ n \in Int
    BY SizesAssumption, LenProperties DEF TypeOK
  <1>3. \A i : i \in Items => Len(Append(queue, i)) = Len(queue) + 1
    BY <1>2, AppendProperties
  <1>4. queue # <<>> => Len(Tail(queue)) = Len(queue) - 1 /\ Len(Tail(queue)) \in Nat
    BY <1>2, HeadTailProperties, LenProperties
  <1>5. used = {} => Deque(Putters, putWaiters, ppc) /\ Covered(Putters, ppc, n)
    BY DEF PutterInv
  <1>6. ASSUME UNCHANGED <<queue, maxsize, putWaiters, ppc, used>> PROVE Goal
    BY <1>5, <1>6
  <1>7. ASSUME NEW p \in Putters, PutNow(p) PROVE Goal
    <2>1. /\ UNCHANGED <<maxsize, putWaiters, ppc, used>>
          /\ Len(queue') = Len(queue) + 1
      BY <1>3, <1>7 DEF PutNow, Enqueue, putters
    <2>2. Covered(Putters, ppc, n - 1)
      BY <1>1, <1>2, <1>5, <2>1, CoveredLess
    <2>3. maxsize' - Len(queue') = n - 1
      BY <1>2, <2>1
    <2>. QED  BY <1>5, <2>1, <2>2, <2>3
  <1>8. ASSUME NEW p \in Putters, PutResume(p) PROVE Goal
    <2>1. /\ UNCHANGED <<maxsize, putWaiters, used>>
          /\ Len(queue') = Len(queue) + 1
          /\ ppc[p] = "woken" /\ ppc' = [ppc EXCEPT ![p] = "idle"]
      BY <1>3, <1>8 DEF PutResume, Enqueue, TypeOK
    <2>2. Deque(Putters, putWaiters, ppc) /\ Covered(Putters, ppc, n)
      BY <1>5, <2>1
    <2>3. Deque(Putters, putWaiters, [ppc EXCEPT ![p] = "idle"])
      BY <2>1, <2>2, GoOn
    <2>4. ppc[p] = "woken" /\ n \in Int
      BY <1>2, <2>1
    <2>. HIDE DEF n
    <2>5. Covered(Putters, [ppc EXCEPT ![p] = "idle"], n - 1)
      BY <1>1, <2>2, <2>4, CoveredGoOn, Zenon
    <2>6. maxsize' - Len(queue') = n - 1
      BY <1>2, <2>1 DEF n
    <2>. QED  BY <2>1, <2>3, <2>5, <2>6
  <1>9. ASSUME NEW p \in Putters, PutWait(p) \/ PutAgain(p) PROVE Goal
    <2>1. /\ UNCHANGED <<queue, maxsize, used>> /\ Full /\ ppc[p] # "waiting"
          /\ putWaiters' = Append(putWaiters, p)
          /\ ppc' = [ppc EXCEPT ![p] = "waiting"]
      BY <1>9 DEF PutWait, PutAgain
    <2>2. Deque(Putters, putWaiters, ppc)
      BY <1>5, <2>1
    <2>3. Deque(Putters, Append(putWaiters, p), [ppc EXCEPT ![p] = "waiting"])
      BY <2>1, <2>2, Sleep, Zenon
    <2>4. maxsize' - Len(queue') \in Int /\ maxsize' - Len(queue') <= 0
      BY <1>2, <2>1 DEF Full
    <2>5. Covered(Putters, ppc', maxsize' - Len(queue'))
      BY <1>1, <2>4, CoveredNone
    <2>. QED  BY <2>1, <2>3, <2>5
  <1>10. ASSUME NEW p \in Putters, Put(p) \/ PutNowait(p) \/ CancelPut(p) PROVE Goal
    <2>1. CASE CancelPut(p)
      BY <2>1 DEF CancelPut, Cancelled, Use
    <2>. QED  BY <1>7, <1>8, <1>9, <1>10, <2>1 DEF Put, PutNowait
  <1>11. ASSUME Dequeue, queue # <<>>, UNCHANGED <<maxsize, used>> PROVE Goal
    <2>1. Deque(Putters, putWaiters, ppc) /\ Covered(Putters, ppc, n)
      BY <1>5, <1>11
    <2>2. Covered(Putters, WakeFirst(ppc, putWaiters), n + 1)
      BY <1>1, <1>2, <2>1, CoveredWake
    <2>3. Deque(Putters, Popped(putWaiters), WakeFirst(ppc, putWaiters))
      BY <1>1, <2>1, Wake
    <2>4. maxsize' - Len(queue') = n + 1
      BY <1>2, <1>4, <1>11 DEF Dequeue
    <2>. QED  BY <1>11, <2>2, <2>3, <2>4 DEF Dequeue
  <1>12. ASSUME NEW g \in Getters, Get(g) \/ GetNowait(g) \/ CancelGet(g) PROVE Goal
    <2>1. CASE GetNow(g) \/ GetResume(g)
      BY <1>11, <2>1 DEF GetNow, GetResume
    <2>2. CASE GetWait(g) \/ GetAgain(g)
      BY <1>6, <2>2 DEF GetWait, GetAgain, putters
    <2>3. CASE GetNowait(g) \/ CancelGet(g)
      BY <2>3 DEF GetNowait, CancelGet, Cancelled, Use
    <2>. QED  BY <1>12, <2>1, <2>2, <2>3 DEF Get
  <1>13. CASE Clear
    BY <1>13 DEF Clear, Use
  <1>14. CASE UNCHANGED vars
    BY <1>6, <1>14 DEF vars, putters
  <1>. QED
    BY <1>10, <1>12, <1>13, <1>14 DEF Next

THEOREM PutterCreditHolds == Spec => []PutterCredit
  <1>1. ASSUME Init PROVE PutterInv
    <2>1. Deque(Putters, putWaiters, ppc)
      BY <1>1, EmptySeq DEF Init, Deque, PC
    <2>2. Covered(Putters, ppc, maxsize - Len(queue))
      BY <1>1 DEF Init, Covered
    <2>. QED  BY <2>1, <2>2 DEF PutterInv
  <1>2. ASSUME TypeOK, PutterInv PROVE PutterCredit
    <2>. SUFFICES ASSUME used = {}, \E p \in Putters : ppc[p] = "waiting"
                  PROVE  maxsize <= Len(queue) + Cardinality(Awake(Putters, ppc))
      BY DEF PutterCredit, Awake
    <2>1. maxsize - Len(queue) <= Cardinality(Awake(Putters, ppc))
      BY <1>2 DEF PutterInv, Covered
    <2>2. Cardinality(Awake(Putters, ppc)) \in Nat
      BY TasksAssumption, AwakeFinite
    <2>3. maxsize \in Nat /\ Len(queue) \in Nat
      BY <1>2, SizesAssumption, LenProperties DEF TypeOK
    <2>. QED  BY <2>1, <2>2, <2>3
  <1>. QED  BY <1>1, <1>2, PutterStep, QueueType, PTL DEF Spec

(***************************************************************************)
(* No wake-up is lost on either side of the queue.                         *)
(***************************************************************************)
THEOREM NoWakeupIsLost == Spec => []NoLostWakeup
  <1>1. PutterCredit /\ GetterCredit => NoLostWakeup
    BY DEF NoLostWakeup
  <1>. QED  BY <1>1, PutterCreditHolds, GetterCreditHolds, PTL
=============================================================================
