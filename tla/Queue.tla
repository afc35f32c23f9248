--------------------------------- MODULE Queue ---------------------------------
(***************************************************************************)
(* anyio/queues.py Queue: a FIFO whose put waits while it is full and whose *)
(* get waits while it is empty.  Each put wakes at most one getter and each *)
(* get at most one putter, by setting the oldest event of a deque; a woken  *)
(* task runs later and tests the queue again, and a task that arrives in    *)
(* between may take the item or the room it was woken for.                  *)
(***************************************************************************)
EXTENDS Naturals, Sequences, FiniteSets

CONSTANTS Putters, Getters,  \* tasks
          Items,             \* what is queued
          Stale,             \* an event whose task was cancelled while it waited
          MaxSizes,          \* values of the constructor's maxsize; 0: no limit
          Ops,               \* what happens besides put and get: a subset of
                             \* put_nowait, get_nowait, clear, cancel, task_cancel
          MaxItems,          \* bound: queue length when there is no limit
          MaxStale           \* bound: abandoned events in each deque

ASSUME TasksAssumption == /\ IsFiniteSet(Putters) /\ IsFiniteSet(Getters)
                          /\ Stale \notin Putters \cup Getters
ASSUME SizesAssumption == MaxSizes \subseteq Nat /\ MaxItems \in Nat /\ MaxStale \in Nat

VARIABLES queue, maxsize,      \* _queue, _maxsize
          putWaiters,          \* _putter_waiters, an event named by its task
          getWaiters,          \* _getter_waiters
          ppc, item,           \* per putter: where it is in put, and its item
          gpc,                 \* per getter: where it is in get
          used                 \* history: what has happened besides put, put_nowait, get

putters == <<putWaiters, ppc>>
getters == <<getWaiters, gpc>>
vars    == <<queue, maxsize, putters, getters, item, used>>

Use(op) == op \in Ops /\ used' = used \cup {op}

PC == {"idle", "waiting", "woken"}

TypeOK ==
    /\ queue \in Seq(Items)
    /\ maxsize \in MaxSizes
    /\ maxsize # 0 => Len(queue) <= maxsize
    /\ putWaiters \in Seq(Putters \cup {Stale})
    /\ getWaiters \in Seq(Getters \cup {Stale})
    /\ ppc \in [Putters -> PC] /\ gpc \in [Getters -> PC]
    /\ item \in [Putters -> Items]
    /\ used \subseteq Ops

Init ==
    /\ queue = <<>> /\ maxsize \in MaxSizes
    /\ putWaiters = <<>> /\ getWaiters = <<>>
    /\ ppc = [p \in Putters |-> "idle"] /\ gpc = [g \in Getters |-> "idle"]
    /\ item \in [Putters -> Items]
    /\ used = {}

Full == maxsize # 0 /\ Len(queue) >= maxsize

\* `if waiters: waiters.popleft().set()'
WakeFirst(pc, waiters) ==
    IF waiters = <<>> \/ Head(waiters) = Stale
    THEN pc ELSE [pc EXCEPT ![Head(waiters)] = "woken"]
Popped(waiters) == IF waiters = <<>> THEN <<>> ELSE Tail(waiters)

\* Mutation: the event is dropped from the deque without being set.
EnqueueUnnoticed(i) ==
    /\ queue' = Append(queue, i)
    /\ getWaiters' = Popped(getWaiters)
    /\ UNCHANGED gpc

(***************************************************************************)
(* put and put_nowait.                                                     *)
(***************************************************************************)
Enqueue(i) ==
    /\ queue' = Append(queue, i)
    /\ gpc' = WakeFirst(gpc, getWaiters)
    /\ getWaiters' = Popped(getWaiters)

Room == ~Full /\ (maxsize = 0 => Len(queue) < MaxItems)

PutNow(p) ==
    /\ ppc[p] = "idle" /\ Room
    /\ \E i \in Items : Enqueue(i)
    /\ UNCHANGED <<maxsize, putters, item, used>>

PutWait(p) ==
    /\ ppc[p] = "idle" /\ Full
    /\ \E i \in Items : item' = [item EXCEPT ![p] = i]
    /\ putWaiters' = Append(putWaiters, p)
    /\ ppc' = [ppc EXCEPT ![p] = "waiting"]
    /\ UNCHANGED <<queue, maxsize, getters, used>>

\* Mutation: `if', not `while': a woken putter does not test the queue again.
PutResumeUnchecked(p) ==
    /\ ppc[p] = "woken"
    /\ Enqueue(item[p])
    /\ ppc' = [ppc EXCEPT ![p] = "idle"]
    /\ UNCHANGED <<maxsize, putWaiters, item, used>>

PutResume(p) ==
    /\ ppc[p] = "woken" /\ ~Full
    /\ Enqueue(item[p])
    /\ ppc' = [ppc EXCEPT ![p] = "idle"]
    /\ UNCHANGED <<maxsize, putWaiters, item, used>>

PutAgain(p) ==
    /\ ppc[p] = "woken" /\ Full
    /\ putWaiters' = Append(putWaiters, p)
    /\ ppc' = [ppc EXCEPT ![p] = "waiting"]
    /\ UNCHANGED <<queue, maxsize, getters, item, used>>

\* put_nowait does the same as a put that need not wait; when the queue is
\* full it raises and changes nothing
PutNowait(p) == "put_nowait" \in Ops /\ PutNow(p)

(***************************************************************************)
(* get and get_nowait.                                                     *)
(***************************************************************************)
\* Mutation: get wakes no putter, as get_nowait.
DequeueUnnoticed ==
    /\ queue' = Tail(queue)
    /\ UNCHANGED putters

Dequeue ==
    /\ queue' = Tail(queue)
    /\ ppc' = WakeFirst(ppc, putWaiters)
    /\ putWaiters' = Popped(putWaiters)

GetNow(g) ==
    /\ gpc[g] = "idle" /\ queue # <<>>
    /\ Dequeue
    /\ UNCHANGED <<maxsize, getters, item, used>>

GetWait(g) ==
    /\ gpc[g] = "idle" /\ queue = <<>>
    /\ getWaiters' = Append(getWaiters, g)
    /\ gpc' = [gpc EXCEPT ![g] = "waiting"]
    /\ UNCHANGED <<queue, maxsize, putters, item, used>>

GetResume(g) ==
    /\ gpc[g] = "woken" /\ queue # <<>>
    /\ Dequeue
    /\ gpc' = [gpc EXCEPT ![g] = "idle"]
    /\ UNCHANGED <<maxsize, getWaiters, item, used>>

GetAgain(g) ==
    /\ gpc[g] = "woken" /\ queue = <<>>
    /\ getWaiters' = Append(getWaiters, g)
    /\ gpc' = [gpc EXCEPT ![g] = "waiting"]
    /\ UNCHANGED <<queue, maxsize, putters, item, used>>

\* unlike get, get_nowait wakes no putter; on an empty queue it raises
GetNowait(g) ==
    /\ Use("get_nowait")
    /\ gpc[g] = "idle" /\ queue # <<>>
    /\ queue' = Tail(queue)
    /\ UNCHANGED <<maxsize, putters, getters, item>>

\* clear() drops the events too: the tasks awaiting them are not told
Clear ==
    /\ Use("clear")
    /\ queue' = <<>> /\ putWaiters' = <<>> /\ getWaiters' = <<>>
    /\ UNCHANGED <<maxsize, ppc, gpc, item>>

(***************************************************************************)
(* A task is cancelled at `await event.wait()': by an anyio cancel scope   *)
(* ("cancel") only while its event is not set, by asyncio's Task.cancel    *)
(* ("task_cancel") also when it is.  put and get have no finally: an event *)
(* not yet set stays in its deque, and a wake-up already given is not      *)
(* passed on.                                                              *)
(***************************************************************************)
Cancelled(pc) == \/ pc = "waiting" /\ Use("cancel")
                 \/ pc \in {"waiting", "woken"} /\ Use("task_cancel")
Abandoned(q, t) == [i \in DOMAIN q |-> IF q[i] = t THEN Stale ELSE q[i]]
MayAbandon(q) == Cardinality({i \in DOMAIN q : q[i] = Stale}) < MaxStale

CancelPut(p) ==
    /\ Cancelled(ppc[p]) /\ MayAbandon(putWaiters)
    /\ putWaiters' = Abandoned(putWaiters, p)
    /\ ppc' = [ppc EXCEPT ![p] = "idle"]
    /\ UNCHANGED <<queue, maxsize, getters, item>>

CancelGet(g) ==
    /\ Cancelled(gpc[g]) /\ MayAbandon(getWaiters)
    /\ getWaiters' = Abandoned(getWaiters, g)
    /\ gpc' = [gpc EXCEPT ![g] = "idle"]
    /\ UNCHANGED <<queue, maxsize, putters, item>>

Put(p) == PutNow(p) \/ PutWait(p) \/ PutResume(p) \/ PutAgain(p)
Get(g) == GetNow(g) \/ GetWait(g) \/ GetResume(g) \/ GetAgain(g)

Next ==
    \/ \E p \in Putters : Put(p) \/ PutNowait(p) \/ CancelPut(p)
    \/ \E g \in Getters : Get(g) \/ GetNowait(g) \/ CancelGet(g)
    \/ Clear

Spec == Init /\ [][Next]_vars

(***************************************************************************)
(* Fairness: the event loop runs every runnable task.  Nobody has to call  *)
(* put or get again.                                                       *)
(***************************************************************************)
FairSpec ==
    /\ Spec
    /\ \A p \in Putters : WF_vars(PutResume(p) \/ PutAgain(p))
    /\ \A g \in Getters : WF_vars(GetResume(g) \/ GetAgain(g))
-----------------------------------------------------------------------------
\* The queue with its waiters, wake-ups, cancellations and barging tasks never
\* holds more than maxsize items, never pops an empty deque and keeps the order.
Fifo == INSTANCE BoundedFifo WITH fifo <- queue, capacity <- maxsize
FifoSpec == Fifo!Spec

\* While putters sleep, every free slot has a wake-up under way: put's loop,
\* which goes back to the end of the deque when it loses the race for a slot,
\* loses no wake-up with it.  get_nowait, clear and cancellations end this.
PutterCredit ==
    (used = {} /\ \E p \in Putters : ppc[p] = "waiting") =>
        maxsize <= Len(queue) + Cardinality({p \in Putters : ppc[p] = "woken"})

\* While getters sleep, every item has a wake-up under way, until clear or a
\* cancellation takes one away.
GetterCredit ==
    (used \subseteq {"get_nowait"} /\ \E g \in Getters : gpc[g] = "waiting") =>
        Len(queue) <= Cardinality({g \in Getters : gpc[g] = "woken"})

\* No wake-up is lost on either side of the queue.
NoLostWakeup == PutterCredit /\ GetterCredit

\* Getters inside get do not sleep on items for ever: either all of them come
\* back or the queue is found empty.
GettersServed ==
    [](used \subseteq {"get_nowait"}) =>
        ((queue # <<>> /\ \E g \in Getters : gpc[g] # "idle") ~>
         (queue = <<>> \/ \A g \in Getters : gpc[g] = "idle"))

\* queues.py 30: "If the queue is full [...] this method will wait until space
\* becomes available": a put sleeps only while the queue is full, or a putter
\* has been woken for the space.
PutWaitsForSpace ==
    (\E p \in Putters : ppc[p] = "waiting") =>
        Full \/ \E p \in Putters : ppc[p] = "woken"
=============================================================================
