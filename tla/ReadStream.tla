------------------------------ MODULE ReadStream ------------------------------
(***************************************************************************)
(* http/protocol/types.py ReadStream with http/protocol/streams.py          *)
(* ByteReadStream.receive: the queue of body chunks between the task that   *)
(* parses a connection (or the application that answers) and the task that  *)
(* reads.  Tasks are cooperative: what stands between two awaits is one     *)
(* step, and Event.set() only makes the waiting task runnable, so other     *)
(* tasks run between a wake-up ("woken") and its effect.                    *)
(*                                                                          *)
(* A byte is known by its place in the producer's stream and a chunk is the *)
(* interval lo..hi of the places it covers; hi = lo - 1 is the empty chunk. *)
(***************************************************************************)
EXTENDS Naturals, Sequences, FiniteSets, Functions

CONSTANTS Readers,     \* tasks that call receive
          Feeders,     \* tasks that call feed and feed_eof
          Stale,       \* an event whose task was cancelled while it waited
          FeedSizes,   \* sizes of the chunks fed
          ReadSizes,   \* values of receive's max_size
          MaxBytes,    \* bound: no feed starts beyond this many bytes
          MaxChunks,   \* bound: no feed starts with this many chunks in the buffer
          MaxStale     \* bound: abandoned events in _read_waiters

ASSUME SizesAssumption == FeedSizes \subseteq Nat /\ ReadSizes \subseteq Nat
ASSUME BoundsAssumption == MaxBytes \in Nat /\ MaxChunks \in Nat /\ MaxStale \in Nat
ASSUME StaleAssumption == Stale \notin Readers

VARIABLES buffers,      \* _buffers
          eof,          \* _eof
          paused,       \* _paused
          readWaiters,  \* _read_waiters, each event named by the task awaiting it
          feedWaiters,  \* _feed_waiters, likewise
          rpc, want,    \* per reader: where it stands in receive, its max_size
          fpc, load,    \* per feeder: where it stands in feed, its chunk's size
          callers,      \* history: readers that have called receive
          fed,          \* history: bytes put in _buffers
          taken,        \* history: last byte of the last chunk returned
          ended         \* history: some receive has returned None

deques  == <<buffers, readWaiters, feedWaiters>>
readers == <<rpc, want>>
feeders == <<fpc, load>>
vars    == <<deques, eof, paused, readers, feeders, callers, fed, taken, ended>>

Chunk == [lo : Nat, hi : Nat]
Size(c) == c.hi + 1 - c.lo

TypeOK ==
    /\ buffers \in Seq(Chunk)
    /\ eof \in BOOLEAN /\ paused \in BOOLEAN /\ ended \in BOOLEAN
    /\ readWaiters \in Seq(Readers \cup {Stale})
    /\ feedWaiters \in Seq(Feeders)
    /\ rpc \in [Readers -> {"idle", "waiting", "woken", "failed"}]
    /\ want \in [Readers -> Nat]
    /\ fpc \in [Feeders -> {"idle", "waiting", "woken"}]
    /\ load \in [Feeders -> Nat]
    /\ callers \subseteq Readers
    /\ fed \in Nat /\ taken \in 0 .. fed

Init ==
    /\ buffers = <<>> /\ readWaiters = <<>> /\ feedWaiters = <<>>
    /\ eof = FALSE /\ paused = FALSE /\ ended = FALSE
    /\ rpc = [r \in Readers |-> "idle"] /\ want = [r \in Readers |-> 0]
    /\ fpc = [f \in Feeders |-> "idle"] /\ load = [f \in Feeders |-> 0]
    /\ callers = {} /\ fed = 0 /\ taken = 0

\* Mutation: one event set per call, as anyio/queues.py does.
SetFirst(pc, waiters) ==
    [t \in DOMAIN pc |-> IF waiters # <<>> /\ t = Head(waiters) THEN "woken" ELSE pc[t]]

(***************************************************************************)
(* The `while waiters: waiters.popleft().set()' loops: every event of the  *)
(* deque is set, and the tasks awaiting them become runnable.              *)
(***************************************************************************)
SetAll(pc, waiters) ==
    [t \in DOMAIN pc |-> IF t \in Range(waiters) THEN "woken" ELSE pc[t]]

\* Mutations: the rest starts one byte late; max_size is taken for the size.
RestSkipsByte(c, m) == IF Size(c) > m THEN <<[lo |-> c.lo + m + 1, hi |-> c.hi]>> ELSE <<>>
LastTakenWhole(c, m) == c.lo + m - 1

\* data[:max_size], and the rest put back at the left end
Rest(c, m) == IF Size(c) > m THEN <<[lo |-> c.lo + m, hi |-> c.hi]>> ELSE <<>>
LastTaken(c, m) == IF Size(c) > m THEN c.lo + m - 1 ELSE c.hi

\* whether receive has to wait
MustWait == buffers = <<>> /\ ~eof

\* Mutation: the rest is put back at the right end.
TakeAppendsRest(r, m) ==
    /\ buffers # <<>>
    /\ buffers' = Tail(buffers) \o Rest(Head(buffers), m)
    /\ taken' = LastTaken(Head(buffers), m)
    /\ rpc' = [rpc EXCEPT ![r] = "idle"]
    /\ UNCHANGED ended

\* the rest of receive, once it need not wait any more
Take(r, m) ==
    \/ /\ buffers # <<>>
       /\ buffers' = Rest(Head(buffers), m) \o Tail(buffers)
       /\ taken' = LastTaken(Head(buffers), m)
       /\ rpc' = [rpc EXCEPT ![r] = "idle"]
       /\ UNCHANGED ended
    \/ /\ buffers = <<>> /\ eof
       /\ ended' = TRUE
       /\ rpc' = [rpc EXCEPT ![r] = "idle"]
       /\ UNCHANGED <<buffers, taken>>
    \/ /\ buffers = <<>> /\ ~eof             \* popleft raises IndexError
       /\ rpc' = [rpc EXCEPT ![r] = "failed"]
       /\ UNCHANGED <<buffers, taken, ended>>

ReceiveNow(r) ==
    /\ rpc[r] = "idle" /\ ~MustWait
    /\ callers' = callers \cup {r}
    /\ \E m \in ReadSizes : Take(r, m)
    /\ UNCHANGED <<readWaiters, feedWaiters, eof, paused, want, feeders, fed>>

ReceiveWait(r) ==
    /\ rpc[r] = "idle" /\ MustWait
    /\ callers' = callers \cup {r}
    /\ \E m \in ReadSizes : want' = [want EXCEPT ![r] = m]
    /\ readWaiters' = Append(readWaiters, r)
    /\ rpc' = [rpc EXCEPT ![r] = "waiting"]
    /\ UNCHANGED <<buffers, feedWaiters, eof, paused, feeders, fed, taken, ended>>

ReceiveResume(r) ==
    /\ rpc[r] = "woken"
    /\ Take(r, want[r])
    /\ UNCHANGED <<callers, readWaiters, feedWaiters, eof, paused, want, feeders, fed>>

(***************************************************************************)
(* The task is cancelled at `await fut.wait()'.  receive has no finally:   *)
(* an event not yet set stays in _read_waiters with nobody behind it.      *)
(***************************************************************************)
Abandoned(q, r) == [i \in DOMAIN q |-> IF q[i] = r THEN Stale ELSE q[i]]
StaleEvents == {i \in DOMAIN readWaiters : readWaiters[i] = Stale}

Cancel(r) ==
    /\ \/ rpc[r] = "waiting" /\ Cardinality(StaleEvents) < MaxStale
       \/ rpc[r] = "woken"
    /\ readWaiters' = Abandoned(readWaiters, r)
    /\ rpc' = [rpc EXCEPT ![r] = "idle"]
    /\ UNCHANGED <<callers, buffers, feedWaiters, eof, paused, want, feeders, fed, taken, ended>>

\* Mutation: feed forgets the readers that wait.
PutInQuietly(n) ==
    /\ buffers' = Append(buffers, [lo |-> fed + 1, hi |-> fed + n])
    /\ fed' = fed + n
    /\ UNCHANGED <<rpc, readWaiters>>

(***************************************************************************)
(* feed looks at _paused only: a chunk may come after the end of file, when *)
(* feed_eof overtakes a feed that waits, or when the producer goes on (as    *)
(* send_data of h2.py does after an empty body, lines 204-207).             *)
(***************************************************************************)
PutIn(n) ==
    /\ buffers' = Append(buffers, [lo |-> fed + 1, hi |-> fed + n])
    /\ fed' = fed + n
    /\ rpc' = SetAll(rpc, readWaiters)
    /\ readWaiters' = <<>>

Admissible(n) == fed + n <= MaxBytes /\ Len(buffers) < MaxChunks

FeedNow(f) ==
    /\ fpc[f] = "idle" /\ ~paused
    /\ \E n \in FeedSizes : Admissible(n) /\ PutIn(n)
    /\ UNCHANGED <<callers, feedWaiters, eof, paused, want, feeders, taken, ended>>

FeedWait(f) ==
    /\ fpc[f] = "idle" /\ paused
    /\ \E n \in FeedSizes : Admissible(n) /\ load' = [load EXCEPT ![f] = n]
    /\ feedWaiters' = Append(feedWaiters, f)
    /\ fpc' = [fpc EXCEPT ![f] = "waiting"]
    /\ UNCHANGED <<callers, buffers, readWaiters, eof, paused, readers, fed, taken, ended>>

\* `if self._paused', not `while': a new pause() is not noticed here
FeedResume(f) ==
    /\ fpc[f] = "woken"
    /\ PutIn(load[f])
    /\ fpc' = [fpc EXCEPT ![f] = "idle"]
    /\ UNCHANGED <<callers, feedWaiters, eof, paused, want, load, taken, ended>>

FeedEof(f) ==
    /\ fpc[f] = "idle"
    /\ eof' = TRUE
    /\ rpc' = SetAll(rpc, readWaiters)
    /\ readWaiters' = <<>>
    /\ UNCHANGED <<callers, buffers, feedWaiters, paused, want, feeders, fed, taken, ended>>

Pause ==
    /\ paused' = TRUE
    /\ UNCHANGED <<callers, deques, eof, readers, feeders, fed, taken, ended>>

\* Mutation: resume() drains the wrong deque.
ResumeWakesReaders ==
    /\ paused' = FALSE
    /\ rpc' = SetAll(rpc, readWaiters)
    /\ readWaiters' = <<>>
    /\ UNCHANGED <<callers, buffers, feedWaiters, eof, want, feeders, fed, taken, ended>>

Resume ==
    /\ paused' = FALSE
    /\ fpc' = SetAll(fpc, feedWaiters)
    /\ feedWaiters' = <<>>
    /\ UNCHANGED <<callers, buffers, readWaiters, eof, readers, load, fed, taken, ended>>

Next ==
    \/ \E r \in Readers : ReceiveNow(r) \/ ReceiveWait(r) \/ ReceiveResume(r) \/ Cancel(r)
    \/ \E f \in Feeders : FeedNow(f) \/ FeedWait(f) \/ FeedResume(f) \/ FeedEof(f)
    \/ Pause
    \/ Resume

Spec == Init /\ [][Next]_vars

(***************************************************************************)
(* Fairness: the event loop runs every runnable task, and the consumer is  *)
(* an application that reads in a loop.  Producers may stop at any time.   *)
(***************************************************************************)
FairSpec == Spec /\ \A r \in Readers : WF_vars(ReceiveNow(r) \/ ReceiveResume(r))
-----------------------------------------------------------------------------
\* No byte is lost, duplicated or reordered: what is buffered is, end to end,
\* what was fed and not yet returned, across partial reads that put the rest
\* of a chunk back and readers cancelled between a wake-up and its effect.
Backlog ==
    /\ buffers = <<>> => taken = fed
    /\ buffers # <<>> => /\ buffers[1].lo = taken + 1
                         /\ buffers[Len(buffers)].hi = fed
    /\ \A i \in 1 .. Len(buffers) - 1 : buffers[i + 1].lo = buffers[i].hi + 1

\* No lost wake-up: a task never sleeps in receive while there is a chunk or
\* an end of file for it to see, whoever was cancelled and whatever stale
\* events the deque holds.
NoSleepingReader ==
    \A r \in Readers : rpc[r] = "waiting" => MustWait

\* A task sleeps in feed only while the stream is paused: resume() wakes every
\* feeder, also those that came while others were being woken.
NoSleepingFeeder ==
    \A f \in Feeders : fpc[f] = "waiting" => paused

\* No wake-up is lost on either side of the stream.
NoLostWakeup == NoSleepingReader /\ NoSleepingFeeder

\* One task reads, as the h1 and h2 request bodies have it.
OneReader == Cardinality(callers) <= 1

\* receive tests for data once, not in a loop, before popleft: a stream's only
\* reader is woken when there is something for it and never raises IndexError.
\* (With a second reader it may: the first takes the chunk in between.)
NoPopFromEmpty == OneReader => \A r \in Readers : rpc[r] # "failed"

\* Readers that keep reading get every byte fed, through pauses and cancelled
\* waits, unless they have taken each other's chunks and all died of it.
EveryByteDelivered ==
    \A n \in 1 .. MaxBytes :
        (fed >= n) ~> (taken >= n \/ \A r \in Readers : rpc[r] = "failed")

\* The stream with its waiters implements the abstract channel.
Channel == INSTANCE ByteChannel
           WITH GoesOn <- TRUE, sent <- fed, received <- taken, closed <- eof, told <- ended
ChannelSpec == Channel!Spec
=============================================================================
