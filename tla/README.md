# Verification of tianxiu2b2t

TLA+ models of the concurrent core of the Python package under
`src/src/tianxiu2b2t`: the queues and byte streams through which its tasks hand
data to each other, and the HTTP connections built on them.  Every definition is
translated from the code; paths below are relative to `src/src/tianxiu2b2t`.

## 1. The system

The package is an asyncio/anyio tool box with an ASGI server in it.  A listener
accepts a connection (TCP, optionally behind the PROXY protocol and TLS), wraps it
in a stream that can peek, chooses HTTP/1 or HTTP/2 by the first bytes, and runs
one ASGI application call per request.  Tasks are cooperative: what stands between
two `await`s is atomic, and everything hard happens at the awaits.

| Component | State it keeps | Operations | Talks to |
|---|---|---|---|
| `ReadStream` (`http/protocol/types.py` 76-116), `ByteReadStream` (`streams.py` 64-83) | `_buffers`, `_eof`, `_paused`, two deques of events | `receive`, `feed`, `feed_eof`, `pause`, `resume` | request bodies (connection task to application), response bodies of HTTP/2 (application to `flush_data`), WebSocket messages |
| `Queue` (`anyio/queues.py`) | `_queue`, `_maxsize`, two deques of events | `put`, `get`, `put_nowait`, `get_nowait`, `clear` | any task; no caller inside the package |
| `Lock`, `WaitLock`, `Future` (`anyio/lock.py`, `anyio/future.py`) | `_locked`, deque of futures | `acquire`, `release`, `wait`, `set_result` | HTTP/1 makes a `WaitLock` for which nobody waits; else any task |
| `gather` (`anyio/concurrency.py`) | results by index, semaphore | `gather` | task groups |
| `BufferedByteStream` (`anyio/streams/abc.py`) | `buffers`, `pre_buffers`, `pre_receives` | `receive`, `pre_receive`, `readuntil`, `send` | listeners, HTTP connections |
| listeners (`anyio/streams/listener.py`, `proxy.py`, `tls.py`) | contexts by host name, extra attributes of a stream | `serve`, header and ClientHello parsing, `auto_tls_wrap` | accept loop to HTTP handler, one task group for all connections |
| HTTP/1 (`http/protocol/h1.py`) | the h11 connection, reader, `pause` lock | `receive_data`, `send_response`, `send_data`, `start_next_cycle` | ASGI cycle, inline |
| HTTP/2 (`http/protocol/h2.py`) | the h2 connection, `streams`, per stream reader, writer, `sent_headers` | receive loop, `flush_data`, `send_response`, `send_data` | one task per stream, all sharing the connection's window |
| WebSocket (`http/protocol/websockets.py`) | the wsproto connection, reader of messages | receive loop, `accept`, `raw_send`, `close`, `ping_pong` | ASGI cycle; takes the stream over from HTTP/1 |
| ASGI bridge (`http/asgi.py`) | per call: response started, complete | `receive`, `send`, `process` | HTTP connections and the application |
| `ObjectId` (`objectid.py`) | `_inc`, `_inc_lock`, `_pid`, `__random` of the class | `__generate`, `_random` | threads, forked processes |
| pure code (`types.py` Header, `utils.py`, `units.py`, `collections.py`) | none, or a sorted deque | encode, decode, format | all |

What is hard in this code, and what makes each part correct:

- **Wake-ups.**  `Event.set()` makes a task runnable; other tasks run before it.
  `ReadStream.receive` does not test again after its wait, `Queue.get` does; `feed`
  sets every event, `put` one.  Correct means that no task sleeps on data that is
  there, and that a task that is woken finds what it was woken for.
- **Cancellation.**  A wait that is cancelled leaves its event behind.
- **Order.**  Partial reads put the rest of a chunk back on the left while feeders
  append on the right; PROXY and TLS parsing peek at bytes that have to come again.
  Correct means that the bytes that come out are those that went in, in order.
- **Shared windows.**  Every task of an HTTP/2 connection that runs `flush_data`
  flushes all streams, and awaits between computing the size of a frame and sending
  it.  Correct means that the frames of every stream carry its body in order, one
  END_STREAM comes, and never twice or too early.
- **Failure.**  A reset stream, a lost transport or an application that raises must
  not leave another task waiting, nor end other connections.
- **One stream, three senders.**  The receive loop, the application and `ping_pong` of
  a WebSocket connection write to one stream that refuses a second send, and each of
  the two sides may begin to close.  Correct means one close frame, last on the wire,
  and no connection left half open.
- **Hand-over.**  A lock passes to a task that has not run yet and may be cancelled.
- **Threads and forks.**  An id is put together in seven steps, of which a lock guards
  two; a fork copies the state between any of them.

`PROJECT.json` lists every such spot at its line, also those no module covers yet.

## 2. Modules

| Module | Models | Abstract specification |
|---|---|---|
| `ByteChannel` | what a byte stream between a producer and its consumers promises | - |
| `BoundedFifo` | what a bounded queue promises | - |
| `ReadStream` | `types.py` ReadStream with `streams.py` ByteReadStream.receive | `ByteChannel` |
| `RequestResponse` | what an HTTP/1 connection promises: responses one per request, in order | - |
| `Queue` | `queues.py` | `BoundedFifo` |
| `ConnectionSetup` | `abc.py` BufferedByteStream under `proxy.py`, `tls.py` and `auto.py`: from the socket to the handler | `ByteChannel` |
| `H1Connection` | `h1.py` with the HTTP cycle of `asgi.py`, inline | `RequestResponse` |
| `H2Connection` | `h2.py` receive loop, `flush_data`, handlers | one `ByteChannel` per stream |
| `WebSocket` | `websockets.py` with the upgrade in `h1.py` and the WebSocket cycle of `asgi.py` | - |
| `Locks` | `lock.py` on `future.py` | - |
| `ObjectId` | `objectid.py` `__generate` and `_random`, under threads and forks | - |
| `MCConnectionSetup` | the ClientHello of the run | |
| `MCPrimitives` | `Queue`, `Locks` and `ObjectId`, one at a time | |
| `ReadStreamProofs`, `QueueProofs`, `ConnectionSetupProofs`, `H1ConnectionProofs`, `H2ConnectionProofs`, `WebSocketProofs`, `ObjectIdProofs` | theorems about the module each is named for | |
| `PrimitivesProofs` | theorems about `Locks` and `MCPrimitives` | |

**ReadStream.**  A chunk is the interval of the places its bytes have in the
producer's stream, so loss, duplication and reordering show as a gap, an overlap or
a wrong neighbour.  `ReceiveNow`, `ReceiveWait`, `ReceiveResume` are the three ways
through `receive`, `FeedNow`, `FeedWait`, `FeedResume` those through `feed`; `Cancel`
is a cancellation at the await of `receive`, which leaves a `Stale` event in the
deque.  The history variables `fed`, `taken`, `ended` and `callers` only record.
Neither `feed` nor `feed_eof` looks at `_eof`: a chunk may come after the end of file, from
a producer that goes on (`send_data` of `h2.py` 204-207, after an empty body) or from
a feed that was waiting when another task called `feed_eof`; a reader that has been told the
end is then served again.  Cancelling a `feed` that waits
is left out: no code pauses a stream.

**Queue.**  The deques hold the events of tasks, again with `Stale` for a cancelled
one.  `put` is `PutNow`, `PutWait`, `PutResume`, `PutAgain` (the loop: a woken task
tests again), likewise `get`.  `used` records whether something other than
put, put_nowait and get has happened; the credit properties depend on it.  A
cancellation by a cancel scope reaches only a task whose event is not set, one by
`Task.cancel` also a woken task ("cancel", "task_cancel").

**ConnectionSetup.**  It composes the listeners as an accepted socket meets them:
PROXY (none, v1, v2, mixed), TLS or not, `auto`.  A byte is its place on the wire, a
chunk an interval of places.  `PreReceive` and `Remove` are one call of
`pre_receive` and `receive` of the outermost stream; a stage (`pc`) is one
`pre_readexactly`, `readexactly` or `readuntil`, with its finishing action
(`V1Peeked`, `V2AddressRead`, ...).  Wrapping forgets `pre_buffers` and leaves all the
rest, in order, to the inner streams (`below`): none of them is peeked at again, so
only the order in which they serve their bytes matters.  `Raise` is where an
exception of a stage leads.  `V1LineRead` has no successful end because the code has
none: `v1` unpacks five words from a line that still begins with `PROXY`, and a
well-formed line has six, or two.  The header's address family is known to `v2`
("v2") or not ("v2_local"); the ClientHello names a version the ssl module knows.

**H1Connection.**  One task runs the loop and, inline, the application; `pc` says
where it stands ("next", "receiving", "app", "app_final" between the two calls of a
last body message, "app_receive").  h11 is external: `theirs` and `ours` are its two
state machines, `AfterSend` is `conn.send`, `Refuses` what makes `next_event` raise.
The client sends well-formed requests, pipelined at will, then perhaps bytes h11
refuses; the transport cuts them anywhere.  With `Misuse` the application also calls
send in an order ASGI forbids; an application that catches an exception of send and
goes on is left out.  `faults` and the counters `asked`, `begun`,
`finished` only record.

**H2Connection.**  `running` is the task between two awaits.  Task 0 is the receive
loop, task s the handler of stream s; `pc` names the await a task stands at, `todo`
what is left of the snapshot of `self.streams` that its `flush_data` walks.  Arrival
actions stand for `conn.receive_data`: the library applies a whole batch of frames
before the loop handles the first event.  `Refusal` is what `conn.send_data` refuses:
anything after a GOAWAY, a stream that is not open, a frame beyond the frame size or
a window.  `ArriveRefused` is a call of `conn.receive_data` that raises.  A write or a read
of the transport may fail at any time ("broken" in `Peer`).  The
application of a stream calls `send_response`, `send_data` with a chunk (`SendData`) or
with b'' (`SendEof`) and its reader, in any order, as often as it likes, and ends at any
time; as in the code, nothing but `InDict` guards `send_data`.  So a chunk may come before
the headers, or after an empty body with `more_body`, which `send_data` takes for the end;
a last message with a chunk is `SendData` and `SendEof`, one without is `SendEof` twice
(`asgi.py` 122-124); a second `send_response` raises ("again").  An application that
catches an exception of a call and goes on is left out: it ends.  `whole` records what
had been fed at the first end, and `Late` is a stream that was fed after it.  The h2 library, the transport and the
application are external to the code.

**WebSocket.**  It starts where the loop of `h1.py` breaks off, with the loop in its
first receive and the application in its handler.  Three tasks (`Tasks`) share the
stream; `pc` says where each stands, `Writing` are the places inside `stream.send`.  A
send is two steps: up to the await (`RawSend`, `Write`: the state is tested, wsproto
makes the frame and enters its new state, the transport refuses a second writer) and
the return (`PongSent`, `ReplySent`, `PingSent`, `Accepted`, `Sent`, `CloseSent`), between
which anything may happen, or the send fails (`WriteFails`).  An exception of the
loop or of `ping_pong` cancels the task group and leaves it (`escaped`); one that reaches
the application ends it, or the application catches it and goes on.  The client sends
messages, pings, one close or one frame wsproto cannot parse, or hangs up, at any
time after the 101 response.  The application accepts, sends, receives and closes in
any order, also before it has accepted (`misused`).  wsproto and the transport are
external: `ws`, `Refused` and `StateAfter` are wsproto's `state` and what `send` refuses.

**Locks.**  A future is named by the task that awaits it.  `HandOver` makes the oldest
waiter the owner before it runs ("woken"); `AcquireResume` stands also for its
cancellation, which the `return` in `acquire`'s `finally` swallows, `AcquireCancelled` for
one before the hand-over.  `ReleaseAlone` is the early return of `release`: no waiter,
and the lock stays as it is.  In `Open`, `release` of a `WaitLock`, the loop over the
deque ends with an exception at a future that is set already.

**ObjectId.**  Every line of `__generate` and `_random` between which another thread may
run is a step (`ReadInc`, `StoreInc`, `TestPid`, `SetPid`, `DrawRandom`, `Issue`).  `Fork`
copies the memory and the calling thread; a lock that another thread holds is then
"inherited", and free for nobody.  Random parts are named by the process that drew
them (the draws are assumed to differ), and the history `n` counts what `inc` reduces
modulo the width of the counter.

## 3. Runs

| Run | Question | Bounds |
|---|---|---|
| `read_stream` | no byte and no wake-up is lost; the abstract channel is implemented; readers that keep reading get every byte | 2 readers, 2 feeders, chunks of 0, 1 and 2 bytes, also after `feed_eof`, reads of 1 and 2, 3 bytes, 2 chunks buffered, 1 stale event |
| `primitives` | the abstract queue is implemented; wake-ups cover items and room; sleeping getters are served; a lock has one owner and its waiters enter; an open `WaitLock` has no sleeper; equal ids have their reasons | 2 putters, 2 getters, limits 0 (none), 1 and 2, every operation, 1 stale event per deque; 3 tasks on the locks; 3 processes on 2 pids, 2 threads each, 3 ids, counter of 2 values |
| `queue_space` | expected violation, finding 1 | the queue of `primitives`, without `put_nowait` and `task_cancel` |
| `connection_setup` | peeking, header parsing and wrapping lose, double and reorder no byte; the right handler starts at the right byte; set-up ends | every listener, header and payload; headers of 3 and 6 bytes, payloads of 1 and 4, chunks of 1, 2 and 4 |
| `h1_connection` | responses implement the abstract one; what may escape into the listener's task group; connections end closed; served clients go on being served | 3 requests, 1 body chunk each, any misuse of send |
| `h1_receive` | expected violation, finding 4 | 2 requests, no misuse |
| `h2_streams` | each response is an abstract channel; no frame beyond the window, nor after END_STREAM but for a stream that was fed after its end; nobody sleeps on data; the loop comes back to the transport, ends with an exception or sleeps on a closed window (`Starving`); a one-chunk response is ended | 2 streams at once, 2 bytes in all in chunks of 1 and 2, frames of 2, windows of 1, 2 and 9 that reopen to 1, stream windows of 2, pings |
| `h2_sequential` | END_STREAM means that all that was sent before the first end is there; nobody's chunk is stolen but that of a handler whose stream is over; what ends the loop; a reset wakes the reader | 2 streams one after the other, a response of 1 byte each, 1 request chunk in all, resets, pings, GOAWAY, refused frames, batches of 2 events, a failing transport, window of 1 that closes and opens |
| `h2_no_end` | expected violation, finding 2 | 1 stream, wide windows |
| `h2_stream_window` | expected violation, finding 3 | 1 stream whose own window is narrower than the connection's |
| `websocket` | one close frame, last on the wire; nothing but the 101 response before it; what may escape into the listener's task group; a client that closes or goes is noticed | 3 frames from the client, 2 messages buffered |
| `ws_disconnect` | expected violation, finding 5 | 1 frame, 1 message |

Why the bounds are enough: a chunk of 2 bytes under reads of 1 is put back
and meets an appended one, and 3 bytes are enough to go on after the end; two tasks on each side give every
order of two wake-ups, of a wake-up and a barging task, and of a wake-up and a
cancellation; a window of one frame closes after every frame, so each flush meets
a closed window; one chunk of a stream carries END_STREAM too early, when it is fed after
an empty body, and the next is the one that is refused; two streams are the least that share it, and the server
announces a limit of one (`h2.py` 15), so that two at once are already beyond what a
client that has read the settings does.  In `connection_setup` a chunk may end within,
at and behind every header, line, hello field and preface, and hold several of them;
a hello field may be empty; a payload may be shorter than a preface.  Three
pipelined requests are one more than it takes to have one in its application, one
in h11's buffer and one on the wire.  Three frames of a WebSocket client are two to
interleave with and the one that ends the connection.  Three tasks are an owner, a
waiter and one that barges.  A counter of two values goes round between three ids,
and three processes on two pids let a pid be used again.  The three primitives share
no variable: a run that moves one of them at a time reaches the sum of their
states, not the product, and loses nothing.  For `ReadStream`, `Queue`, `H1Connection`,
`WebSocket`, `Locks` and `ObjectId` the theorems below remove the bounds of the
safety properties.  `CHECK_DEADLOCK FALSE` is set for
the connection modules because a client may stop sending for good and every
application may have ended.

Each property of a passing run is paired, in `PROJECT.json`, with a plausible
bug of a definition (an operator marked `Mutation:` in the module) under which the
same run finds the property violated.

### Fairness

`ReadStream!FairSpec`: a reader that can go on goes on, and the consumer reads in a
loop (an ASGI application that reads its body); producers may stop.
`MCPrimitives!MCSpec`: of the queue, a woken task eventually runs, and nobody has to call
anything (`Queue!FairSpec`); of the locks, a woken task runs and an owner releases in
the end; of the ids, nothing.
`WebSocket!FairSpec`: the loop, `ping_pong` and an application whose await is over
eventually run; the client and the application need do nothing.
`H2Connection!FairSpec`: the loop and every task whose await is over eventually run,
and the transport takes the bytes; the client and the applications need do nothing.  An
action is enabled only while no other task runs, so weak fairness would let an
application that calls send for ever starve the others; the event loop does not, its
ready queue is first in, first out.  Hence one strong fairness per task, never on a call
of an application.
`ConnectionSetup!FairSpec`: the connection's task goes on when its read is over.
`H1Connection!FairSpec`: the same for the loop, and an application does not call send
for ever without returning (`SF(AppReturn)`; one that waits in receive is excepted).
All others are weak fairness, which is what an event loop with a FIFO ready queue gives.

## 4. Findings

1. `Queue.get_nowait` (and `clear`) make room without waking a sleeping `put`, whose
   docstring promises to wait until space is available (run `queue_space`).
2. HTTP/2 never ends a response that is empty, has more than one chunk
   left at its end, or ends with a chunk that went out before the end was known:
   END_STREAM goes out only with a last chunk (run `h2_no_end`).
3. HTTP/2 pops a chunk before the library refuses it for the stream's window; the
   chunk is lost and a later flush ends the response without it
   (run `h2_stream_window`).

4. HTTP/1 runs the application inside the task that feeds its reader: an
   application that receives its request body waits for ever (run `h1_receive`).

5. The loop of a WebSocket connection ends with the connection and tells nobody: an
   application that waits in receive never gets `websocket.disconnect`
   (run `ws_disconnect`).

Met on the way, visible in the model or the code, and refuted by no run, as no document of
the repository states the contrary (but for the ids, below).  In HTTP/2
an empty body message with `more_body` ends the response (`h2.py` 204-205): later chunks
are still fed, the next one that empties the writer goes out with END_STREAM, and the one after
it is popped and refused, in the handler or, when the loop flushes, in the loop, whose exception
ends the connection and the listener's others (`NoRefusedFrame` says that nothing else is
refused so, `EndMeansComplete` that what came before the end is there).
With two streams at once a task may be woken in
`writer.receive(0)` after another has taken the chunk (IndexError), and with one at a time a
handler that still sends when its own stream is over (`LoopFaults`); a batch that
resets a stream makes `send_data` raise inside the loop and ends the connection, and
the listener's others with it (`LoopFaults` says when);
a GOAWAY does not end the loop, because line 56 compares the state machine with one of
its states, and the next frame then raises in `conn.receive_data`;
the loop itself may wait in `writer.receive(0)` of an unfinished response while the window is
closed, and then reads no WINDOW_UPDATE (`Starving` in `LoopReturns`); a
lost transport leaves readers waiting; an upload beyond 65535 bytes stalls
because the inbound window is given back only on a WINDOW_UPDATE.  A version 1 PROXY
header is consumed, and never understood: the handler runs, with the proxy's own
address, and when the header's line ends a chunk its first receive returns b'',
which h11 takes for the end of the connection (`BlankOnlyAfterV1`).  `auto` waits,
without a time limit, for 24 bytes, more than some whole requests have; when it gives
up, nobody closes the stream; it is never told of TLS, so that the scheme is always
http.  An empty body message with `more_body` ends an HTTP/1 response.  While the
application runs, h11 has not parsed the end of its request (`Sides`), so
`maybe_next_cycle` never starts the next cycle itself; `PAUSED` does, or nothing is
pipelined and h11 stays in its finished states until more bytes come.  What
escapes from a connection's task ends every connection of its listener, and a
pipelined request behind an incomplete response does escape (`EscapeOnlyIncomplete`
says that nothing else a client sends does).

A WebSocket connection never ends its own task group after a close (`ping_pong` goes
on for ever), and may end that of its listener instead: a client that just goes raises
in the loop, and so do two tasks whose sends meet (BusyResourceError, an
application that sends while a pong or ping is going out), a ping of either side
after the application has begun to close, and the ping after a frame that wsproto cannot
parse, for which the loop closes the stream and nothing else.  These are the four reasons of
`EscapeReasons`; a client that closes by the protocol, before the application does, is
none of them.  A close of the application is two close frames to wsproto, the second
of which it refuses unless the client's answer came in between.

`Lock.release` without a waiter leaves the lock locked (`Orphaned`), so the first
uncontended use of a `Lock` is also its last; the hand-over to the last waiter frees
the lock under its new owner (`drained`).  No code of the package uses either class, but
for a `WaitLock` that HTTP/1 makes and nobody waits for.  Two `ObjectId`s of different
processes may share their random part, though the docstring calls an id "a 12-byte
unique identifier" (`objectid.py` 116; how small the chance is that two such ids are equal
no document says, and `UniqueIds` gives the reasons there are): between lines 214 and 215 of `objectid.py` another thread of a
child sees the new pid with the parent's random part, and a grandchild whose pid is the
one its memory drew for never draws.  A child forked while another thread held
`_inc_lock` never generates an id.

Seen beside the models: `bytes.fromhex` accepts blanks, so that a string of 24
characters may make an `ObjectId` of fewer than the 12 bytes its docstring speaks of
(`objectid.py` 243 and 137); `PoriorityDeque.append` puts an item for which no key holds at
the front; `Runtime()` resets the origin of the instance all callers share.

## 5. Proofs

Checked by TLAPS, for any sets of tasks, any sizes and any limits.  Every safety property
a passing run checks is a theorem.

`QueueProofs`:
- `QueueType`: types, and the queue never exceeds `maxsize`.
- `QueueRefinesFifo`: every step is a step of `BoundedFifo` or leaves the items alone.
- `GetterCreditHolds`, `PutterCreditHolds`, together `NoWakeupIsLost`: while a task sleeps,
  the tasks that are awake cover the items (the free slots).  Neither is inductive: a
  wake-up adds a task to the awake ones only if the popped event belongs to a task that
  waits.  The invariants add `Deque`: the events of a deque are those of the waiting
  tasks, each once.  `Sleep`, `GoOn` and `Wake` show how it is kept, `CoveredWake` and
  `CoveredGoOn` count.  The theorems need finitely many tasks (`TasksAssumption`).

`ReadStreamProofs`:
- `BytesHold`, hence `ReadStreamType` and `BacklogHolds`: the buffered chunks cover the
  places after `taken` up to `fed` (`Covers`, which adds to `Backlog` that no chunk
  reaches beyond `fed`), by `Cut`, `CoversTail`, `CoversCons` and `CoversAppend`.
- `NoReaderSleepsOnData`, `NoFeederSleepsUnpaused`, together `NoWakeupIsLost`: a waiting task has its event in
  the deque (`Listed`, `Held`), and whatever ends its reason to wait sets the whole deque.
- `LoneReaderNeverFails`: from `LoneInv` (whoever is or was inside `receive` is a caller,
  and a lone caller that is awake need not wait).
- `ReadStreamRefinesChannel`: every step is a step of `ByteChannel` or a stutter, also of a
  producer that feeds after its end (`GoesOn`, which is FALSE for `ConnectionSetup` and TRUE
  for `ReadStream` and the responses of HTTP/2).

`ConnectionSetupProofs`, for every listener, header, payload, way of cutting and any sizes:
- `TypesCorrect`, `BytesServedInOrder`, `HandlerStartsAtPayload`, `BlankReadOnlyAfterV1`: parts
  of one invariant (`IInv`).  It adds: `Streams`, that the lists of the wrappers hold
  consecutive runs of the wire; `LineAhead`, that a version 1 line is found by its first
  chunk that reaches it; `LocalBuf`, what the loop of a stage has gathered in its local
  variable; `Place`, where a listener can stand for the header that came: past it (`Settled`),
  or at the end of a connection that broke off inside it (`Doomed`).
- `ImplementsChannel`: every stage is a step of `ByteChannel` or a stutter.

`LengthsAssumption` says of the lengths in the code that the magic of a version is no longer
than what `auto` peeks at (6 and 12 bytes, and 24: `proxy.py` 225 and 180, `auto.py` 14), and
that a ClientHello has fields (`tls.py` 106-109).

`H1ConnectionProofs`, for any number of requests, with and without misuse:
- `H1Type`, `EscapeHolds`, `EndedClosedHolds` and `MustCloseHolds` (together
  `ClosesInTimeHolds`): parts of one invariant
  (`IInv`).  None but `EndedClosed` is inductive: that h11's state ERROR means a fault
  (`Counts`) rests on where an application that made none stands (`Cycle`), and that no
  response ends on a stream closed here on `ClosedHere`; `Sides` relates the states of
  h11's two sides.
- `ResponsesRefined`: a request comes when all responses are complete, and a response
  begins and ends once, because `Counts` ties the counters to h11's state.

`H2ConnectionProofs`, for any number of streams, any client and any application:
- `TypesCorrect`, from `Base`: `Places` says which task may stand at which await and with
  which snapshot, and that a task inside a writer has one.
- `SleepersHaveNothing`: no task is put behind a chunk another leaves in the writer.
- `ResetsWakeReaders`: `Reachable`, a handler's stream is in the dict or its reader at its end.
- `LoopEnds`: the loop never pops from an empty writer, and raises for a reset or a GOAWAY
  only while that event is still before it in the batch.  `LoopInv` follows the batch: a stream
  is in the dict once and its request is not queued again (`Keys`), streams open in turn
  (`InTurn`), a GOAWAY leaves the batch with the rest of it (`Parting`), a stream that the
  library has reset and the dict still holds has its event queued (`Told`).
- `EndsComplete`, under `WideWindows`: `Responses` adds that what left the
  writer of an open stream was sent (`Kept`) and that a stream's window takes the rest of the
  body (`Wide`); `Ended`, that a stream ends with an empty writer, so that what is in it later
  came late (`Late`).  `WideWindows` is a client that announces stream windows as wide as the
  bodies.  Without it `EndsComplete` is false: the code looks at the connection's window only
  (finding 3, run `h2_stream_window`).  What is fed after the end may be lost, and is not
  promised.
- `FramesAccepted`, under `WideWindows`: `LateOnly` keeps the place of a task that was refused
  a frame, which needs that no task begins again (`Unborn`: the handler of a request that is
  idle or queued has done nothing).
- `ResponsesUntilReset`, under `WideWindows`: a response is a `ByteChannel` until the client
  resets it, in whatever order the application sends.  A reset makes the library forget what it
  has told the client, which is no step of a channel; `ResponsesAreChannels` is for a client
  that resets nothing (as in `h2_streams`).
- `TasksEnd`: a client that opens a stream only when the one before is closed ("early" not
  in `Peer`; the SETTINGS of the server allow one at a time) makes no handler pop from an empty
  writer, unless that handler's own stream is `Finished` on both sides.  `OneOpen`: of two
  streams in the dict one is finished; `OwnWriter`: so a handler whose stream is not waits in its
  own writer only.

`WebSocketProofs`, for any number of frames and messages:
- `WebSocketType`, `HandshakeHolds`, `CloseHolds`, `EscapeHolds`: parts of one invariant
  (`IInv`).  What it adds: `Places` (which task may stand where), `OneWriter` (the transport
  lets one task write, so the frame that goes out is the one wsproto made last),
  `Handshake` (`ping_pong` runs only after the 101), `LastFrame` (a frame that cannot be
  parsed is the client's last), and `CloseFrame`, which ties wsproto's state
  to the close frames on the wire and to the task that is writing one.

`PrimitivesProofs`, for any finite set of tasks:
- `OneOwnerHolds`: while the lock is marked as free it has at most as many owners as there
  were hand-overs to a last waiter, and one more while it is marked as taken (`OwnersInv`).
- `OpenWakesAll`: nobody sleeps on an open `WaitLock`.  `LocksInv` adds to it that a future
  is in the deque of its lock once, exactly while its task waits (`Futures`, `Once`): a
  wait that ends takes its own future out and no other (`Removed`).
- `PartsSideBySide`: the specification `primitives` runs is the three specifications side
  by side, so the theorems about each hold of it; `TypesHold` collects their types.

`ObjectIdProofs`, for any processes, forks, threads and width of the counter:
- `IdsAreUnique`: the lock gives every thread of a process a number of its own (`Holder`,
  `Drawn`), `inc` is that number reduced, and two numbers that reduce to the same value
  are at least a round apart (`RemaindersApart`, by the lemmas on remainders).
- `StaleHasItsReasons`: `Window` follows a thread from the test of `_pid` to the id.

Assumptions on constants are named in the modules (`SizesAssumption`,
`TasksAssumption`, `StaleAssumption`, ...) and say no more than that sizes are naturals,
tasks finitely many and a stale event no task.

Only model-checked: liveness (`EveryByteDelivered`, `GettersServed`, `SetupEnds`,
`Served`, `LoopReturns`, `OneChunkCompletes`, `WaiterEnters`, `NoHalfOpen`), which the prover
does not do under fairness.

## 6. Not modelled, and the plan

Not modelled for good: the TLS handshake, h11, h2 and wsproto themselves, formatting,
logging, configuration; `gather`, a semaphore, a task group and a dictionary, whose
behaviour is anyio's; the pure code of `types.py` (Header), `utils.py`, `units.py`,
`collections.py` and of an `ObjectId` (parsing, pickling, comparison), which has no state
that several steps could break.  Left out of `H2Connection`: the inbound windows of the
streams; a failed write while another task holds the writer lock is one step.  Left
out of `WebSocket`: fragments of a message, compression (no extension is given to
wsproto) and the data of messages.

What is left to model: the HTTP cycle under HTTP/2 (`more_body`, disconnect after a reset)
and the inbound windows, in `H2Connection`.
