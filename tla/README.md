# network-core: specifications

TLA+ specifications of the C++ library `network-core` (`src/network`): its thread
pool, the framing of messages on a TCP stream, TCP connections, the client side of
its RPC layer, its signals and events, its timers, its memory pool, and the cluster of
game servers that is built from these.  Every definition is written from the
code; `PROJECT.json` gives, for each, the lines it stands for, the runs, the mutants
that show each property to depend on the code, the hazards the properties are aimed
at and the theorems.

Run TLC with `tlc -config X.cfg M` (the runs below name `X.cfg` and `M`) and the
provers with `tlapm M.tla` for each of the modules `ThreadPoolProofs`,
`ConnectionReaderProofs`, `TcpConnectionProofs`, `RpcChannelProofs`, `MsgSignalProofs`,
`MsgDispatcherProofs`, `TimerManagerProofs` and `GameClusterProofs`.

## The system

Almost all of the library is asynchronous code over `boost::asio::io_service`: a
function is posted or an operation is started, and a handler runs later, on the one
thread that runs the io_service.  User threads call into it at any time.  The models have
one io_service with one thread.  The mode in which `ios_pool` spreads the connections of a server
over several io_services, each with a thread of its own, is not covered: there a connection is accepted
and started on one thread and its handlers run on another, and several call the router at once.

| component | state | operations | interacts with | hard behaviour | module |
|---|---|---|---|---|---|
| thread pool (`thread/thread_pool.hpp`) | `stop`, `tasks`, `workers`, a mutex, a condition variable | `init`, `enqueue`, `close`, worker loop | any caller | unlocked reads of `stop` and `workers`, notifications after the unlock, close against enqueue and init | `ThreadPool`, `TaskService`, `ThreadPoolProofs` |
| message framing (`connection_reader` in `net/tcp_connect.hpp`) | buffer, remainder, length announced by the current header | `prepare_next_recv`, `completion_condition`, `parse`, `reset` | read loop of the connection | messages cut into pieces anywhere; sizes at the limit of the buffer; lengths the peer makes up | `ConnectionReader`, `ConnectionReaderProofs` |
| TCP connection (`tcp_connection`, `tcp_server::do_accept`) | `is_running_`, `force_close_error_`, socket, write queue, batch, `calls_` | `async_connect`, `start`, `write`, `await_write`, `close`, the handlers | router (`on_connect`, `on_disconnect`, `on_receive_msgs`) | handlers of aborted operations, posted writes that outlive a connection, batches against single writes | `TcpConnection`, `TcpConnectionProofs` |
| RPC channel (`rpc/net/async_rpc_channel.hpp` and the context, container, task and connection beside it) | status, `call_list_`, `to_calls_`, `call_map_`, timers, read in progress | calls of user threads, `cancel`, `disconnect`, send chain, receive chain, timeouts | user threads, io thread, peer | replies in any order, timeouts against late replies, loss of the connection at any point, calls that survive a reconnect | `RpcChannel`, `RpcService`, `RpcChannelProofs` |
| signals (`msgbus/msg_signal.hpp`) | ring of reference counted links | `connect`, `disconnect`, `emit`, `size`, `empty`, destructor | callbacks, which call back into the signal | callbacks that add, remove and emit in the middle of an emission | `MsgSignal`, `MsgSignalProofs` |
| events (`msgbus/event.hpp`) | a signal per event, subscriptions of each receiver | `subscribe`, `unsubscribe`, `unsubscribe_all`, `emit`, destructors | signals | receivers and dispatchers that are destroyed in any order | `MsgDispatcher`, `MsgDispatcherProofs` |
| timers (`timer/`) | map of timers with a status, the asio timer of each | setters, `start`, `stop`, `close`, `stop_all_timer`, `timer_handler`, the proxy | io_service | handlers already queued when a timer is stopped or restarted; stop and start from the timer's own function | `TimerManager`, `TimerManagerProofs` |
| game servers (`gameserver/`) | table of the center, connections to center and db server, three timers of each server | register, get info, on_connect, on_disconnect, timers | connections, timers | both ends learn of a loss at different times; reconnection overtakes the loss; restarts | `GameCluster`, `GameClusterProofs` |
| memory pool (`base/memory_pool.hpp`) | boost pools of doubling sizes, a header in front of each block | `init`, `malloc_memory`, `free_memory` | messages, streams, codec buffers | blocks that are used again; sizes at the limits | `MemoryPool` |
| executors, io_service pools (`thread/executor*.hpp`, `net/ios_*.hpp`) | threads, io_services | post, schedule, stop | timers | stop against pending work | none |
| channels (`base/channel.h`) | queue and five flags under one mutex | send, receive, select | no file of the repository | blocking against non-blocking ends | none |
| commanders, services, modules (`cmder/`, `service/`, `module/`) | tables, the command that is waited for | process, wait, notify, start, stop | waitable objects | results that come after a timeout | none |

The remaining parts (codecs, serialization, object relational mapping, reflection,
meta data, logging, dates, the RPC router, the thrift adapter) convert data or fill
tables at start; they have no interleavings to explore and are not modelled.  The
vendored code, examples and tools of the repository are left aside.

What makes each modelled component correct:

* thread pool: accepted tasks run, once and in the order they were queued; no wakeup
  is lost; `close` returns, and only when all has run.
* framing: the messages handed on are those the peer sent, whatever the pieces; the
  buffer is never overrun, whatever the peer announces.
* connection: one write and one read at a time; messages leave in order, and never on
  a later connection than the one they were posted to; a reply reaches its own call;
  the router hears of a loss.
* RPC: a call gets one result, its own, and is never forgotten; it is delivered at most once and
  in order, as long as a connection is not begun before the handlers of the last have run.
* signals: the ring stays a ring, every callback is called once per emission, nothing is
  freed too early or kept.
* events: no event for a receiver that is gone.
* timers: a timer is called at its rate, not after it was stopped, and for as long as it is
  not.
* game servers: the table of the center is that of the connections that live; a server that
  lost one tries again, and in the end all are registered and connected.
* memory pool: a buffer keeps what its owner wrote.

## The modules and the code

**ThreadPool** (`thread_pool.hpp`).  A task stands for the call of `enqueue` that
submits it, and `call[t]` is the program counter of that call; `wpc[w]` is that of a
worker and `owner` that of the thread that calls `init` and `close`.  A critical section
of `queue_mutex` is one action.  The reads of `stop` and `workers` without the mutex
(`EnqueueCheckStop`, `EnqueueCheckWorkers`) and the notifications after it was released
(`EnqueueNotify`, `CloseNotifyAll`) are actions of their own; the condition variable may
wake spuriously.  **TaskService** is what the pool promises: a FIFO of tasks that is
opened, and closed when all that was accepted has run; `ImplementsTaskService` is the
refinement, with `begun` mapped to the number of tasks that have left the queue.

**ConnectionReader** (`connection_reader` and the read loop).  The stream is a sequence
of `N` messages of sizes `Size`; `base` is the place in the stream of the first byte in
the buffer.  Reads end after any number of bytes; the completion condition, the parse of
a header and of a message are separate actions.  A header read at a place that is not
the start of a message yields any length.  `Received` is the number of bytes that have
arrived, `Fitting` says that those up to here fit the buffer.

**TcpConnection**.  `ready` is the queue of the io_service: posted functions and
handlers of operations that have ended, run one at a time and in order.  Closing a socket
puts the handlers of what was in flight behind what is queued, with an error.  A read is
a place in the buffer and a length; what the bytes hold is ConnectionReader's subject.
`write` and `await_write` are two actions, the unlocked test of `is_running_` (`Write`) and the
post (`Post`), with anything in between.  A message keeps the call_id its user gave it
(`keyed`), and the peer sends messages of its own (`Request`) under any id in `CallIds`; a
message completes whatever call has its id in `calls_`, as in `on_receive_msgs`.  A read that
ends in `reader_.reset()` throws away what it has read and the connection goes on; the reader is
`outOfStep` from then on, and may or may not find the messages in what follows.
`HandleConnect` calls `start()` whatever its error, as the code does, and the result of
`start()` is not looked at.  `accepted`, `wire` and `givenTo` are history.
`RouterStarts` adds the second `start()` that `game_server::on_connect` makes, and
`Impatient` an `async_connect` during an attempt.

**RpcChannel** (`async_rpc_channel`, `base_rpc_context`, `base_call_container`,
`rpc_task`, `async_connection`).  `pc[c]` is the program counter of the thread that makes
call `c`.  What holds `connect_mutex_` from beginning to end is one action; the unlocked
read of the status before a call is one too.  Handlers of aborted operations are `stale`.
`start()` does not wait for them, nor for posted functions: a connection that is begun before they
have run is `crossed`, and they then work on its socket and its `to_calls_` (`StaleConnect`,
`StaleFails`, `StaleSent`).  The model follows them until `handle_send` pops an empty list or a
second read into the same header begins (`corrupt`), which is undefined behaviour.  Whether a call
that is being written is found by `cancel` depends on `big_endian()`, so `Cancel` has both
outcomes.  `disconnect()` is assumed to be called on the io thread.
**RpcService** is the promise to a caller: only a call that was made reaches the peer, one
result, success only after delivery.

**MsgSignal** (`ProtoSignal`, `SignalLink`).  Links are nodes with `next`, `prev`, `ref`
and a function (`n \in fn`).  `stack` holds the emissions under way, the inner ones
last; while a callback runs every operation of the signal may be called.  A step to a
freed link leads to the state "undefined".  `leaked` counts the references that `size()`
and `empty()` do not give back.  The signal is one without a default callback, as all in the
repository are.

**MsgDispatcher** (`msg_dispatcher`, `BaseReceiver`).  `handlers` are the callbacks in the
signals of all dispatchers, `connections[r]` the entries of a receiver's map, which is keyed by
the event alone.  `stack` holds the emissions under way, of the dispatchers and within each other;
while a callback runs, receivers and dispatchers may be subscribed, unsubscribed and destroyed,
and a signal whose dispatcher is gone lives as long as an emission is in it.  A subscription made while there is an entry
for the event is made as the code makes it, without one of its own: `untracked` is the history of these.

**TimerManager** (`timer_manager`, `timer_proxy`, `schedule_timer`).  `wait[t]` is the time
at which the pending `async_wait` of a timer ends, `queue` the handlers of waits that have
ended, with their result: `cancel` and a new expiry reach the former and not the latter.
`timer_handler` is two actions, before and after the function of the timer, which may call
everything in between (`cur`).  The clock may go on at any
time, as the io_service may be late, and a wait that is due ends in a step of its own.

**GameCluster** (`game_server`, `game_server_base`, `server_manager`).  A link is a
connection as the network sees it, with the messages on their way; its two ends notice
separately that it is broken.  What `TcpConnection` says of a connection (a handler of
`async_connect` for every attempt, `start()` whatever its error, an `on_disconnect` for a loss) is
used here in the form of `attempt`, `done` and `running`; what `TimerManager` says of a timer,
as a timer that is on or off.  `CenterRestarts` and `ServerRestarts` end a process and start it
again with nothing.

**MemoryPool** (`memory_pool`).  Memory is words of four bytes, and each remembers what was
last written to it: half of a link of a free list, a header, or the data of a buffer.
The pools are boost's, from how the code uses them: a free list in the chunks themselves, last
in, first out.  A link that was written over leads nowhere, and following it, or giving
memory of a pool to `::free`, ends the program (`aborted`).

The `MC*` modules only give constants their values.

## The runs

| run | module, cfg | what it shows |
|---|---|---|
| `threadpool` | `MCThreadPool`, `MCThreadPool.cfg` | two workers, three concurrent `enqueue` calls, a pool opened twice: no lost wakeup (`WorkConserving`), no sleeper at the joins, refinement of `TaskService`; every accepted task runs and `close` returns |
| `rpc_safety` | `MCRpcChannel`, `MCRpcChannel.cfg` | a blocking, a timed and a one-way call, two connections, failures, a disconnect, a cancel and a refusing hook at any point, handlers of the first connection that meet the second: `AnswersMatch`, `QueueHasSender`, `WaitingCallsTracked` and the refinement of `RpcService` in every state, `SendsInOrder` and `SingleWrite` until the connections are `crossed` |
| `rpc_live` | `MCRpcChannel`, `MCRpcChannelLive.cfg` | on a connection that holds, a timed call ends even if the peer is silent, and every call ends if the peer answers |
| `reader` | `MCConnectionReader`, `MCConnectionReader.cfg` | fifteen messages of sizes from a bare header to the whole buffer, the thirteenth larger than that, cut in every way: `FramingExact` and `OnlyErrorsClose` up to it, `AllDelivered` (what has arrived is handed on), and behind it still `AssertsHold`, `EveryReadHasMessage` |
| `tcp_connection` | `MCTcpConnection`, `MCTcpConnection.cfg` | three messages, two of them awaited, perhaps under a call_id of their own, and a message of the peer under any, over two connections that are lost, closed and made again: `WriterMatches`, `WireInOrder`, `NotOnNextConnection`, `OneRead`, `ToldOfLoss`, `AwaitMatches` (a call gets its own reply, but for messages of the peer under its id and ids its user gave), `AwaitTracked` (an awaited call of a connection that runs in step is on its way, entered, or answered: none is forgotten) |
| `tcp_start_twice` | `TcpConnection`, `MCTcpConnectionTwice.cfg` | violation: see the findings |
| `signal_emit` | `MCMsgSignal`, `MCMsgSignal.cfg` | three callbacks that connect, emit again and disconnect themselves: `SafeAgainstRecursion`, `RingSound`, `EmissionComplete`, `RefsExact` |
| `signal_remove_any` | `MCMsgSignal`, `MCMsgSignalRemove.cfg` | violation: see the findings |
| `dispatcher` | `MsgDispatcher`, `MCMsgDispatcher.cfg` | violation: see the findings |
| `timers` | `TimerManager`, `MCTimerManager.cfg` | two timers that are started, stopped, closed and dropped at any point, in their own function too: `Rate`, `StopHolds`, `ChainAlive` |
| `cluster` | `GameCluster`, `MCGameCluster.cfg` | center, db server and a game server, with a link that breaks, an attempt that fails or a process that restarts at any point: `TableExact`, `Retried`, `Converges` |
| `memory_pool` | `MemoryPool`, `MCMemoryPool.cfg` | violation: see the findings |

The type invariant `TypeOK` of each module is there for its reader and its proofs; of the runs,
`threadpool` and `reader` list it, where it bounds the workers and the lengths in the buffer.

### Findings

* `tcp_start_twice`: `handle_connect` starts a connection and then calls `on_connect` of
  the router; `game_server::on_connect` starts it again.  Two reads then share one buffer:
  when the first leaves a remainder, the second ends beyond the end that
  `completion_condition` asserts.
* `signal_remove_any`: a comment says that callbacks may be removed during an emission.  A
  callback that removes itself and then its successor leaves the emission on a link whose
  `next` has been freed.
* `dispatcher`: a comment says that subscriptions are removed when receivers are destroyed
  (`event.hpp:92`).  `subscribe` inserts into a map that is keyed by the event alone, and keeps the
  entry that is there: a second subscription, one at another dispatcher, or one after the first
  dispatcher has gone, is not removed, and the next emission calls a receiver that no longer exists.
* `memory_pool`: `malloc_memory` gives its caller the place behind the header, and
  `free_memory` gives that place, not the chunk, back to the pool.  The free list then holds a
  place inside a chunk, and a block that is used again reaches one header further into its
  neighbour.  Two calls of `malloc` after one of `malloc` and one of `free` are enough: the header
  of the second is written over the data of the first.  The tests of serialization read back
  what they wrote to buffers of this pool, one buffer at a time.

One more comment that the code does not keep has no run of its own: `msg_signal.hpp:157` says that
the destructor releases all resources of a signal, and a link at which `size()` or `empty()`
returned early keeps a reference and outlives it.  `RefsExact` counts these references (`leaked`).

Behaviour that no comment or test speaks of is in the models and in the hazards, without
a run of its own: a server that registers twice on one link and leaves an
entry in the table (`TableExact` counts it); a timer that its own function stopped and that is
started again when the function returns true (`StopHolds` excepts it); a null ring when `size()` or
`empty()` is called first; callers that wait for ever when the body of their reply is lost, when a
connection with awaited calls ends, or when the callbacks of their connect are replaced; replies
thrown away by `reader_.reset()` (`outOfStep` in `AwaitTracked`); a message of the peer that completes a call with its
id (`Request` in `AwaitMatches`); a call list that is stuck after a disconnect at the wrong moment
(`stranded` in `QueueHasSender`); a second write, or a pop of an empty list, by handlers of an older RPC
connection (`crossed` in `SingleWrite` and `SendsInOrder`); a thread that tests `is_running_` of one
connection and posts to the next; a
router that is told of a connection whose `start()` failed, so that a game server stops its
timers and never tries again (`failed` in `Retried` and `Converges`).

### Bounds, and why they are enough

* `threadpool`: two workers are what a lost wakeup needs (one that sleeps and one that takes
  the task of the other); three tasks let two notifications overlap with a busy worker; two
  openings let an `enqueue` begin in one life of the pool and push in the next.
* `rpc_safety`: one call of each kind that the code treats differently; two connections let
  every handler and posted function of the first meet the second (`crossed`, from then on only
  until `corrupt`); replies with a body and oversized ones, which are those that take the context
  from the map before the call is complete; the others are in `rpc_live`; four ids are more than the calls take, so the
  wrap of the 32-bit counter is left out and listed as a hazard.
* `reader`: a header of 2 and a buffer of 8 units, and sizes from 2 (no
  body) to 8 (exactly full) beside each other, so that remainders of every length up to a
  header and beyond occur; then one of 9, which does not fit, and two behind it.  The theorems
  remove the bounds.
* `tcp_connection`: three messages give a single write and a batch behind it, or a message that
  comes while one is written; two
  connections give messages that outlive theirs; one id that users and the peer choose is the id of the
  first call as well; a buffer of one unit gives reads to its end, and to a reset.  With
  four messages and no chosen ids (1,611,185 states), which gives a message
  that comes while a batch is written, the properties hold too.
* `signal_emit`: three links are a link, its successor and one further on; two nested
  emissions; `MaxRefs` bounds the references that `size()` and `empty()` leak.
* `dispatcher`: two dispatchers, two receivers and three connections are more than the violation needs.
* `timers`: two timers let the handler of one come between those of the other; a function that
  returns either value, one that always goes on and one with a fixed time are the cases that
  `timer_handler` tells apart (`once` and `fix` behave as one of these does); with a period of 1
  the clock up to 3 gives three calls, and two starts a restart at each point between them.
* `cluster`: one server of each kind; four links that somebody still knows of are two
  generations of each of two connections; one fault, after which what it leads to is explored to the end; one
  attempt that outlives the timer that repeats it.
* `memory_pool`: four classes and three chunks of each are more than the shortest way to the
  violation needs.

Links of a signal differ in their names only, and so do the messages of a connection that
are of one kind; these sets are symmetric where a run checks safety only.  `CHECK_DEADLOCK FALSE` is used where a system may
stop: a pool nobody uses, a stream that has ended, all calls made, a signal destroyed.

### Fairness, and why the code justifies it

* Threads that can run are run by the operating system, and a function that a task runs
  returns: weak fairness of the worker loops and of `enqueue`, `init` and `close` once they
  have begun.  Nobody has to call them.
* An io_service runs what is queued: weak fairness of handlers, posted functions and timers.
* Operations of a socket that is not broken end: weak fairness of writes and connects.
* `reader` assumes nothing of the peer: the property is about bytes that have arrived.
* A peer that answers is assumed only where a property says so (`CallsEnd`).
  Nothing is assumed of failures, disconnects and cancels.
* `cluster`: each process runs its handlers and, the center having many connections, those of each
  link; timers that are on fire; an attempt to connect to a process that runs ends.  Faults are
  bounded by the run and not assumed to happen or to stop.

## The proofs

**ThreadPoolProofs**, for every set of tasks and workers, every pool size and any number of
openings.  The inductive invariant is `PoolInv == TypeOK /\ QueueInv /\ RunInv /\
ControlInv`: the queue is the tail of what was accepted and nothing was accepted twice; a
task that left the queue has run or is held by one worker; where owner and workers can be,
given `stop` and the queue.  `NoSleeperAtJoin` is a consequence of `ControlInv` alone, not
inductive itself: it needs that a worker that sees `stop` never begins to wait, and that
only a `notify_all` to come excuses a sleeper while `stop` is set.  From `PoolInv` follow

* `TypeCorrect`, `NoSleeper`;
* `PoolImplementsService`: initial states map to initial states and every step to a step of
  `TaskService` or a stutter.  That the last join is a close of the service uses `RunInv` (no
  worker holds a task) and `ControlInv` (an exited worker saw an empty queue);
* `NoLostWakeup`: `WorkConserving` is inductive together with `PoolInv`; the proof counts awake
  workers and pending notifications.

Assumptions: finite sets of tasks and workers, pools of at least one worker
(`PoolAssumption`).

**ConnectionReaderProofs**, for every stream, every way it is cut and all sizes of header and
buffer.  The inductive invariant is `ReaderInv == TypeOK /\ BufferInv /\ (Fitting =>
AlignInv)`.  `BufferInv` holds of any stream: between two reads the buffer holds no whole
message, so that there is room, and a read that is parsed holds at least one.  `AlignInv` adds,
as long as the messages so far fit (`Fitting`; lemma `FittingBefore`: it held in the step before), that the front of the buffer is the start of the next message and that the
length in use is that message's.  From it follow `WithinBuffer`, `ReadsHaveMessages`,
`FramingIsExact` and `ClosedByErrors`.  Assumptions: a header of at least one byte that fits
the buffer, messages that follow each other without gaps (the named assumption of the module).

**MsgDispatcherProofs**, for any dispatchers, receivers, events, number of connections and depth of
emissions.  `NoDeadReceiver` is violated; what is proved is how far.  `DispatcherInv`
says that the ids of callbacks are their own (`IdsOwn`: so disconnecting by the ids of one receiver
cannot touch the callbacks of another), that callbacks are in signals that exist (`Homes`), and that
entries and callbacks answer to each other (`EntriesName`, `EntriesMeet`, `CallbacksEntered`).

* `EntriesExactHolds`: the callbacks without an entry are exactly those of `untracked`, which
  `subscribe` made while there was one: the finding has no other cause.
* `UntrackedStayHolds`, an action property: nothing but the end of its signal removes such a callback.

**TimerManagerProofs**, for any number of timers, periods and starts.

* `StoppedStaysSilent`, the action property `StopHolds`, follows from `StopInv`: a timer that was
  stopped is canceled, and is not the one whose function runs.  The second half is needed because the
  return of the function starts its timer again without a look at the status, so that only a stop
  from another place holds.
* `ChainAliveHolds` and `RateHolds` follow from `ChainInv`.  For `ChainAlive` it says of each timer
  that it waits, has a handler in the queue whose wait was not cut off, or is the one whose function
  runs.  `Rate` bounds the calls that were made; to be inductive the bound must hold of the calls that
  were made *and* those that are due, which are the uncut handlers in the queue (`Due`), and it must
  say how far off the end of the pending wait is (`Paced`).  Each start may leave one such handler
  behind, which is the one call more per start that `Rate` allows.  A timer with a fixed time counts
  from its `next_time` and gets no call more.

Assumption: periods are positive (`TimerAssumption`).

**MsgSignalProofs**, for any number of links, nested emissions and operations of callbacks.

* `RefsExactHolds` follows from `RefInv`: what is allocated is what is
  referenced, and the count of a link is the sum of what the ring, the emissions at it and the calls of
  `size()` and `empty()` hold.
* `RingSoundHolds` follows from `RingInv`: `next` and `prev` are inverse on the links with a function
  and the head (`Linked`), and there is an order of places by the time of connection that a walk of
  the ring follows (`Sorted`).  The order stands for the induction over the ring that the provers
  cannot make: that the walk reaches the head is the statement that no link lies behind the last.
* `SafeEmissions` and `CompleteEmissions` follow from `EmitInv`, which adds to the ring, with the same
  order of places, what each emission on the stack has done (`Walks`): it called no link from its place on, and
  all it is to call before it; and if its own link was removed, the link still leads to where the
  ring goes on.  These two assume `Removal = "self"`, that callbacks remove nobody but
  themselves, and not from within an emission they made.  The assumption is necessary: without it the run `signal_remove_any` finds the violation.

Assumption: the head is not one of the other links (`SignalAssumption`).

**RpcChannelProofs**, for any calls of any kind, any number of connections, disconnects and cancels, with
the handlers of older connections running when they may.  The
inductive invariant is built in three layers.  In the first two, one part holds in every state, and
the other until a connection is begun with handlers or posted functions of an older one queued
(`crossed`): after that the code has no such property.

* `SenderInv`.  In every state (`BaseInv`, `QueueInv`): what is in flight belongs to an open socket, and
  somebody goes on with `to_calls_` (a write or a retry, unless it was written to a closed socket,
  `stranded`) and takes `call_list_` over.  `QueueHasSenderHolds` follows.  Until `crossed` (`ConnInv`,
  `ChainInv`): stale handlers belong to a closed socket; the chain of sends is one write of the front of
  `to_calls_` *or* one posted retry of it.  `SingleWriteHolds` follows; it is not inductive alone, since
  a retry beside a write would start a second one.
* `ArrivalInv`.  In every state (`AcceptInv`): a call is queued once, and only queued calls are written.
  Until `crossed` (`OrderInv`): what was sent, then `to_calls_`, then `call_list_` keep the order of
  the queue, but for the front of `to_calls_`, which has left already while its write is in flight.
  `SendsInOrderHolds` follows.
* `MatchInv` (`IdInv`, `ResultInv`, `ArmedInv`, `WaitingCallsTracked`), in every state: the ids of the calls are
  different and every request, reply and entry of `call_map_` carries that of its call.
  `AnswersMatchHolds` and `WaitingCallsTrackedHolds` follow, and so does `ServiceRefined`, the refinement of
  `RpcService`: initial states map to initial states, and every step to a step of the service or a
  stutter.  That a reply completes a call once uses `IdInv`; that it was delivered before, that a reply
  carries the id of a call that has left.

The third layer assumes `IdsSuffice`: fewer calls than the counter `call_id_` has values.  After 2^32 calls
an id may be that of a call which still waits, and its reply would go to the wrong one: this is a
hazard of the code, not something the channel prevents.  The first two layers assume nothing of
this kind.

**TcpConnectionProofs**, for any messages, calls and buffer size and any number of connections.  The
inductive invariant `ConnInv` has, beside types, one part for each of the things that go on.

* `SockInv`: a connection that runs is connected, and behind the handler of an attempt the queue of the
  io_service holds nothing but posted functions.  So no handler of an older connection can run
  after a new `start()`; every other part depends on this.
* `ReadInv`: there is at most one read, in flight or with its handler queued, of a running connection
  exactly one, and its end is within the buffer: `OneReadHolds`, `ReaderAssertHolds`.
* `WriteInv`: a batch has two messages or more, and the one write in flight or ended is of the batch, if
  there is one, else of the front of the queue: `WriterMatchesHolds`.  That a batch has at least two
  is what `handle_write` relies on to tell what it wrote.
* `OrderInv`: as long as no write has failed, what was accepted is what the peer has received, then
  what is in flight, then what waits: `WireInOrderHolds`.
* `GivenInv`: all that a running connection holds, or that is posted to it, was posted since it
  was begun, also by threads that saw the connection before: `NotOnNextConnectionHolds`.
* `IdInv`: the ids that `do_await_write` gives are given once; `calls_`, the requests and the replies carry
  those of their calls; an answer has the id of the call it is given to: `AwaitMatchesHolds`.  A call that
  came with an id (`keyed`) and a message of the peer that is no reply are what remains.
* `TrackInv`: a call that waits on a running connection whose reader is in step is posted, or has its
  entry in `calls_` and a place in the queue, on the wire, with the peer or in a read, or another has its id:
  `AwaitTrackedHolds`.

These assume `WellUsed`: the router does not start the connection again and nobody connects during an
attempt.  With a second `start()` they fail, which the run `tcp_start_twice` shows of `ReaderAssert`.
`ToldOfLossHolds` assumes nothing: it holds with a second `start()` and hasty attempts too.
Assumptions on the constants are those of `ConnectionAssumption`: the awaited calls are among the
messages, what the peer sends of its own is none of them, ids are positive, and the buffer holds something.

**GameClusterProofs**, for any servers and any number of links, faults and late attempts.  The inductive
invariant is `ClusterInv == TypeOK /\ SockInv /\ CenterInv /\ LinkInv /\ EntryInv /\ TableExact /\ Retried`.

* `SockInv`: the link of a socket is that of its connection, there is none during an attempt, and a socket
  that is connected under a connection that does not run has a success still to be handled.  The last part
  is what keeps a server from losing its registration: the `on_connect` that will send it is yet to come.
* `CenterInv` and `LinkInv`: the connection to the center is one with the center, and the center gives up
  its end only of a link that is broken.  So a request on a link that is whole is never thrown away.
* `EntryInv`: the entries of a unique_id are links of a server with this unique_id; the links that nobody knows
  of any more, which the model forgets and uses again (`Kept`), have none.

`TableExactHolds` counts entries: registration adds one (`EntryAdded`), a loss erases the first of a link's
(`EntryErased`), and no other step touches the count.  `RetriedHolds` follows a registration from `on_connect`
over the request to the confirmation, which starts `get_db_info_timer_`; `Undisturbed` is what a step
must not do to it on the way.  The handlers of the servers share the lemma `ServerFrame` and those of the center
`CenterSideFrame`; the loss of a connection and a restart of the center share `GivenUpHolds`.  Assumptions are those of
`ClusterAssumption`: the processes and their unique_ids are different, `db_server` is the unique_id of no other server, and
there are finitely many servers.

What is model-checked only: the liveness properties (`Converges` and those of the other runs), since fairness
and `ENABLED` are out of reach of the proof system used here.  `MemoryPool` has one run, which shows a
violation, and nothing to prove.

## What is left out, and why

* Data races that the model runs as if between handlers: `disconnect()` of an RPC channel on a
  user thread, timers of an executor; and a server on several io_services (see above).
* Callbacks of an RPC call that call into the channel again, under its mutex.
* The destructor of `tcp_connection`, its blocking `connect()`, and its heartbeat, which does
  nothing: `received_msg_` is set by every read and never cleared while a connection runs.
* Bytes of messages: byte order conversions on a shared message are listed as a hazard.
* The delayed call, the server side and the FIFO container of the RPC channel.
* In the cluster: the registration of the gateway, which is not in the repository; forwarding and
  broadcasting of messages, which change no state of the servers; a second `start()` from
  `on_connect` (that is the run `tcp_start_twice`).
* `new_memory` and `delete_memory` of the memory pool, which nothing calls, and memory that a pool
  asks the system for when its first block is used up.
* Executors: a thread, its io_service and a timer manager; a task is a posted function and a delayed
  one a timer.  io_service pools: threads that run until they are stopped.
* `base/channel.h`: adopted from another library and included by no file of the repository.
* Commanders, services and modules: a console tool and the start and stop of a fixed list, one
  after the other on one thread.
* Codecs, serialization, object relational mapping, reflection and meta data: templates that convert
  data, and tables filled before `main`; most of the lines of the repository are of this kind, or
  are generated (`example/common/proto`), examples or other libraries.

Smaller hazards met on the way, beside those of `PROJECT.json`:

* `msg_signal.hpp:98` clears a function that may be running; `:217` uses a null ring before the
  first `connect`.
* `tcp_connect.hpp:124` moves overlapping bytes with `memcpy` (modelled as a move); `:222` calls
  `shared_from_this` in a destructor; `:399` lets a 32-bit id wrap; `:492` swaps the bytes of a
  message that other connections may be sending too; `:526` may deliver messages after
  `on_disconnect`; `tcp_server.hpp:86` tells the router of a connection that does not run yet.
* `async_rpc_channel.hpp:276` clears a list on the caller's thread; `:459` runs callbacks under
  the mutex; `async_rpc_context.hpp:285` lets ids wrap.
* `timer_manager.hpp:296`: only `close()` erases a timer, so that those that ran once stay;
  `executor.hpp:102` changes the timers on the caller's thread; `executor_pool.hpp:60` joins twice.
* `memory_pool.hpp:89` compares strictly: a block of the largest pool whose size is exactly that of
  its chunk goes to `::free` (an `aborted` of `MemoryPool`).  `raw_msg.hpp:135` copies a body by
  leaving its pointer uninitialized, and `memory_stream.hpp:66` assigns without taking the pointer
  from the other stream.
* `waitable_object.hpp:43` resets without the mutex; `base_waitable_cmder.hpp:33` keeps a result that
  comes after the wait has timed out for the next wait; `server_manager.hpp:114` reads a name that
  may never have been registered; `game_server_base.hpp:380` ignores a gateway that registers again
  before the loss of its old connection is seen, and then forgets it.
* `tcp_connect.hpp:447` never finds a connection idle, as `received_msg_` is not cleared;
  `async_rpc_channel.hpp:489` retries a call that the hook refuses for ever, and calls behind it wait.

## Plan

In order of importance.

1. The early returns of `size()` and `empty()` against the comment on the destructor of a signal, as a
   run of its own.
2. Ownership of buffers (`msg_body`, `memory_stream`, `gos_buffer`) on the memory pool: each block is freed
   once.
3. Waiting commands, and executors on `TimerManager`.
