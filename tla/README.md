# TLA+ specifications of the Mill event loop

This directory holds the formal model of the crates of this repository: modules
that model the code, TLC configurations that check them on small instances, and
proofs, checked by TLAPS, that hold for every instance. Source paths below are
relative to the repository (`mill-io/...`).

## The system

Mill is a stack of three crates. `mill-io` is an event loop without an async
runtime: a reactor thread polls the operating system through `mio`, gives events
to a pool of I/O workers, and fires timers; a second pool runs compute tasks by
priority. `mill-net` builds a TCP server and client on it, and `mill-rpc` a
request/response protocol on those. `mill-io/examples` has three servers written
on the event loop alone.

| Component | State | Operations | Talks to |
|---|---|---|---|
| Timer wheel (`mill-io/src/timer_wheel.rs`) | slots of four levels, overflow list, map of live timers, count, cached earliest deadline, in-flight and cancelled-in-flight sets, all under one lock | `schedule_once`, `schedule_repeating`, `cancel`, `time_until_next`, `tick` | called by any thread; `tick` and `time_until_next` by the reactor; runs user callbacks without the lock |
| Compute pool (`thread_pool.rs`, l.120-380) | a heap of tasks under a lock, a condition variable, a shutdown flag, atomic metrics | `spawn`, the worker loop, `drop`, metrics | any thread; tasks are user code and may panic |
| I/O thread pool (`thread_pool.rs`, l.21-118) | one channel per worker, a round-robin counter | `exec`, the worker loop, `drop` | called by the reactor for every event |
| Reactor (`reactor.rs`) | running flag, poll timeout, dispatch mode | `run`, `dispatch_event`, `shutdown` | polls, dispatches, ticks the wheel |
| Poll handle, registry (`poll.rs`, `handler.rs`) | map from token to handler, waker | `register`, `deregister`, `poll`, `wake` | any thread registers; workers look handlers up |
| EventLoop (`lib.rs`) | none of its own | delegates; wakes the reactor after scheduling a timer | |
| Object pool (`object_pool.rs`) | a channel of buffers | `acquire`, `Drop` | read paths of TCP |
| TCP server (`mill-net/src/tcp/mod.rs`) | map of connections, connection counter, next id | accept loop, `send_to`, `broadcast`, `close_connection`, read, disconnect | handlers run on the I/O workers |
| TCP client (same file) | optional stream | `start`, `send`, `disconnect`, read | one handler in the registry |
| RPC wire protocol (`mill-rpc-core/src/protocol.rs`) | none | headers, frames, `parse_frames` | both RPC ends |
| RPC server (`mill-rpc/src/server.rs`) | services, a receive buffer per connection | `on_connect`, `on_data`, `on_disconnect`, dispatch | TCP server |
| RPC contexts, codecs, macros (`mill-rpc-core`, `mill-rpc-macros`) | none | the generated dispatcher and stubs, `bincode` | both RPC ends |
| RPC client (`mill-rpc/src/client.rs`) | pending requests, condition variable, receive buffer, request ids | `call`, `call_oneway`, `on_data` | TCP client |
| Example servers (`mill-io/examples/scratch_*_server.rs`) | a map of streams, a token generator, a store of values | accept, read, answer, disconnect | handlers run on the I/O workers |

What is hard in it: the timer wheel is arithmetic (wraps of nested levels, an
overflow list, jumps of the clock) crossed with concurrency (`tick` gives up its
lock twice); the compute pool sleeps and wakes without holding the lock where it
notifies, and is dropped while tasks are queued; handlers are looked up at the
time a worker runs an event, so registration, deregistration and events race;
the TCP server counts connections in one place and stores them in another; an
RPC call races its response against its timeout, and its frames are cut anywhere
and may be read by several workers at once. The list of these hazards, line
by line, with the properties that cover them, is in `PROJECT.json`.

What makes each component correct:

- timer wheel: no timer is lost, doubled, skipped or run early; a timer is run
  by one thread; a cancel that returned true is final; the reactor never sleeps
  past the earliest timer;
- compute pool: every spawned task runs once, in order of priority, and in order
  of submission within one; no wakeup is lost; `drop` loses nothing and returns;
  the metrics add up;
- I/O pool and reactor: every event reported for a registered source reaches its
  handler or is dropped because of a deregistration; `stop` stops; one bad
  handler does not take others with it;
- TCP: the counter equals the connections that are open; `on_connect` comes
  first, `on_disconnect` last and once; bytes reach `on_data` in order;
- RPC: a call runs at most once and returns the answer to its own request, or an
  error; frames come out of the buffers as they went into the socket; the map of
  pending requests keeps nothing that nobody will take out;
- example servers: requests are answered in order, with the values stored before
  them, whichever workers read them; no event is lost.

## Modules

| Module | What it is |
|---|---|
| `WheelLayout` | the tables and the placement rule of the wheel: level and slot of a deadline |
| `TimerWheel` | the timer wheel and its callers, concurrent |
| `MCTimerWheel` | small instances of it |
| `TimerWheelProofs` | theorems about it: timers, cancels, caches, and what the cursor visits when |
| `TaskService` | what the compute pool promises, abstractly |
| `ComputePool` | the compute pool |
| `ComputePoolProofs` | theorems about it, and that it implements `TaskService` |
| `IoPool` | the I/O thread pool: channels, workers, their death, the drop |
| `Registry` | the poll handle: edge-triggered `mio`, the waker, the map of handlers |
| `Reactor` | the event loop over these two: `run`, dispatch, timers, `stop`, and its callers |
| `MCReactor` | small instances of it |
| `ReactorProofs` | theorems about it and its two parts |
| `TcpServer` | the TCP server: accept loop, connections, counter, and the ways a connection ends |
| `MCTcpServer` | small instances of it |
| `TcpServerProofs` | theorems about it: the map, the ends of connections, the listener, the counter and the limit |
| `Wire` | the wire protocol: frames, their encoding, `parse_frames` |
| `WireProofs` | theorems about the parser |
| `Connection` | one TCP connection: the bytes under way to each end, its closing, its events, its faults |
| `TcpClient` | the TCP client at one end of a `Connection` |
| `RpcClient` | the RPC client over `TcpClient`: callers, pending requests, timeouts, responses |
| `RpcServer` | the RPC server at the other end, with what the TCP server does for it |
| `RpcCalls` | what mill-rpc promises its callers, abstractly |
| `Rpc` | a client, a connection and a server together; the refinement of `RpcCalls` |
| `MCRpc` | small instances of it |
| `RpcProofs` | theorems about its callers, its types and the order of its frames |
| `RpcCallsProofs` | theorems about its requests, and that it implements `RpcCalls` |
| `ScratchServers` | the three example servers on the event loop |
| `MCScratchServers` | small instances of them |
| `ScratchServersProofs` | theorems about them |

### TimerWheel

The wheel's own state has the names of the fields of `WheelInner`; `issued` is
what `next_id` has handed out, `mutex` is the ticker that holds the lock across
steps, and `now`, `cascading`, `expired` and `to_reschedule` are the local
variables of `tick` and `advance_to`, one of each per thread in `tick`
(`Tickers`), with `pc` as the place in it. Ticks are milliseconds, and `clock`
is `Instant::now() - start_time`.

The code holds the one lock for a whole `schedule`, `cancel` or
`time_until_next`, so each of those is one action (`Schedule`, `CancelPending`,
`CancelInFlight`, `TimeUntilNext`; a `cancel` that returns false changes
nothing). `tick` is a sequence:

| Action | Code |
|---|---|
| `ReadNow` | the clock is read before the lock (l.393) |
| `BeginAdvance`, `FireSlot`, `Cascade`, `EndCascade`, `EndAdvance` | `advance_to`: one action per iteration of its two loops, with the lock held throughout; `EndAdvance` re-inserts the overflow list, invalidates the cache and unlocks |
| `DrainDueInto` | `advance_to` after a jump of the clock by more than the wheel spans |
| `MarkInFlight` | the second critical section: repeating timers become in flight |
| `FireCallback`, `CallbackPanics` | one callback, without the lock |
| `Rearm` | the third critical section |

A callback that itself schedules or cancels is an occurrence of `Schedule` or
`CancelPending` next to the ticker that runs it; the code runs callbacks without
the lock, so there is nothing else to it.

Abstractions: a slot is a set of ids, so the order of timers within one slot is
not modelled (`Orders` lets a slot fire its timers in any order); deadlines are
numbers modulo `TickModulus` (2^64 in the code); the levels are given by their
sizes and spans instead of shifts and masks. `due` and `confirmed` are history:
the tick the caller asked for, and the timers whose `cancel` returned true.

### ComputePool

A task stands for the `spawn` call that submits it (`call`); a worker's place in
its loop is `pc`. `spawn` takes its sequence number before the lock, pushes and
counts under it and notifies after it; since the metrics are read without the
lock, the push and its two counters (`Push`, `CountSubmitted`, `CountDeeper`) are
actions of their own, and so are a worker's pop and the counters behind it (`Pop`,
`CountTaken`, `Begin`). A worker that finds nothing to do
keeps the lock until it waits (`DecideToWait`, `Wait`), which keeps `spawn` out
but not `drop`, which stores and notifies without the lock (`DropStore`,
`DropNotify`, `DropJoin`). `MetricsAddUp` says by how much each counter lags
behind what it counts: by the calls and the workers between the two. `Finish` is the return of a task or its panic, which the worker catches.
`earlier` is history: which spawns had returned when one began. `drop` needs
sole ownership, so it begins when no `spawn` is under way.

`TaskService` is the promise: a task goes through called, queued, running, done,
and starts only if nothing queued has a higher priority or was submitted before
its own `spawn` began. `Service` in `ComputePool` is the refinement mapping.

### IoPool, Registry and Reactor

`Reactor` extends the other two, which hold the state of its parts, and its
actions conjoin theirs.

- `IoPool`: `channels`, `next_worker` (the counter of `exec`, reduced by the
  modulo it is always taken with) and `at`, what each worker thread is doing.
  `exec` is one action: the counter and the send are separate in the code, but
  only the reactor thread calls it. A worker that panics is `dead`; the messages
  in its channel are gone and a send to it fails (`ExecFails`). `SendTerminate`
  and `Join` are `drop`.
- `Registry`: `register` and `deregister` in their two unprotected steps
  (`RegisterSource`, `InsertHandler`; `DeregisterSource`, `RemoveHandler`), and
  what `mio` does, from how the code uses it: it is edge triggered, so `edge`
  holds what it has yet to report and `work` what there is to do at a source. An
  error of `mio` in either call leaves everything as it was and is left out.
- `Reactor`: the place of `run` in its loop is `pc`: the flag is checked, the
  timeout computed (`AskTimeout`), the poll left (`PollReturns`, `PollFails`), each event dispatched to a worker or handled on the spot, and
  the wheel ticked. An event on its thread is a `job`: the handler is looked up,
  then called, then returns or panics, in separate actions, since the code holds
  no lock over them. Other threads register and deregister, schedule timers and
  stop the loop; the last two change the state first and wake the poll after it
  (`caller`).

Abstractions: a handler takes up everything its event reports, as edge
triggering asks of it; the timer wheel is the set of pending `deadlines`, with
`time_until_next` and `tick` as the wheel's own model shows them to be (a tick
takes out what is due, but may leave what is due at this very tick to the next one;
a panicking callback loses the rest of what it took out);
repeating timers are scheduled again by a caller. The poll's timeout is a duration,
computed a little before the poll: it runs out by up to `MaxLag` later than it would
have from the moment it was computed. `lost` is history: readiness
that `mio` has reported and that no handler will be called for, because none was
in the map, or a worker died with it, or `run` ended in the middle of a batch.

### TcpServer

A thread is described by `todo`, the steps of the function it is in that are
still before it: the accept loop, a read, `disconnect` or `close_connection` are
sequences of such steps (`Accepted`, `Refused`, `Disconnect`,
`CloseConnection`), and between any two of them other threads may come.
`connections`, `connection_counter` and `next_conn_id` are the fields of that
name; `registered` is what the event loop's registry holds of the connections,
and `edge` and `listener_edge` the events it has yet to hand out. An id is also
the token. The lock of the listener is held for a turn of the accept loop, so
the check of the counter and its increment compete with decrements only and are
one step (`Accept`). An error of `accept` other than `WouldBlock` leaves the loop
(`AcceptFails`). `on_connect`, `on_data` and `on_disconnect` may panic (`Dies`):
the worker's thread has ended, and the events that are handed to it are gone
(`EventLost`).

Abstractions: the event loop is what `Reactor` shows of it, without the gap in
its `register`, and it goes on when a dispatch to a dead worker fails, where
`Reactor` ends it (`DispatchFails`), which leaves fewer behaviours; data is a number of chunks, each as large as the read buffer;
`send_to`, `broadcast`, `on_writable`, `on_error` and `on_event` change nothing
here and are left out (the last three are taken to return). A
handler that calls `close_connection` is a user next to the worker that runs it.
The listener's token is taken to differ from those of connections (see
*Findings*). `told`, `fate` and `stranded` are history: how often `on_disconnect` was
called, who ended a connection, and whether since the last arrival the accept loop
was left by an error or a panic, or its event went to a dead worker.

### Connection, TcpClient, RpcClient, RpcServer and Rpc

`Connection` is what both ends share: the bytes on their `wire`, the bytes that
have `arrived` at an end, whether the end of the stream has (`ended`), whether an
end has `closed` its stream, and the `edge` its event loop has yet to hand out.
A network is a record: the sizes of the pieces in which bytes arrive at each end,
and how many reads, writes, registrations, sends or methods may fail.

`TcpClient` and `RpcClient` are the client's end. A worker of its event loop has a
`job`: it reads a chunk, parses it (`ReceiveData`: the buffer's lock is held for
the append and for the parsing) and handles the frames one by one
(`HandleResponse`). A caller goes through `Begin` (the id and the entry in
`pending`), `SendRequest` or `SendFails`, and then `TakeResult`, `Wait`,
`WaitEnds` and `GiveUp`, the critical sections of `wait_timeout`'s loop; a wait
may end at any time, for a notification, by itself, or for its timeout.

`RpcServer` is the server's end: what a worker has before it is `work`, as in
`TcpServer` (registered with the event loop first, in the map later), then
`OnConnect`, `ServerRead`, `OnData` (which appends, parses and gives up the lock),
`HandleFrame` and `SendReply`. A method may panic (`MethodPanics`): the frames
behind its own are gone with the worker, and so are the events that are handed to
it afterwards (`ServerEventLost`). An error that cannot be serialized is not sent
(`ErrorUnsent`, which the code provides for although bincode never refuses an
`RpcError`). The service ids are computed from the calls of
`service` and `service_with_id` as the builder does; the dispatcher and the stubs
are the generated ones.

`Wire` keeps every field of a frame, and the order of the parser's checks; a byte
of the model is a field of the code. So a stream may be cut between any two
fields, a field that is missing is read from the bytes behind it, and what
follows broken bytes is parsed as the code would.

In `Rpc` the client is an `RpcClient` or a program that uses the `TcpClient` itself
(`user`), and sends frames that an `RpcClient` never sends: pings, unknown types,
requests that do not decode. `sent`, `taken`, `reading`, `mangled`, `unheard` and
`ran` are history. `mangled` marks the ways by which the code's own streams are
not what was sent: a write that broke off, chunks of two workers in the other
order, a buffer that was replaced or discarded with a part of a frame in it.
`unheard` are the requests that were answered to nobody or sent nowhere, whose
error was not sent, or that a panic of their batch's method took along.
`ran` counts the runs of the requests of callers, since a raw program may give any
id to a frame of its own. `RpcCalls` is the promise: a call runs at most once, and
only after it was made, as long as the requests arrive as they were sent (`heard`),
and returns its own answer or an error as long as the responses do as well
(`intact`). Bytes that arrive otherwise may make a request of their own: the
arguments of a call may look like a frame.

Abstractions: one connection; arguments and results are one number; messages of
errors, contexts and the codec's bytes are left out; of `on_connect`, `on_data`
and `on_disconnect` of mill-rpc only the methods they run may panic. As in
`TcpServer`, the event loop goes on after a panic. `RpcClient` has no step for an
entry that is gone when its caller wakes (`client.rs` l.120-122): only the caller
takes it out, so the code never gets there.

### ScratchServers

The three servers differ in their locks (one for the map of streams, or one per
connection in the HTTP server), in what an answer is and in the ends of a
connection. A request travels as two halves: an echo answers each, the others
what is complete. The lock is held from the read to the write (`Holds`), so
`LookUp` waits for it. `register` is two steps, as in `Registry`: an event between
them finds no handler (`RegisterStream`, `InsertHandler`, `EventLost`). In the
JSON-RPC server a sum may overflow (`AnswerPanics`), which in a build that checks
for it ends the worker and poisons the lock of the map: handlers then return at once
(`FindsPoisoned`), and the accept loop panics and poisons the listener's lock in its
turn (`InsertPanics`, `AcceptPanics`). `log` (the reads in their order), `missed`
(clients whose last event found no handler or stream or went to a dead worker, or
whose last read left something) and `broken` are history. The event loop goes on
after a panic, as above.

## What TLC checks

| Run | Instance | Shows |
|---|---|---|
| `timer_wheel` | 3 levels of 2 slots (8 ticks), 2 timers, delays 0, 3 and 9, clock to 10 | types, `AccountedFor`, `NothingSkipped`, `CachesRight`, `NeverEarly`, `InDeadlineOrder`, `CancelHolds`, `InFlightTracked` |
| `timer_tickers` | 2 threads in `tick`, 1 timer, 2 levels of 2 slots, delays 0, 3 and 5, clock to 6, panicking callbacks | `FiresOnce`, `DueTimersLeave` |
| `timer_lost_cancel` | 1 timer | finding: a cancel between two critical sections is lost |
| `compute_pool` | 2 tasks, 2 workers, 2 priorities | types, `MetricsAddUp`, `WakeupPerTask`, `NoTaskLeftBehind`, `SubmittedTasksRun`, refinement of `TaskService` |
| `compute_pool_drop` | 1 task, 1 worker | finding: `drop` can wait for ever |
| `reactor` | 1 source and the waker, 2 workers, 2 events under way, both dispatch modes, polls of 1 and of 2 events, panics, interrupted polls | types, `ReadinessAccounted`, `AcceptedTasksRun` |
| `reactor_live` | 1 source, 1 worker, 1 thread that schedules and stops, a timer of delay 1, a poll timeout of 9 that starts up to 1 late, clock to 2, panics | `StopIsHeard`, `PollInTime`, `TimersFire`, `StopEndsRun`, `ReadinessServed`, `PoolDropEnds` |
| `tcp_server` | 2 workers, 1 user that closes, a limit of 1, 2 connections, accepts and registrations that fail, callbacks that fail or panic | types, `CountAccounted`, `LimitHolds`, `ClosedOnce`, `MapMatchesRegistry`, `WaitingNoticed` |
| `tcp_server_eof` | 2 workers, nothing fails, nobody closes | finding: the end of a stream is not noticed |
| `rpc` | 2 callers, 2 requests out of 3 calls, 2 server workers, 1 client worker; bytes cut on either side, or whole and 1 fault or panic; a raw program with 2 frames | types, `FramesInOrder`, `NoSleeperAnswered`, `PendingHasCaller`, `RequestAccounted`, refinement of `RpcCalls` |
| `rpc_lost_response` | 1 call, nothing fails | finding: a request served before its connection is in the map is not answered |
| `scratch_servers` | the 3 servers, 2 clients, 2 workers; 2 requests that store or fetch, or 2 that store and 1 fault; JSON-RPC with 3 workers and 2 sums that panic | `ServedOneByOne`, `UnreadNoticed`, `StreamsInPlace` |

Why these bounds are enough to be interesting:

- The wheels are tiny so that everything about wraps happens within a few ticks:
  with three levels of two slots, the clock bound of 10 makes the cursor wrap
  every level and the whole wheel; delay 9 starts in the overflow list, 3 in an
  upper level that cascades, 0 in the slot under the cursor, and as `tick` may
  be late by any amount the clock also jumps past the range, which takes the
  drain. The placement rule depends only on sizes and spans, which `WheelLayout`
  constrains as the code's tables are.
- Two timers are enough for a batch with an order, for a cancel of one timer by
  the time another runs, and for a cache that must fall back on the second. Two
  tickers are the fewest that interleave, and one timer is enough for both to
  want it. The models treat timers, tickers and workers alike, so the safety
  runs use symmetry; the runs with liveness do not.
- `TickModulus` is far above any sum that occurs.
- Two tasks and two workers make two spawns that race for the lock, two sleeping
  workers that share notifications, a worker that is about to sleep while the
  other takes, and ties of priority. The proofs cover the larger pools.
- In the reactor, one source and the waker are two things that a poll may
  report, so that a batch has a rest, a poll of capacity 1 leaves something for
  the next, and with two workers two events of one source are handled side by
  side while a third is polled. `MaxEvents` bounds what is ready, polled and
  queued (not what is being handled). In `reactor_live` the configured timeout is
  longer than the clock runs, so that only the wheel or a wake can end a poll. Timers are scheduled for before the end of
the clock, and no poll starts late beyond it, so that each timer's tick and the next
one come (bounds in `Schedule` and `AskTimeout`).
- In the TCP server, two workers read two events of one connection, or one of
  them accepts while the other disconnects; with a limit of 1 the second peer is
  turned away or takes a place that was given back. `CounterModulus` stands for
  2^64: small, so that a counter that goes below zero is seen to wrap.
- In `rpc`, a cut after 7 fields is behind a header and inside a payload, so that
  a chunk ends in the middle of a frame or holds the rest of one and the head of
  another; a write breaks off before its first byte or behind a header. Two
  callers have their responses in any order, and each can time out before,
  between and after the other's. Two server workers read two chunks of one
  connection, or one disconnects while the other serves.
- In `scratch_servers`, two requests in halves are read as one, two or three
  chunks, by two workers, from one client or two that use one key of the store. What
  a request asks for and whether a call fails are varied one at a time (`Loads`).
  Three workers are needed for a panic with the lock, one behind the poisoned lock
  with the listener's, and one behind that.

Deadlock checking is off in `timer_tickers` (all tickers may have panicked and
no timer be left to schedule), for the compute pool and the reactor, which stop
when they are dropped or idle, for the TCP server, whose bound on connections
ends it, and for `Rpc` and `ScratchServers`, which stop when the bounded requests
are answered and the connections closed.

Fairness. `TimerWheel!FairSpec` asks that time passes and that each ticker goes
on: the reactor calls `tick` in every turn of its loop, whose poll has a timeout
(`reactor.rs` l.92-111). A panic in a callback ends the thread that ticks, and
`DueTimersLeave` makes an exception for the case that all have ended so.
`ComputePool!FairSpec` asks that a `spawn` or `drop` that began goes on, that
worker threads are scheduled and that tasks return; nobody has to spawn or drop.
`Reactor!FairSpec` asks the same of the thread in `run`, the workers and the
handlers, and that a `register`, `deregister`, `schedule`, `stop` or `drop` that
began goes on; nobody has to call them. A poll that reports fewer events than
are ready might in principle leave out the same one for ever, so `reactor_live`
has room for all. `ReadinessServed` makes no promise for readiness that is lost,
nor once `run` has ended. `TcpServer!FairSpec` has strong fairness for each
source of events, because the event loop queues them first come, first served.
Weak fairness is enough for all the others: a lock is never starved in these
instances because a holder releases it and the contenders' own steps are finite
in number.

Each property of a passing run has a mutant in its module: a plausible slip in a
definition of the model (marked "a mutant" at its definition) under which TLC
finds the property violated.

## Findings

Runs that show where the code does not do what its documentation says; all are
listed in `PROJECT.json` with the lines they contradict.

1. *Lost cancel* (`timer_lost_cancel`). `tick` unlocks after `advance_to`
   (l.399) and marks repeating timers in flight in a second critical section
   (l.408). A `cancel` in between returns false and the timer repeats for ever.
2. *Drop hangs* (`compute_pool_drop`). `drop` notifies without the lock, between
   a worker's check of the flag and its wait.
3. *End of stream* (`tcp_server_eof`). A readable event is answered by one read
   (`tcp/mod.rs` l.470-473). When data and the end of the stream come before it,
   the end is never read, and the connection stays for ever.
4. *Lost response* (`rpc_lost_response`). The TCP server registers a connection
   with the event loop (`tcp/mod.rs` l.377) before it puts it into its map
   (l.394). A request that another worker serves in between is not answered:
   `send_to` finds no connection (l.227-229), the error is logged
   (`server.rs` l.256-263), and the caller waits for its timeout.

Met while reading, and not the subject of a run:

- The callbacks of a batch do not look at `canceled_in_flight`, so a repeating
  timer whose cancel returned true during the batch still runs once
  (`timer_wheel.rs` l.419; `lib.rs` l.507 calls such a timer cancelled).
- `current + delay` is a u64 sum (`timer_wheel.rs` l.328), which wraps for
  delays near 2^64 ms; `TickModulus` is there for it.
- A comment in `spawn` says that a reader never sees more tasks submitted than
  the queue depths, the completed and the failed ones add up to
  (`thread_pool.rs` l.338-339). It does: `tasks_submitted` is raised (l.340) before
  `queue_depth` is (l.341-356), and a task that a worker has taken is in none of
  the three until it has ended. The other way round too, a task is in the heap
  before any counter has it (l.336). `MetricsAddUp` says what does hold.
- An error of `accept` that is no `WouldBlock` ends the accept loop
  (`tcp/mod.rs` l.420-424), and a panic of `on_connect` unwinds out of it: peers
  that still wait are accepted when the next one arrives. `stranded` has both.
- In the JSON-RPC example a request to add two numbers whose sum does not fit
  panics with the lock held (`scratch_jsonrpc_server.rs` l.174), in a build that
  checks; no connection is served after it, and none accepted.
- `register` tells `mio` of the source (`poll.rs` l.48) before the handler is in
  the map (l.50), so an event in between finds no handler and, edge-triggered,
  does not come again; a worker that has looked a handler up calls it, however
  long ago `deregister` has returned (`reactor.rs` l.145-152; `lib.rs` l.321
  says that no more events are delivered). `lost` and the steps of `job` are
  there for them.
- `close_connection` does not lower the counter (`tcp/mod.rs` l.235), and a
  connection that ends while its `on_connect` fails lowers it twice (l.413,
  509). `CountAccounted` has both.
- A connection's token is its id, from 1 (`tcp/mod.rs` l.353), in the space of
  the user's tokens: with a listener at `Token(1)`, as in the crate's own test
  (l.780), the first connection's handler replaces the listener's.
- The client's handler deregisters the token of its connection id, which is always
  1 (`tcp/mod.rs` l.680), not the one `start` was given: its own handler stays.
- The server's `on_data` gives up the lock on the buffers before it handles the
  frames (`server.rs` l.169), so two chunks may be appended in the other order
  than they were read, and `on_connect` replaces what was received before it
  (l.142). `mangled` has both.
- `run` sets its flag itself (`reactor.rs` l.90), so a `stop` between the call
  of `run` and that line is overwritten.
- `register` gives a token that is in use to the new handler (`poll.rs` l.50)
  where `lib.rs` l.271 announces an error; and the waker has token 0 (`poll.rs`
  l.24), which the examples also use for a listener.

## What is proved

TLAPS proves these for every value of the constants, under the named assumptions
of the modules only: `PoolAssumption` (finite sets of tasks, workers and
priorities; at least one I/O worker), `LayoutAssumption` (a slot of a level spans
one turn of the level below), `TimerAssumption` (finitely many timers, delays are
natural numbers, `None` and `Once` are no numbers), `RegistryAssumption` and
`ReactorAssumption` (finitely many sources, none of them the waker; the thread in
`run` is no worker), `MessageAssumption` (`Terminate` is no event),
`ServerAssumption`, `ConnectionAssumption`, `TcpClientAssumption`,
`RpcClientAssumption`, `RpcServerAssumption`, `RpcAssumption` and `ScratchAssumption`
(the types of the constants; what marks the absence of a result, a frame or a call is none).

`ComputePoolProofs`:

- `TypeCorrect` and `MetricsCorrect`, by the inductive invariant `IInv`, which
  adds to them who holds the lock across steps (`LockHeld`): a worker that found
  the queue empty, or a worker or a `spawn` between the queue and its counter;
  without it a push could happen between the check and the wait, and the sums
  would have to name two calls at a time. Each action changes a counted set by one element, and the lemmas
  `CountAdd` and `CountRemove` turn that into arithmetic.
- `NoLostWakeup`: `WakeupPerTask` is inductive relative to `IInv`.
- `DropLosesNothing`: needs `DropAlone`, that a drop excludes spawns and that
  workers leave only after it began and with the queue empty.
- `Refinement`: `Spec => ImplementsService`. The step needs `RInv`, that tickets
  are unique and that a task whose spawn returned before another began has the
  smaller ticket; each action of the pool maps to one of the service or to a
  stutter.

`TimerWheelProofs`:

- `TypeCorrect` and `RunsOnce`, by `HandsInv`: types, the count of the live
  timers, `FiresOnce`, and `Shape`, what the place of a ticker in `tick` says
  about the timers it holds (that a batch is empty in `idle`, that the timers to
  arm again are repeating ones, that they have been issued). `FiresOnce` alone
  is not inductive: arming a timer again must find it in no other hands and not
  in the wheel.
- `NoTimerLost`, by `PlaceInv` on top: a live timer is in one place, and a timer
  that a `tick` took out, or one not issued yet, is in none, so that arming it
  again cannot put it into a second place. It rests on `InsertPlaces` (what
  `insert_into_wheel` does to a set of timers) and on `CellOfIsCell` (the
  placement rule always yields a slot of the wheel).

- `FlightIsTracked` and `CancelsHold`, by `CancelInv`. `CancelHolds` is not
  inductive: a confirmed timer must also be kept from being armed again, so while it
  is still in the hands of a ticker it must be in `canceled_in_flight`, which the
  re-arming looks at; and a one-shot timer in somebody's hands is never in flight,
  so that no cancel of it is confirmed.
- `CachesAreRight`, by `CacheInv`. While an advance is under way the cached
  deadline may be that of a timer already taken out; `CacheKnown` says when the
  cache counts (no advance that has expired a timer holds the lock), `EarliestRight`
  that it is then the earliest, and `OverflowBounded` that the minimum of the
  overflow list bounds its live timers.

About its placement and its order, under one more hypothesis, `NoWrap`: no deadline reaches
`TickModulus`, that is, the sum of an instant and a delay fits a `u64`. It is a
hypothesis of the theorems and not of the module, since the wheel's code does not
check it; the runs give `TickModulus` values above every deadline they reach, so it
holds in them. The layout is any that satisfies `LayoutAssumption`: any number of
levels of any sizes.

- Arithmetic of the wheel. Slots of two levels start together (`StartsTogether`),
  two ticks less than a turn apart with the same slot are one tick (`SameTick`), and
  the cursor enters a slot of a level only at a multiple of its span (`NextSlot`).
- `TimeInv`: the cursor is never past the clock, an advance never goes further than
  the wheel reaches, and a timer is due where its deadline says.
- `PositionInv`: a live timer in a cell is `Ahead` of the cursor (in a slot its
  level has not come to, less than a turn away) or `JustEntered` (the cursor has
  come to the start of its upper slot, and that level is still to cascade); and one
  in the overflow list is beyond the range while the lock is free, and beyond the
  advance's target while it is held. `CellOfIsAhead` shows that `insert_into_wheel`
  establishes it, `CursorMoves` that a step of the cursor keeps it, and
  `UnderCursor` that what is under the cursor is due at this very tick.
  `NoneSkipped` follows.
- `BatchInv`: what was taken out is due, and while the cursor advances the batch is
  in order and holds deadlines before the cursor's only. `NeverRunsEarly` and
  `RunsInOrder` follow.

`ReactorProofs`, about `Reactor` with `IoPool` and `Registry`:

- `Typed`. Most of it is that a poll makes a sequence of events of what it
  reports (`Polled`), and that the poll's timeout, a minimum, is a number
  (`MinIsLeast`, by well-founded induction as the library states it).
- `PoolRunsWhatItAccepts`, by `ChannelsInOrder`: `Terminate` is sent by `drop`
  only, and is the last message of any channel.
- `StopsAreHeard` and `PollsAreInTime` (late by `MaxLag` at most, which may be any
  number): both rest on `WakeStays`, that a wake, made
  or about to be made, stays until a poll reports it.
- `NoReadinessForgotten`, by `AllAccounted`. `ReadinessAccounted` is not
  inductive: an event whose token has meanwhile been given to another source is
  still in flight but its source's handler will not be called for it, so only
  events that are `Carried` (not yet looked up, or looked up to their own source's
  handler) count, and a source counts from the moment `mio` knows it (`Listed`).
  `InHand` says that no batch is overwritten by a poll and no job by another.
  All steps but `register`, a poll and the return of a handler are shown to
  report nothing new (`Steady`) and to carry on what is carried (`CarriedOn`).

`TcpServerProofs`:

- the functions of a thread are finitely many programs, so `todo` is always the
  rest of one (`Types`, `AtWork`). `Typed`, `DisconnectedOnce`, `MapMatches` and
  `PeersAreNoticed` follow from one inductive invariant, `IInv`: at most one
  worker has the listener's lock (`OneListens`), ids that were not given out are
  nowhere (`Unknown`, `Fresh`), a connection that left the map is not in it again
  (`Left`), at most one thread is on its way to tell of an end, and before it
  nobody has told (`ToldOnce`), and the map and the registry agree except for
  threads between the two (`Handled`). A worker whose callback panicked stays dead
  (`Dead`), one that leaves the accept loop with peers waiting is recorded
  (`AcceptFailsStep`, `EventLostStep`).

- `CounterCounts`, from `IInv` and two parts. `FateInv` says
  what has happened to a connection in the map, and to one that a thread is at, by
  what the thread has left to do: so a place that is owed, leaked or lowered twice
  is told from one that is open. `CountInv` is the property without its remainder:
  the counter is the count plus some turns of `CounterModulus`. Every step either
  leaves counter and count alone (`QuietStep`) or moves both by one (`Together`).
- `LimitKept`: the check of the limit reads the counter, so the count has to be at
  most the counter. It is, because it is below the modulus (`CountBelow`): the
  threads that owe a place are at different connections, none of them open or
  leaked; only the one in the accept loop may share its connection with another,
  and that connection is then among those lowered twice. Here the assumption that ids do not reach the modulus is used.
  Only an accept below the limit opens a connection (`OpenGrows`), and what was
  lowered twice stays so (`FatesGrow`).

`WireProofs`:

- `ParserSound` and `ParserTakesAll`: for any frames and any cut, `parse_frames`
  takes out the first of the frames that were encoded, all that are complete, and
  leaves the front of the others. `ParseFrames` is a recursive function over the
  offsets; `ParserIs` shows, from the end of the buffer to its front, that a function
  with its equation (`OutcomeAt`) exists. That bytes
  are those of a list of frames (`Encodes`) is said without a fold: `Stacked` asks
  for a sequence of suffixes, each one part longer than the next.

`RpcProofs`:

- `NobodySleepsThroughAnswer` and `EntriesLeave`, by `IInv`: the id of an active
  caller was given out to it alone (`IdsGivenOut`, `IdsDistinct`), an entry in the
  map is that of an active caller (`EntriesOwned`), a one-way call has none
  (`OneWayUnlisted`). A response that comes to an id that is no longer there
  changes nothing, whatever the network has done to its bytes.
- `TypesRight`, by `TInv`: in addition, the work of a worker of the server matches
  the frames and the reply that it holds (`AtWork`), which is why a reply is
  never overwritten and a frame is there when one is handled; and only the ids
  that were given out have requests. `ServicesAre` is that the builder's recursion
  over the registrations yields a map of services.
- `FramesKeepOrder`, by `OrderInv`, about both ends alike: unless mangled, what is in
  the buffer, then the chunks that workers have read, in the order of their reads,
  then what has arrived and what is on the wire, are the encodings of the frames not
  taken yet (`BytesInOrder`). A worker has a chunk exactly if it is in `reading`, once
  (`ReadersInOrder`). Sending, reading and parsing keep this by `OrderSent`,
  `OrderRead` and `OrderParsed`, the last one by `ParserSound`.

`RpcCallsProofs`, by `CallsInv` on top of these three:

- While the requests arrive as they were sent, every list of frames on the server's
  side holds requests of callers, none of them twice or in two lists (`OnceListed`);
  a request in a list has not run, and none runs twice (`RanOnce`); and every reply
  is the answer of a request that has had its turn (`Served`). While the responses do
  so as well, a completed entry is the answer to its own request (`AnsweredOwn`), and
  one that waits is on its way (`Accounted`). `EntriesAwaited` and `NotYetReturned`
  tie the entries and the callers to the requests.
- `RequestsAccounted` follows from `Accounted`. A method that panics has run, and
  the requests that go with it are those of its worker's list.
- `CallsImplemented`: `Spec => ImplementsCalls`. A caller's steps map to `Make` and
  `Return` or a stutter, a request that is handled to `Run`, all others to `Break`,
  which may be a stutter (`PromiseCalled`, `PromiseRun`, `PromiseStep`).

`ScratchServersProofs`:

- `StreamsStay` and `NothingForgotten`, by `IInv`: clients in the backlog are new
  (`BacklogNew`), one worker accepts at a time (`OneAccepts`) and one holds each
  lock (`OneHolds`), so that a stream stays in the map under the hands of the
  worker that reads it. A lock that is held is not poisoned (`Unpoisoned`), and while
  the map's lock is sound, a stream that is watched or has a handler is in the map or
  with the worker that is putting it there (`HandlersInMap`).
- `ServedInOrder`, by `SInv`: the store and what is written are, at any time, what a
  server has come to that served the reads of the log one after the other, but for
  what workers have read and not yet answered (`Matches`); of these there is at most
  one for a connection, and only one of those that store (`OneEach`). The property's recursion over the log is taken as a function that
  agrees with it on every front of the log (`ServedIsOneByOne`).

Only model-checked: liveness (`DueTimersLeave`, `SubmittedTasksRun`,
`StopEndsRun`, `ReadinessServed`, `PoolDropEnds`, `TimersFire`), which is beyond
the prover, since it needs fairness and `ENABLED`. All safety properties of the runs
are also theorems. The library's theorems of induction take an operator as a
parameter, which the provers cannot instantiate; where a proof is by induction over a
length or an offset, it uses the lemma `Induction` about a set of numbers instead,
which follows from their being well founded.

## Plan

Done: the timer wheel, the compute pool and its abstract service, the I/O pool, the
registry and the reactor, the TCP server and client, the wire protocol, the RPC
client and server with the abstract calls they implement, and the example servers;
and the proofs above.

Left:

1. An abstract timer service that `TimerWheel` implements: the `deadlines` of
   `Reactor`, so that the two compose by refinement and not by description.
2. `Rpc` with more than one connection, whose buffers share one lock, and several
   clients in one event loop, whose handlers the client's `disconnect` may remove
   (`tcp/mod.rs` l.680).

## Not modelled

The object pool (an unbounded free list), the configuration and error types, the
codecs (bincode), the parsing of service definitions (it runs at compile time;
what it generates is in `RpcClient` and `RpcServer`), `broadcast` and
`on_writable`, and the other examples and benchmarks, which call the crates in
sequence. `mio` and the operating system appear only as the events, bytes and
faults that they may deliver. The user's callbacks are modelled by what they may
do to the component: return, panic, or call its operations; which of them may panic
is said with each module (in the example servers, the sum does and what then finds a
lock poisoned; the clock is past 1970, `scratch_jsonrpc_server.rs` l.179).

Some hazards that are listed in `PROJECT.json` are recorded and not found: the
code has the slip, the model has it too, and the property names it as one of the few
ways in which something is lost (`lost`, `missed`, `mangled`, `unheard`,
`stranded`, `"closed"` and `"dropped"` fates); such a property shows that there is no
other way. The hazard's note says so.

Four hazards have no property. A cancelled repeating timer of a batch runs once more
(`timer_wheel.rs` l.419), and a `stop` before `run` has set its flag is overwritten
(`reactor.rs` l.90): the code promises no more. A compute task that holds the last reference to its
event loop drops the pool on one of its own workers, which then joins itself
(`thread_pool.rs` l.374): the models have an owner of the pool that is no worker.
And the client's `disconnect` deregisters token 1, whatever its own is
(`tcp/mod.rs` l.680): `TcpClient` does so too, but the source that loses its
handler is outside the model of one connection.

## Running

    tlc -workers 2 -config MCTimerWheel.cfg MCTimerWheel
    tlapm RpcCallsProofs.tla

with the community modules and the TLAPS library on the module path. Every run,
with its configuration and properties, is in `PROJECT.json`.
