# A TLA+ model of modbus-rs

This directory holds a formal model of the Modbus protocol stack in this
repository: TLA+ modules that follow the source, configurations that let TLC
check them on small instances, and proofs for every instance that TLAPS checks.
`PROJECT.json` maps each definition to the lines it models and lists the runs,
the hazards, the findings and the theorems.

## 1. Inventory

The repository is a workspace of Rust crates. Those that carry control logic:

| part | state it keeps | operations | what is hard about it |
|---|---|---|---|
| **client services** (`mbus-client/src/services/mod.rs`) | `expected_responses` (pending requests, capacity `N`), `next_timeout_check` (a cache), `rxed_frame` (receive buffer) | one function per Modbus request, `poll`, `connect`, `disconnect`, `reconnect` | late, duplicate and missing responses; retries with back-off; entries removed by `swap_remove` while they are scanned; a cache that submissions do not touch; connection loss inside `poll` |
| **sync gateway** (`mbus-gateway/src/gateway_sync/`) | sessions, per-channel `ChannelState` and receive buffer, `TxnMap`, `PendingQueue` | `poll(now_ms)` in three phases, `add_upstream`, `add_downstream` | several clients with equal transaction ids, one request in flight per channel, bounded queue and map, time-outs, clients that go away while their requests are queued or in flight |
| **async client** (`mbus-async/src/client/`) | `pending`, `queued`, `in_flight`, `next_txn_id`, the transport | commands over a channel: request, connect, disconnect, shutdown; callers' own time-outs | callers and the background task interleave; awaits inside `dispatch_request`; a caller's time-out disconnects everybody |
| **server services** (`mbus-server/src/services/`) | `response_queue`, priority `request_queue`, receive buffer, counters | `poll`: drain responses, receive, expire, dispatch | bounded queues, back-pressure, retry of failed sends, priorities and expiry |
| **async gateway** (`mbus-gateway/src/gateway_async/`) | one task per session, one mutex per downstream channel, one for the event handler, permits for WebSocket sessions | accept loops of the TCP, WebSocket, raw and serial gateways, the session loop, shutdown | two kinds of mutex held together; sessions dropped at an await by a shutdown; the channel is released at a time-out while the response is still to come |
| **async server** (`mbus-async/src/server/`) | per-session transport, counters and listen-only mode; the application behind a mutex | accept loop, session loop, FC08 sub-functions, shutdown | sessions interleave on one application; many early exits that each count and answer differently |
| **C API pools** (`mbus-ffi/src/c/*/pool.rs`) | slots with `occupied`, `value` and `borrow_flag`, in typed sub-pools | `new`, `free`, and every call on an id through `with_*` | threads of the application on shared slots, two kinds of lock that are hooks of the application, calls from inside callbacks |
| **browser client** (`mbus-ffi/src/wasm/client/`) | `pending_count`, the channel to the task, the connection to hand over; in the task `pending` and `next_txn_id` | one call per Modbus request, `reconnect`, `close` | futures interleave with the task and the timers; a reconnect replaces channel, connection and task in several steps |
| **retry policy** (`mbus-core/src/transport/retry.rs`) | none | back-off and jitter arithmetic | saturation, truncation, shift limits |
| **routers, transaction maps** (`mbus-gateway/src/common/`) | tables of fixed capacity | insert, look up, remove | overlap checks, wrap-around of ids |
| **codec** (`mbus-core/src/data_unit/`) | none | frame length, encode, decode | which length a damaged prefix claims |

The rest is I/O (TCP and serial transports), data containers (`models`),
compile-time code (`mbus-macros`, `mbus-codegen`) and adapters (the other bindings
in `mbus-ffi`).

**Interaction.** A client or server owns its transport and is driven by the
application calling `poll`; it calls the application back from inside `poll`.
The gateway owns several transports and a router, and is driven the same way.
The async parts wrap transports in tasks and talk over channels and mutexes. The C
API puts clients, servers and gateways of the first kind in pools; the browser client
has a task of its own, like the async client's.
Components meet only through the `Transport` trait, so each can be modelled with
the rest of the world as an environment that may send, lose, delay, cut or repeat
what the trait allows.

**What makes each part correct.**

- *client services*: every accepted request is reported exactly once; the
  time-out cache hides work no longer than a back-off; retries are neither early nor more than
  configured; a response is credited to its own request; every request is
  eventually reported.
- *sync gateway*: no request is lost or answered twice inside the gateway; the
  transaction map holds what is in flight and nothing else; an answer goes to the client that asked, under its transaction
  id; every request is eventually settled.
- *async client*: every request the channel takes is held by one part of the task
  until it has exactly one reply; `in_flight` counts exactly the pending requests;
  attempts are not exceeded; first tries keep the callers' order; a request whose
  caller timed out does not stay with the task.
- *server services*: a request received is never lost between buffers and queues;
  a refused request is not carried out; responses are sent neither too often nor too
  soon; queues keep their bounds; every request ends.
- *async gateway*: what sessions share is held exactly while it is needed; a response
  read under the mutex answers the request sent under it, unless an earlier round trip
  was given up; nobody waits for a mutex for ever.
- *async server*: no write to the shared application is lost; the counters agree with
  what became of the frames; every request taken ends.
- *retry policy*: delays stay between base and maximum and within the jitter.
- *C API pools*: a call works on the instance its caller meant, alone; handles neither
  dangle nor leak; accesses to a slot are ordered by locks; locks cannot be waited for
  in a cycle.
- *browser client*: a call is settled once, with its own response; after a reconnect
  somebody serves the calls; calls cut off by one are settled.

## 2. Plan

| order | module | composes / refines | state |
|---|---|---|---|
| 1 | `ClientServices`, `RequestLedger` (abstract promise), `MCClientServices`, `ClientServicesProofs` | `ClientServices` refines `RequestLedger` | done |
| 2 | `GatewaySync`, `MCGatewaySync`, `GatewaySyncProofs` | uses the transaction map and pending queue as parts of its state | done |
| 3 | `ServerServices`, `MCServerServices`, `ServerServicesProofs` | response queue + priority queue + poll | done |
| 4 | `AsyncClient`, `MCAsyncClient`, `AsyncClientProofs` | callers + command channel + task; refines `RequestLedger` | done |
| 5 | `RetryPolicy` | pure arithmetic of any width; gives the delays of `MCClientServices`; proved about in `ClientServicesProofs` | done |
| 6 | `GatewayAsync`, `MCGatewayAsync`, `GatewayAsyncProofs` | sessions of four kinds of gateway + mutexes + permits | done |
| 7 | `AsyncServer`, `MCAsyncServer`, `AsyncServerProofs` | TCP and serial sessions + shared application | done |
| 8 | `HandlePool`, `MCHandlePool`, `HandlePoolProofs` | threads + lock hooks + slots of the C API | done |
| 9 | `WasmClient`, `MCWasmClient`, `WasmClientProofs` | calls + task + reconnect of the browser client | done |
| 10 | router tables, stream framing | the static router instantiates the constant `Route` of 2 and 6 | to do |

Abstract specifications: `RequestLedger` (a request is accepted, pending, and
answered once), implemented by `ClientServices` and by `AsyncClient`.

Theorems: the safety properties of all modules, both refinements of `RequestLedger`, and the
bounds of `RetryPolicy` are proved (section 7). Liveness is left to TLC.

## 3. ClientServices

**State.** The variables carry the names of the fields: `expected_responses` is
the table, an entry keeping the request, `sent_timestamp`, `retries_left`,
`retry_attempt_index` and `next_retry_timestamp`; `next_timeout_check` the cache;
`rxed_frame` the buffer, a sequence of pieces (a whole response, its first part,
its last part, or noise). `now` is the application's clock. `pc`,
`current_millis`, `i` and `new_next_check` are the local state of a `poll` in
progress. `peer` and `cut` are what the server may still send. `verdict`
(what the request call returned), `notified` (the callbacks) and `transmissions`
record what the outside world saw.

**Actions.** A request call is atomic: `Submit` (all requests that expect a
response), `TooManyRequests`, `SendBroadcast`, `RefuseBroadcast`. A `poll` starts
with `RecvOk`, `RecvNothing` or `RecvLost`, goes on with one step per frame in the
buffer (`DispatchResponse`, `DropUnmatched`, `Resync`, until `IngestStop`), and
ends with `handle_timeouts`: `TimeoutsNothingPending`, `TimeoutsFastPath`, or
`TimeoutsScan` followed by one step per entry (`RetryNotDue`, `SendDueRetry`,
`RetrySendFailed`, `WithinTimeout`, `FailExhausted`, `ScheduleNextRetry`) and
`ScanEnd`. Nothing else happens while `poll` runs, as the code borrows the client
mutably. `Connect`, `Disconnect` and `Reconnect` are the public functions;
`Tick` advances the clock between calls.

**Abstractions.** Response bytes become pieces, since all the control flow asks is
whether a frame is complete, whether it parses and whom it matches. TCP
transports deliver in order and a new connection starts with nothing in flight;
a serial line may add noise and lose parts. A first part followed by anything but
its own rest is a frame of the right length with wrong contents (`Spliced`): it
fails to parse and the buffer is resynchronised. The delay of a retry is any
member of `RetryDelays[attempt]`, which stands for every policy and jitter; the runs
compute it with `RetryPolicy` (section 5d).
`Connect` is only taken with nothing pending, which is how the documentation has
`connect` and `reconnect` used. A send succeeds or fails as a whole. Transaction
ids are not reused by the application. Each request record is submitted at most once.

**Properties.**

- `ExactlyOneOutcome`: an accepted request is in one slot and unreported, or out of
  the table and reported once.
- `CacheCovers`, `OverdueBounded`: the fast path hides no scheduled retry, and a request on
  its first try for no longer than a back-off counted from its submission; so after `poll`
  only such a request can be overdue at the time `poll` read. That nothing at all is
  overdue, as the comment on `poll` has it, is `NothingOverdueAfterPoll`, which a
  back-off longer than the time-out breaks (section 8).
- `RetryBudget`, `NoEarlyRetry`: as many transmissions as attempts, `NoRetriesLeft`
  only when they are spent; none before the window has closed and, after that, a delay
  of the policy for this very attempt has passed.
- `ResponseMatchesRequest` (TCP): a success is credited to the request the server
  answered.
- `ImplementsLedger`: the client implements `RequestLedger` under the mapping
  `LedgerStatus`.
- `EventuallyReported`: every pending request is reported.

## 4. GatewaySync

**State.** `upstreams`, `state` (the `ChannelState` of each channel, `None` for
`Idle`), `rxbuf`, `txn_map`, `next_internal` and `pending` are the fields of
`GatewayServices` and its parts; `wire` holds the forwarded requests each device
has yet to answer. `pc`, `idx`, `limit`, `batch` and `gone` are local to a `poll`
in progress. `asked`, `answers` and `dropped` record the requests read from
clients, what was sent to them, and which requests ended without an answer
(the send failed, the session was gone, or the response could not be decoded).

**Actions.** Phase 1, per channel: `DownIdle`, or `DownRecv` and then `DownNothing`
or `DownComplete`, or `DownFailed` (deadline reached or receive error);
`ServicePending` and `ServiceDone` are the loop of `try_service_pending` that
follows whenever a channel became free. Phase 2, per session: `UpRecv` or
`UpLost`, then for each request read `RouteMiss`, `RouteForward`, `RouteQueue` or
`RouteReject`. Phase 3: `Cleanup` per session that ended. `AddUpstream` between polls.

**Abstractions.** The transaction map is a set: only the presence of entries is
ever asked for. Responses arrive whole or never; partial frames wait in the buffer
as if they had not arrived. Routes are constant, since the routers offer no way to
remove one, so that the routing-miss branch of `try_service_pending` cannot be
taken and is left out. `add_upstream` is called before the first `poll`, as the
documentation of `new` asks, unless `LateJoin` is set.

**Properties.**

- `HeldOnce`: a request read from a client is in exactly one place: just read,
  queued, in flight, answered once, or given up.
- `TxnMapExact`: map entries and requests in flight of live sessions correspond.
- `AnswerToOwner`: an answer goes to the client that asked, under its id.
- `EventuallySettled`: every request read is answered or given up. Only a channel that
  becomes free wakes the queue, so nothing may be queued with all channels idle.

## 5. ServerServices

**State.** `rxed_frame` (with `partial`: its last frame is incomplete),
`last_recv_us`, `request_queue`, `response_queue` and `listen_only_mode` are the
fields of `ServerServices`; `pc`, `todo`, `i` and `expired` are local to a `poll` in
progress. `heard`, `executed`, `fates` and `attempts` record when each request was
received, whether its handler ran, how it ended, and when its response was passed
to `send`.

**Actions.** The response queue is drained first (`DropExhausted`, `DelayRetry`,
`RetryOk`, `RetryFailed`), then `RecvOk`, `RecvNothing` or `RecvFailed`; one step per
frame (`Resync`, `Unsupported`, `BroadcastWrite`, `DropForAddress`, `Reject`,
`QueueRequest`, `DispatchImmediately`); the scan for stale requests (`KeepFresh`,
`TakeExpired`, `RefuseExpired`); and `DispatchPending` by priority. `Disconnect` and
`Reconnect` happen between polls. The clock also advances inside `poll`, where
callbacks and sends take time; otherwise no queued request could ever become stale,
as the queue is emptied by the poll that fills it.

**Abstractions.** What a function handler does with the data is *it ran once and has
an answer*; only the Diagnostics sub-functions that change `listen_only_mode` are told
apart. A clock is configured. Response frames can always be built. The counters of
dropped and rejected messages and the diagnostics log are left out.

**Properties.**

- `HeldOnce`: a request received is in one queue or buffer, or has ended, once.
- `Truthful`: a refused request is never carried out, an answered one was, once.
- `RetryDiscipline`: no more sends than configured, and none before the interval.
- `TurnaroundKept`: the answer leaves no earlier than the turnaround
  delay after the request's last bytes.
- `ForeignUntouched`: requests for other units are not carried out or answered, and
  a broadcast only carried out if it is a write.
- `EventuallyEnded`: every request that has left the receive buffer ends, or its response
  is held back for the turnaround; that one ends too, if again and again a poll begins
  on a line that was quiet for the delay. Without that it starves (section 8).
- `NoDelayOnTcp`, `OnlyRestartWhileListening`: what `resilience.rs:276` and the comment at
  the listen-only gate say; both are violated (section 8).

## 5a. AsyncClient

**State.** `transport`, `pending`, `queued`, `next_txn_id` and `in_flight` are the
fields of `ClientTask`; `pc`, `cur`, `back` and `count` say where the task is between
two awaits: filling the pipeline from the backlog, inside `dispatch_request`, in
`select!`, taking a batch of commands, or ended. `cmd` is the bounded command channel,
`outcome` what the callers have come to, `peer` what the server may still answer,
`open` whether the link is up. `replies`, `tries` and `asked` record replies, attempts
and the order of submission.

**Actions.** Callers submit, give up at their time-out (which sends `Disconnect` with
`try_send`), connect, disconnect and shut down. The task steps from await to await:
`FillFromBacklog`, the attempts of `dispatch_request` (reconnect, send, either of which
may fail), a response, a damaged frame, a lost connection, a command, the end. What
happens between two awaits of one task is one step, since nothing else touches its
state; the channel and the callers act at any point in between.

**Abstractions.** Encoding and decoding succeed or fail. The sleep before a reconnect is
an await without effect. The pending-count watch and the traffic hooks are left out.

**Properties.** `ImplementsLedger` (a request taken is in exactly one place until it has
exactly one reply: `RequestLedger` under `LedgerStatus`), `InFlightExact`, `RetryBudget`,
`ResponseMatchesRequest` on TCP, `FirstTryInOrder`, `EventuallyReleased`.

## 5b. GatewayAsync

**State.** Per session where it is between two awaits, the request it has read and the
response it has got; `ds`, the holder of each channel's mutex; `handler`, the holder of
the event handler's; `permits` of the WebSocket gateway; `wire`, what the devices have
yet to answer. `read`, `expired` and `answers` record what clients asked and got, and
which round trips were given up.

**Actions.** Acceptance (with the WebSocket gateway's cap and handshake), the session
loop: receive, route (or refuse with an exception), lock the channel, send, await the
response or the time-out, lock the handler for the time-out's event, answer; early exits
on every error; the idle time-out of WebSocket sessions; shutdown, which stops
acceptance, makes a serial gateway return between two requests, and drops the session of a
raw gateway at the await it is at, with the mutexes it holds.

**Abstractions.** Routes are constant. Frames are whole. TCP sessions, without cap and
handshake, run the same loop as the others and add no action of their own.

**Properties.** `SharedHeldExactly`, `AnswerIsOwn`, and `EventuallyBack`: as long as the sends
made with a channel's mutex held end, every session comes to the answer to its own client,
back to reading, or to its end. The sends are `write_all` without a time-out, so the
specification assumes nothing about them: a session may stay in one for ever, and where it
then holds no mutex the others are not affected. `ChannelFreed` asks for more, that a
channel is released whatever clients do, and is violated (section 8).

## 5c. AsyncServer

**State.** Per session its place between two awaits, request, response,
`listen_only_mode`, and the counters of `statistics.rs`; the application's mutex and,
as a stand-in for its data, a register that every write reads and increments with an
await in between. `fate` and `written` record what became of the frames.

**Actions.** The session loop: receive a frame (for this server, for another unit, a
broadcast, damaged), the listen-only gate, FC08 answered by the session itself or passed
on, lock, handle, settle (count, decide whether to answer), send. Both servers may be
shut down: the TCP server stops accepting, a serial session is dropped at its await.

**Abstractions.** Requests are read, write or one of the FC08 sub-functions that change
or read state; the application answers, refuses, or stays silent. `CounterMax` scales
the width of the saturating counters.

**Properties.** `NoLostWrite`, `CountersExact`, `EventuallyDone`.

## 5d. RetryPolicy

The back-off and jitter strategies of `retry.rs` as operators: saturating products and
shifts in a `u32` of maximal value `U32Max`, shifts up to `MaxShift`, the jittered delay
computed in a wider integer and cut down to its low bits. The random number is a
parameter, or absent. `MCClientServices` computes the delays of its instances with
these operators; `ClientServicesProofs` settles their bounds for every width.

## 5e. HandlePool

**State.** `occupied`, `value` and `borrow_flag` of every slot; `owner` of the lock hooks;
per thread the stack of calls it is in (a callback may call back into the library); and
`live`, the ids the application holds.

**Actions.** A thread starts a call on an id, a creation, or a free. `with_*`: lock the
instance, check `occupied`, swap the borrow flag (or return *busy*), run, clear the flag,
unlock. `new`: lock the pool, scan for the first free slot, write, publish, unlock.
`free`: lock the instance, then the pool, drop the value, clear `occupied`, unlock both.
Every access to a field is a step of its own, as the fields are not atomic.

**Abstractions.** One pool stands for those of clients, servers and gateways, which have
the same code. The hooks are mutexes as in the examples of `mbus-ffi/README.md`, one for
the pool and one per slot index whatever the sub-pool, or do nothing. The application
keeps these rules: with hooks that do nothing its calls do not overlap; with mutexes it
makes no call from a callback; it frees no instance from a callback of that instance;
no call on a freed id and no second free overlaps a creation, and two frees of one id do
not overlap. Section 8 says what happens otherwise. Mutexes are not fair, so nothing is
claimed about threads that wait; TLC checks that there is no deadlock.

**Properties.** `ExclusiveUse`, `HandlesSound`, `RaceFree`, `WaitsInOrder`.

## 5f. WasmClient

**State.** A call's `phase` and its one-shot reply channel; `pending_count`, `cmd_tx` and
`active_transport` of the transport object; `spawned`, the futures that are yet to start,
in the order in which the browser starts them; and per *generation* (a channel, the
connection made with it, and the task that reads it) the commands in the channel, the
task's state, `pending` and `next_txn_id`, and what the server may still answer.

**Actions.** A call dispatches its command, is refused, gets a reply, times out or is
aborted; the program calls `reconnect` or `close`; a spawned future runs; a task takes a
command, a frame, a damaged frame, an error, or notices that its channel is closed; a
connection is lost. The browser has one thread, so a step reaches from one await to the
next.

**Abstractions.** `CountMod` scales the `usize` of the counter. There are as many
transaction ids as calls, so that none is used twice by one task. With `Overlap` the
program calls `reconnect` again before the promise of the last has settled; with `Serial`
responses carry no id. Both are off in the run (section 8).

**Properties.** `HeldOnce`, `ResponseMatchesRequest`, `CountExact`, `ReconnectServes`,
`DiscardedSettle`.

## 6. Runs

| run | shows |
|---|---|
| `client_tcp` | the safety properties and the refinement for two pipelined requests and a broadcast over TCP, with two retries, at once and after three times the time-out |
| `client_serial` | bounds, and that every pending request is reported, on a noisy serial line with a retry and broadcasts |
| `gateway_sync` | the safety properties for two clients and two channels with a queue of one, and that every request is settled |
| `gateway_late_join` | *violated*: a session added later gets a live session's id (finding) |
| `server_queue` | single places, truthful answers and retry limits with priority queue, back-pressure, strict expiry and spaced retries |
| `server_serial` | address filter and turnaround delay on a serial line with requests for two units, a broadcast, garbage, and listen-only mode entered and left; and that every request taken ends |
| `async_client` | the bookkeeping of the pipelining task, its retry budget, and the refinement, with three callers, reconnects and disconnects |
| `async_serial` | the order of first tries, and that every request is released, with one request in flight |
| `gateway_async` | locks, permits and answers with two WebSocket sessions under a cap of one, a raw and a serial gateway on one channel, and that nobody waits for a mutex for ever |
| `async_server` | writes, counters and progress with a TCP and a serial session on one application |
| `handle_pool` | exclusive use, sound handles, no races, no lock cycles with three threads, or calls nested three deep |
| `browser_client` | replies, counting, reconnects and discarded calls with two calls, closes and reconnects |

Type invariants are stated in every module; `client_serial` checks one of them, and the
others, which say nothing beyond the shape of the state, are not part of a run. Those of
the eight detailed modules are proved, as the other theorems rest on them.

**Bounds.** Time is a sliding window: at `Horizon` a tick moves all stored times
one unit into the past. The code only compares times with the clock, and
`Horizon` exceeds every difference that decides a comparison, so time runs on for
ever in a finite model. Two slots are enough for `swap_remove` to move an entry,
for one response to meet another's slot, and for a submission while the cache is
set; a retry gives the states *waiting*, *scheduled*, *sent again*, *exhausted*.
Delays of 0 and then 3 against a time-out of 1 (`client_tcp`) cover the retry that is due at
once, the one due at a later poll, and a submission hidden behind a scheduled retry, and the
delay of one attempt can be told from that of the next. A receive buffer of two pieces (`client_tcp`) can hold a
late response in front of another; the serial run has room for one.

For the gateway, two clients with equal transaction ids, a unit without a route, two
channels, a map of two and a queue of one reach every branch, the refusal by a full
queue included. `TxnMod = 3` lets the counter wrap; that it does not wrap within one
response window stands for 2^16 being larger than the number of requests
forwarded in a window.

For the server, queues of two let one response wait while another is produced, and
fill up with the requests of one poll. Its histories hold absolute times, so in
`server_queue` the clock stops at `MaxTime`, two units: enough for a request to
become stale and for a response to wait for the turnaround delay, fail and be tried
again after the retry interval. `server_serial` uses the sliding window, two units long, as no
time is compared with more. It has a request for another unit, a broadcast write, and the two
Diagnostics requests that enter and leave listen-only mode, of which the second is answered;
a queue of one; and a turnaround of two ticks, so that whatever is received in between makes
the response wait again. Garbage never ends there.

`async_client` has a pipeline of two and three requests, so that one waits in the backlog
while two are in flight; three ids, so that they wrap; a channel of two, which can be full;
batches of two; one explicit connect and one disconnect, besides those that time-outs
cause; one request with two retries, one that cannot be encoded. `async_serial` has one
request in flight and room for the commands of all callers, as the constructors give the
channel (64 commands and more). `gateway_async` has one channel, for which a WebSocket
session and the raw gateway compete; the request of the other WebSocket session, which is
refused while the first has the permit, is for a channel that is not there, and the serial
gateway's has no route. `async_server` gives the TCP connection one frame and the serial
line three, with counters that saturate at two. `handle_pool` has two TCP slots and one
serial slot that shares a mutex with one of them, and more instances than slots.
`browser_client` has two calls and two resets, so that a second generation can be cut off
as well.

**Fairness.** The application keeps calling `poll` and each call ends
(weak fairness of the steps of `poll`): the crates are passive and document that
they must be polled. Time passes (strong fairness of the clock, as it advances
between two calls, also when `poll` is called in a busy loop). The async task is
scheduled (weak fairness of its steps) and callers' timers fire (weak fairness of
`Timeout`). Sessions of the async gateway and server are scheduled, and a session that
waits for a mutex gets it in the end (strong fairness): tokio's mutexes serve their waiters
in order. A browser runs the futures it was given and delivers replies (weak fairness);
`DiscardedSettle` assumes nothing of timers. Nothing is assumed of servers, devices, links
or clients, with these exceptions: the sends of the async client's task and of the async
server end, and its connects and handlers return; the second part of `EventuallyEnded` has
a line that is quiet again and again as its hypothesis, and `EventuallyBack` that sends made
under a channel's mutex end. Nothing else is assumed of the sends of the async gateway.

## 7. Proofs

Each detailed module's proofs are in a module of their own. They have one layout: the inductive
invariant as a conjunction of named parts; lemmas on what the helpers of the actions do;
for each part a lemma `...Step` that shows that no step breaks it, with one case per action;
and the theorems, which combine these. All hold for every value of the constants that
satisfies the assumptions of the module, with the hypotheses given below and no others.
The strengthened invariants were also checked with TLC on the runs' instances.

**`ClientServicesProofs`**, for all capacities, time-outs, retry limits, delay sets and
sets of requests:

- `TypeCorrect`: `Spec => [](TypeOK /\ AttemptsAddUp)`. `TypeOK` alone is not
  inductive: that a retry number stays in the domain of the back-off policy needs
  `retries_left + retry_attempt_index = RetryAttempts` for every entry, and that
  an entry with a scheduled retry has an attempt left. The proof goes variable
  group by variable group (`QueueTypeStep`, `LinkTypeStep`, `PollTypeStep`,
  `AppTypeStep`, `AttemptsStep`).
- `OutcomeOnce`: `Spec => []ExactlyOneOutcome`. The property is inductive given the
  types. Its core is `RemoveAndNotify`: removing entry `k` by `swap_remove` and
  reporting its request keeps the property, because the requests in the table are
  pairwise distinct, so that the request removed is nowhere else and the entry
  moved is still there. `SwapRemoveFacts` states what the external
  `Vec::swap_remove` does to length and contents.
- `BudgetKept`: `Spec => []RetryBudget`. The invariant relates the transmissions of every
  pending request to the attempts its entry has made.
- `RetriesNotEarly`: `Spec => NoEarlyRetry`, an action property, by the actions that
  transmit. `RetryAfterWindow` says of every scheduled retry, wherever `swap_remove` has put
  its entry, that it lies after the window and a delay the policy has for this attempt.
- `ResponsesMatch`: `Spec => []ResponseMatchesRequest` for TCP and transaction ids that are
  not used for two requests (the application chooses them).
- `LedgerImplemented`: `Spec => ImplementsLedger`. The steps that report a request are
  `Answer` steps of the ledger, an accepted submission is a `Submit`, the rest stutter;
  that a reported request was pending is `ExactlyOneOutcome`.
- `NothingSkipped`: `Spec => [](CacheCovers /\ OverdueBounded)`, whatever the delays. It needs
  that every time cached or scheduled lies at most one wait, a time-out or a delay, after
  the clock (`InReach`), so that a request submitted later is hidden for no longer than
  that wait. The invariant also follows the scan: `VisitedOK` says that every entry below
  the index has been settled or noted in the new cache value, though `swap_remove` moves
  entries down.

Its last section is about `RetryPolicy`, for every width of the integers, strategy, attempt
and random number:

- `BackoffBounded`: a back-off delay is a `u32`, and at most `max_delay_ms` where the
  strategy has one, although shift and products saturate on the way.
- `DelayIsU32`: the jittered delay is a `u32`; the conversion never meets a negative
  number, as every strategy clamps at zero first.
- `JitterBounded`: as long as base and jitter fit in a `u32` together, the delay is within
  the jitter of the base on both sides.
- `JitterWraps`: when base and offset exceed `u32::MAX`, the delay comes out shorter than
  the jitter itself, however long the base was.

Each goes strategy by strategy; the facts about `%`, `\div` and clamping that the
strategies share are lemmas. The provers know nothing of powers, so that `2^k` is a natural
number is the assumption `PowersAssumption`, which TLC evaluates for the shifts in use.

**`AsyncClientProofs`**, for any number of requests, ids, retries and commands, any pipeline
and channel. `IndInv` says where requests are: channel, backlog, pending map and the entry
in the hands of `dispatch_request` hold none twice (`Once`), no two of them the same one
(`Apart`), and a request the channel took is held exactly until it is replied to (`Settled`).

- `TypeCorrect`, with `HasSlot`: a dispatch begins only while the pipeline has room.
- `LedgerImplemented`: `Spec => ImplementsLedger`.
- `BudgetKept`: what a request has spent and what its entry may still spend stay within the
  retries configured, before a send and while in flight (`Spent`).
- `InFlightKept`: `InFlightExact`, as long as no id is used under which an entry is pending
  (`IdFree`); `InFlightKeptUnpipelined` needs no such condition.
- `ResponsesMatch`: on TCP, as long as no id is used under which the server still owes a
  response on the connection (`IdQuiet`).
- `FirstTriesInOrder`: requests still to be tried for the first time are in order over the
  entry in hand, the backlog and the channel, and commands pass the backlog only when it has
  no such request (`InOrder`).

`IdFree` and `IdQuiet` are conditions on steps. The code does not enforce them: it would take
all 65535 ids of the counter, while one request stays unanswered, to break them, and then
the properties do fail (section 8). They hold in all steps of the instance of `async_client`,
and `NoIdReused` below in all steps of that of `browser_client`, so that the hypotheses
exclude nothing the runs can do.

**`GatewaySyncProofs`**, for any number of clients, sessions, channels and requests and any
capacities. `IndInv` says that batch, queue and channels hold no request twice, that none is
answered or given up twice (`Once`), that no two of these places hold the same request and
that together they hold what was asked (`Apart`).

- `TypeCorrect`, and `RequestsKept` (`HeldOnce`), need no hypothesis; `HeldOnce` counts what
  `IndInv` says in sets.
- `MapKept` (`TxnMapExact`) and `OwnersAnswered` (`AnswerToOwner`) are for sessions added
  before the first `poll` (`~LateJoin`; otherwise both fail, as `gateway_late_join` shows for
  the second), and exclude steps that forward a request under an internal id under which
  another channel waits (`IdFree`). The code does not check that, but it takes 2^16 requests
  during one response window; the steps of the instance of `gateway_sync` keep to it. That
  session ids stand for one client each is `Registered` and `Owned`.
- `OneChannelExact`: with one channel, `IdFree` holds by itself.

**`ServerServicesProofs`**, for any set of requests, depth of the queues, capacity of the buffer
and configuration of retries, delays and policies, without a hypothesis. `IndInv` begins like
that of the gateway with where requests are: receive buffer, request queue, the requests
just expired and response queue hold none twice and none ends twice (`Once`), no two of them
hold the same, together they hold what was received (`Apart`), and what has passed the
address filter is addressed to this server (`Ours`). From this every step is shown to have one
of seven effects on requests (`Effect`): nothing but the clock or the order in a queue changes,
frames arrive or are lost, some are discarded, a broadcast is carried out, an unknown function
is refused, one request is answered or refused, a queued response is retried or given up. The
other parts of `IndInv` are shown to survive each effect instead of each action.

- `TypeCorrect`, with `Cursor`: while queued responses are retried, as many are left as the loop
  still visits. `RequestsKept` (`HeldOnce`) counts what `Once` and `Apart` say in sets.
- `ClientsToldTruth` (`Truthful`) needs that nothing was done for a request that is still open
  (`Untouched`) and that a response in the queue says what happened (`Honest`): a
  response may be given up long after the handler ran, and a request refused long after it
  was queued.
- `RetriesDisciplined` (`RetryDiscipline`) and `TurnaroundsKept` (`TurnaroundKept`) need that a
  queued response carries the time of its last attempt and at least their number less one,
  and waits for the turnaround delay only before the first (`Disciplined`), and that no
  request is newer than the clock (`Timed`).
- `ForeignersUntouched` (`ForeignUntouched`) rests on `Ours`.

**`GatewayAsyncProofs`**, for any number of sessions, channels, requests and permits: the
invariant adds to the two properties what a session knows about its own request (`Routed`)
and where the responses on their way belong (`OwnTraffic`). `SharedHeld` and `OwnAnswers`
state `SharedHeldExactly` and `AnswerIsOwn`. They need that the sessions of the four kinds
of gateway are different sessions (`SessionsAssumption`).

**`AsyncServerProofs`**, for any number of connections and ports, any traffic and any
saturation limit: `WritesKept` rests on `Exclusive` (what the holder of the mutex has read
is still there when it writes); `CountersAgree` on `CountersAhead`, which says by how much
counters run ahead of the frames' fates while a request is in progress.

**`HandlePoolProofs`**, for any number of threads, sub-pools, slots and instances, any depth
of callbacks and both kinds of hooks: `Nested` and `Locked` say what the hooks give,
`Disciplined` what the application keeps to (the rules of section 5e, which are guards of
the model), `Borrowed`, `Created`, `Freed` and `Known` relate slots to calls in progress and
to the ids held. `LocksInOrder`, `HandlesKept`, `UsedExclusively` and `NoRaces` state the four
properties. A stack of calls changes in three ways (`HeadMoves`, `Pushed`, `Popped`), and each
part has a lemma for each.

**`WasmClientProofs`**, for any number of calls, reconnections and transaction ids.
`SendersKept` says where the reply channels are: in one place at most (`Placed`), only where
somebody will look (`Served`), exactly as long as the call waits without a reply (`Owed`).
`RepliesReach` (`HeldOnce`) follows. `ResponsesMatch` is for WebSockets and excludes steps that
reuse an id while its request is unanswered on the same connection (`NoIdReused`, as above:
all 65535 ids during one request); `CountsExact` excludes more calls than the `usize` can count;
`ReconnectionsServe` excludes reconnects that overlap. Without the second and third
hypothesis the properties fail (section 8).

The assumptions of the modules are about their constants: capacities and times are
naturals, request records are well formed, every attempt has at least one delay, `None` and
the error values are not requests, sessions of different kinds are different. TLC evaluates
them in each run.

**Only model-checked:** liveness (`EventuallyReported`, `EventuallyReleased`,
`EventuallySettled`, `EventuallyEnded`, `EventuallyBack`, `EventuallyDone`,
`DiscardedSettle`), which is outside the prover's reach. The runs slide their clocks
(section 6), while the proofs are about the specification with a clock that runs on.

## 8. Findings

One disagreement has a run that TLC ends with a counterexample:

- *Session ids of the sync gateway are reused* when sessions are added after others
  ended, and answers go to the wrong client (`gateway_late_join`).

Four more are stated as properties of the modules and have no run of their own. TLC ends with
a counterexample when the property is checked with the configuration named:

- *A long back-off hides the time-outs of other requests* (`NothingOverdueAfterPoll`,
  `ClientTcp.cfg`):
  `add_an_expectation` leaves `next_timeout_check` alone
  (`mbus-client/src/services/mod.rs:1409`), so that a request submitted while a retry is
  scheduled is not examined before that retry is due. Lines 924-926 say that every poll
  checks the time-outs, line 939 that the scan is skipped only if the earliest of them is
  in the future. `OverdueBounded` says how late it can get.
- *The turnaround delay is applied on TCP too* (`NoDelayOnTcp`, `ServerQueue.cfg`): the transport is
  not looked at (`mbus-server/src/services/mod.rs:455` and `1008`), while `resilience.rs:276`
  says "Only applies to serial transports; ignored for TCP."
- *Listen-only mode lets more through than a restart* (`OnlyRestartWhileListening`,
  `ServerSerial.cfg`): broadcast
  writes are carried out before the gate (lines 715 and 1359), and all Diagnostics requests
  pass it (line 728), against the comment at lines 723-725 ("must silently discard all
  requests except FC08 (Diagnostics) with sub-function 0x0001"). TLC shows the broadcast.
- *A client that stops reading locks a channel* (`ChannelFreed`, `GatewayAsync.cfg`): the exception
  for a time-out is sent with the mutexes of channel and event handler held
  (`gateway_async/gateway.rs:392-402`), by a `write_all` without a time-out
  (`mbus-network/src/management/async_transport.rs:79-91`). Lines 227-229 and
  `documentation/gateway/architecture.md:64` have the mutex held for the downstream
  transaction only.

The models also follow the code in the points below, where it departs from a comment, a
document, or what one would expect. They have no run of their own; those marked † can be
seen by changing the constants or the property named.

*Client services.*

- A call that returned `SendFailed` leaves its request pending, to be retried and reported
  once more (`mbus-client/src/services/mod.rs:1722`; `coil/apis.rs:29-31` gives the error for a request that "may not
  have been queued/sent").
- The receive buffer survives the time-out of a request (line 1339), although
  `transport.rs:23` says it is cleared.
- On a serial line a response is matched by its unit address alone, so a late response can
  be credited to the next request to the same unit (line 808).
- A jittered delay near `u32::MAX` wraps to a short one (`retry.rs:129`, theorem
  `JitterWraps`).

*Sync gateway.*

- A late downstream response answers the next request on its channel: the transaction id
  in the frame is never compared (`gateway_sync/services.rs:276`;
  `documentation/gateway/architecture.md:98`).
- `try_service_pending` (line 626) rotates a pending queue that is not full, so that
  requests for one channel may overtake each other; and a request for an idle channel is
  queued behind others (line 497).
- The `u16` internal transaction id could wrap onto one still in flight
  (`txn_map_static.rs:62`), with 2^16 requests in one response window.

*Server services.*

- A turnaround delay together with `max_send_retries = 0` loses every response that has to
  wait (`mbus-server/src/services/mod.rs:986`; `resilience.rs:254` and `271`).
- A response that is not due goes to the back of its queue (line 972), against the comment
  in the next line; the queue survives disconnect and reconnect.
- `RejectRequest` is applied when a request is queued and not when it is carried out
  (line 1426), so that room for its response is not guaranteed (`resilience.rs:64`).
- A response held back for the turnaround is measured anew from every `recv` (lines 900 and
  1010): on a line that is never quiet for the whole delay, be it traffic of other units or
  noise, it is never sent, and later responses fill the queue behind it. † the second part
  of `EventuallyEnded` without `[]<>BusQuiet`.

*Async client.*

- The time-out of one caller disconnects the transport and so fails the requests of all
  others (`client_core.rs:159`; lines 228-231 say "The in-flight entry remains in the
  background task until the transport delivers or errors").
  A request that timed out while still in the channel is sent nevertheless.
- A failed reconnect that uses up the last retry ends the request: with one retry
  configured, one failed reconnect is all it gets (`task.rs:201-208`), while the caller's
  time-out allows for one attempt more (`client_core.rs:148`). The delay in that time-out
  is an unchecked product (line 149).
- Re-queued requests are ordered by id, so a wrap of the ids inverts their order
  (`task.rs:352`). An id that is still in flight when all others have been used is
  overwritten: its caller gets an error and its place in the pipeline is lost
  (`task.rs:235-248`). † `InFlightExact` with `MaxTxn = 2`.
- On a serial line a late response is credited to the next request (`resolve_key`).

*Async gateway.*

- The response to a round trip that timed out is taken by the next session that uses the
  channel, and the channel stays one answer behind from then on (`gateway.rs:384`).
- A WebSocket handshake has no time-out and keeps its permit; the shutdown of a raw gateway
  drops a session in the middle of a round trip; a serial gateway reads route and unit
  rewriting separately.

*Async server.*

- `on_exception` is skipped when the application's mutex is taken (`app_handler.rs:983`);
  raw exceptions are neither counted nor reported; `busy_count` is never incremented.
- The shutdown of a serial server drops the request in progress (`serial_server.rs:61-65`),
  although line 43 says "In-flight request/response cycles complete normally".
- FC08 is answered before it is looked at whether it was a broadcast (`session.rs:169`).

*C API pools.*

- A program that holds `mbus_server_lock` around a call, as `c/server/tcp_server.rs:21-22`
  and `mbus-ffi/README.md:632` ask for, waits inside the call for the mutex it holds:
  `with_tcp_server` locks itself (`c/server/pool.rs:459`).
  `examples/c_server_demo_yaml/README.md:262` says the opposite: "Never call
  `mbus_server_lock` / `mbus_server_unlock` directly".
- `pool_free` does not look at the borrow flag, so an instance must not be freed from its
  own callback. `new` and `with_*` have no lock in common: a call on a stale id must not
  overlap a creation.
- `mbus-ffi/README.md:615` indexes an array of 256 mutexes with the whole 16-bit id, of
  which the upper byte is the kind.

*Browser client.*

- `reconnect` and `close` set `pending_count` to 0 with calls in flight, which still subtract
  from it: the `usize` wraps, and `pendingRequests` stays true with nothing in flight
  (`client_tcp.rs:151`, `170` and `383`; line 187 and `javascript/README.md:262`).
  † `Waiting = {} => pending_count = 0` is violated.
- Two calls of `reconnect` in a row leave a client nobody serves, though both promises
  resolve: each task takes whatever connection is there when it starts
  (`client_tcp.rs:141`; lines 117-119). † `ReconnectServes` with `Overlap = TRUE`.
- On a serial port all commands are sent as they come, and a response settles whichever
  call the hash map yields first (`task.rs:460`), although
  `documentation/wasm_bindings.md:17` promises sequential queuing.
  † `ResponseMatchesRequest` with `Serial = TRUE`.
- `close` during a reconnect is undone by it (`client_tcp.rs:129-154`, lines 164-166);
  `WasmAsyncTransport::connect` has no await, though its documentation says it resolves when
  the socket is open (`wasm_async_transport.rs:37-39`); the loss of an idle connection is
  not noticed, and `isConnected` stays true; entries of calls that timed out stay in the
  task's map until they are answered.

## 9. Not modelled

The byte-level codec and checksums (data, covered by unit tests, no interleaving);
the contents of requests and responses, the function handlers and data models; the
blocking behaviour inside transports; partial writes; macros and code generator,
which have no state at run time; the bindings for Python, Node.js, Go and .NET and the
browser's server, which convert values around the crates above; in the C API the
conversion of configurations, callbacks and status codes; the Web Serial transport and the
serial client's `close`; a route table that is changed while a serial gateway runs; the
checks inside the WebSocket handshake; the traffic hooks; the dynamic transaction map; the
counters and the diagnostics log of the poll-driven server. Most of the repository's lines
are of these kinds: tests and examples, generated or repetitive adapters, encoding and
decoding.
