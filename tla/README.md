# TLA+ models of signalrr

signalrr is an asynchronous SignalR client in Rust (`src/src`), built on tokio
tasks, channels and locks. This directory holds TLA+ models of the parts of it
that are stateful and concurrent, TLC configurations that check them on small
instances, and TLAPS proofs; the wire formats are modelled as pure operators that
a state machine uses. `PROJECT.json` maps every definition to the lines
it models and lists components, hazards, runs, findings and theorems.

## The system

| part | source | state | who drives it |
|---|---|---|---|
| transport send queue | `transport/send_queue.rs` | command channel, batch buffer, response senders | any caller of `send()`, one worker task, `stop()` |
| WebSocket transport | `transport/websocket.rs` | open or closed, its send queue | the hub runtime, a read loop |
| connection establishment | `connection.rs`, `negotiate.rs`, `handshake.rs` | none after it returns, but `ResumeTarget` | `start()`, the supervisor |
| hub runtime | `hub_connection/runtime.rs` | invocation id counter, receive and keepalive tasks, transport | created by a connect, a resume or a reconnect |
| dispatcher | `hub_connection/dispatch.rs` | none of its own | the receive task |
| message buffer | `hub_connection/message_buffer.rs` | buffered messages, sequence ids, ack timer, backpressure | callers, receive task, supervisor, timer |
| hub connection | `hub_connection/mod.rs`, `callbacks.rs`, `retry.rs`, `state.rs` | state, runtime, closing flag, stop signal, supervisor | the application's calls, the supervisor |
| message bus, streams | `bus.rs`, `hub_connection/stream.rs` | pending invocations, handlers | callers, receive task, drops of streams |
| upload streams | `hub_connection/upload_stream.rs` | upload tasks | callers with stream arguments |
| framing, hub protocols | `framing/`, `hub/` | none (pure functions on bytes and JSON) | dispatcher, callers |
| builder, errors, test support | `builder.rs`, `error.rs`, `test_support/` | none | the application, the tests |

A call of the application takes an id from the runtime, registers in the bus and
sends through the message buffer, the transport and its send queue. The receive
task reads the transport, counts messages in the buffer and dispatches them to
the bus or to handlers. When the transport ends the supervisor resumes the
connection on a new transport (stateful reconnect), or cancels pending calls and
reconnects under the retry policy, or reports that the connection is closed.

## Modules

| module | models |
|---|---|
| `SendQueue` | `TransportSendQueue`: callers, worker, `stop()`, dropped futures |
| `SendQueueProofs` | its inductive invariant and theorems |
| `ReliableChannel` | abstract: numbered messages delivered in order, once |
| `StatefulReconnect` | `MessageBuffer`, the supervisor's resume, the ack timer, a server that follows the protocol |
| `TransportItems` | what its transports carry: counted messages, `Ack`, `Sequence` |
| `StatefulReconnectProofs` | the invariants and theorems of the receiving and of the sending side |
| `BufferProofs` | which `Sequence` messages are accepted, what a transport carries twice, and the byte count and backpressure, proved |
| `Framing` | the binary length prefix, the text separator, the split of the handshake response: writing and parsing |
| `Values` | JSON and MessagePack values, conversions between them, `skip_value()`, `Arguments` |
| `JsonProtocol` | `HubMessage` to and from JSON, `JsonProtocol` |
| `MessagePack` | `MessagePackProtocol`: every message written and parsed |
| `MessagePackBrotli` | `MessagePackBrotliProtocol`: the same with payloads that may be compressed |
| `Receive` | what becomes of a transport message: handshake response, parsing, dispatch, handlers and their registry, the answer |
| `Uploads` | `invoke()`, `stream()` and `send()` with upload streams, `launch_upload_streams()`, while runtimes are replaced |
| `UploadsProofs` | the uniqueness of ids and the order of what streams yield, proved |
| `MCStatefulReconnect`, `MCHubLifecycle`, `MCInvocations`, `MCReceive`, `MCUploads` | values of the constants for TLC |
| `HubRuntime` | one `HubRuntime` over one `WebSocketTransport`: read loop, receive task, keepalive task, `shutdown()`, abort and drop |
| `HubRuntimeProofs` | what its first event and its server timeout mean, proved |
| `Connect` | `Connection::connect()` with negotiate, access tokens, WebSocket and handshake; `ResumeTarget::reopen()` |
| `ConnectProofs` | its inductive invariant and theorems |
| `ConnectionEvents` | abstract: the order in which callbacks may be called |
| `HubLifecycle` | `start()`, `close()`, `shutdown_active_connection()`, `connect_runtime()`, the supervisor, `resume_transport()`, `reconnect_once()`, the callbacks |
| `HubLifecycleProofs` | what `close()` leaves behind, and the order of the callbacks, proved |
| `Invocations` | `invoke()`, `stream()`, `cancel_stream()`, `HubMethodStream`, `MessageBus`'s pending map, `handle_close()`, and how the supervisor and `close()` cancel calls |
| `InvocationsProofs` | its inductive invariant and theorems |

**SendQueue.** `commands` is the mpsc channel, `buffer` the payloads and `pending`
the response senders the worker has taken, `wire` what has been written. A `Send` command or
`Shutdown` is received (`RecvSend`, `RecvShutdown`) and the ready ones are
drained one at a time (`DrainSend`, `DrainShutdown`, `DrainEmpty`), then written
in one `Flush` that may fail. Callers may drop the futures of `send()` and
`stop()` at their awaits, and the queue itself may be dropped.

**StatefulReconnect.** A message is its number, in the order in which `send()`
buffered it; `messages` is the buffer, `room` the callers held back. `send()` is
split where it gives up the buffer lock: `SendBuffer`, `SendTransmit`,
`SendReturn`. The resume is split at its awaits and lock hand-overs
(`TransportClosed`, `AbortOld`, `Reopen`, `LockRuntime`, `ResendSequence`,
`ResendItem`, `ResendDone`). Each transport is a FIFO channel in each direction
and loses a suffix of what is in flight when it drops. The server is external:
it does to the client what the client does to it. `Asks` are the server's
invocations that want a result, to which the dispatcher replies past the buffer; if the
reply fails the rest of the frame is discarded (`ReplyFails`), which `torn` records.
`AbortOld` and `Reopen` wait for the old transport's `close()` and for the server.

**HubLifecycle.** Every call of `start()` and `close()` and the supervisor has a
program counter, split at every await and at every separate lock section.
`connect` is the FIFO queue of the `connect_operation` mutex; `stop` and its
receivers model the watch channel, whose `send()` stores nothing without a
receiver; aborting a task takes effect at its next await and drops what it
holds. `live` is the set of open transports. `config`, chosen at the start from
`Configs`, is what the application configured and how its tasks run:
`config.parallel` says whether on several threads; if not, a task runs alone
between two awaits. `shutdown()`, `abort_without_close()` and the first ping of a
connection await the transport, which may answer late or never (`CallAwaited`,
`TaskAwaited`).

**Invocations.** The pending map is `pending[id]`; the response channel of a
call is `result`, with the reason why it ended or whose answer it received. The
transport is FIFO; with stateful reconnect a drop is not visible here, but the
`HubRuntime`, and with it the id counter, is new (`Resume`). A `HubRuntime` gives out
at most `MaxIds` ids. A call of a stateful connection may have to wait for room in the
message buffer (`room`) before it waits for its answer: until an `Ack` makes room
(`RoomMade`) or the buffer is dropped (`RoomGone`). The runtime's lock is held while a
transport is closed (`Locked`). `config` is as in `HubLifecycle`.

**HubRuntime.** The read loop feeds `incoming`; the receive task takes a frame and
dispatches its messages one by one (`todo`), waiting for handlers and for the
close of the transport (`busy`). The keepalive task is a `select!` whose ready
branches may be taken in any order. `silence` and `quiet` count ticks since
`last_received` and since `next_ping_at` was set; `Tick` is the clock, which
passes only when no task is ready, or while a handler, a ping or a close is awaited.
`signaled` is `transport_close_signaled`, `events` what the supervisor receives.
`heard`, `slow` and `told` only record what happened.

**Connect.** One task and a server that answers as it likes. `phase` is what the
task awaits; `token` and `refreshable` are the `TokenSource`, `issued` is
`token_from_server` with the token, `ws` is the last WebSocket URL (hub,
connection, token), `target` and `resume` the `ResumeTarget` of the `Connection`
and of the `HubConnection`. `Fail` is every error, timeout and drop of the future.
Tokens are numbered, so that a stale one shows.

**Framing, Values and the protocols.** A transport message is a sequence of units.
The bytes of length prefixes are numbers in a small base (`Base`, 128 in the
code), the markers of MessagePack values and their payloads are units of their
own, and a JSON text is one unit: what serde and rmp compute between a value and
its bytes is external, and how far `skip_value()`, the prefix and the separator
reach is not. `Try(steps, value)` is the `?` operator. A parser is written as the
code is, with its order of checks and what each rejects, skips or defaults.

**Receive.** The server writes messages with the same operators, with or without a
handshake response in front and compressed payloads, and a transport message
arrives whole or cut after any unit. `queue` holds the parsed messages that
`dispatch()` has not had, `call` the invocation whose handlers are running, and
`handlers` the bus's registry by lower-case name. `On` and `Off` come at any time,
also between two handlers; `Lose` is the end of the transport, `CloseReturned` the end
of the `close()` that `handle_close()` awaits.
`sent`, `seen`, `log` and `answers` only record what happened; `Registered` and
`Promised` say from that record which handlers should run and what the server
should be answered.

**Uploads.** A call takes ids for its streams under one read lock of the runtime
(`TakeStreamId`, `IdsTaken`) and its own under another (`TakeCallId`), is sent
(`SendCall`), and launches a task per stream and one that sends what they yield
(`Launch`, `YieldItem`, `YieldEnd`, `SendCommand`, `SenderEnds`). The supervisor's
steps are those that matter here: a resume (`BeginResume`, `Resume`), or the
runtime taken away, the state Reconnecting, a new runtime, Connected again
(`Take`, `Announce`, `Reconnect`, `Restored`), or the end (`GiveUp`, `Close`,
`Shutdown`). With a message buffer a send during a resume succeeds, and one that
finds the transport gone fails although the buffer has the message.

Data is abstracted to what the properties tell apart: payloads are their kind
and number, errors their reason; wording and logs are left out, and encodings
where a module is not about them.

## Runs

Passing runs, with the distinct states TLC finds:

| run | instance | shows |
|---|---|---|
| `send_queue` | 3 callers (one binary), 2 stops; 339,815 states | payloads are written in the order of their calls, text and binary are never mixed, answers agree with the wire, no response sender is lost, `stop()` joins the worker; every `send()` is answered |
| `reconnect_safety` | 1 caller, 3 messages up, 1 down, 2 drops, buffer of 2; 95,950 states | each direction implements `ReliableChannel`; nothing leaves a buffer before it arrived; sequence ids are accepted; byte accounting is exact; messages arrive unless the connection is given up or a resume hangs |
| `reconnect_concurrent` | 2 callers, 2 messages down, one of which wants a result, 1 drop; 3,102,248 states | "never both" survives concurrent callers and completions, and so does the reliable downstream until a frame is torn |
| `lifecycle` | 2 closes; 2 starts, 2 transports, on one thread with stateful reconnect and policy and without; 1 start and 1 transport on several threads; transports that close and that fail to; 278,133 states | on one thread a returned `close()` leaves the connection closed, `start()` yields to `close()`, and `close()` returns; there, and with one start on several threads, no transport is left open and the callbacks implement `ConnectionEvents`; `on_close` is called |
| `invocations` | 1 invoke, 1 stream; 1 connection on several threads; on one thread 2 connections with a policy, or 1 without, and 1 resume; 464,211 states | own answers in the server's order as long as nothing was resumed, across reconnects on one thread; no call ends another on one connection; calls that wait when their connection ends, end |
| `hub_runtime` | 1 frame with and 1 after the handshake, 1 send, server timeout of 2 and keep-alive of 1 tick; 248,402 states | "dropped", after which the supervisor resumes, is reported first only for a transport that ended by itself; the server timeout means silence; the end is reported and the transport closed whatever a handler does, and both tasks end after `shutdown()`, if pings and closes return |
| `connect` | 2 connects, 2 reopens, 2 redirects, 2 hubs, with and without factory and stateful reconnect; 143,846 states | at most two requests per URL; the WebSocket gets the server's last token or the factory's newest; the factory is not called once the server issued a token; only the current connection is resumed |
| `receive` | 21 messages and their pairs in three protocols, cut at every unit; and up to 3 `on()` and `off()` calls, 3 kinds of handlers, 2 names in 2 cases, a transport that drops; 64,750 states | what is dispatched is what was sent, all of a whole transport message and only first messages of a cut one; `connect()` succeeds just when the server accepts; the registered handlers run once and in order; the server gets one completion per invocation that wants one, with the right outcome; the receive task comes to the end of every transport message if `close()` returns |
| `uploads` | 2 calls, 2 streams of 1 item, 2 runtimes, with and without a message buffer; 190,175 states | items are sent in order behind their call, none is left out unless the sender had to stop; ids are not shared; a runtime takes the end of every stream unless the sender had to stop |

Runs in which the code does not do what its documentation or tests say:

| run | what happens |
|---|---|
| `send_queue_stop` | `Shutdown` drained together with a `Send` is lost and `stop()` waits for ever |
| `lifecycle_restart` | the stop signal of a `close()` cannot be reset without a receiver; the next `start()` is aborted by it |
| `invocations_resume` | ids start again at 1 after a resume while calls are pending; a call gets another's answer |

Assumptions under which the passing properties hold, each of which TLC shows to
be needed when the constant in the `.cfg`, or the condition on `config` in the
property, is changed:

* `NothingLost` and `UpstreamReliable` need `Asks = {}` (a Completion is not
  buffered but counted by the server) and one caller. `send()` numbers a message
  under the buffer lock and writes it after the lock: two callers may write in
  the other order, and after a drop the hub gets one message twice and the
  other never.
* Delivery to the client and acknowledgement are not stated as liveness. A send
  that fails on the old transport after the new one's `Sequence` was handled
  sets `wait_for_sequence_message` again; an ack timer that fires during
  `resend()` is not set again.
* `DownstreamReliable` needs `Asks = {}`. When a Completion cannot be written
  `dispatch()` returns the error and the rest of the frame is discarded uncounted; the
  frames after it get wrong numbers, and after the resume one message is lost and
  another is delivered twice. With `Asks`, `DownstreamUnlessTorn` holds: a reliable
  channel up to the first such frame.
* The closes of transports return. `WebSocketTransport::close()` first awaits
  `stop()` of the send queue, which `send_queue_stop` shows may wait for ever, and
  nothing bounds that wait. No fairness makes a close return. `DeliveredUp` has the
  condition `ResumesGoOn` (and that `reopen()`, which has no timeout, returns),
  `CloseReturns` has `TransportsReturn` (and that what is being written, the first
  ping among it, is taken), `EndReported` and `TasksEnd` have `PingsReturn` and
  `ClosesReturn`, `FramesEnd` that the link is not for ever `closing`. `CallsEnd` needs
  none: a connection's calls are failed before its transport is closed, and
  `handle_close()` reports the end before. In `Uploads` a step that closes or writes
  does so at once: `StreamsCompleted` assumes that both return.
* `CloseReturns` needs transports that close without an error
  (`~config.closeErrors`), after which the state stays `Disconnecting`, and one thread:
  on several the notification of the `close()` that works may come between another's
  look at the state and its registration, which then waits for ever.
* `StartYieldsToClose` is about an application that calls no `start()` while a
  `close()` runs (`Calm`). With three calls of each, a `start()` called while a `close()`
  waits for `connect_operation` clears the `closing` flag that an earlier `start()` is
  to see. `ClosedMeansClosed`, `NothingOpen` and `CallbacksInOrder` are checked without that
  condition.
* `NothingOpen` needs `~config.policy` and `~config.stateful`: aborting the
  supervisor drops a runtime that is started and not yet installed. It needs
  `~config.closeErrors` as well, and on several threads a single `start()`: of two
  the second replaces the `HubRuntime` of the first, which stays open.
* `CallbacksInOrder` on several threads is about a single `start()` without policy and
  stateful reconnect: an aborted supervisor that has left its last await may call
  `on_reconnecting` after `close()` has called `on_close`.
* `CallsEnd` is about calls that wait for their answer while the supervisor has still to
  find out that the connection ended, or `close()` has still to empty the bus. On one
  thread it is also about calls of an earlier connection, and about those that wait for
  room in a buffer that is dropped. Three cases are left out, in which a call may wait
  for ever: on several threads it may be sent after `cancel_all_pending()` and before the
  runtime is taken; without a policy, or after a `Close` that forbids to reconnect, the
  runtime is not taken, and a call that has passed `require_connected()` is sent into a
  transport that is gone; and a caller that waits for room stays when the connection is
  given up and no `start()` replaces its buffer.
* `ClosedMeansClosed` and `StartYieldsToClose` are about a
  current-thread runtime. With `config.parallel` `start()` may clear the `closing` flag of a `close()` that
  began after it, two `start()` calls may pass the check, an aborted supervisor may still write the state, and `close()` may miss a
  `start()` that subscribes later.
* `TimeoutMeansSilence` excepts a receive task held by a handler: it reads
  nothing meanwhile, and the server timeout ends a connection whose server talks.
* `StreamsCompleted` says that a runtime takes the end of a stream. The server is not
  told if that is kept in the buffer of a resume that fails, and it cannot tell whose
  end it is on a new connection, to which the stream was never announced.
* `OwnIds` is about the ids of one runtime. The counter starts again with every
  runtime, so a sender that goes on after a resume or a reconnect uses an id that a
  new call may get as well, and a resume between a call's stream ids and its own
  takes them from two counters.
* `RightUnlessResumed` is about one connection, or any number of them on a
  current-thread runtime. With `config.parallel` a call that took its id from the old
  `HubRuntime` may register and send on the next one, which gives out the same id.
* `OnlyOwnEnd` needs one connection: the drop of a stream acts on whatever call
  has its id by then.

**Bounds.** Two drops let the second fall into the resume of the first. Three
messages with sizes 1, 2 and 1 and a buffer of 2 make it full, with one or two
acknowledgements needed to make room. Two calls of each kind meet every
other call at every await; two transports are a start and a resume, a reconnect
or another start. A stream and an invoke are the two kinds of pending entry, and two
connections suffice for an id to be used twice. In `HubRuntime` a frame has one
message or one behind a message whose dispatch may fail, and a server timeout of
two ticks lets a message arrive half-way. In `Connect` two redirects are one to
another hub and one back; the limit itself is any number in the proofs.
In `Receive` a length prefix has at most two bytes in base 8 and a nesting of 3 is
the deepest, so that messages of few units reach each limit; a pair of messages
in one transport message shows what one does to the next, and three calls of
`on()` and `off()` are two registrations and a removal in between or after. In
`Uploads` two runtimes are one replacement, at any point of a call or a stream;
an item and an end are what an order can be wrong about, and the number of
calls, streams and runtimes is any in the proof.

**Fairness.** Weak fairness on each task's own steps: tokio polls a task that is
ready. Timers fire. In `StatefulReconnect` the server also reads and
acknowledges. The application is never obliged to call, a connect to succeed, or
in `HubLifecycle`, `Invocations` and `HubRuntime` the server to answer, a
handler to return or a transport to close (see above for the properties that depend on
it); in `HubRuntime` the clock goes on. Two liveness properties rest
on the application: `FramesEnd` on handlers that return, `StreamsCompleted` on
streams that end. Nothing is assumed of resumes or reconnects there. Deadlock is not
checked: when all calls have returned the system may be at rest.

## Proofs

`SendQueueProofs` proves, for any finite or infinite set of callers and stops,
the type invariant and each safety property that `send_queue` checks: `TypeCorrect`, `FifoWrites`,
`HonestAnswers`, `UniformBuffers`, `ResponsesKept` and `StopIsFinal`, from
`Invariance: Spec => []IInv`.

None of the properties is inductive. `IInv` adds to them, and to the type
invariant: `Ordered`, that what is written, what is in the batch and what is in
the channel, read one after the other, are in the order in which the calls
entered the channel; `Located`, that the place of a payload says what its call
knows so far; `Resting`, that between batches the worker holds nothing and, when
it has ended, neither does the channel; `Joining`, that the worker's
`JoinHandle` is in the queue, or with the `stop()` that joins, or gone with a
`stop()` that was dropped. `TailFacts`, `AppendFacts` and
`ConcatFacts` are what the proof needs of sequences. There is one lemma for each
action (`SendIInv`, ..., `FlushIInv`) and one for `Push`, which `RecvSend` and
`DrainSend` share. The only assumption is `SendQueue`'s on its constants.

`ConnectProofs` proves each property of the run `connect` for every limit of redirects, every set of hubs and any
number of connects and reopens: `BoundedRequests`, `TokenIsLatest`,
`ResumesSame` and `FactoryStays`, from `Inductive: Spec => []IInv`. `IInv` adds
`RequestsInd`, which counts two requests for every URL left behind and one or two
for the current one; `SourceInd`, that during negotiate the source holds the
server's token or the factory's newest, and that the server's cannot be
refreshed; `TargetInd`, that the resume target names the current connection and
carries the server's token if there is one, without which a reopen could call the
factory again. The only assumption is `Connect`'s on its constants.

`UploadsProofs` proves `IdsAreOwn: Spec => []OwnIds` for any calls, streams,
scenarios and number of runtimes. The invariant adds `Counted`, that an id taken
of a runtime is at most what that runtime has counted, without which the next id
could be one already taken. `TakeIdFresh` is the step that takes an id,
`NoIdTaken` covers all others.

It also proves `StreamsInOrder: Spec => []UploadedInOrder`, for any calls, streams, items
and runtimes. `SendInv` adds that a call that was sent is on the wire before its sender is
launched, that a sender which does not run has no commands left (without which the last
ones could be lost when it ends), that a sender's commands are of its call's streams, and
that while the task of a stream runs its sender does too, unless a send failed. `From`,
the commands of one stream in a channel, is a recursive function over the positions;
`FromWritten` and `FromTaken` say what writing to a channel and taking from it do to it.
They rest on `Smallest`, that a set of naturals has a least element: the least position at
which two readings of a channel differ, or from which there is none, leads to a
contradiction. The only assumption is `Uploads`'s on its constants.

`HubLifecycleProofs` proves, for any set of calls of `start()` and `close()`, any number of
transports and all of `config` but `parallel`, that is on one thread:

* `StaysClosed: Spec => []ClosedMeansClosed`, for calls in any overlap;
* `StartYields: Spec => []StartYieldsToClose`;
* `EventsInOrder: Spec /\ [](~config.parallel /\ Calm) => CallbacksInOrder`, the
  refinement of `ConnectionEvents`;
* `ClosesAll: Spec => [](~config.parallel /\ Calm => NothingOpen)`.

`CloseInv` is the inductive invariant of the first. `Lined` is the mutual exclusion of
`connect_operation`: the calls between their request for the lock and its release are those
in its queue, each once, and the one that works is in front. `Owner` says that the
`JoinHandle` is that of the only supervisor that still does anything, `Shut` how far
`shutdown_active_connection()` has come. `Quiet` is what makes the rest do: once a `close()`
has begun and no `start()` since, a `close()` is about to queue, or the last in the queue
is one, or all is closed; so what an earlier `start()` leaves behind is closed after it.

The other three depend on what else runs beside a `start()`. Their proofs are about an
application that calls no `start()` while a `close()` runs; of the three only
`StartYieldsToClose` is known to fail for another (see Runs). `CalmInv` adds `Alone` (one
`start()` at a time, and no supervisor beside it), `Signalled` (`closing` and the stop
signal tell of a `close()` under way, and are both off when `start()` has looked last),
`Yields` (a `start()` that a `close()` found under way has not passed its last look),
`Watched` (nobody else changes the state while a supervisor works, until a `close()` begins)
and `Telling` (what the application was told last fits where `start()` and the supervisor
are). `OpenInv` adds, without policy and stateful reconnect, `Accounted`: an open transport
is that of the installed `HubRuntime`, or of the call that opens or closes it; `Unfailing`
that no `shutdown()` has failed, where transports close without an error. TLC checked
each of these with two calls of `start()` and of `close()`, and with three and two, before
they were proved. The only assumption is `HubLifecycle`'s on its constants.

`HubRuntimeProofs` proves, for any number of frames and sends and every timeout and
keep-alive interval:

* `DropIsDrop: Spec => []DroppedMeansDropped`. `EventInv` adds `EndsKnown`, that
  a task which closes the transport has signaled so before, and that the read loop ends by
  itself only with the server's end or when nobody receives any more, and `ReportsLast`,
  that the receive task reports "dropped" as the last thing it does. Without the first the
  receive task could take a close by the client for a drop.
* `TimeoutIsSilence: Spec => TimeoutMeansSilence`, an action property. `ClockInv` relates
  the keepalive task's clock to the time since a frame arrived: it is not ahead of it, and
  a frame of this tick is on its way to it or has set it back.

`InvocationsProofs` proves, for any set of calls and any number of ids, connections,
resumes and items:

* `OwnAnswers: Spec => []RightUnlessResumed` and
* `NoCallEndsAnother: Spec => []OnlyOwnEnd`.

`CallInv` adds `Progress` (at which points a call has an id and a connection),
`Registered` (ids of the present `HubRuntime` are distinct; the pending map holds such
calls only, each under its id; between two connections of a current-thread runtime it is
empty and no call is about to register or send), `Belongs` (what is under way is of the
call it names, under its id, and of this connection), `Once` (the server gets an
invocation once) and `Continues` (the items under way to a `HubMethodStream` continue
those it has without a gap). `RightUnlessResumed` alone says nothing of the answers under
way. The only assumption is `Invocations`'s on its constants, among them that calls are not
named like an outcome.

`StatefulReconnectProofs` proves that `StatefulReconnect` implements
`ReliableChannel`, for any number of messages and drops:

* `DeliversUnlessTorn: Spec => DownstreamUnlessTorn`, for any set of callers, and
  whatever invocations the dispatcher answers past the buffer;
* `DownstreamDelivers: Spec => DownstreamReliable`, for any set of callers, where `Asks`
  is empty: then no frame is torn;
* `UpstreamDelivers: Spec => UpstreamReliable` and `NothingIsLost: Spec =>
  []NothingLost`, where there is at most one caller and `Asks` is empty. The
  conditions stand in the theorems; TLC shows that they are needed (see Runs).

Neither follows from the property itself, because a receiver does not look at a
message's number: it counts. `Channel` is what makes the
count right: a `Sequence` only comes first, to a receiver that waits for it, and
never skips; messages increase, and those the receiver listens to have no gap from
the number it will give the first. The first lemmas say what taking, skipping, writing
and cutting do to it (`TakeMessage`, `TakeSequence`, `SkipHead`, `WriteMessage`,
`WriteAck`, `CutChannel`), for both directions. `DownInv` adds that
a transport that is up carries all the receiver lacks (`Covers`), without which the next message could
leave a gap, and that no `Ack` on its way, and nothing the server
has forgotten, is ahead of what was delivered. `UpInv` adds, for the client's
side, `Buffered` (the buffer is a final segment and the server has the rest),
`Phases` (which of supervisor and callers may write, and to which transport),
`Transmitting` and `Resending` (what a caller or `resend()` is about to write comes
next). There is one lemma for each action or group of actions alike. The
only assumptions are `StatefulReconnect`'s on its constants and the two above.

`BufferProofs` proves, without these two conditions, for any set of callers and of
invocations answered past the buffer:

* `NeverTwice: Spec => []NeverBoth`. `OnceInv` adds who may write: callers that are
  about to write have numbers of their own, none is while `resend()` writes, which goes
  up in order on a transport no message was written to before.
* `SequencesAccepted: Spec => []SequenceAccepted`, in both directions. For the client
  `AckInv` relates the server's last `Ack` to what the client counted: an `Ack` that is
  under way, or that the timer is about to write, is of this transport and behind the
  client's count, also when a `Sequence` set that count back. For the server `BufInv`
  says that the buffer is a final segment of the messages that holds all the server has
  not counted, so that the `Sequence` of `resend()` never skips one.

* `BytesCounted: Spec => []BytesExact` and `HeldWhileFull: Spec => []HeldOnlyWhenFull`, for
  messages of any sizes and any buffer size. `CountInv` is the two and that the buffer
  holds messages that were sent. `byte_count` is compared with a sum over a set, of which the
  step that counts a message needs `BytesAdd` and an `Ack` needs `BytesSplit`: the sum over
  two disjoint sets is that of both. `MapThenSumSet` takes the elements in an order of its
  own, so these are proved by a smallest set for which they fail (`SmallestSet`, from the
  well-foundedness of inclusion among finite sets); `CountsExist` and `CountsAgree` show in
  the same way that the recursive definition defines a sum at all.

`Moves` is the step of a channel that the first two share: it loses items at either end, or
one is written to it.

Model-checked only:

* liveness, which the prover does not do (`ENABLED` under fairness): `EverySendAnswered`,
  `DeliveredUp`, `CloseReturns`, `CloseReported`, `CallsEnd`, `EndReported`, `TasksEnd`,
  `FramesEnd` and `StreamsCompleted`;
* `MessagesAsSent`, `ConnectedIfAccepted`, `HandlersAsRegistered` and `AnsweredOnce` of
  `Receive`: it parses with `RECURSIVE` operators, in whose presence the prover has no SMT
  backend;
* `CallbacksInOrder` and `NothingOpen` where a `start()` is called during a `close()`, and
  both with one `start()` on several threads, without policy and stateful reconnect;
* the three disagreements above, which are traces.

Every other invariant and action property of a passing run is proved.

## Not modelled

* What libraries compute: serde's text, rmp's bytes, Brotli, TLS, HTTP and the
  WebSocket protocol. Floating point and negative numbers, extension types and
  strings of more than one character are outside the universe of `Values`.
* URLs of negotiate and of the WebSocket, and the choice of the handshake version:
  string formatting and a comparison, which no other part's state depends on.
* The delays of the retry policies (`retry.rs`): a policy is a choice between
  another attempt and none.
* The builder, the error types and `lib.rs` carry options and have no behaviour of
  their own; the options are constants or `config` here. The test support is an
  in-process fake of the server, whose way to write messages `Receive` follows.
* How `wait_for_sequence_message` set by a late error (`message_buffer.rs:107`), two
  `start()` calls on several threads (`mod.rs:166`) and a WebSocket left open by a
  failed connect (`connection.rs:195`) end: the code promises nothing that could be
  stated, see the notes in `PROJECT.json`.

## Plan

1. `Receive` with its parsers as recursive functions, so that what is dispatched can be
   proved to be what was sent.
2. `Uploads` and `Invocations` composed, once ids are kept apart across runtimes.
