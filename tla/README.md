# KWIK: a TLA+ model of the multi-path transport

KWIK (`src/kwik`, Go) is a transport over QUIC with several paths: a client
dials one server, that server asks the client (`AddPath`) to open paths to
secondary servers, and the client presents what arrives on all of them as one
in-order stream per KWIK stream. This directory holds TLA+ modules translated
from the code, the TLC configurations that check them, and TLAPS proofs.
`PROJECT.json` says, per definition, which lines it models.

## 1. Inventory

Sizes are lines of Go without tests. "Live" code is constructed by
`kwik.Dial`/`Listen`; some files are only constructed by tests.

| Part | State | Operations | What is hard | What makes it correct |
|---|---|---|---|---|
| Stream buffer `presentation/stream_buffer.go` (1.4k) | chunks by offset, read and write position, used size, gaps, ready signal; a mutex per field | Write, Read, WaitReady, maintenance, Close | every operation is a sequence of critical sections; duplicates, reordering | bytes delivered once and in order, no lost wake-up, charge within capacity, exact gaps |
| Receive window `presentation/receive_window_manager.go` (1.1k) | allocations per stream, total and used size, backpressure flag | allocate, release, slide, resize, tickers | two mutexes, the slide frees bytes nobody released | used within total; no byte leaks |
| Backpressure `presentation/backpressure_manager.go` (0.9k) | per stream and global flag | activate, deactivate, force, clean-up | two mutexes handed over around callbacks | a high ratio is raised; no lock cycle |
| Presentation manager `presentation/data_presentation_manager.go`, `resource_reservation.go`, `resource_gc.go` (2.1k) | buffers by stream, reservations | create, remove, read, write, collect | creation is a transaction over three managers; the collector works on stale lists | allocations have owners, reservations end |
| Path manager `transport/manager.go`, `path.go` (1.3k) | active and dead paths by id, a path's state, id, primary flag, last activity | create, remove, mark dead, health check | maps keyed by an id that changes; checks without the mutex | one primary, losses are noticed |
| Session: establishment `session/client.go`, `server.go`, `session_state.go`, `auth.go` (part of 6.4k) | state machine of a session, role, control stream | Dial, Accept, authentication, start of the managers | two machines that wait for each other over an unframed stream | neither call hangs for a reason at its own end |
| Session: paths (the same files) | paths, pending path ids, response channels | AddPath, answers, integration of a path | request and answer over an unframed stream, timeouts, panics, closes | a confirmed path is an integrated one; calls return |
| Session: streams (the same files, `stream/client_stream.go`, `stream/server_stream.go`) | numbers, streams, buffers, allocations | open, accept, read, write, cancel, close; Close of a session | an open is five steps over four managers; waits under a mutex; Close against all of it | nothing leaks, Close returns |
| Heartbeats `control/heartbeat_system.go`, `session/heartbeat_*.go` (3.3k) | sequence numbers, pending heartbeats, intervals | send, answer, timeout, stop | an answer racing its timeout and its own entry; two mutexes held across calls | an answer is heard, every heartbeat settles, loss is counted |
| Health `session/health_monitor.go`, `health_tracking.go` (1.8k) | score and status per path | update, evaluate, failover callback | tickers against updates and callbacks | status follows the measurements |
| Flow control and resources `session/flow_control_*.go`, `resource_manager.go`, `simple_window_manager.go` (2.3k) | windows of both ends, queue of updates, stream slots | update, reserve, release, clean up | reordered updates, full queues | the window never shrinks below what was sent |
| Errors and recovery `session/error_*.go` (2.6k) | circuit breakers, strategies | classify, retry | nested retries | bounded attempts |
| Offsets `data/offset_coordinator.go`, `multi_source_offset_manager.go`, `client_write_router.go` (1.5k) | next offset, reservations, gaps per stream | reserve, commit, register received data | concurrent writers, a commit shorter than its reservation | ranges never overlap |
| Retransmission `data/retransmission_manager.go`, `backoff_strategy.go` (0.9k) | segments by id, a timer per segment | track, acknowledge, time out, give up, clean up, stop | acknowledgement against timer; timers that outlive their segment | no retry after the acknowledgement, bounded retries, the table empties |
| Aggregation `data/aggregator.go`, `secondary_aggregator.go`, `client_aggregator.go` (3.2k) | streams, pending frames | add, map, write through to the presentation layer | several sources, backpressure | what is accepted reaches the buffer |
| Data plane `data/plane.go`, `scheduler.go`, flow and congestion control, loss detection, framing (4.0k) | window per path, queues | send, receive, schedule | arithmetic at the edges of windows and packets | a frame fits its packet, a window is never exceeded |
| Streams `stream/logical_manager.go`, `metadata_protocol.go`, `secondary_handler.go`, `client_stream.go`, `server_stream.go` (2.7k) | ids, mappings, state of a stream | open, accept, map, close | ids from both ends, late mappings | an id names one stream |
| Control plane `control/plane.go` (0.8k) | table of handlers | send, dispatch | - | frames reach their handler |
| Not constructed by the program: ack manager, packet numbering, flow sequencer, dead path handler, offset manager, failover and recovery manager, frame collision, multiplexer, mapping manager (7.9k) | - | - | - | - |

How they meet: `session/client.go` owns the path manager, the presentation
manager, the aggregators and the control stream of the primary path.
`session/server.go` owns one path per client and talks to it through control
frames. Packets of any path go through the secondary aggregator or the data
plane to `WriteToStream` of the presentation manager, which looks the stream's
buffer up and writes to it; the application's `Read` drains the same buffer
and slides the receive window. The buffer reports fullness through a callback
to the backpressure manager. The path manager's health monitor marks paths
dead, and the session's own ticker drops dead objects.

`PROJECT.json` lists under "hazards" what in this code is hard to test.

## 2. Modules

| Module | Models | Role |
|---|---|---|
| `InOrderStream` | - | what a stream promises: bytes arrive in any order, are delivered once and in order |
| `StreamBuffer` | `stream_buffer.go` | the buffer, one action per critical section; implements `InOrderStream` |
| `PresentationCallers` | - | the goroutines and streams that the next three share |
| `ReceiveWindow` | `receive_window_manager.go` | the window's operations, as steps of a goroutine |
| `Backpressure` | `backpressure_manager.go` | the same for backpressure |
| `Presentation` | `data_presentation_manager.go`, `resource_reservation.go`, `resource_gc.go` | composes both with creation, removal, use and collection of streams |
| `PathSetup` | - | what AddPath promises: a call ends once, and well only for an established path |
| `PathManager` | `transport/manager.go`, `path.go` | the client's paths and the health monitor |
| `Session` | `session/server.go`, `session/client.go` | AddPath end to end, composed with `PathManager`; implements `PathSetup` |
| `OffsetCoordinator` | `data/offset_coordinator.go` (sending side) | reservations of ranges of a stream |
| `PacketStream` | `stream/server_stream.go`, the packet paths of `session/server.go` and `session/client.go` | a secondary server's stream to the client: writes, packets, retransmission, acknowledgement; composed with `OffsetCoordinator` |
| `Retransmission` | `data/retransmission_manager.go`, `backoff_strategy.go` | the table of segments with its timers and the goroutines that meet there |
| `ControlHeartbeats` | `control/heartbeat_system.go`, the readers of control frames | heartbeats of the primary path at both ends |
| `Establishment` | `session/client.go`, `server.go`, `session_state.go`, `flow_control_manager.go` (AddPath) | Dial and Accept against each other, up to the initial state of `Session` |
| `ClientStreams` | `session/client.go`, `resource_manager.go`, `stream/client_stream.go` | the streams of a client's session, their resources, Close |
| `ServerStreams` | `session/server.go`, `stream/server_stream.go` | the streams of a server's session as users of locks, Close |
| `SessionStreams` | - | composes the two over their connection |
| `*Proofs` | - | theorems and proofs of eight of the modules (section 4) |
| `MC*` | - | instances for TLC |

### StreamBuffer

A goroutine that is inside a call has a pc (`writer`, `reader`, `cleaner`);
each action is one critical section of the code, taken under the mutex the
code takes there. A byte is named by the offset the peer wrote it at. A chunk
keeps the offset of its first byte (`base`) next to the key it is stored at,
so that "the right bytes under the right key" is something the model can get
wrong: `Split` (a clean-up cutting a chunk at the read position) changes both.
A write that has stored its chunk takes the read position (`WriteLook`) and
searches the chunks for it (`WriteProbe`) in two critical sections, between
which the reader may move on.
Two mutexes are modelled as held across another acquisition (`GapsFree`,
`ChunksFree`), because the two orders in which the code takes them cycle.
`lastRead` is what the last Read gave the application, and the refinement maps
it, the read position and `Received` (read, stored, or in the hands of a Read)
to `InOrderStream`. One application goroutine reads a stream, and it alone moves
the position, so that what its own call reads of it is one step with what it
does with it. `Close` may come at any point and clears one field after the other
(`closer`), with operations under way going on in between.

### ReceiveWindow, Backpressure, Presentation

The managers keep a small pc per goroutine (`windowAt`, `callAt`) for the
points at which they let a mutex go inside a call; the presentation manager
keeps its own (`thread`). A call is a step of the manager plus the continuation
of the caller, so that any other goroutine runs in between. `buffersMutex` is
held from the check of a creation to its end (`HoldingBuffers`). Time is not
modelled: a reservation may expire and an inactive stream may be forgotten at
any moment, the collector may take any stream for an idle one. What a goroutine
still keeps in its locals when only its return is left is erased at once
(`At`): two states that differ in it have the same behaviours. `RemoveBegin`
and `CreateAllocate` do several things under `buffersMutex` at once: the map of
buffers is only looked at with that mutex, so nobody can come in between.

### PathManager, Session

A path object is named by what it was made for: the first dial or the AddPath
call. The code's maps are keyed by an id, and `SetID` gives a secondary path
another id than its key: `ID`, `Found` and `renamed` are exactly this. Of the
two maps `activePaths` and `deadPaths` only the first is a variable, for
every path that leaves one enters the other. `old` is the set of paths whose
`lastActivity` was set longer ago than `DeadPathTimeout`: nothing refreshes it
when a path is used, so any active path may get there. Both health checks, the
manager's and the session's own, read a path without the manager's mutex and mark
it in a later step (`CheckPath` and `MarkChecked`, `SweepPath` and `MarkSwept`),
by an id that `SetID` may have replaced meanwhile. The third reason to mark a
path, too many errors, is no condition of the model: only tests count errors.

The control stream has no framing: a `Read` returns what has arrived, and what
parses is the last frame of it, or nothing. `ReadRequest` and `ReadResponse`
take some frames off the stream and handle the last one or none. On the server
the steps of a call follow the code: the request is written, then the path id
recorded, then the channel registered, so that an answer may come before any of
them. The timeout may pass at any time. The reader looks a channel up under a
mutex and sends to it without: `reader` holds the call in between. On the
client the handler goes through dial, SetID, control stream, authentication and
integration, each of which may fail when the connection is down (and the dial,
the opening of the stream and the authentication for reasons of the far end).
A response is a call and whether it is a success; `AfterAnswer` has both branches
of `AddPath`, the refusal included, although the client's refusals carry no path
id and never reach a channel. Connections are lost at any time, `Close` comes at
any time the code's mutexes allow it: the server's waits for its calls, the
client's cancels its context, lists the active paths and closes one after the
other (`closer`, `closing`).

The initial state is an established session with its primary path
(`Establishment` leads there). `PathWindows` says whether flow control makes a
window per path: with the default configuration the authentication of a
secondary path waits for good inside flow control's `AddPath`, as `Dial` does
(see `dial_returns`). The runs of `Session` set it to FALSE and so describe the
code behind that wait; the theorems hold for both values.

### OffsetCoordinator, PacketStream

The coordinator's operations are operators on its state, since a writer holds
its stream's mutex from the reservation to the commit; the module keeps the
ranges as a function on the numbers of the reservations, in whose order the
code goes through its list. `PacketStream` follows a frame from `Write` to the
client's stream buffer. A frame is named by its position in the order of the
accepted writes, a packet by its position in the order of the sends. Neither
QUIC stream is framed: `stream` is a sequence of units (a packet's header, its
frames), a Read takes some of them and may cut a header, and only a packet at
the front of a Read is parsed. The stream's mutex is held for a whole call, so
a call is one action; the retransmission loop, which holds it while it goes
over the table, is one action per packet (`pass`), for the client reads while
it writes. `ReadAck` looks the table up without the mutex: a step that writes
the table meanwhile may end the process (`crashed`), as a concurrent map access
does in Go. `Write` takes the coordinator's place for a frame; the offset of
`SetOffset` is only used when the coordinator refuses, whatever the comment at
`server_stream.go:350` says. A Write that `Stop` overtakes behind its check
reserves on a new, empty state (`OffsetsOf`). What the client's aggregator
refuses is a choice, except an empty frame, which it always refuses. The
initial state is an open stream on a running session. QUIC flow control, which
may block a send with the mutex held, is left out.

### Retransmission

A segment is the object that one call of `TrackSegment` makes; the table maps an
id to at most one. A timer knows an id, not an object: it handles whatever the
table has under that id when it fires (`handler`), and a timer that was replaced
without being stopped goes on (`strays`). `segmentsMux` and a segment's mutex
are variables (`tableLock`, `segmentLock`) because some goroutines take the one
with the other held; everything else under a mutex is one action. The three
loops over the table (`UnregisterPath`, the clean-up, `Stop`) go through it one
segment at a time (`sweep`), for they take each segment's mutex.

### ControlHeartbeats

A heartbeat is its sequence number. `SendControlHeartbeat` holds the mutex of
its state from the number to the entry in `PendingRequests`, writes in between,
and takes the system's mutex for the frame's id; each of these is a step
(`routine`). The server answers each heartbeat that its Read lets it parse, the
client's reader hands the answer over (`reader`), the check for timeouts may
come at any moment. `StopControlHeartbeats` takes the two mutexes the other way
about; once it has returned, nobody finds the session any more (`Registered`).

### Establishment

Each end has a position in its call (`at`) and a state (`SessionStateManager`).
The control stream is a sequence of frames of which a Read takes some; what
parses is the last. Of the managers that both ends start, flow control is the
one followed inside, since `AddPath` holds `pathWindowsMutex` when it calculates
the first window; its insert, the first window update, its unlock and the
return of the call are steps of their own. What `Dial` starts after it
(`client.go:422-438`) has no way to fail when it is started for the first time.
`pathWindows` is the setting `EnablePathWindows`: every session of the program
has it set, and the model starts with either value to show what is behind the
wait. A frame's content is not modelled: an answer is a success.

### ClientStreams, ServerStreams, SessionStreams

The client's `OpenStreamSync` holds `s.mutex` from its first step to its last:
`opener` is where it stands, `Opening` the number it works on; the mutex is free
when nobody opens and Close does not close streams (`MutexFree`).
`AcceptStream` gets a QUIC stream, then a number under the same mutex, then
enters its stream, and looks at the session's state in none of the steps. The
resource manager's entry for a session is found, emptied and deleted in three
steps by its collector; the map is read without its mutex, so that a write may
end the process (`crashed`). The server's streams are modelled as holders of
locks: `Read` keeps the stream's mutex until data come, `Write` asks the session
for its role under the stream's mutex, Close of the session holds the session's.
`SessionStreams` couples the ends by the connection (`link`) alone. `credit` is
what the server's QUIC lets the client open: neither end closes a QUIC stream,
so it never grows. `OpenStreamSync` of QUIC ends with a stream, with the loss of
the connection or with the caller's context (`CancelOpen`). `CancelStream` is one
step for `CancelRead` and `CancelWrite`, and a half-closed stream counts as open:
of a stream's state the model keeps what Close and the collector ask, whether it
is closed. A server's `Read` gives its mutex back and takes it again to look at
`remoteStreamID` when its data are there: in `EndRead` the mutex is free, and the
second hold waits for nobody.

## 3. What the runs check

Every run but `dial_returns` ends without an error in the stated bounds;
`dial_returns` shows a comment that the code does not keep (see "findings" in
`PROJECT.json`).

| Run | Instance | Shows |
|---|---|---|
| `stream_buffer` | 2 writers, 1 maintenance, 1 reader; packets of 2 and 1 bytes, capacity 2, reads of 1 or 2; at most 2 of the writes, the clean-ups and Close at a time | in-order delivery (refinement), charge within capacity, consumed chunks are read, no lost wake-up, exact gaps |
| `stream_buffer_live` | 1 writer, 1 maintenance, packets of 1 byte, capacity 2 | what is stored from offset 0 on is read; late backpressure is withdrawn |
| `presentation` | 2 goroutines, 2 streams, a window of 3 resized to 2 and back, buffers of 2, 2 reservations | the accounting of the window, raising of global backpressure, owners of allocations |
| `session` | 2 calls for one address, 1 lost connection, the primary may age | type, one primary, secondary is not primary, no failed id is pending, refinement of `PathSetup` |
| `session_live` | 2 calls, connections lost by the Close of either end, no ageing | every call returns; the loss of the primary is noticed |
| `packet_stream` | 2 writes, empty or of 1 byte, packets of at most 3, 1 retransmission, 1 lost connection | type, disjoint frames, packing, the table of pending packets, no refused frame is acknowledged |
| `packet_stream_live` | 1 write, 2 retransmissions, `SetOffset` | a written frame leaves the buffer, a packet leaves the table |
| `retransmission` | 2 segments under one id, 1 acknowledgement, 2 handlers, 3 attempts | no retry after the acknowledgement, bounded retries, the table empties |
| `control_heartbeats` | 3 heartbeats | an answer is heard unless its heartbeat timed out, every heartbeat settles, a lost connection is counted |
| `establishment` | both values of `EnablePathWindows` | Dial, if its machine goes on, returns or waits for a mutex it holds itself, whatever the server does; so does Accept, once the client has opened its stream or the connection is lost |
| `dial_returns` | violation; `EnablePathWindows` as in every session | Dial waits for a mutex that it holds |
| `session_streams` | 2 numbers, 1 stream at a time in the resource manager, a stream limit of 1 | nothing leaks, a closed session holds only what cancelled streams left, Close waits for nothing but the other end, what was written is flushed |

More statements, most of them from comments, are written down beside the
properties and refuted by TLC, without a run of their own. Each is checked by
naming it in the configuration of its module's run.

| Statement | Module | What the code does |
|---|---|---|
| `NoLockCycle` | `StreamBuffer` | a write and `OptimizeBuffer` wait for each other |
| `DrainedIsFree` | `StreamBuffer` | an ignored duplicate leaves its charge |
| `ReservationsReleased` | `Presentation` | early returns of a creation leave its reservation |
| `NoBackpressureCycle` | `Backpressure` | activation and deactivation wait for each other |
| `ReaderSurvives` | `Session` | an answer that meets its timeout ends the reader of control frames |
| `RefusedIsRemoved` | `Session` | a path refused after `SetID` stays active |
| `UsedPathStays` | `Session` | a path in use is marked dead |
| `AckedIsDelivered` | `PacketStream` | a packet that a Read cut is acknowledged |
| `AckIsNotStuck` | `Retransmission` | a handler and an acknowledgement take the two mutexes the two ways about |
| `StopIsFinal` | `Retransmission` | segments are tracked and retried behind Stop |
| `StopIsNotStuck`, `RoutineEnds` | `ControlHeartbeats` | Stop and the routine wait for each other; the routine waits on a stopped timer |
| `AcceptAlwaysReturns` | `Establishment` | Accept waits for a session that the closed listener dropped |
| `AnswerIsReadAlone` | `Establishment` | a Read merges the answer with the first window update |
| `CloseIsNotStuck` | `SessionStreams` | Close waits for an open behind the stream limit, or a Read behind the peer |
| `WrittenIsSent` | `SessionStreams` | a server that reads on after its answer holds the answer back |
| `ClosedHasNoStreams` | `ClientStreams` | an AcceptStream that Close overtakes leaves its stream in the closed session |
| `OpenIsAccounted` | `ClientStreams` | the collector takes the resources of streams in use |

The bounds. Two packets of different length and a buffer smaller than their
sum make every branch of a write happen: room from consumed bytes, a refusal,
a duplicate, a chunk cut by the clean-up. A third writer adds no new pair of
adjacent critical sections, and the proofs hold for any number. Two goroutines
in the presentation layer suffice for each pairwise interleaving of its
operations; a window of 3 units with buffers of 2 makes the second allocation
shrink or fail. The limit `MaxStreams` is 2 with two streams, so its refusal
does not occur in the run; the window refuses first. Two calls for one address
are what shares an entry of `pendingPathIDs`; `MaxFaults` bounds how many paths
get old or lose their connection to the network, in the safety run one: either
is enough to take the primary away, and a Close or a refused path counts
towards it. `Ageing` says which paths may get old, here the primary. In the liveness run the primary is lost by
the server's Close or the client's, which leave it as the network would; it
leaves ageing out: a path that ages leaves `activePaths` as well, so it could
only help `LossIsNoticed`.

Two writes make two packets or share one, so that a Read can end between them or
in either; an empty one is what the coordinator and the aggregator refuse, and
one retransmission tells "once more" from "given up". `SetOffset` is
left to the liveness run: it changes nothing while the coordinator runs, and
the proofs cover it in general.

Two segments under one id are what a timer can mistake for each other, and two
handlers are what can be at one segment at once; a third attempt tells the retry
from the giving up. Three heartbeats let one be answered, one expire and one be
on its way behind them. Two numbers with room for one stream in the resource
manager and in the peer's limit make both refusals, the wait for credit and an
open or accept that Close overtakes happen; `LoseConnection` and the collector
come at any time.

Deadlock is not checked: a stream without packets, a session after both Closes
and the lock cycles of the findings do stop.

Fairness. In `StreamBuffer` a call that has begun goes on, the application
keeps reading and the maintenance ticker ticks. It is strong because a mutex
may be taken by others again and again and Go's mutexes do not starve a waiter.
Nothing is assumed of new packets or of the reader's timeout. In `Session` a
call that was made goes on (its timer runs), and the health monitor's loop
comes round to the primary path and finishes its check; nothing is assumed of
the client, the network or the reader. In `PacketStream` the flush timer fires,
the retransmission loop ticks and comes to every packet, and a packet grows old;
it is strong because the mutex is taken by others in between. Nothing is assumed
of the network, the client, its acknowledgements or further writes. In
`Retransmission` a handler, an acknowledgement and a sweep that have begun go
on, the clean-up's ticker ticks and gets the table's mutex, and a segment that
stays in the table is found stale by some sweep (strong: others take the mutexes
in between); nothing is assumed of timers, acknowledgements or calls. In
`ControlHeartbeats` the routine goes on whenever its mutexes come free again and
again, an armed timer fires, and a heartbeat that nobody answers is late at some
check; nothing is assumed of the connection, the server or the reader. In
`Establishment` the specification has no fairness: `EstablishmentEnds` assumes of
each call only that its own machine goes on, its timeouts included
(`DialGoesOn`, `AcceptGoesOn`). Accept waits for the control stream without a
timeout (`path.go:312`), so a client that stays connected and opens none holds it
for ever; the property begins behind that wait and says so. `dial_returns`
assumes both machines. In `SessionStreams` a call that has begun goes on; Close and the flush are
strong, because Go's mutexes do not starve a `Lock` that waits for readers, and
the worker of the resource manager sees at one of its rounds that it is to stop.
Nothing is assumed of the network, the application or the other end, nor that a
caller ever cancels its open.

Some properties name what they leave out, each a hazard that no property of a
run covers: `WindowIsKept` and `NoNewOrphan` the collector that works on a stale
list, `SegmentsSettle` the lock cycle of a handler and an acknowledgement
(`AckIsNotStuck` refutes its absence), `CloseEnds` a Write and a Close that wait
for each other and a Read or an open behind which Close waits (`CloseIsNotStuck`),
`EventuallyRead` the cycle of a write and `OptimizeBuffer` (`NoLockCycle`).
`PendingIsNotFailed` is about an entry that a failed call would leave, not about
the entry of a live call that a failing one deletes.

## 4. What is proved

All theorems hold for every value of the constants that the modules' ASSUMEs
allow: sets of goroutines, packets, sizes, calls and addresses of any size.

`StreamBufferProofs` (assumptions `PacketsAssumption`: packets are not empty
and a retransmission keeps the segmentation; `SizesAssumption`):
`TypeCorrect`, `UsedBounded`, `RoomIsRead`, `NoWakeupIsLost` and `Refinement`
(Spec => ImplementsInOrderStream). The inductive invariant adds to the checked
ones that a chunk's key is the offset of its first byte, that every chunk is the
tail of a packet (so no two overlap and at most one holds a position), that the
reader's snapshot is the read position until it advances and its bytes were
taken from there, that a cleaner's position is not past the read position, and
that the ready flag is set whenever the token is in the channel. A writer that
looks for data at a position the reader has left owes nobody a signal
(`WillWake`): its chunk was stored before the reader looked last. Without the
second a clean-up could merge two straddling chunks; without the third the
reader could advance over bytes it did not take.

`GapsAreExact` has an invariant of its own on top (`GInv`): the write position
is never ahead of the chunks, that is, it is behind the reader or some stored
chunk ends there or beyond, and so it will be when a writer between its chunk
and `WriteExtend` has moved it (`TopReached`). Without it the bytes behind the
last chunk would be missing and in no gap. The proof takes the rebuilt map apart
at a missing byte: the least stored key behind it and the greatest before it
bound its gap, and since chunks end in the order of their keys (`EndsAscend`)
no other chunk reaches into it. That a set of naturals has a least element comes
from the library's well-founded orders (`LeastOf`, `GreatestOf`). A clean-up
then changes chunks and gaps below the read position only (`Steady`).

`PresentationProofs` (assumptions `PresentationAssumption` and those of its two
managers; the reservation ids are a finite set, as `maxReservations` bounds
them): `TypeCorrect`, `UsedFitsWindow`, `NothingLeaks`, and the action properties
`RaisesAreNotLost`, `NoOrphanIsMade`, `WindowsAreKept`. The managers are proved
first, on their own: a call into the window that has not given an allocation
back carries no bytes (`CarriedBySpace`), so that the used size is the sum of
the allocations and of what releases under way carry; a deactivation that is
about to lower the global flag holds `streamMutex`, so it is alone and the ratio
it saw is still low (`LoweredWhenLow`), and no activation is undone by it. Each
step of the layer is then a step of one manager, of both, or of neither. The
layer's own part: a goroutine in a call into the window waits for it
(`CallerWaits`), `buffersMutex` has one holder (`OneHolder`), and a stream whose
window a removal or a rollback is about to give back has no buffer, since no
creation gets in between (`Emptied`): without the last two a release could hit
the window of a stream that was just created again. Sums over streams and
goroutines are counted unit by unit, as the cardinality of a set of pairs
(`Total` in `PresentationCallers`), because the provers cannot do induction over
a fold; `TotalExcept` says how one changed entry changes the sum.

`EstablishmentProofs` (no assumption; both values of `pathWindows`):
`TypeCorrect`, `EveryTransitionIsValid`, `HandshakeKeepsOrder`, `AnswerIsFirst`,
`NoSessionIsEstablished`. No run names these properties; they hold on the
instance of `establishment`. The invariant says what the session of an end is at
each point of its call, the server's possibly closed by the listener once it is
registered (`ClientFollows`, `ServerFollows`), that nothing is on the control
stream that its sender has not got to and that the answer stays at the head of
what a client that waits for it will find (`StreamFollows`), and that the mutex
of flow control is held exactly between its lock and the end of `AddPath`
(`MutexFollows`). With `pathWindows` nobody can then pass the second lock: the
counterexample of `dial_returns` is not one unlucky schedule, no schedule ends
with a session. `HandshakeInOrder` speaks of a server that has not answered yet,
for a server that failed does not show whether it had.

`SessionProofs` (assumptions `PrimaryAssumption`, `SessionAssumption`: names of
calls, the primary path and `None` differ): `TypeCorrect`, `OnlyOnePrimary`,
`SecondaryNeverPrimary`, `PendingNeverFailed`, `SessionImplementsPathSetup`
(Spec => ImplementsPathSetup). The inductive invariant says that a request is on
its way or in hand at most once and before its path exists (`RequestsOK`,
`HandlerOK`, `UnmadeOK`), without which the same path object could be created
again and become primary after it was integrated; that every carrier of a
success, an answer on the stream, the reader's hand, a full channel or an
answered call, names an integrated path (`AnswersOK`, with `Honest` for the
responses whose flag is set), which is what makes the
confirmation step of the refinement possible; and that an entry of
`pendingPathIDs` belongs to a call for its own address that has not failed
(`PendingOK`): the failing call deletes the entry whoever made it, so its own is
gone. The step lemmas treat one conjunct each, with one step per action.

`PacketStreamProofs` (assumption `PacketAssumption`: lengths and offsets are
naturals): `TypeCorrect`, `FramesNeverOverlap`, `FramesPackedOnce`,
`PendingSettled`, `NoRefusalAcked`. The inductive invariant adds that no kept
reservation ends behind the next offset (`RangesOK`), so that the loop over the
reservations never finds one in the way and a new frame begins where all
earlier ones have ended (`FramesBelow`); that every unit on its way belongs to a
packet that was sent (`UnitsOK`); and that whatever carries an acknowledgement,
the client's hand, the control stream or the server's look-up, carries one of a
packet that was delivered or cut (`AckingOK`, `AcksOK`), which is why a deletion
from the table is always of an acknowledged packet.

`RetransmissionProofs` (assumption `RetransmissionAssumption`: ids and paths
are given, names differ, at least one attempt): `TypeCorrect`,
`AckedIsNotRetried`, `RetriesAreBounded`. The invariant says who holds a mutex
(`LocksHaveOwners`, part of the type): a handler at a retry holds its segment's,
which is why no acknowledgement comes between the check and the retry; and that
a retry is counted before it is made (`Counted`), which bounds the retries
although any number of timers may be handled under one id.

`ControlHeartbeatsProofs` (`HeartbeatAssumption`): `TypeCorrect` and
`EveryAnswerIsHeard`. Both
directions of the control stream keep their order, and everything answered is
older than what is still to be answered (`InOrder`), so that a number is on its
way at most once; what is on its way is pending or expired, but for the one
heartbeat whose entry the routine is about to make (`CarriedOK`, `SendingOK`).
An answer that finds no entry can then only be of an expired heartbeat, for the
reader waits for the mutex that the routine keeps until its entry is made.

`SessionStreamsProofs` (`StreamsAssumption`, `LimitAssumption`): `NothingLeaks`,
`ClosedHoldsNothingElse`. The invariant: numbers are given out once, and nobody
holds anything under a number that was not given out (`Numbered`); a closed
stream and an accepted one hold nothing (`HoldsNothing`); Close takes the table
over when no open is under way and none begins behind it (`ClosingInOrder`).
For both ends together: `TypeCorrect`, `EachIsAcceptedOnce`, `LimitHolds`,
`TimersAreSet`, `ServerClosesInOrder`, of properties that no run names (TLC
checked them on the instance of `MCSessionStreams`). What the server's end needs
of the client's is that a stream, once opened, is never again without a state nor
taken for one that was accepted (`Remembers`), which rests on `Numbered`; and that
only an open that gets its QUIC stream spends credit (`Spends`), so that the
credit left and the streams opened are within the limit (`CreditCounts`). The
open that fails after it spent the credit loses it, hence `<=` and not `=`.

Each inductive invariant was checked with TLC on the instance of its module's
run before it was proved.

Every invariant and every action property that a run checks is a theorem. Only
model-checked are the liveness properties (`EventuallyRead`,
`BackpressureWithdrawn`, `EveryCallReturns`, `LossIsNoticed`,
`BufferedIsFlushed`, `PendingSettles`, `SegmentsSettle`, `HeartbeatsSettle`,
`LossIsCounted`, `EstablishmentEnds`, `CloseEnds`, `FlushedUnlessRead`): they
rest on fairness and so on ENABLED, which is beyond the prover.

## 5. What is not modelled, and the plan

See "components" in `PROJECT.json` for every part. In modelled components:

- With the default configuration Dial, Accept and the authentication of a
  secondary path do not return (`dial_returns`). Everything that comes after
  describes the code with `EnablePathWindows` off.
- The server's `OpenStreamSync` (the streams that the client's `AcceptStream`
  may find are a choice); a client's `Read`, which holds only its own stream's
  mutex and gives up after 3 s. Close ends the accept channel, on which nothing
  is ever sent, so an `AcceptStream` after it may return a nil stream
  (`client.go:566`).
- The data of the primary path: for streams of the application the ingestion is
  skipped (`client.go:536`). Close does not stop the presentation manager.
- `RemovePath`: the server's always fails, since its path manager knows only the
  primary path, and the client's handler is empty. `SendRawData` for a pending
  path finds it unhealthy (`server.go:2131`) and takes the primary.
- The windows of flow control: their only callers are demonstrations. The
  heartbeat manager of the session: nothing calls its `onHeartbeatReceived`. The
  health monitor: a change of its interval replaces the ticker that its
  goroutine waits on, so checks end there, and no callback for failover is
  registered. Errors and recovery: only tests construct it.
- Hazards of parts not modelled: the lock order of `GetRoutingMetrics`
  (`data_presentation_manager.go:1427` against `:694`), `Stop` with `dpm.mutex`
  held (`:592`), the look-up and creation of `RouteDataToStream` (`:1198`),
  `LastActivity` that only a creation sets (`resource_gc.go:315`), and the ticker
  that `SetHealthCheckInterval` replaces (`transport/manager.go:548`).

The plan, in its order:

1. **Aggregation** between `PacketStream` and `StreamBuffer`: the secondary
   aggregator refuses a frame while its stream is under backpressure
   (`secondary_aggregator.go:1030`), the frame that would fill the gap included;
   the receiving side of the offset coordinator (gaps). At present what the
   aggregator refuses is a choice in `PacketStream`.
2. **Logical streams and metadata**: ids from both ends and the mapping of a
   secondary stream to the stream it feeds.
3. **Presentation**: Start and Stop, routing metrics, dynamic sizing; the path
   manager's `SetHealthCheckInterval`.
4. **Theorems**: that `PacketStream` implements an abstract exactly-once table of
   packets.
5. **Health**: the status changes of a path and their thresholds.

The number of runs is kept to about a dozen: the runs that show a single
finding give way to those of new components.

What stays out: pure I/O, logging, metrics and configuration; code that only
tests construct; generated code.
