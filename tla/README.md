# bevy_quicsilver: models, model checks and proofs

bevy_quicsilver wraps `quinn_proto`, a QUIC state machine without I/O, into
components of the Bevy ECS.  The library adds to quinn everything around the
state machine: which entity a connection lives on, who routes datagrams to it,
when it is polled, what is buffered when quinn is full, what observers are told,
and which certificates are trusted.  This directory models that layer in TLA+,
model-checks it on small instances with TLC, and proves the main safety results
for all instances with TLAPS.  quinn itself, rustls, Bevy's scheduler, the
network and the disk are modelled from the way `src/` uses them.

All paths below are relative to the repository; line numbers are of its files
under `src/`.

## 1. Inventory

### Parts of the system

| Part | Source | State | Operations |
|---|---|---|---|
| Endpoint | `endpoint.rs` | quinn's endpoint behind a mutex (`Arc<Mutex<..>>`, shared with the driver), the receiving end of the driver's channel, the map `connections: ConnectionHandle -> Entity`, `self_entity` | `new`, `connect_with`, `accept`, `handle_event`, `knows_connection`, `connection_inserted`, `open_connections`; component hooks `on_insert`/`on_replace`; system `poll_endpoints` |
| Socket driver | `socket.rs` | one async task per Endpoint: socket, receive buffer, sending end of the channel | `poll`: receive a batch, split it, route each datagram through quinn's endpoint with the mutex held, send events into the channel; ends on an I/O error or a closed channel |
| Connection | `connection.rs` | quinn's connection, its handle and the entity of its Endpoint, `pending_streams`, `pending_datagrams`, a timer, a transmit that could not be sent, an I/O error | hooks of `Connecting` and `Connection`; `close`, streams, datagrams; system `poll_connections` |
| Streams | `streams.rs` | the write buffer of a stream (`pending_streams`), quinn's stream on both sides | `write`, `write_all`, `write_chunk(s)`, `write_all_chunks`, `finish`, `reset`; `read`, `read_chunk`, `read_chunks`, `stop`, `received_reset` |
| Datagrams | `connection.rs` | `pending_datagrams`, the transmit the socket refused | `send_datagram`, `send_datagram_wait`, `flush_pending_datagrams` when quinn unblocks |
| Incoming | `incoming.rs` | the `Incoming` component, a queue of responses | system `handle_incoming_responses`: accept, refuse, retry, ignore |
| Schedule | `plugin.rs`, `lib.rs` | Bevy's: stages, deferred commands, observers; `KeepAlive` | `poll_endpoints` in `PreUpdate`; `handle_incoming_responses` then `poll_connections` in `PostUpdate`; `remove_or_despawn` |
| Trust on first use | `crypto/tofu.rs` | a map from server name to certificate entry behind a mutex, a directory with one file per name | `verify_server_cert`, `store_certificate`, `retrieve_certificate`, the constructors `new`, `new_with_certs`, `new_empty`, `new_empty_with_certs` |
| Crypto configuration | `crypto.rs` | the two verifiers of a `FallbackVerifier` | constructors, `with_fallback_verifier`, `with_trust_on_first_use`, `verify_server_cert` |

### How the parts interact

- The **driver** and the **schedule** share quinn's endpoint through a mutex, and
  a channel.  The driver takes the mutex before it reads the socket, routes
  datagrams to handles and sends the events, and lets go when the socket would
  block (`socket.rs:148-170`); `poll_endpoints` holds it while it empties the
  channel.  Everything else about a connection happens on the schedule's
  side.
- `poll_endpoints` finds the entity of a handle in `connections`.  That map is
  written by the **hooks** of `Connecting` and `Connection` (on insertion), by
  `handle_incoming_responses` (on accept), and by `poll_endpoints` itself when it
  finds another connection on the entity.  Nothing else removes from it.
- quinn frees a handle when it is told that the connection has drained, from
  `poll_connections` (the connection's own endpoint event) or from
  `poll_endpoints` (on behalf of a connection that is gone), and gives it to a
  later connection.  The two books, map and slab, are kept by different parties.
- Both systems only **queue** what they want of the world (triggers, removals,
  the `Connecting` to `Connection` step) as commands, applied in order after the
  system.  Observers run then, and may do anything: connect, insert, despawn.
- A `SendStream` writes into quinn what fits and keeps the rest in the buffer of
  `pending_streams`; `poll_connections` flushes the buffer when quinn reports the
  stream writable.
- `send_datagram_wait` hands a datagram to quinn, or keeps it in
  `pending_datagrams` if quinn's buffer is full; `poll_connections` tries them
  again when quinn reports space, in the loop that also transmits.
- The verifier runs inside the TLS handshake, with the store's mutex held from
  the look-up to the last write of the file; a `FallbackVerifier` asks it only
  about what the default verifier rejects.

### What is hard here

1. **Interleaving** of driver and frames, with an event queued for several
   frames while connections are inserted, overwritten, taken, despawned and
   handles are reused.
2. **Deferred effects**: what a system read when it queued a command is old when
   the command is applied, after the observers of earlier commands.
3. **Two owners of quinn's resources**: nobody tells the map, or quinn, that an
   entity was despawned; the peer's next datagram cleans up.
4. **Partial writes** at a boundary of flow control, of a stream's or of the
   whole connection's, and wake-ups that quinn gives only in one of the cases.
5. **End of stream**, which finish, reset, stop, arrivals, and reads that have
   data in hand all race to tell.
6. **Two clocks**: quinn's deadlines count from the moment a datagram was received
   on the driver's task, the timers that serve them add up frame times.
7. **Queues at their limit**: quinn reports space once, for the next packet only,
   and only to who was refused; what waits must be neither lost, nor sent twice,
   nor forgotten.
8. **Coalesced datagrams and errors of others** in one read of the socket, and a
   task that nobody tells when its Endpoint is gone.
9. **Crashes and failed writes** between the four steps that store a certificate,
   expiry, renewal, and clocks that are set back.

The hazards are listed one by one, with their lines, under `hazards` in
`PROJECT.json`.

### What makes each part correct

- *Endpoint, driver, schedule*: no event is without a mapping (the `expect` at
  `endpoint.rs:446`); an event reaches the connection quinn routed it to; a drain
  frees no other connection's handle; a polled connection owns its handle in the
  endpoint it is polled against; a drained connection leaves its entity, an
  abandoned one gets its handle freed; the frame gets out of `PreUpdate`, as long as
  the driver's reads of the socket come to an end.
- *Socket driver*: quinn gets each datagram whole; a system that has locked quinn's
  endpoint finds every event quinn has made in the channel; only the error it
  reports ends the task; the task of a dropped Endpoint ends.
- *Streams*: a stream is a byte stream (`ByteStream`): every accepted byte is sent
  or buffered, once, in order; a reader
  that is told "finished" has read all of it; the end is told before
  `ClosedStream`; the buffer is flushed; the end arrives.
- *Trust on first use*: no two currently valid certificates are ever accepted for
  one name; an entry in the directory is of one certificate; a restart trusts
  what the program trusted.
- *Connection lifecycle*: events reach observers in an order that makes sense,
  each once; a connection that ends says why, and gives its handle back first; a
  closed connection leaves its entity, what there is to send is sent;
  `KeepAlive` is honoured; the deadline of a timer is never in the past.
- *Incoming*: a repeated or late response does nothing to the connection that an
  earlier one has made.
- *Datagrams*: each is in one place or has a reason not to be; they leave in order
  unless one overtakes; what waits is flushed, what is buffered leaves.
- *FallbackVerifier*: what the default vouches for is never pinned.

## 2. Modules

| Module | What it is |
|---|---|
| `EndpointRouting` | Endpoint, schedule, hooks, and the routing part of connections |
| `MCEndpointRouting` | its symmetry sets for TLC |
| `EndpointRouting_proofs` | type correctness and the absence of unmapped events |
| `EndpointOwnership_proofs` | that events, drains, polls and routes find the owner of their handle |
| `ReceiveChannel` | abstract: what the systems may count on of the driver and its channel |
| `SocketDriver` | the driver task step by step, against the systems that share its mutex |
| `MCSocketDriver` | the traffic of its run |
| `SocketDriver_proofs` | type correctness, that `SocketDriver` implements `ReceiveChannel`, that its channel is complete and its datagrams whole |
| `ConnectionLifecycle` | one connection on one entity, from `Incoming` to its removal, and what observers are told of it |
| `ConnectionLifecycle_proofs` | type correctness, and every invariant and action property of that module's run |
| `ByteStream` | abstract: what one direction of a stream promises its two ends |
| `StreamTransfer` | one direction of a connection's streams, writer to reader |
| `MCStreamTransfer` | how much each stream carries in the runs |
| `StreamTransfer_proofs` | type correctness, no loss, no reordering, no hidden end, and that `StreamTransfer` implements `ByteStream` |
| `DatagramQueue` | the datagrams a connection sends, from the application to the socket |
| `DatagramQueue_proofs` | type correctness, no loss, no repetition, no reordering, for the loops of the code and of quinn as recursive functions |
| `MCDatagramQueue` | the sizes of the datagrams in its run |
| `TofuStore` | verifier and certificate store with crashes and failing I/O |
| `TofuStore_proofs` | type correctness, restart consistency, trust |
| `FallbackVerifier` | composes `TofuStore` with a default verifier that is configured anew at every start |
| `FallbackVerifier_proofs` | that the composition keeps the store's promises, and its own |
| `MCTofuStore` | the certificates and verdicts of the run |

An operator with a suffix such as `_Slip` (`WriteAllChunks_Forgets`,
`ReadEnd_Blocked`) is the operator without it with a plausible mistake in it.
`PROJECT.json` pairs each with the property that finds it; no specification uses
them.

`EndpointRouting`, `ConnectionLifecycle`, `StreamTransfer` and `DatagramQueue` are
views of the same systems.  The first has several connections, entities and
Endpoints, and reduces what polling does to what it does to routes; the second
has one of each and goes through `poll_connections` step by step; the last two
look at what that loop does to the bytes of a stream and to datagrams.

Two abstract specifications tie modules together.  `ReceiveChannel` is what
`EndpointRouting` assumes of the driver, in its actions `Receive`, `DriverFails`
and `DriverStops`: that an event is put into the channel while no system has the
mutex, that events keep their order, and that an error is the last thing.
`SocketDriver` is shown to implement it.  `ByteStream` is what an application may
assume of a stream, and `StreamTransfer` is shown to implement it.

### EndpointRouting

One frame goes through the stages of `pc`: `poll_endpoints` (`PreUpdate`), its
commands, `Update` (the application), `handle_incoming_responses`,
`poll_connections` and its commands (`PostUpdate`).  `todo` is what the running
system's query has still to visit, `locked` the endpoint whose mutex
`poll_endpoints` holds, `observing` says that an observer is running in the
middle of the commands.  `reading` are the endpoints whose mutex the driver holds:
from `DriverLocks`, before it reads the socket, over any number of datagrams
(`Receive`), until the socket would block (`DriverUnlocks`) or its task ends.  As
long as that lasts no system gets the mutex; otherwise the driver's actions can
come between any two steps of the schedule.

| Model | Code |
|---|---|
| `connections`, `host`, `receiver` | `Endpoint::connections`, `self_entity`, the channel |
| `slab` | quinn's handles: external, from `connect`, `accept`, `EndpointEvent::drained` |
| `comp`, `connecting`, `held` | the component on an entity, whether still `Connecting`, or in the application's hands |
| `DriverLocks`, `Receive`, `DriverUnlocks`, `DriverFails`, `DriverStops` | `UdpSocketRecvDriver::poll`, `socket.rs:134-177` |
| `LockEndpoint` ... `EndPollEndpoints` | `poll_endpoints`, `endpoint.rs:419-502`, one action per arm |
| `PollDrained`, `PollOrphan`, `PollConnection` | `poll_connections`, `connection.rs:736-887`, as far as routes go |
| `ApplyTrigger`, `ApplyEstablish`, `ApplyRemove`, `ApplyRemoveEndpoint` | the queued closures, and `remove_or_despawn` |
| `Connect`, `InsertConnection`, `RemoveConnection`, ..., `MoveEndpoint` | what an application can do to the components, hooks included |
| `AcceptIncoming` | `Endpoint::accept` from `handle_incoming_responses` |

The events of the channel carry, as a ghost, the connection quinn routed them
to, which is what the properties compare with the connection the code hands them
to.  `onWire` (the peer has seen a datagram of the connection) decides which
handles datagrams can be routed to.

An observer that despawns a connection's entity ahead of the queued step from
`Connecting` to `Connection` makes that step panic (`ApplyEstablish`,
`connection.rs:841`): a panic ends the program, and the properties are about what
comes before.

What an application may do beyond the plain use is the constant `Uses`: act in
observers, put a connection onto an entity that has carried one, take a
connection off and insert it again, replace an Endpoint, move it to another
entity.  The runs and the theorem say which uses they cover.

### ConnectionLifecycle

`pc` goes through the frame as in `EndpointRouting`, with a stage for each of the
steps #1 to #4 of the loop in `poll_connections`.  Responses are handled with
the world to themselves and their triggers run at once; what `poll_connections`
wants of the world is queued in `commands` and applied after it, one observer
(`observing`) after another.

| Model | Code |
|---|---|
| `comp`, `keepalive`, `endpoint` | the component on the entity, its `KeepAlive`, whether its Endpoint exists and knows its handle |
| `should_poll`, `io_error`, `blocked_transmit`, `timeout_timer` | the fields of `ConnectionImpl` |
| `state`, `slot`, `events`, `drainedEvent`, `packets`, `deadline` | quinn's connection and slab: external |
| `RespondInVain`, `Refuse`, `Accept`, `RespondFails`, `EndIncomingError` | the arms of `handle_incoming_responses`, `incoming.rs:188-271` |
| `VisitDrained`, `VisitOrphan`, `Visit`, `EndVisit` | `connection.rs:742-779, 881-886` |
| `Transmit`, `TransmitBlocks`, `TransmitFails` | #1, `connection.rs:794-822` |
| `PollTimeout`, `PanicTimeout` | #2, `connection.rs:687-709` |
| `PollEndpointEvents`, `Poll` | #3 and #4, `connection.rs:827-879` |
| `ApplyTrigger`, `ApplyEstablish`, `ApplyRemove`, `ApplyDespawn` | the commands, `remove_or_despawn` |
| `HandshakeArrives` ... `ResetArrives` | `ConnectionImpl::handle_event`, by what quinn makes of the datagram |
| `Connect`, `Close`, `Send`, `SetKeepAlive`, `Remove`, `RemoveEndpoint`, `Respond` | the application, in `Update` and in observers |

A deadline is "open" (loss, idle) or "close" (the drain period), and `due` once it
has passed.  `timeout_timer` is "current" if it is for the present deadline,
"outdated" if that has moved since; `elapsed` says that the frame times have
added up to its duration, which is independent of `due`.  `told`, `causes`,
`lateKeep` and `fresh` are histories for the properties.

The model has one connection: an entity that has lost it does not get another,
and a connection is not taken off and put elsewhere, both of which are in
`EndpointRouting`.  Observers of a despawned entity are still told (Bevy's
`trigger_targets` does not ask), but they can do nothing to it; the closure that
turns `Connecting` into `Connection` panics if the entity is gone
(`panicked = "despawned"`, `connection.rs:841`).

### StreamTransfer

Bytes are numbered in the order the writer's methods accept them, so that loss,
repetition and reordering are visible.  `write_buffer` is the stream's entry of
`pending_streams`; `credit` and `conn_credit` are QUIC's two levels of flow
control; `conn_blocked` and `writable` are quinn's book-keeping of who is to be
told that it can write again.  The reader's side has what has arrived in order,
what has been read, and how it was told that the stream ended.  One action per
method; `Flush` is the `StreamEvent::Writable` arm of `poll_connections`
(`connection.rs:863-879`).

A stream that has been finished, reset or stopped can still be written to: quinn
looks at the connection's credit before it looks at the stream
(`Writing`), and `send_stream` hands out a `SendStream` of any stream that has an
entry in `pending_streams` (`connection.rs:546-553`).  Without connection credit
`write_all` and `write_all_chunks` then accept the data and buffer what will never
be sent: the mishap `"late"`.  A closed connection is not modelled; the same
methods buffer there too, but no reader is told anything any more.

`mishaps` is a history variable that records the situations in which this code is
known to lose, reorder or hide something (section 5).  The properties say that
nothing is lost, reordered or hidden in any other situation; each mishap is
recorded at the step that commits it, by a condition on that step alone.

As a `ByteStream` a stream is what the application sees of it: how many bytes the
writer was told are written, what was delivered, how the writer left it, and what
the reader was told of the end.  The refinement mapping (`Seen`) forgets the
buffer, quinn and flow control, and maps a stream that a mishap has harmed to the
abstract state of which nothing is promised.

### SocketDriver

One datagram is a number, and a message of the kernel the sequence of its bytes,
so that a wrong split is visible.  `ArriveCoalesced` puts a datagram into the
message before it, as GRO does.  The task's `pc` is at the await of the socket, at
the mutex, reading, handling a batch or sending one event.

| Model | Code |
|---|---|
| `PollReadable`, `ReadableFails` | the wait, and its error, `socket.rs:139-144` |
| `Lock` ... `RecvWouldBlock` | the mutex, from before the first read until `WouldBlock`, `socket.rs:79, 148` |
| `Recv`, `RecvReset`, `RecvFails` | `UdpSocket::receive`: a batch, `ECONNRESET` ignored, any other error, `socket.rs:63-86, 170-173` |
| `Handle`, `HandleInVain`, `NextMessage`, `EndBatch` | the split at the stride and quinn's answer, `socket.rs:69-75, 150-161` |
| `Send`, `SendFails` | the channel, and the end of the task without it, `socket.rs:162-174` |
| `LockEndpoint`, `TakeEvent`, `UnlockEndpoint` | `poll_endpoints` and the other systems that lock quinn's endpoint |
| `DropEndpoint` | the Endpoint removed, by the application or for an error |

Which datagrams quinn has an event for is the constant `Answered`.  In the
mapping to `ReceiveChannel` an event is in the channel from when quinn has made
it: `Send` is invisible, because nobody can lock the endpoint before it.

### DatagramQueue

The application's side (`Refuse`, `SendDatagram`, `SendDatagramWait`,
`ReadDatagram`, `Close`), what arrives (`Acknowledge`, `ChangeMtu`), and the loop of
`poll_connections` (`BeginVisit` to `EndVisit`) as far as datagrams are concerned:
transmits that leave, are refused or fail, and `Flush`, which is
`flush_pending_datagrams` with the outcome of `retain` written as a recursive
function (`Flushing`, one step of it `FlushOne`), as is quinn's search for what a
lower MTU leaves in its buffer (`Fitting`).
quinn's buffer (`outgoing`, `send_blocked`, `unblocked`) is external: a send that
does not fit asks for `DatagramsUnblocked`, and the next packet built gives it.
`fate` records why a datagram will never leave, `mishaps` what may harm order or
progress: a datagram that overtakes or is skipped, one that is larger than the
whole buffer (`"misfit"`), and a fall of the MTU that empties the buffer while a
report is owed (`"stranded"`).

### TofuStore and FallbackVerifier

`Start` and `StartEmpty` are the four constructors.  Each start is given one of the
maps of `Givens`, and which one may change from start to start: a map without any
certificate is `new` and `new_empty`, another the `_with_certs` forms
(`tofu.rs:109-126`).  `given` is the history of what the present run was given.
A certificate is for the names in `Subjects`, which `verify_server_name` checks.  `VerifyKnown` and `VerifyNew` are the accepting
branches of `verify_server_cert`; storing goes through `Create` and three
`Write`s, each of which may fail without stopping the next, as in
`tofu.rs:216-237`, and `Crash` may come between any two.  A file is what each of
its three pieces was taken from; the parser refuses a file that lacks one
(`Whole`).  `unsaved` and `setBack` are the histories that state the promise's
limits: names whose trust the program did not put on disk, because a write failed,
or the directory was thrown away, or the trust came from a certificate that a later
start was not given again (`GivenAnew`); and a clock that was set back.

`FallbackVerifier` adds `vouched`, the names and certificates that the default of
the present run accepts.  `Configure` is a start of the program with any such
default, `FallBack` the `or_else` of `crypto.rs:140-150`; everything else of the
store goes on as before.

## 3. Runs

| Run | Question | Bounds |
|---|---|---|
| `routing_uses` | Is an event ever without a mapping, with acting observers, taken connections and replaced Endpoints? | 2 connections, 2 handles, 2 entities, 2 Endpoints on 1 host, 2 queued events |
| `routing_reuse` | With entities reused and Endpoints moved, by an application that acts in `Update` only: do events, drains and polls reach only the owner of the handle, and do routes lead to it? | as above, 2 hosts |
| `routing_frames` | Under a fair schedule, with sockets that run dry and observers that connect, insert and despawn in between: do drained connections leave, are abandoned handles freed, do frames go on? | 2 connections, 1 handle, 2 entities, 1 Endpoint |
| `lifecycle` | Whatever network, socket, clocks, observers and application do to one connection: are observers told everything once and in order, is every end explained and the handle free by then, are `KeepAlive` and earlier responses respected, does a closed connection leave and a refused transmit go out? | 1 connection, 2 responses per frame |
| `socket_task` | Does the task implement `ReceiveChannel`; are pieces whole, the channel caught up whenever a system looks, arrivals processed, the task of a dropped Endpoint ended? | 5 datagrams (sizes 2, 2, 1, 0, 1) of which quinn answers 3, batches of 2, up to 3 segments, 1 reset |
| `stream_alone` | One stream to the reader's last call, with fairness: is it a `ByteStream`; are bytes lost, repeated, reordered or accepted too late only where a named mishap says so; is the end told first, is the buffer flushed, does the end arrive? | 4 bytes, stream credit 2, connection credit 1 |
| `datagrams` | Is every datagram in one place or lost for a named reason, is order only broken by overtaking and skipping, is what waits flushed, does what is buffered leave? | 5 datagrams (sizes 2, 2, 1, 3, 1), buffer of 3, MTU 2 or 3, 2 packets under way |
| `tofu_restarts` | Does trust survive crashes, failing writes, expiry, renewal, and given certificates and a default verifier that change from start to start, and does the default have the first word? | 2 names, 3 certificates (one of them for one name only), clock 0..2, starts given no certificate or one, no default or one that knows one certificate |
| `routing_reuse_panic`, `routing_replaced`, `stream_sliced`, `lifecycle_clocks` | Counterexamples to what docs and comments say (section 5) | |

Why the bounds are enough for what the runs ask: two connections, two handles
and two entities give every way in which one connection's event, route or handle
can be mistaken for another's, and a queue of two lets a stale event stand before
or behind a fresh one, which is what both overwriting and reuse need.  One
handle in `routing_frames` forces its reuse.  What `ConnectionLifecycle` asks is of
one connection; two responses in a frame are an answer and a duplicate, in either
order, and further ones meet the states these leave.  Four bytes with a credit of two
allow a write that is cut in the middle, a remainder, a flush that is cut again
and another write while the buffer waits; connection credit below the stream's
makes the connection's limit bite first.  Three certificates are one that expires
early, one that outlives it and a renewal that is not yet valid at first; a name
that some starts are given a certificate for, one that never is, and a default that
vouches for a
certificate which the store may have pinned under another default.  Datagrams of
sizes 1 to 3 in a buffer of 3 give one that does not fit beside another but has
smaller ones behind it, one that fits alone, and, with an MTU of 2, one that does
not fit the path any more.  In `socket_task` two full datagrams and a short one can
be coalesced into one message or not, with an empty one and one that quinn does not
answer among them; a batch of two leaves a message in the kernel for the next
read.  Several streams, which compete for the connection's credit, are covered by
the proofs, which are for any number of them.

`MaxResets` bounds how often a peer's port is found unreachable.  `MaxQueued` bounds the channel, which is unbounded in the code: a full queue only
stops the driver, it forces nothing.  `MaxBytes` bounds what a stream carries,
`MaxTime` the clock.

### Fairness

- `EndpointRouting!FairSpec`: strong fairness of `Schedule` only, the steps of the
  library's systems, of command application and of observers returning.  It is
  justified by the application's loop, which calls `App::update` again and again,
  and by the mutex: a system that asks for it gets it at some time if it is free
  again and again.  Whether it is free again and again is not assumed of the
  specification.  It is the condition `SocketsRunDry` of the three liveness
  properties: the driver lets go only when its socket would block, so traffic that
  never leaves a gap keeps `poll_endpoints` waiting at `endpoint.rs:439` for ever,
  and the frame with it.  The driver, the network and the application are not fair:
  nothing need arrive.
- `ConnectionLifecycle!FairSpec`: weak fairness of `Schedule` for the same reason;
  strong fairness of `DeadlinePasses` and `TimerElapses`, since time passes
  however often a deadline moves or a timer is made anew while a connection is
  open, and the last one is reached; strong fairness of `Transmit`, since a socket
  that would block does so only until its buffer has drained.  Weak fairness would
  not do: between two attempts the connection is not transmitting, between two
  frames no timer may run.
- `StreamTransfer!FairSpec`: weak fairness of flushing (`poll_connections` runs
  each frame), of quinn's steps and the network (QUIC retransmits until it
  arrives), and of a reader that reads what there is.  The writer owes nothing:
  it need not finish, nor write again.

- `SocketDriver!FairSpec`: weak fairness of the task's own steps (the executor runs a
  task that was woken; only `ReadableFails`, an error, need not happen); strong
  fairness of `Lock` and of `LockEndpoint("poll_endpoints")`, as the mutex is let go
  of again and again, and both sides ask for it again and again; weak fairness of
  what a system does while it has the mutex, and of the removal of an Endpoint after
  its error.  `std`'s mutex is not fair, but neither side holds it between its
  turns: the task awaits the socket, the systems wait for the next frame.  The
  network need not deliver anything, the application need not drop anything.
- `DatagramQueue!FairSpec`: weak fairness of `poll_connections`, strong fairness of
  `Transmit` (as above) and of `Acknowledge`, since the peer acknowledges or quinn
  finds the packet lost.

Only `socket_task` switches deadlock checking off: the task may have ended, the
Endpoint be dropped and all traffic have arrived.  Elsewhere a frame can always go
on, and a stream can always be read again.  A panic ends the program: `Halted` keeps such a state from
counting as a deadlock.

## 4. Proofs

Proved with TLAPS, for all values of the constants that satisfy the named
assumptions:

| Theorem | Statement |
|---|---|
| `EndpointRouting_proofs!TypeCorrect` | `Spec => [](TypeOK /\ StageInv)` |
| `EndpointRouting_proofs!NeverUnmapped` | for `Uses` without `"reuse"` and `"move"`: `Spec => []EventsAreMapped` |
| `EndpointOwnership_proofs!OwnershipHolds` | for `Uses` without `"observer"`, `"take"` and `"replace"`: `Spec => [](TypeInv /\ OwnershipInv)` |
| `EndpointOwnership_proofs!EventsComeHome` | for these: `Spec => []EventsReachTheirConnection` |
| `EndpointOwnership_proofs!DrainsAreItsOwn` | for these: `Spec => []DrainsOnlyItsOwn` |
| `EndpointOwnership_proofs!PolledIsOwner` | for these: `Spec => []PolledOwnsItsHandle` |
| `EndpointOwnership_proofs!RoutesComeHome` | for these: `Spec => []RoutesLeadHome` |
| `ConnectionLifecycle_proofs!InvariantHolds` | `Spec => [](TypeInv /\ SafetyInv)` |
| `ConnectionLifecycle_proofs!LifecycleIsTyped` | `Spec => []TypeOK` |
| `ConnectionLifecycle_proofs!ObserversAreToldInOrder` | `Spec => []ToldInOrder` |
| `ConnectionLifecycle_proofs!EveryEndIsExplained` | `Spec => []EndsAreExplained` |
| `ConnectionLifecycle_proofs!HandlesOfDrainedAreFree` | `Spec => []DrainedHandlesAreFree` |
| `ConnectionLifecycle_proofs!ErrorsAreWellNamed` | `Spec => []ErrorsAreOneFrameStale` |
| `ConnectionLifecycle_proofs!KeepAliveHolds` | `Spec => KeepAliveIsHonoured` |
| `ConnectionLifecycle_proofs!ConnectionsAreSpared` | `Spec => ResponsesSpareConnections` |
| `TofuStore_proofs!TypeCorrect` | `Spec => []TypeOK` |
| `TofuStore_proofs!StoreCorrect` | `Spec => []StoreInv` |
| `TofuStore_proofs!TrustSurvives` | `Spec => []OneCertPerName` |
| `TofuStore_proofs!EntriesAreGenuine` | `Spec => []FilesAreOfOneCert` |
| `FallbackVerifier_proofs!FallbackIsTofu` | `FallbackSpec => Spec` |
| `FallbackVerifier_proofs!FallbackTrustSurvives` | `FallbackSpec => []OneCertPerName` |
| `FallbackVerifier_proofs!DefaultHasFirstWord` | `FallbackSpec => DefaultComesFirst` |
| `StreamTransfer_proofs!TypeCorrect` | `Spec => [](TypeOK /\ Bounds)` |
| `StreamTransfer_proofs!OnlySlicesLoseBytes` | `Spec => []OnlySlicesLose` |
| `StreamTransfer_proofs!OnlyOvertakingReordersBytes` | `Spec => []OnlyOvertakingReorders` |
| `StreamTransfer_proofs!StreamsAreByteStreams` | `Spec => IsByteStream` (refinement) |
| `StreamTransfer_proofs!FinishedMeansComplete` | `Spec => []FinishedMeansAllRead` |
| `StreamTransfer_proofs!OnlyDataHides` | `Spec => []OnlyDataHidesTheEnd` |
| `DatagramQueue_proofs!InvariantHolds` | `Spec => [](TypeOK /\ VisitInv /\ Kind)` |
| `DatagramQueue_proofs!QueuesAreTyped` | `Spec => []TypeOK` |
| `DatagramQueue_proofs!EachOnce` | `Spec => []EachIsSomewhereOnce` |
| `DatagramQueue_proofs!OrderIsKept` | `Spec => []OnlyOvertakingReorders` |
| `SocketDriver_proofs!TypeCorrect` | `Spec => [](TypeOK /\ PieceIsAnswered)` |
| `SocketDriver_proofs!DriverKeepsPromise` | `Spec => KeepsChannelPromise` (refinement) |
| `SocketDriver_proofs!ChannelHasCaughtUp` | `Spec => []ChannelIsCaughtUp` |
| `SocketDriver_proofs!PiecesStayWhole` | `Spec => []PiecesAreWhole` |

**Routing.**  The assumption `RoutingAssumption` only says that `None` is none of
the identities and that `Uses` are uses.  `EventsAreMapped` is not inductive.
Its strengthening `RoutingInv` follows the code's own reason: a handle that the
peer can reach is mapped (`ReachableIsMapped`: a datagram goes out only after
`poll_connections` or accept, both of which come after the insertion that writes
the map), a queued event's handle is mapped (`QueuedIsMapped`), and a route leads
to an entity that has the connection with that handle or none
(`RoutesMatch`), so that the arm that forgets a route is never taken.  The rest
ties quinn's slab to the connections (`SlabAgrees`, `UsedConnections`) and the
books to the Endpoints that own them (`OneEndpointPerHost`,
`DroppedOwnsNothing`).  `StageInv` says that what a system iterates over is still
there when it gets to it, because a system has the world to itself.  The two
excluded uses are exactly those under which an event can be without a mapping, or
cannot be shown not to be: `"reuse"` is refuted by run `routing_reuse_panic`.

**Ownership.**  For an application that puts connections onto entities that carried
one, and moves Endpoints, `EventsAreMapped` does not hold, but the four properties of
`routing_reuse` do, if it acts in `Update` only, never takes a connection off its
entity and never replaces an Endpoint (`Plain`).  All three are needed: TLC finds
`"observer"` to break all four properties, `"take"` to break `PolledOwnsItsHandle`,
and `"replace"` to break that, `EventsReachTheirConnection` and `RoutesLeadHome`
(the run `routing_replaced` shows one of these).  The difficulty is that a handle
may be given to a second connection while the first is still somewhere: on its
entity, in a queued event, in the map.  `OwnershipInv` says where it may be.  A
connection that has not drained has its handle (`HeldOwns`, `PresentOwns`); one
that has drained shares it with no other until `poll_connections` is to take it
off its entity (`SuccessorWaits`, `Leaving`); a queued event's handle is its
connection's, or free, and free only until `poll_endpoints` has been through the
channel (`WaitingIsOwned`, `CaughtUp`), so that a handle is given out again only
when no event of its former owner is left.  The schedule is what makes this true:
handles are freed in `poll_connections` and given out in `Update` and by
`handle_incoming_responses`, and `poll_endpoints` always comes in between.

**Lifecycle.**  The invariant is in two halves.  `TypeInv` is the types, what is
found at which stage of a frame, and that an establishment is queued only for a
connection that has been established (`HandshakeIsDone`), without which the
command would find it in the wrong state.  `SafetyInv`, relative to it, follows a
piece of news from quinn's `events` over the deferred `commands` to what observers
were `told`: in each of the three it is once, and what has been told cannot come
about again (`EachOnce`, `LostComesLast`, `DrainedComesLast`), and among the
commands the order is right already (`InOrder`).  The end of a connection is
explained by `EndsHaveReasons`: a connection that has closed or drained has told
why, or the reason is on its way, and the visit in which it drained is not over
before it polls for it.  `DrainedIsPassedOn` says the same of the endpoint event
that frees the handle.  `NamesAreKnown` is about the frame in which a `Connecting`
becomes a `Connection`, `DespawnsAreAllowed` about `KeepAlive` between the moment
`poll_connections` reads it and the command.

**Store.**  `StoreInv` says that, whenever no write is under way, the map agrees
with what a restart would have that is given the same certificates again
(`Restored`), and that a write under way is for a name with
nothing left to trust.  The parts follow the four steps of the write:
what `storing` promises about the file it is writing (`StoringIsAhead`,
`WrittenInOrder`), that pieces in one file never disagree (`PiecesAgree`), and
that what was accepted was already valid (`BegunByNow`), which makes `Trusted`
shrink as time goes on.

**Fallback.**  `FallbackIsTofu` shows that the composition only takes steps of the
store, so every theorem about the store holds of it.  `DefaultComesFirst` needs
more than the guard of `FallBack`: a certificate counts as accepted when the store
has finished writing it, steps after the default was asked.  `StoringIsRejected`
is the invariant that says no new verdict comes in between, because a start comes
after a crash only, and a crash forgets the write.

**Streams.**  Every step of a stream is, for the data, one of four: it leaves sent
bytes and buffer alone (`Same`), adds accepted bytes to the one or the other
(`Rests`, `Puts`), or moves bytes from the buffer to quinn (`Moves`), unless it is the
slice of `write_all`.  Each keeps `sent \o write_buffer` a sequence of the accepted
bytes, each once; if it is not an overtaking write, in order.  For the refinement,
each step is one that the application does not see (`Quiet`), accepts bytes
(`Grows`), accepts them too late (`Lates`, after which nothing is promised of the
stream), ends the writer's side (`Ends`), delivers (`Gives`) or tells of the end
(`Tells`).  `RefinementInv` carries what the abstract guards ask for: what was read
was sent (`ReadIsSent`, `Within`), the end in the reader's hands is the writer's
(`EndIsOfWriter`), and a stream that ended with an empty buffer, and
to which nothing was written after, still has an empty buffer (`NothingLeft`), which is why "finished" can be told only when all was read.  A
stream of which quinn has nothing left has told its end, unless a read hid it
(`FreedIsTold`).  The assumption is that the constants are of their types.

**Datagrams.**  The places a datagram can be in are, in the order in which it goes
through them, `pending_datagrams`, quinn's buffer, the refused transmit and the
wire.  `OnceInv` says that none is in a place twice, none in two places, and what
was accepted is in one of them or has its `fate`; `InOrder` that all of the wire
is older than the refused transmit, that than the buffer, and so on, while nothing
has been overtaken or skipped.  Most steps move one datagram from one end of a queue,
or drop some from the front.  Two are loops over a queue of any length: the flush of
`pending_datagrams`, and what quinn drops from its buffer when the MTU falls
(`Flushing`, `Fitting`).  What they compute is shown by induction on how far
they have come, with the statement for each position written as a set of naturals
and the library's well-founded minimum in place of an induction rule (`Least`,
`Induction`, `Recursion`): the flush takes some of the waiting datagrams, in their
order, to the end of quinn's buffer, drops some for a named reason and leaves the
others in their order.  The assumption is that sizes, limits and windows are
numbers.

**Socket.**  The type invariant says who has the mutex at which step of the task, and
that is enough for the refinement: a step that hands an event to quinn has the
mutex, so in the abstract no system holds it.  `Handle` is the abstract `Receive`,
the ends of the task are `Fail` or `Stop` as there still is an Endpoint or not, the
systems' steps are their own, and all else is invisible.  The abstract
`Fail` may come while a system has the mutex, as `DriverFails` may: an error of the
wait is sent without it.  `ChannelIsCaughtUp` follows from `AllIsQueued`, which
counts the event in the task's hands with the channel, and so holds whoever has the
mutex.  `PiecesAreWhole` rests on what a message can be (`WellCut`): datagrams one
after the other, all of the stride's size but for a shorter last one.  It is kept by
coalescing, since nothing is added after a short datagram, and by splitting at the
stride, which takes the first datagram off.

**Only model-checked**: the liveness properties (`DrainedLeavesItsEntity`,
`AbandonedHandleIsFreed`, `FramesGoOn`, `ClosedLeaves`, `TransmitsLeave`,
`BufferIsFlushed`, `EndReachesReader`, `WaitingEnds`, `BufferDrains`,
`ArrivalsAreProcessed`, `DroppedTaskEnds`), since fairness and `ENABLED` are out of
TLAPS's reach, and the counterexamples of section 5.  Every invariant and every
action property that a passing run checks is also a theorem, for the
applications it names.

## 5. Where the code does other than it says

Found while modelling, each with a run that shows it:

1. `stream_sliced`: `write_all` buffers `&data[remaining..]` where `remaining` is
   the number of bytes *not* written (`streams.rs:53`), instead of what follows
   the bytes written.  Bytes are sent twice or lost unless exactly half was
   written.
2. `routing_reuse_panic`: overwriting a connection on its entity, which the doc at
   `connection.rs:86-87` allows, panics in `poll_endpoints` if two of its events
   are queued: the first removes the route, the second finds none.
3. `routing_replaced`: "Return None if the endpoint was replaced with a new one"
   (`connection.rs:753`) looks up the handle alone, which the new Endpoint may
   have given to another connection.
4. `lifecycle_clocks`: `expect("Monotonicity violated")` (`connection.rs:700`).  The
   peer's close, received by the driver, starts quinn's drain period of three probe
   timeouts; `poll_timeout` makes the timer in `PostUpdate`.  If that is later than
   the period is long, a hitch in `Update` for example, the system panics.

Streams: a `read` that has data and then meets the end returns the data; "the error
will propagate on the next read call" (`streams.rs:273, 330`), but quinn has freed
the stream and the next call returns `ClosedStream`, never `Ok(None)`.  It is the
mishap `"hidden"`, without which `OnlyDataHidesTheEnd` does not hold.

"Returns an error if the stream does not exist, or has already been stopped,
finished or reset" (`connection.rs:290-291`), but `send_stream` asks for the entry
in `pending_streams` only (`connection.rs:546-553`), and nothing removes that.
"It is an error to write to a `SendStream` after `finish()`ing it"
(`streams.rs:115`) and "no new data can be written after calling this method"
(`streams.rs:130`): without connection credit `write_all` and `write_all_chunks`
return `Ok` and buffer (`streams.rs:57-60, 94-97`).  The bytes are never sent, and
the reader is told "finished" without them.  It is the mishap `"late"`; without it
in `Harmed` and `FinishedMeansAllRead`, TLC refutes `IsByteStream` and
`FinishedMeansAllRead`.

Data "will be internally buffered instead, and automatically flushed"
(`streams.rs:45-46`), and `finish` tells that no more will be written; yet `finish`
takes quinn's side of the stream only (`streams.rs:124-126`), so that what is still
in the buffer is not sent.  It is the mishap `"cut"`, which the same properties
exclude in the same way.

Datagrams: `send_datagram_wait` "effectively prioritizes old datagrams over new
datagrams" (`connection.rs:317-318`), but it asks quinn first, so that a new datagram
goes past those that wait as soon as there is space (`"overtaken"`), and the flush
sends small datagrams past a large one that does not fit (`"skipped"`): a stream of
small ones can keep it waiting.  A waiting datagram that the path's MTU has fallen
below is dropped without a word (`"oversized"`), one larger than the send buffer
waits for ever (`"misfit"`), as do those that wait when a fall of the MTU, and no
packet, empties the buffer (`"stranded"`), until another datagram is sent.
`pending_datagrams` has no bound.

Elsewhere in the models, and excluded from the properties by name: a write that overtakes
the buffer (`"overtaken"`), data still buffered when a stream is finished, reset
or stopped (`"cut"`), a write cut short by the connection's credit, for which
quinn gives no wake-up (`"stranded"`), a clock set back, which makes a pinned
certificate "no longer valid" (`setBack`, `tofu.rs:367`), a
connection that drains inside `handle_event` (a stateless reset), whose loss is
never told, against `connection.rs:205-206`, and whose handle stays allocated
(`causes`), a connection that the application closes, of which no
`ConnectionError` tells either (`causes`), an error told as `ConnectingError` in
the frame that made the component a `Connection` (`fresh`), and a `KeepAlive` that
an observer puts on too late (`lateKeep`, against `lib.rs:38`).  After an I/O error
`ConnectionEstablished` may still be told, in the same frame, of the connection
that the error has closed; an observer of `IncomingError` that despawns the entity
makes `handle_incoming_responses` panic (`EndIncomingError`), and one that despawns
it while the step to `Connection` is still queued makes that panic
(`ApplyEstablish`, `connection.rs:841`).

These exclusions bound what the properties catch: a change of the code that only
makes an excluded case worse is not found by them.  Where a hazard of
`PROJECT.json` is an excluded case, its note says so.

## 6. Not modelled

- What is in a transmit, pacing, ECN, segmentation, statistics and accessors: no
  property here depends on them, and quinn owns their correctness.
- `NewBidirectionalStream` and `NewUnidirectionalStream`: told whenever quinn says
  so, nothing depends on them.
- Unordered reads (`read_chunk` with `ordered = false`) and stream priorities.
- The constructors of rustls configurations, and the signature checks of a
  `FallbackVerifier`, which all go to the default verifier: no state.
- How long a read of the socket lasts: a peer that sends as fast as the driver
  handles keeps the mutex with the driver.  `EndpointRouting` has these behaviours,
  and its liveness properties exclude them by `SocketsRunDry`; the traffic of
  `SocketDriver` is finite.
- A stream of small datagrams that keeps a large one waiting for ever: the datagrams
  of `DatagramQueue` are finitely many.
- Poisoned mutexes: a panic ends the program in these models.
- Accessors and settings of `connection.rs` and `endpoint.rs`, one read or one
  assignment each; the examples, which are applications.

## 7. Plan

Done: all the modules of section 2; proofs of every invariant and action property
of the passing runs; the refinements of `ReceiveChannel`, `ByteStream` and, for the
`FallbackVerifier`, of `TofuStore`.

To do, in order of importance:

1. `ConnectionDirectory`, the abstract specification of routing (a connection's
   events go to its entity or are discarded, a handle is given back once), with
   `EndpointRouting` shown to implement it, as a property of `routing_reuse` and as
   a theorem from `OwnershipInv`.
2. A weaker `Plain`: TLC finds `"take"` to break only `PolledOwnsItsHandle`, so the
   other three properties should have a proof that allows it.
