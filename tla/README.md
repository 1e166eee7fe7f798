# A TLA+ verification of tcpstate

`tcpstate` is a TCP state machine without I/O: the user of the library hands it
calls, segments and clock ticks, and it answers through the callbacks of
`UserData` (`send`, `event`, `new_seqn`, `add_timeout`).  This directory models
the connection state machine, the listening socket and the socket that is one or
the other.  TLC checks them on small instances: a connection alone, two peers over
an unreliable network, a server with its clients.  TLAPS proves, for every value of
the constants, the inductive invariants of a connection, of a listening socket, of two
peers and of a server, and that the last two implement their abstract specifications:
a pair of byte streams and a listening socket.

Source paths are relative to `src/` of the repository's root directory `src/`
(`connection.rs` is `src/src/connection.rs`).

## 1. Inventory

| Component | State | Operations | What makes it correct |
|---|---|---|---|
| `Connection` (connection.rs) | connection state, both buffers, timers, suspended calls, congestion window | `call_connect/send/recv/shutdown/close/abort`, `on_segment`, `on_time_tick` | the stream is delivered in order, once, whole; it ends; nobody waits for ever |
| `SeqN`, `SegmentMeta` (segment.rs) | none | wrapping arithmetic, `in_range_inclusive`, `lt`, `lte`, `seq_size` | comparisons survive the wrap of the sequence numbers |
| `ConnectionState` (state.rs) | two channel states and two flags | accessors, `debug_validate_transition` | the channels only move towards Closed |
| `TxBuffer` (tx.rs) | output queue, retransmission queue, `unack`, `next`, window, `last_sent` | `on_send`, `space_available`, `unack_has_space` | the retransmission queue is ordered and has no gap |
| `RxBuffer` (rx.rs) | input queue, `ackd`, `done` | `write`, `read_bytes`, `curr_window`, `in_window` | only the next segment is stored; the window is what fits |
| `BlobQueue` (queue.rs) | blobs and a FIN mark | `write_bytes`, `read_bytes`, `mark_fin` | it is a queue of bytes |
| `Timers` (timers.rs) | three deadlines, backoff | `set_timer_*`, `on_timer_*`, `on_time_tick` | armed exactly while needed, never in a state that cannot handle it |
| `Events` (event.rs) | suspended cookies with their conditions | `return_retry_after`, `return_continue_after`, `trigger_event` | a cookie is triggered once its condition holds, or the connection ends |
| `ListenSocket` (listen.rs) | backlog of SYNs, suspended accepts | `call_listen`, `call_accept`, `call_close`, `on_segment` | bounded backlog, each SYN accepted or refused |
| `Socket` (lib.rs) | closed, a connection or a listener | dispatch; `response_to_closed` | a stranger's segment is answered so that it resets its sender |
| `Timings` (rtt.rs) | rto, srtt, variance | `update_rtt` (never called) | - |
| `UserData`, `SocketOptions`, `Error` | - | interface, constants, results | - |

How they interact.  A method of a connection runs to completion under the lock
its user holds, so methods are atomic; concurrency is between the user's threads
(a reader, a writer, a closer), the network and the clock, in any order.  A call
that cannot finish leaves a *cookie* and a condition behind and is woken by
`user_data.event`.  `result.rs` asks the user to make no other call meanwhile,
but the tests do (`tests/close.rs` reads while its close is pending), and a close
can only finish if somebody reads; the models therefore allow one pending call
of each kind.  A listening socket is shared by the threads that accept on it: each
gets a connection of its own, which its user has to register before segments reach
it, and any of them may be suspended, woken for a connection that another one takes,
or left when the socket is closed.

What is hard here: `on_segment` changes the state several times on its way
(`set_state` may clear the whole connection and the method goes on); timers are
armed and disarmed in many places; acceptance of a segment, of its ACK, of its
window and of its FIN are four separate decisions; everything has to survive
loss, duplication, reordering and wrap-around.  `PROJECT.json` lists these
hazards at their lines with the properties that watch them.

## 2. Modules

| Module | Models |
|---|---|
| `Segment` | segment.rs, and `response_to_closed` of lib.rs |
| `BlobQueue` | queue.rs: the queue of blobs, and the queue of bytes it is taken for |
| `ConnectionState` | state.rs |
| `Connection` | connection.rs, tx.rs, rx.rs, timers.rs, event.rs: one operator per method, from the connection a method finds to the one it leaves |
| `Endpoint` | one connection in an arbitrary environment: one action per method; the properties that hold whatever the peer does, and the inductive invariant |
| `Tcp` | two connections and the network between them |
| `ByteStream` | what a connection promises for one direction: the abstract specification that `Tcp` implements |
| `ListenSocket` | listen.rs: one operator per method |
| `Socket` | lib.rs: closed, a connection or a listener, and the dispatch of calls, segments and ticks |
| `Listener` | one listening socket with any number of accepting threads, and any segments; its properties |
| `Server` | `Listener` composed with the connections it accepts, the sockets of the clients and the network between them |
| `ConnectionInvariant` | what every method of a connection finds and restores |
| `TcpInvariant` | the inductive invariant of two peers: the numbering of the two streams and their acknowledgements |
| `ConnectionProofs` | lemmas on the operators of `Connection` |
| `MethodProofs`, `WaitProofs` | every method keeps the two parts of `ConnectionInvariant` |
| `EndpointProofs` | the properties of `Endpoint` as theorems |
| `StreamProofs` | what every method does to the numbering of the streams, and what it sends |
| `TcpProofs` | the invariant of `Tcp` is inductive; its properties, and `ByteStream`, as theorems |
| `ListenerProofs` | the invariant of `Listener` is inductive; its properties as theorems |
| `ServerProofs` | the invariant of `Server`, and that it implements `Listener` |
| `MCEndpoint`, `MCTcp`, `MCFlow`, `MCServer` | the constants of the TLC runs |

State.  The record `Connections` has the fields of `struct Connection` with those
of `TxBuffer`, `RxBuffer` and `Timers` inlined under their names (`tx` and `rx`
are the contents of the queues, `tx_fin` and `rx_fin` their FIN marks).  `wait`
maps each caller to the condition it is suspended on.  `out` collects what the
method hands to `user_data.send`; `panic` names the assertion that failed, if
one did.  Assertions of all builds are `MustHold`, those of debug builds
`DebugMustHold`; after a failed one nothing the method does has an effect.

Where the code leaves a match early the operator takes another branch of an IF or
a CASE, in the same order.  A call that only returns an error is left out (the
`CanX` predicates are the states in which X does something).

Abstractions.
- A byte is its position in the stream.  In `Connection` a queue of blobs is the
  sequence of its bytes; `IsByteQueue` is what justifies that.
- A timer is armed or not; an armed timer may expire at any time.  `usertime` is
  never armed by any code.
- Cookies are the callers; the result passed with an event is left out.
- The number of sequence numbers and the largest window are the constants
  `SeqSpace` and `WindowMax`; in the proofs they are arbitrary.
- The wrong variants (`Clear_KeepsTimers`, `OnPayload_EarlyFin`, ...) stand
  before the operators they are variants of.  No run uses them; putting one in
  the place of the right operator makes the property it is meant for fail.

The network of `Tcp` holds the segments in flight to each peer, oldest first.  It
delivers the oldest one, or, as one of at most `MaxFaults` faults, loses it,
delivers and keeps it, or delivers a later one first.  That of `Server` keeps the
order and loses or copies.

The listening socket.  The record `ListenSockets` has the fields of
`struct ListenSocket`.  Its suspended accepts are the threads that made them;
`woken` and `failed` hold the threads whose event has been triggered, until they
call again or for good.  Which suspended thread an arrival wakes is a choice (the
code takes any element of a hash set).  A socket (`Socket`) is a record with the
connection or the listener it holds.

In `Server` an accepting thread has the new connection in its `hand` between the
return of `call_accept` and its registration; until then segments of that client
still reach the listening socket, as with the `ListenCtx` of
`tests/common/socket.rs`.  A registered connection replaces an earlier one with the
same client.  `new_seqn` of the server is a clock.  With a number that never changes,
as in `tests/common/sim_net.rs`, `HandshakeAgrees` does not hold: two connections
made for two copies of a SYN have SYN-ACKs that the client cannot tell apart.

The byte stream.  `ByteStream` has four variables: how much the sender has written,
whether it has ended its stream, what the receiver has got, and whether for the
receiver the stream is open, has ended, or is gone.  A step of it writes, ends the
stream, delivers more of it (and its end only with the last byte, and only if the
sender has ended it), or breaks it off.  `Tcp` maps its history variables and the
state of the receiving channel to these, once for each direction.

## 3. Runs

Passing runs:

| Run | Question | Bounds | Distinct states |
|---|---|---|---|
| `endpoint` | Does a connection stay consistent whatever happens to it? | 30 segments around both sides of the wrap, with zero windows and malformed ones; one write buffered | 88,659 |
| `transfer` | Is a one-way stream delivered intact, and is a RST never taken for its end? Does it implement `ByteStream`? | 2 bytes in 2 segments, window 2, close of both, abort of the sender, one fault of any kind | 1,021,768 |
| `duplex` | Do two streams disturb each other? Does that to the client implement `ByteStream`? | 1 byte each way, shutdown of both, the client also reads, one segment lost or overtaken | 249,249 |
| `flow` | Does what is in flight fit the receiver, and is it read from its queue in order? | 4 bytes against a window of 2, two losses or copies; for the queue all cuttings of up to 4 bytes into up to 3 blobs of up to 2 bytes, two reads with a write, the FIN, both or neither between them | 110,337 |
| `orderly` | Does everything end well? | up to 2 bytes, one fault, applications as in the tests, release build | 63,456 |
| `listen` | Do the threads that accept get every connection, and is it the right one? | one client, two threads, backlog 2, one segment lost or copied, a byte sent to the server | 594,776 |
| `serve` | Does every `call_connect` end? | one client that connects twice, one thread, backlog 1, abort on both sides, one segment lost or copied | 376,643 |

Properties.
- `StreamIntegrity`: what a peer has received is a prefix of what the other wrote.
- `EofSound`: a receive channel leaves Open only with all of the stream received.
- `AckSound`: `unack <= ackd <= next` across the two peers: nothing is taken as acknowledged
  that was not received, nothing is received that was not sent.
- `FlowControl`: bytes in flight and bytes buffered fit into the window.
- `NoPanic`: no assertion of release builds fails, no `unreachable!()` is reached.  The
  run includes the close whose last ACK has the sequence number 0 (below).
- `Delivery`, `Termination`: bytes arrive, connections come to be Closed.
- `ToServer`, `ToClient`: each direction implements `ByteStream`.  Beyond the two
  invariants on streams this says that nothing is delivered after the end, that the
  end needs a FIN the sender has asked for, and that a stream that is gone does not
  come back.
- `SenderWokenByAck`: a sender suspended in the handshake wakes with all its bytes
  acknowledged.  `FinKept`: the FIN counts as sent only if it was, and is kept until
  acknowledged; the one exception is named in it (a close in SYN-RECEIVED against a
  closed window, `connection.rs:434`).
- `IsByteQueue`: for as many bytes as a peer has received, cut into blobs in any way,
  reads return the bytes in order, and the end with the first read that comes up short.
- `ListenTypeOK`, `NoLostWakeup`, `BacklogSound`: see section 4.
- `HandshakeAgrees`: if both ends are established, each expects a sequence number the
  other is in the course of sending.
- `Settles`: no `call_connect` stays in SYN-SENT.
- `ReTxOrdered`, `RetransmitArmed`, `TimersReachable`, `NoOrphanWaiters`,
  `AckNeverRetreats`, `MethodInvariant`, `StreamInvariant`: see section 4.

Why the bounds are enough for these questions: the client's sequence
numbers start at 14 of 16 (6 of 8) so that every passing run wraps within the
handshake or the first bytes; two segments are the least that can overtake, leave a
gap and fill a window; one fault at every point of a connection includes each lost, copied and
late SYN, SYN-ACK, data, FIN and ACK, and retransmissions duplicate segments
beyond the faults.  `MaxInFlight` stops timers from filling the network: a
retransmission happens with at most one other segment in flight.  The passing
runs take the release build, which goes on where a debug build would stop, so
they include the behaviours of both up to a failed debug assertion.

The runs of `Server` have one client.  Its repeated SYNs fill the backlog as those of
several clients would, since the listening socket does not look at the addresses in
its queue; the theorems on `Listener` are for any set of clients.  The threads are
interchangeable, and `listen` takes them as a symmetry set; `serve`, which checks
liveness, does not.

The runs do not check for deadlock: a connection that is closed, reset or has
panicked, and an application that has made all its calls, do stop.

Fairness (`orderly`, `serve` and the violations that are temporal).  The network
delivers what it does not lose, an armed timer expires, an application makes the
calls it can.  Each is weak fairness except for the timers: the guard
`MaxInFlight`, which is not in the code, may disable and enable them again and
again, so they need strong fairness.  Except for `Connect` they are written out with
the guard of the action as its ENABLED, which TLC cannot evaluate for a whole
method; a method always has a result, so the two are the same.  In `Server` a thread
that is free to accept does so, and registers what it got (the loop of
`ListenCtx::accept`); nothing is assumed of the calls that abort, stop listening or
connect.  `Orderly` restricts the applications to what those of
`tests/echo_server.rs` do: they wait for the connection, and the server closes at
the end of the client's stream.  `LongTimewait` says that TIME-WAIT (240 s) does
not end while the peer's retransmission timer (1 s and up) is armed; without it a
close may end with a peer that retransmits its FIN to a closed socket.  The
window of this run is larger than the stream: a stream that fills it may
stop for ever (see `v_reader`, and the persist timer that the repository's README
lists as not implemented).

Runs that show a disagreement of the code with its own comments, assertions or
tests (details and quotations in `PROJECT.json`, findings):

| Run | What TLC finds |
|---|---|
| `v_reader` | a reader with enough data is not woken if the data came with an ACK that is not new |
| `v_rst` | a RST in TIME-WAIT reaches `unreachable!()` |
| `v_transition` | `call_close` with a full window, then the peer's FIN, fails `debug_validate_transition` |
| `v_halfopen` | the RST of `response_to_closed` is ignored by the peer it should reset |
| `v_echo` | a retransmitted segment is dropped for ever because of its old ackn |

The model shows more, for which no run is kept.  The last ACK of a close clears the
connection inside `on_segment`, which goes on and compares its sequence number with
an `ackd` that is now 0 (`connection.rs:837`); if that number is 0 too, `send_ack` runs
in Closed.  A debug build fails there (`state.rs:123`, "Why is this called in Closed
state?"), with the applications of `orderly` too: that run with
`DebugAssertions = TRUE` violates `NoPanic` in ten steps.  A release build sends a
stray ACK, and `orderly` shows that it does no harm.  Further:
`output_buffer_guaranteed_clear` looks at the receiving channel (`state.rs:151`); an ACK that is overtaken takes the
window back, after which `space_available` (`tx.rs:38`) wraps, which is why `flow`
has a network that keeps the order and a stream in one direction (a retransmitted
segment repeats an old window); a client established with one of two connections
that its SYNs have made leaves the other in SYN-RECEIVED, retransmitting; a
listening socket never returns to Closed, though `docs/state.dot` draws it, and a
socket that was reset cannot be opened again.

## 4. Proofs

`EndpointProofs` proves, for every `SeqSpace`, window, segment size, set of
segments and calls, and both builds:

| Theorem | Statement |
|---|---|
| `Invariance` | `Spec => []MethodInvariant` |
| `TypeCorrect` | `Spec => []TypeOK` |
| `TimersCorrect` | `Spec => []TimersReachable`: the `unreachable!()` and the `assert!` of the timer handlers are never reached |
| `QueueContiguous` | `Spec => []ReTxOrdered`: the retransmission queue is a gapless piece of the stream up to `next` |
| `NothingForgotten` | `Spec => []RetransmitArmed`: something unacknowledged means a running timer |
| `WaitersReleased` | `Spec => []NoOrphanWaiters`: nobody is left suspended on a connection that is over |
| `AckMonotone` | `Spec => AckNeverRetreats`: `unack` moves only within `[unack, next]` |

Assumptions: `SegmentAssumption` (at least 4 sequence numbers, windows smaller
than the sequence space), `ConnectionAssumption` (a full segment with SYN and FIN
fits the sequence space, the initial window fits the window field) and
`EndpointAssumption` (the inputs have their types).  The code's constants satisfy
them.

The argument.  None of the properties is inductive.  That a timer is not armed in
TIME-WAIT or CLOSED depends on `send_ack`, which `on_segment` calls at its end in
whatever state its earlier steps have left: it arms the timer if it sends data or
a FIN.  So the invariant `Consistent` says in addition

- when the FIN counts as sent, the output buffer is empty and marked
  (`fin_sent => tx = <<>> /\ tx_fin`), so `send_ack` sends only pure ACKs from
  then on;
- an idle connection (CLOSED, RESET, LISTEN) has empty queues and no FIN mark, so
  that `send_ack` after `clear` sends nothing that needs a timer;
- data buffered in SYN-RECEIVED has its sender suspended, which is what keeps
  `call_shutdown` from marking a FIN in front of it;
- once our FIN is acknowledged, `unack = next`: in TIME-WAIT no ACK is new, so
  `on_segment` does not arm the timer there.

The queue is contiguous because `on_send` gives a segment the number `next` and
`clear_re_tx_range` removes from the front only.  There is one lemma per method,
composed as the methods call each other; the relations `SameCore`, `PanicKept`,
`SenderKept` and `Continues` carry what a caller needs of a callee.  Nothing is
claimed of a connection after a failed assertion, except that it was not one of
those of the timer handlers.

`NoOrphanWaiters` needs the second half of `MethodInvariant`, `WaitsOk`.  `clear` wakes
every suspended call, but the step to TIME-WAIT in `set_state` triggers only some of
the conditions (`connection.rs:90`): a reader that waits for data or a sender that
waits for an acknowledgement would sleep on.  `WaitsOk` says that there is neither: a
reader waits for data only on an open receive channel, and no sender waits behind a
FIN mark.

`ListenerProofs` proves, for every set of clients, every finite set of threads, every
backlog and every segment:

| Theorem | Statement |
|---|---|
| `ListenInvariance` | `ListenSpec => []ListenInv`, the conjunction of the next three |
| `ListenTypeCorrect` | `ListenSpec => []ListenTypeOK`: types, and no event for an accept that was already woken |
| `WakeupNeverLost` | `ListenSpec => []NoLostWakeup`: while a thread sleeps there is a woken one for each queued connection |
| `BacklogCorrect` | `ListenSpec => []BacklogSound`: a bounded queue of bare SYNs; nothing and nobody is left behind by `call_close` |

Assumption: `ListenAssumption` (finitely many threads, the backlog is a number).  The
three are inductive only together.  An arrival adds one connection and wakes one
thread, so the count of `NoLostWakeup` goes up by one on both sides if that thread was
not counted as woken before: the disjointness in `ListenTypeOK`.  A thread that
accepts takes one connection away and at most one wake-up, its own.  A thread that
meets a closed socket uses up a wake-up without taking a connection, which is harmless
because the queue of a closed socket is empty: `BacklogSound`.

`TcpProofs` proves, for every pair of initial sequence numbers, every window and
segment size, every set of calls, and every number and kind of faults:

| Theorem | Statement |
|---|---|
| `StreamInvariance` | `Spec => []StreamInvariant` |
| `StreamCorrect` | `Spec => []StreamIntegrity`: what is received is a prefix of what was written |
| `EndOfStreamSound` | `Spec => []EofSound`: a stream ends for its receiver only when all of it has been received |
| `AckSoundness` | `Spec => []AckSound`: `unack <= ackd <= next` between two established ends |
| `TcpTypeCorrect` | `Spec => []TypeOK` |
| `ToServerRefines`, `ToClientRefines` | `Spec => ToServer`, `Spec => ToClient`: each direction implements `ByteStream` |

Assumptions: those on the constants of `Connection` and `Tcp`, and `ShortStreams`: a
stream with its SYN and its FIN is shorter than the sequence space.  It is needed,
and it is a limit of the code: nothing in it bounds the age of a segment (there is no
timestamp option, and `on_segment` compares numbers modulo 2^32), so after a wrap a
copy of an old segment passes for a new one.  The bounds `MaxFaults` and `MaxInFlight`
are arbitrary, so they are no restriction here; `MaxWritten` is one through
`ShortStreams` only.

The argument.  Sequence numbers wrap, so order among them says nothing by itself.  The
invariant measures them by their distance from the initial number of their stream
(`Offset`): the SYN has offset 0, byte k has offset k.
- `OfStream`: every segment that exists, in flight or kept for retransmission, carries
  bytes of the stream at the offsets of its number, and a FIN only after the last byte
  of a stream that has been ended.
- `TxOk`: the output buffer holds the end of what was written and `next` is the offset
  of its first byte, or comes after the FIN.  So what `send_ack` cuts off is `OfStream`.
- `RxOk`: `ackd` is the offset after what has been received.  A segment of `OfStream`
  that starts at `ackd` therefore continues the stream, and its FIN ends it.  The
  distances are below `SeqSpace`, so equal numbers are equal offsets.
- `EndKept`: an ended stream is not written to again.

`AckSound` is not inductive: an acknowledgement that arrives late or twice was sent when
the two ends stood elsewhere, and what arrives may be a segment that the sender has kept
since then.  Two parts of the invariant bound everything that exists.
- `UpTo`: no segment in flight or kept for retransmission ends after `next` of its
  sender.  So the receiver's `ackd`, which a segment moves to where it ends, never passes
  `next` (lemma `ReceivedSent`: for a receiver, a stream of which only the first bytes
  have been sent is a shorter stream, so the lemmas on `RxOk` apply with `next` in the
  place of the end of the stream).
- `AckOk`: no segment in flight or kept for retransmission acknowledges more than `ackd`
  of its sender.  `ackd` never goes back (`Acked`), and every segment that is built
  carries `ackd` (`Emits`), so retransmissions are old but true; what the peer takes as
  `unack` is the ackn of one of these segments (`AckTaken`, from `MethodProofs`).

The handshake is the hard part of it, as `ackd` means nothing before a SYN has arrived: a
listener's peer acknowledges nothing and nothing is in flight to it, and nothing of the
stream sent to a client in SYN-SENT has been acknowledged (the last two conjuncts of
`AckOk`).

The rest of `StreamInvariant` is about who may say what when.  While the client is in
SYN-SENT, everything in flight to it acknowledges exactly its SYN (`HandshakeOk`): any
other ackn would make it answer with a RST, or take `ackd` over without being
established.  A client that is over may leave its SYN in flight, which a server that a
RST has brought back to LISTEN answers with a second connection; that one goes on
writing where the first broke off.  So nothing is said of the segments to a peer that
is over, and no RST is in flight to the server before the client is over (`NoReset`).

The implementation of `ByteStream` follows step by step.  `call_send` is `Write`, the
FIN mark that `call_shutdown` or `call_close` sets is `Finish`; `call_recv` delivers
the bytes it takes from `rx`, which `RxOk` says are the next ones, and ends the stream
only at the FIN mark; a RST, an abort and the last step of a close break it off; all
else, sending, storing and retransmitting included, is a stutter.

`ServerProofs` proves, for every set of clients, every finite set of threads, every
backlog, all sequence numbers and any number of faults:

| Theorem | Statement |
|---|---|
| `ServerInvariance` | `Spec => []ServerInv`: every socket of the clients, every accepted connection, registered or still in the hand of a thread, satisfies `ConnInv` and `WaitsOk`; the network carries segments; `ListenInv` |
| `ServerImplementsListener` | `Spec => ListenSpec` |
| `ServerListenType`, `ServerWakeups`, `ServerBacklog` | `ListenTypeOK`, `NoLostWakeup` and `BacklogSound` of a server with its clients, which `listen` checks |

Further assumption: `ServerAssumption` (the inputs have their types).  `ListenSpec` has
the listening socket meet any well-formed segment from any client at any time; what has
to be shown is that the segments of the clients are well formed, and for that every
connection has to keep its invariant through every method the server and the clients
call on it.  The lemmas on the methods are those of `MethodProofs` and `WaitProofs`;
the new part is the dispatch of `lib.rs` and the answers of `listen.rs`.  That the
segments sent to one client form a sequence of segments is an induction over what was
sent, made as a proof by least counterexample.

Only model-checked:
- liveness (`Delivery`, `Termination`, `Settles`), which is not within reach of the
  prover, and what the recursive definitions behind `IsByteQueue` compute;
- `FlowControl`: it holds only for a network that keeps the order (section 3), and a
  proof would have to carry that order through both queues;
- `NoPanic`: it holds for the applications of `orderly` and release builds; with an abort
  it does not (`v_rst`), and debug assertions fail with a full window (`v_transition`)
  and at a last ACK with the sequence number 0 (section 3);
- `HandshakeAgrees`: it depends on the choice of the server's sequence numbers;
- `SenderWokenByAck` and `FinKept`: they compare numbers with `lte`, which is wrong
  when more than half of the sequence space is in flight.  A window that shrinks lets
  `space_available` wrap and that much be sent, so they are not theorems for every
  value of the constants.

## 5. Not modelled

- Deadlines and `exp_backoff`: a timer is armed or not and may expire at any time.
- `Timings`: `update_rtt` is never called (and would clamp `rto` to `MAX_RTO`, its
  `min` and `max` being the wrong way round), so `rto` stays at its default.
- `usertime`: `set_timer_usertime` is never called.
- Results and cookies as values; the accessors; logging; `Debug` and `Display`; serde.
- Two writers on one connection: `result.rs` allows one pending call, and the models
  one of each kind.
- Options that differ between sockets: they are constants.  (`Socket::call_listen`
  drops those that were set before it.)
- A read into an empty buffer and a SYN with data, which the code asserts against.
- The threads and channels of the tests' network.

## 6. Plan

1. Core: `Segment`, `ConnectionState`, `Connection`, `Endpoint`, `Tcp`, their runs,
   and the inductive invariant of a connection (done).
2. `ListenSocket`, `Socket`, `Listener`, `Server`, their runs, and the invariant of a
   listening socket (done).
3. `BlobQueue` against a queue of bytes; `ByteStream`, and `Tcp` shown to implement
   it (done).
4. Proofs of `NoOrphanWaiters`, of the streams of `Tcp`, of their acknowledgements and
   of its implementation of `ByteStream`, and that `Server` implements `ListenSpec`
   (done).  Still to do: `FinKept` and `SenderWokenByAck` under an assumption that bounds
   what is in flight.
5. An instance with the congestion window at its limit, and with several writers.
