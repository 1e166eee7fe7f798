---------------------------- MODULE Connection ----------------------------
(***************************************************************************)
(* One TCP connection: src/src/connection.rs with its buffers (tx.rs,      *)
(* rx.rs, queue.rs), timers (timers.rs) and suspended calls (event.rs).    *)
(*                                                                         *)
(* Every method of Connection takes &mut self and runs to completion, so a *)
(* connection is a record and a method is an operator from the record it   *)
(* finds to the record it leaves; methods that call methods are composed.  *)
(* `out' collects the segments a method hands to user_data.send().         *)
(*                                                                         *)
(* Abstractions: a buffer of blobs is the sequence of its bytes; a timer   *)
(* is armed or not, its deadline (exp_backoff, rto) left out; a cookie     *)
(* is the caller that is suspended with it, and the result an event        *)
(* carries is left out; nagle_delay is zero or not.                        *)
(***************************************************************************)
EXTENDS Segment, ConnectionState, FiniteSets

CONSTANTS
  INITIAL_WINDOW_SIZE,   \* 0x1000
  MAX_SEGMENT_SIZE,      \* 512
  SLOW_START_TRESHOLD,   \* 512
  NagleZero,             \* options.nagle_delay == Duration::ZERO
  DebugAssertions        \* the build has debug assertions and overflow checks

ASSUME ConnectionAssumption ==
  /\ INITIAL_WINDOW_SIZE \in Nat \ {0}
  /\ MAX_SEGMENT_SIZE \in Nat \ {0} /\ MAX_SEGMENT_SIZE + 2 < SeqSpace
  /\ SLOW_START_TRESHOLD \in Nat
  /\ INITIAL_WINDOW_SIZE <= WindowMax
  /\ NagleZero \in BOOLEAN
  /\ DebugAssertions \in BOOLEAN

\* The user threads of a socket, one for each kind of call that may block.
Callers == {"opener", "writer", "reader", "closer"}

\* WaitUntil; arg is the count of Recv and the seqn of Acknowledged.
WaitKind == {"Established", "TxQueueEmpty", "TxClosed", "RxClosed", "BothClosed",
             "Recv", "Acknowledged"}
NoWait == [kind |-> "None", arg |-> 0]
WaitFor(kind, arg) == [kind |-> kind, arg |-> arg]
WaitUntil == [kind : WaitKind \cup {"None"}, arg : Nat]

\* The assertions that can fail, by name; "none" has not failed.
Panics == {"none", "transition", "duplicate_fin", "write_after_fin",
           "fin_sent_in_closed", "data_after_fin", "send_after_fin",
           "read_after_done", "short_read", "syn_with_data", "rst_unreachable",
           "congestion_overflow", "fin_acked_early", "re_tx_unreachable",
           "timewait_elsewhere"}

Connections ==
  [state               : ConnectionStates,
   dup_ack_count       : Nat,
   congestation_window : 0 .. WindowMax,
   tx                  : Seq(Byte),          \* TxBuffer
   tx_fin              : BOOLEAN,
   re_tx               : Seq(SegmentMeta),
   unack               : SeqN,
   next                : SeqN,
   init_seqn           : SeqN,
   tx_window           : 0 .. WindowMax,
   last_sent           : (SeqN \X SeqN \X (0 .. WindowMax)) \cup {<<>>},
   rx                  : Seq(Byte),          \* RxBuffer
   rx_fin              : BOOLEAN,
   ackd                : SeqN,
   done                : BOOLEAN,
   timer_re_tx         : BOOLEAN,            \* Timers
   timer_timewait      : BOOLEAN,
   wait                : [Callers -> WaitUntil],
   out                 : Seq(SegmentMeta),
   panic               : Panics]

\* Connection::new
New ==
  [state |-> Closed, dup_ack_count |-> 0,
   congestation_window |-> INITIAL_WINDOW_SIZE,
   tx |-> <<>>, tx_fin |-> FALSE, re_tx |-> <<>>, unack |-> 0, next |-> 0,
   init_seqn |-> 0, tx_window |-> 0, last_sent |-> <<>>,
   rx |-> <<>>, rx_fin |-> FALSE, ackd |-> 0, done |-> FALSE,
   timer_re_tx |-> FALSE, timer_timewait |-> FALSE,
   wait |-> [u \in Callers |-> NoWait], out |-> <<>>, panic |-> "none"]

-----------------------------------------------------------------------------
(* Assertions, callbacks and suspended calls.                              *)

\* A failed assertion ends the thread inside the method: nothing later in the
\* method has an effect outside the connection.
MustHold(c, holds, what) ==
  IF holds \/ c.panic # "none" THEN c ELSE [c EXCEPT !.panic = what]

DebugMustHold(c, holds, what) == MustHold(c, holds \/ ~DebugAssertions, what)

\* user_data.send
Send(c, seg) ==
  IF c.panic # "none" THEN c ELSE [c EXCEPT !.out = Append(@, seg)]

\* trigger_event: the callers in who are woken.
Wake(c, who) ==
  [c EXCEPT !.wait = [u \in Callers |-> IF u \in who THEN NoWait ELSE @[u]]]

WakeKind(c, kind) == Wake(c, {u \in Callers : c.wait[u].kind = kind})

\* return_retry_after and return_continue_after
Suspend(c, caller, kind, arg) ==
  [c EXCEPT !.wait = [@ EXCEPT ![caller] = WaitFor(kind, arg)]]

AnyAcknowledged(c) == \E u \in Callers : c.wait[u].kind = "Acknowledged"

-----------------------------------------------------------------------------
(* State changes.                                                          *)

\* Wrong variants: the timers stay armed; the suspended calls are not woken.
Clear_KeepsTimers(c) ==
  [New EXCEPT !.out = c.out, !.panic = c.panic, !.timer_re_tx = c.timer_re_tx,
              !.timer_timewait = c.timer_timewait]
Clear_Silent(c) ==
  [New EXCEPT !.out = c.out, !.panic = c.panic, !.wait = c.wait]

Clear(c) ==
  [New EXCEPT !.out = c.out, !.panic = c.panic]

\* The conditions that hold on entering a state.
Reached(s) ==
  (IF output_buffer_guaranteed_clear(s) THEN {"TxQueueEmpty"} ELSE {})
  \cup
  (IF s.kind # "Established" THEN {}
   ELSE {"Established"}
        \cup (IF s.tx_state = "Closed" THEN {"TxClosed"} ELSE {})
        \cup (IF s.rx_state = "Closed" THEN {"RxClosed"} ELSE {})
        \cup (IF s.tx_state = "Closed" /\ s.rx_state = "Closed"
              THEN {"BothClosed"} ELSE {}))

EnterState(c, s) ==
  Wake([DebugMustHold(c, ValidTransition(c.state, s), "transition") EXCEPT !.state = s],
       {u \in Callers : c.wait[u].kind \in Reached(s)})

\* set_state: after the triggers, a closed and released connection is reduced
\* to TimeWait or Closed.
SetState(c, s) ==
  LET d == EnterState(c, s)
  IN IF ~ /\ s.kind = "Established" /\ s.close_called
          /\ s.tx_state = "Closed" /\ s.rx_state = "Closed"
     THEN d
     ELSE IF s.close_active
          THEN [EnterState(d, TimeWait) EXCEPT !.timer_re_tx = FALSE,
                                               !.timer_timewait = TRUE]
          ELSE Clear(d)

-----------------------------------------------------------------------------
(* RxBuffer and TxBuffer.                                                  *)

Least(a, b) == IF a <= b THEN a ELSE b

\* Wrong variant: the window does not shrink by what is buffered.
curr_window_Static(c) == IF c.rx_fin THEN 0 ELSE INITIAL_WINDOW_SIZE

curr_window(c) ==
  IF c.rx_fin \/ Len(c.rx) >= INITIAL_WINDOW_SIZE THEN 0
  ELSE INITIAL_WINDOW_SIZE - Len(c.rx)

in_window(c, seqn) ==
  in_range_inclusive(seqn, c.ackd,
    wrapping_sub(wrapping_add(c.ackd, INITIAL_WINDOW_SIZE), 1))

\* RFC793, page 26 and 68
check_segment_seq_ok(c, seg) ==
  IF curr_window(c) = 0
  THEN seq_size(seg) = 0 /\ seg.seqn = c.ackd
  ELSE /\ in_window(c, seg.seqn)
       /\ seq_size(seg) # 0 => in_window(c, wrapping_sub(seqn_after(seg), 1))

\* Wrong variants: the FIN is counted twice; data does not advance ackd.
RxWrite_FinTwice(c, seg) ==
  [c EXCEPT !.ackd = wrapping_add(@, seq_size(seg) + Cardinality(seg.flags \cap {"FIN"})),
            !.rx_fin = @ \/ "FIN" \in seg.flags,
            !.rx = @ \o seg.data]
RxWrite_NotAcked(c, seg) ==
  [c EXCEPT !.ackd = wrapping_add(@, seq_size(seg) - Len(seg.data)),
            !.rx_fin = @ \/ "FIN" \in seg.flags,
            !.rx = @ \o seg.data]

\* RxBuffer::write; the FIN is marked before the data is written.
RxWrite(c, seg) ==
  LET fin == "FIN" \in seg.flags
      d == DebugMustHold(c, ~(fin /\ c.rx_fin), "duplicate_fin")
      e == MustHold(d, seg.data = <<>> \/ ~(fin \/ c.rx_fin), "write_after_fin")
  IN [e EXCEPT !.ackd = wrapping_add(@, seq_size(seg)),
               !.rx_fin = @ \/ fin,
               !.rx = @ \o seg.data]

unack_has_space(c) == lt(c.next, wrapping_add(c.unack, c.tx_window))

space_available(c) == wrapping_sub(wrapping_add(c.unack, c.tx_window), c.next)

is_non_ordered_ack(c, ackn) ==
  ackn # c.unack /\ in_range_inclusive(ackn, c.unack, c.next)

\* Wrong variant: SYN and FIN take no sequence number.
OnSend_Payload(c, seg) ==
  [c EXCEPT !.last_sent = <<seg.seqn, seg.ackn, seg.window>>,
            !.next = wrapping_add(@, Len(seg.data)),
            !.re_tx = IF seq_size(seg) # 0 THEN Append(@, seg) ELSE @]

\* TxBuffer::on_send
OnSend(c, seg) ==
  [c EXCEPT !.last_sent = <<seg.seqn, seg.ackn, seg.window>>,
            !.next = wrapping_add(@, seq_size(seg)),
            !.re_tx = IF seq_size(seg) # 0 THEN Append(@, seg) ELSE @]

\* Wrong variant: a segment is removed as soon as the ACK reaches its start.
Unacked_Start(re_tx, end) ==
  LET I == {i \in 1 .. Len(re_tx) : ~lte(re_tx[i].seqn, end)}
  IN IF I = {} THEN <<>>
     ELSE SubSeq(re_tx, CHOOSE i \in I : \A j \in I : i <= j, Len(re_tx))

\* The segments of the retransmission queue that an acknowledgement up to end
\* does not remove: removal stops at the first one not covered.
Unacked(re_tx, end) ==
  LET I == {i \in 1 .. Len(re_tx) : ~lte(seqn_after(re_tx[i]), end)}
  IN IF I = {} THEN <<>>
     ELSE SubSeq(re_tx, CHOOSE i \in I : \A j \in I : i <= j, Len(re_tx))

\* Wrong variant: any ACK wakes the senders.
clear_re_tx_range_WakesAll(c, end) ==
  [WakeKind(c, "Acknowledged") EXCEPT !.re_tx = Unacked(@, end)]

clear_re_tx_range(c, end) ==
  [Wake(c, {u \in Callers : /\ c.wait[u].kind = "Acknowledged"
                            /\ lte(c.wait[u].arg, end)})
     EXCEPT !.re_tx = Unacked(@, end)]

AckSegment(c) == Control({"ACK"}, c.next, c.ackd, curr_window(c))

\* send_ack: an ACK with as much data as MAX_SEGMENT_SIZE and the window allow,
\* and with the FIN when the data is at its end.
SendAck(c) ==
  LET limit == Least(MAX_SEGMENT_SIZE, space_available(c))
      n == Least(limit, Len(c.tx))
      data == SubSeq(c.tx, 1, n)
      read == [c EXCEPT !.tx = SubSeq(@, n + 1, Len(@))]
      woken == IF limit # 0 /\ data = <<>> /\ ~AnyAcknowledged(c)
               THEN WakeKind(read, "TxQueueEmpty") ELSE read
      checked == DebugMustHold(
                   DebugMustHold(woken, c.state.kind # "Closed", "fin_sent_in_closed"),
                   fin_sent(c.state) => data = <<>>, "data_after_fin")
      fin == c.tx_fin /\ n < limit /\ ~fin_sent(c.state)
      d == IF fin
           THEN SetState(checked, Established("Fin", c.state.rx_state,
                                              c.state.close_called,
                                              c.state.close_active))
           ELSE checked
      seg == [AckSegment(d) EXCEPT !.flags = IF fin THEN {"FIN", "ACK"} ELSE {"ACK"},
                                   !.data = data]
  IN IF seq_size(seg) = 0 /\ <<seg.seqn, seg.ackn, seg.window>> = d.last_sent
     THEN d
     ELSE [Send(OnSend(d, seg), seg)
             EXCEPT !.timer_re_tx = @ \/ seq_size(seg) # 0]

-----------------------------------------------------------------------------
(* User calls.  A call that returns an error without changing the          *)
(* connection is left out; CanX is the states in which X does something.   *)

CanConnect(c) == c.state.kind \in {"Closed", "Reset"}

CallConnect(c, new_seqn) ==
  LET d == [SetState(c, SynSent) EXCEPT !.init_seqn = new_seqn,
                                        !.unack = new_seqn, !.next = new_seqn]
      syn == Control({"SYN"}, new_seqn, 0, curr_window(d))
      e == [OnSend(Send(d, syn), syn) EXCEPT !.timer_re_tx = TRUE]
  IN Suspend(e, "opener", "Established", 0)

CanSend(c) == c.state.kind \in {"SynSent", "SynReceived", "Established"}

CallSend(c, data) ==
  LET open == DebugMustHold(c, c.state.tx_state = "Open", "send_after_fin")
      d == [MustHold(open, ~c.tx_fin, "send_after_fin") EXCEPT !.tx = @ \o data]
      avail == Len(d.tx)
  IN IF c.state.kind # "Established"
     THEN Suspend(d, "writer", "Acknowledged", wrapping_add(c.next, Len(data)))
     ELSE IF unack_has_space(d) /\ (avail >= MAX_SEGMENT_SIZE \/ NagleZero)
          THEN SendAck(d) ELSE d

CanRecv(c) ==
  \/ c.state.kind \in {"Listen", "SynSent", "SynReceived"}
  \/ c.state.kind = "Established" /\ c.state.rx_state # "Closed"

\* The bytes a call_recv with a buffer of n bytes returns.
RecvData(c, n) ==
  IF \/ c.state.kind # "Established"
     \/ c.state.rx_state = "Open" /\ Len(c.rx) < n
  THEN <<>>
  ELSE SubSeq(c.rx, 1, Least(n, Len(c.rx)))

CallRecv(c, n) ==
  LET short == Len(c.rx) < n
      read == [MustHold(c, ~c.done, "read_after_done")
                 EXCEPT !.rx = SubSeq(@, Least(n, Len(@)) + 1, Len(@)),
                        !.done = short /\ c.rx_fin]
  IN IF c.state.kind # "Established" THEN Suspend(c, "reader", "Established", 0)
     ELSE IF ~short THEN read
     ELSE IF c.state.rx_state = "Open" THEN Suspend(c, "reader", "Recv", n)
     ELSE SetState(MustHold(read, c.rx_fin, "short_read"),
                   [c.state EXCEPT !.rx_state = "Closed"])

\* Wrong variant: it looks at the buffer only.
SendersQueued_Buffered(c) == c.tx # <<>>

\* A FIN cannot be queued while data or senders are.
SendersQueued(c) == c.tx # <<>> \/ AnyAcknowledged(c)

CanShutdown(c) ==
  \/ c.state.kind \in {"Listen", "SynSent", "SynReceived"}
  \/ c.state.kind = "Established" /\ c.state.tx_state = "Open"

CallShutdown(c) ==
  LET active == IF c.state.rx_state = "Open"
                THEN SetState(c, [c.state EXCEPT !.close_active = TRUE]) ELSE c
  IN CASE c.state.kind \in {"Listen", "SynSent"} -> Clear(c)
       [] c.state.kind = "SynReceived" ->
            IF AnyAcknowledged(c) THEN Suspend(c, "closer", "TxQueueEmpty", 0)
            ELSE SetState(SendAck([c EXCEPT !.tx_fin = TRUE]),
                          Established("Fin", "Open", FALSE, TRUE))
       [] OTHER ->
            IF SendersQueued(c) THEN Suspend(c, "closer", "TxQueueEmpty", 0)
            ELSE SendAck([active EXCEPT !.tx_fin = TRUE])

CanClose(c) == c.state.kind \in {"Listen", "SynSent", "SynReceived", "Established"}

CallClose(c) ==
  LET fin == SendAck([c EXCEPT !.tx_fin = TRUE])
      opened == c.state.tx_state = "Open"
      d == IF opened THEN fin ELSE c
      e == SetState(d, [d.state EXCEPT
                          !.close_called = TRUE,
                          !.close_active = c.state.close_active \/ c.state.rx_state = "Open"])
  IN CASE c.state.kind \in {"Listen", "SynSent"} -> Clear(c)
       [] c.state.kind = "SynReceived" ->
            IF SendersQueued(c) THEN Suspend(c, "closer", "TxQueueEmpty", 0)
            ELSE Suspend(SetState(fin, Established("Fin", "Open", TRUE, TRUE)),
                         "closer", "BothClosed", 0)
       [] OTHER ->
            IF opened /\ SendersQueued(c) THEN Suspend(c, "closer", "TxQueueEmpty", 0)
            ELSE IF d.state.tx_state = "Closed" /\ d.state.rx_state = "Closed" THEN e
            ELSE Suspend(e, "closer", "BothClosed", 0)

CanAbort(c) == c.state.kind \notin {"Reset", "Closed"}

CallAbort(c) ==
  IF c.state.kind \in {"SynReceived", "Established"}
  THEN Clear(Send(c, Control({"RST"}, c.next, 0, curr_window(c))))
  ELSE Clear(c)

-----------------------------------------------------------------------------
(* on_segment, RFC 793 page 64.                                            *)

OnSegmentClosed(c, seg) ==
  IF "RST" \in seg.flags THEN c ELSE Send(c, response_to_closed(seg))

OnSegmentListen(c, seg, new_seqn) ==
  LET d == [MustHold(c, seg.data = <<>>, "syn_with_data")
              EXCEPT !.ackd = wrapping_add(seg.seqn, 1), !.init_seqn = new_seqn,
                     !.unack = new_seqn, !.next = new_seqn, !.tx_window = seg.window]
      syn_ack == Control({"SYN", "ACK"}, new_seqn, d.ackd, curr_window(d))
  IN IF "RST" \in seg.flags THEN c
     ELSE IF "ACK" \in seg.flags THEN Send(c, Control({"RST"}, seg.ackn, 0, 0))
     ELSE IF "SYN" \notin seg.flags THEN c
     ELSE Send([OnSend(SetState(d, SynReceived), syn_ack) EXCEPT !.timer_re_tx = TRUE],
               syn_ack)

ToReset(c) == SetState(Clear(c), Reset)

OnSegmentSynSent(c, seg) ==
  LET d == [clear_re_tx_range(c, seg.ackn)
              EXCEPT !.ackd = wrapping_add(seg.seqn, 1), !.unack = seg.ackn,
                     !.tx_window = seg.window]
  IN IF "ACK" \in seg.flags /\ ~in_range_inclusive(seg.ackn, c.unack, c.next)
     THEN Send(c, Control({"RST"}, seg.ackn, 0, curr_window(c)))
     ELSE IF "RST" \in seg.flags THEN ToReset(c)
     ELSE IF ~({"SYN", "ACK"} \subseteq seg.flags) THEN c
     ELSE IF d.unack = wrapping_add(c.init_seqn, 1) THEN SendAck(SetState(d, FULLY_OPEN))
     ELSE d

\* Wrong variant: a RST is taken for the end of the peer's stream.
OnReset_AsEof(c) ==
  IF c.state.kind = "Established" /\ c.state.rx_state = "Open"
  THEN SetState(WakeKind(c, "Recv"), [c.state EXCEPT !.rx_state = "Fin"])
  ELSE ToReset(c)

\* An acceptable RST outside the handshake of a client.
OnReset(c) ==
  CASE c.state.kind = "SynReceived" -> SetState(Clear(c), Listen)
    [] c.state.kind = "Established" -> ToReset(c)
    [] OTHER -> MustHold(c, FALSE, "rst_unreachable")

\* The window update subroutine; the u16 addition is checked in debug builds.
UpdateCongestion(c, len) ==
  LET grown == IF c.dup_ack_count > 0 THEN SLOW_START_TRESHOLD
               ELSE IF c.congestation_window <= SLOW_START_TRESHOLD
                    THEN 2 * c.congestation_window
               ELSE c.congestation_window + len
  IN [DebugMustHold(c, grown <= WindowMax, "congestion_overflow")
        EXCEPT !.congestation_window = grown % (WindowMax + 1)]

\* Wrong variant: any new ACK stops the retransmission timer.
OnNewAck_Disarms(c, seg) ==
  LET d == UpdateCongestion(c, Len(seg.data))
      f == clear_re_tx_range(d, seg.ackn)
  IN [f EXCEPT !.tx_window = Least(seg.window, d.congestation_window),
               !.unack = seg.ackn, !.timer_re_tx = FALSE]

\* A new valid ACK.  The readers are woken by what the buffer holds before the
\* payload of the segment is stored.
OnNewAck(c, seg) ==
  LET d == UpdateCongestion(c, Len(seg.data))
      e == Wake(d, {u \in Callers : /\ c.wait[u].kind = "Recv"
                                    /\ c.wait[u].arg <= Len(c.rx)})
      f == clear_re_tx_range(e, seg.ackn)
  IN [f EXCEPT !.tx_window = Least(seg.window, d.congestation_window),
               !.unack = seg.ackn,
               !.timer_re_tx = f.re_tx # <<>>]

\* The ACK of our FIN.
OnFinAcked(c, seg) ==
  IF c.state.kind = "Established" /\ c.state.tx_state = "Fin" /\ seg.ackn = c.next
  THEN SetState(DebugMustHold(c, c.tx = <<>> /\ c.re_tx = <<>>, "fin_acked_early"),
                [c.state EXCEPT !.tx_state = "Closed"])
  ELSE c

\* The part of on_segment that handles a valid ackn.
OnAck(c, seg) ==
  LET d == IF c.state.kind = "SynReceived" THEN SetState(c, FULLY_OPEN) ELSE c
      e == IF c.unack # seg.ackn THEN OnNewAck(d, seg) ELSE d
  IN OnFinAcked(e, seg)

\* The peer's FIN, after its segment has been stored; non_ordered was computed
\* before the ACK was handled.
OnFin(c, non_ordered) ==
  CASE c.state.kind = "TimeWait" ->
         IF non_ordered
         THEN [Wake(c, Callers) EXCEPT !.timer_re_tx = FALSE, !.timer_timewait = TRUE]
         ELSE c
    [] c.state.kind \in {"SynReceived", "Established"} ->
         SetState(WakeKind(c, "Recv"),
                  IF c.state.kind = "SynReceived"
                  THEN Established("Open", "Fin", FALSE, FALSE)
                  ELSE [c.state EXCEPT !.rx_state = "Fin"])
    [] OTHER -> c

AfterAck(c, seg, non_ordered) ==
  IF "FIN" \in seg.flags THEN OnFin(c, non_ordered) ELSE c

\* Wrong variants: any segment of the window is stored; the FIN of a segment that
\* came too early is handled.
OnPayload_AnyOrder(c, seg, non_ordered) ==
  IF ~lt(seg.seqn, c.ackd) \/ seg.seqn = c.ackd
  THEN AfterAck(SendAck(RxWrite(c, seg)), seg, non_ordered)
  ELSE Send(c, AckSegment(c))
OnPayload_EarlyFin(c, seg, non_ordered) ==
  IF seg.seqn = c.ackd THEN AfterAck(SendAck(RxWrite(c, seg)), seg, non_ordered)
  ELSE IF lt(seg.seqn, c.ackd) THEN Send(c, AckSegment(c))
  ELSE AfterAck(c, seg, non_ordered)

\* Stores the segment if it is the next one, and answers it.
OnPayload(c, seg, non_ordered) ==
  IF seg.seqn = c.ackd THEN AfterAck(SendAck(RxWrite(c, seg)), seg, non_ordered)
  ELSE IF lt(seg.seqn, c.ackd) THEN Send(c, AckSegment(c))
  ELSE c

\* Wrong variants: every ackn is taken; unacceptable segments are dropped silently.
ack_valid_Any(c, seg) == TRUE
OnUnacceptable_Silent(c, seg) == c

ack_valid(c, seg) == in_range_inclusive(seg.ackn, c.unack, c.next)

OnUnacceptable(c, seg) ==
  IF "RST" \in seg.flags THEN c ELSE Send(c, AckSegment(c))

\* TimeWait, SynReceived and Established.
OnSegmentOpen(c, seg) ==
  LET d == [c EXCEPT !.tx_window = Least(seg.window, c.congestation_window)]
  IN IF ~check_segment_seq_ok(c, seg)
     THEN OnUnacceptable(c, seg)
     ELSE IF "RST" \in seg.flags THEN OnReset(d)
     ELSE IF "SYN" \in seg.flags
     THEN ToReset(Send(d, Control({"RST"}, c.next, 0, curr_window(c))))
     ELSE IF "ACK" \notin seg.flags THEN AfterAck(d, seg, FALSE)
     ELSE IF ~ack_valid(c, seg) THEN d
     ELSE OnPayload(OnAck(d, seg), seg, is_non_ordered_ack(c, seg.ackn))

OnSegment(c, seg, new_seqn) ==
  CASE c.state.kind \in {"Closed", "Reset"} -> OnSegmentClosed(c, seg)
    [] c.state.kind = "Listen" -> OnSegmentListen(c, seg, new_seqn)
    [] c.state.kind = "SynSent" -> OnSegmentSynSent(c, seg)
    [] OTHER -> OnSegmentOpen(c, seg)

-----------------------------------------------------------------------------
(* on_time_tick.  No code arms the usertime timer.                         *)

OnTimerReTx(c) ==
  LET d == [c EXCEPT !.timer_re_tx = FALSE]
  IN CASE c.state.kind \in {"Listen", "SynSent", "SynReceived", "Established"} ->
            IF c.re_tx = <<>> THEN d
            ELSE Send([d EXCEPT !.timer_re_tx = TRUE], Head(c.re_tx))
       [] c.state.kind = "Reset" -> d
       [] OTHER -> MustHold(d, FALSE, "re_tx_unreachable")

OnTimerTimewait(c) ==
  Clear(MustHold(c, c.state.kind = "TimeWait", "timewait_elsewhere"))

\* expired: which of the armed timers have passed their deadline.
OnTimeTick(c, expired) ==
  LET d == IF "re_tx" \in expired /\ c.timer_re_tx THEN OnTimerReTx(c) ELSE c
  IN IF "timewait" \in expired /\ d.timer_timewait THEN OnTimerTimewait(d) ELSE d
=============================================================================
