-------------------------- MODULE ConnectionProofs --------------------------
(***************************************************************************)
(* Facts about the operators that Connection is built from: arithmetic on  *)
(* sequence numbers stays in range, and what the helpers of the methods    *)
(* leave is a connection (Connections) again.                              *)
(***************************************************************************)
EXTENDS Connection, WellFoundedInduction, TLAPS

\* Wrapping arithmetic on sequence numbers stays in the u32 range.
LEMMA WrapType ==
  ASSUME NEW a \in SeqN, NEW b \in SeqN
  PROVE  wrapping_add(a, b) \in SeqN /\ wrapping_sub(a, b) \in SeqN
BY SegmentAssumption DEF SeqN, wrapping_add, wrapping_sub

\* The length of a segment in sequence numbers is itself a sequence number.
LEMMA SizeType ==
  ASSUME NEW seg \in SegmentMeta
  PROVE  seq_size(seg) \in SeqN
<1>1. seg.data \in Seq(Byte) /\ Len(seg.data) + 2 < SeqSpace
  BY DEF SegmentMeta, Payload
<1>2. Len(seg.data) \in Nat BY <1>1
<1> DEFINE s == IF "SYN" \in seg.flags THEN 1 ELSE 0
           f == IF "FIN" \in seg.flags THEN 1 ELSE 0
<1>3. s \in 0 .. 1 /\ f \in 0 .. 1 OBVIOUS
<1>4. seq_size(seg) = Len(seg.data) + s + f BY DEF seq_size
<1> HIDE DEF s, f
<1> QED BY <1>1, <1>2, <1>3, <1>4, SegmentAssumption DEF SeqN

\* Windows are sequence numbers, and sequence numbers are natural.
LEMMA SeqNFacts ==
  /\ SeqN \subseteq Nat /\ 0 \in SeqN /\ 1 \in SeqN
  /\ 0 .. WindowMax \subseteq SeqN
BY SegmentAssumption DEF SeqN

\* The std::cmp::min of two naturals.
LEMMA LeastType ==
  ASSUME NEW a \in Nat, NEW b \in Nat
  PROVE  Least(a, b) \in Nat /\ Least(a, b) <= a /\ Least(a, b) <= b
BY DEF Least

\* A set of naturals that is not empty has a least element.
LEMMA HasLeast ==
  ASSUME NEW I \in SUBSET Nat, I # {}
  PROVE  \E i \in I : \A j \in I : i <= j
<1> DEFINE R == OpToRel(<, Nat)
<1>1. IsWellFoundedOn(R, Nat) BY NatLessThanWellFounded
<1>2. \A x, y \in Nat : x < y => <<x, y>> \in R BY DEF OpToRel
<1> HIDE DEF R
<1>3. PICK x \in I : \A y \in I : ~(<<y, x>> \in R) BY <1>1, WFMin
<1>4. \A y \in I : ~(y < x) BY <1>2, <1>3
<1>5. \A y \in I : x <= y BY <1>4
<1> QED BY <1>5

\* The segments without payload that the library builds are segments.
LEMMA EmptySegmentType ==
  ASSUME NEW flags \in SUBSET SegmentFlags, NEW seqn \in SeqN, NEW ackn \in SeqN,
         NEW window \in 0 .. WindowMax
  PROVE  Control(flags, seqn, ackn, window) \in SegmentMeta
<1>1. <<>> \in Payload BY SegmentAssumption DEF Payload
<1> QED BY <1>1 DEF Control, SegmentMeta

\* The constant states of state.rs are states.
LEMMA StatesType ==
  /\ SynSent \in ConnectionStates /\ SynReceived \in ConnectionStates
  /\ Listen \in ConnectionStates /\ TimeWait \in ConnectionStates
  /\ Reset \in ConnectionStates /\ Closed \in ConnectionStates
  /\ FULLY_OPEN \in ConnectionStates
<1>1. FULLY_OPEN \in ConnectionStates
  BY DEF FULLY_OPEN, Established, ConnectionStates, StateKind, ChannelState
<1>2. SynSent \in ConnectionStates /\ SynReceived \in ConnectionStates
  BY <1>1 DEF SynSent, SynReceived, Handshake, ConnectionStates, StateKind
<1>3. /\ Listen \in ConnectionStates /\ TimeWait \in ConnectionStates
      /\ Reset \in ConnectionStates /\ Closed \in ConnectionStates
  BY DEF Listen, TimeWait, Reset, Closed, Finished, ConnectionStates, StateKind,
         ChannelState
<1> QED BY <1>1, <1>2, <1>3

\* Connection::new builds a connection.
LEMMA NewType == New \in Connections
<1>1. Closed \in ConnectionStates BY StatesType
<1>2. [u \in Callers |-> NoWait] \in [Callers -> WaitUntil] BY DEF NoWait, WaitUntil
<1>3. <<>> \in Seq(Byte) /\ <<>> \in Seq(SegmentMeta) OBVIOUS
<1>4. 0 \in SeqN /\ 0 \in 0 .. WindowMax /\ INITIAL_WINDOW_SIZE \in 0 .. WindowMax
  BY SegmentAssumption, ConnectionAssumption DEF SeqN
<1>5. <<>> \in (SeqN \X SeqN \X (0 .. WindowMax)) \cup {<<>>} BY Zenon
<1>6. "none" \in Panics BY DEF Panics
<1> HIDE DEF Callers
<1> QED BY <1>1, <1>2, <1>3, <1>4, <1>5, <1>6 DEF New, Connections

-----------------------------------------------------------------------------
\* A checked assertion leaves a connection.
LEMMA MustHoldType ==
  ASSUME NEW c \in Connections, NEW holds, NEW what \in Panics
  PROVE  /\ MustHold(c, holds, what) \in Connections
         /\ DebugMustHold(c, holds, what) \in Connections
BY DEF MustHold, DebugMustHold, Connections

\* user_data.send leaves a connection.
LEMMA SendType ==
  ASSUME NEW c \in Connections, NEW seg \in SegmentMeta
  PROVE  Send(c, seg) \in Connections
<1>1. Append(c.out, seg) \in Seq(SegmentMeta) BY DEF Connections
<1> QED BY <1>1 DEF Send, Connections

\* trigger_event leaves a connection, whoever it wakes.
LEMMA WakeType ==
  ASSUME NEW c \in Connections, NEW who
  PROVE  Wake(c, who) \in Connections
<1>1. NoWait \in WaitUntil BY DEF NoWait, WaitUntil
<1>2. c.wait \in [Callers -> WaitUntil] BY DEF Connections
<1>3. [u \in Callers |-> IF u \in who THEN NoWait ELSE c.wait[u]] \in [Callers -> WaitUntil]
  BY <1>1, <1>2
<1> QED BY <1>3 DEF Wake, Connections

\* return_retry_after and return_continue_after leave a connection.
LEMMA SuspendType ==
  ASSUME NEW c \in Connections, NEW u \in Callers, NEW kind \in WaitKind,
         NEW arg \in Nat
  PROVE  Suspend(c, u, kind, arg) \in Connections
<1>1. WaitFor(kind, arg) \in WaitUntil BY DEF WaitFor, WaitUntil
<1>2. c.wait \in [Callers -> WaitUntil] BY DEF Connections
<1>3. [c.wait EXCEPT ![u] = WaitFor(kind, arg)] \in [Callers -> WaitUntil]
  BY <1>1, <1>2
<1> QED BY <1>3 DEF Suspend, Connections

\* clear leaves a connection.
LEMMA ClearType ==
  ASSUME NEW c \in Connections
  PROVE  Clear(c) \in Connections
<1>1. c.out \in Seq(SegmentMeta) /\ c.panic \in Panics BY DEF Connections
<1> QED BY <1>1, NewType DEF Clear, Connections

\* curr_window fits the window field, a u16.
LEMMA WindowType ==
  ASSUME NEW c \in Connections
  PROVE  curr_window(c) \in 0 .. WindowMax
<1>1. Len(c.rx) \in Nat BY DEF Connections
<1> QED BY <1>1, SegmentAssumption, ConnectionAssumption DEF curr_window

\* RxBuffer::write leaves a connection.
LEMMA RxWriteType ==
  ASSUME NEW c \in Connections, NEW seg \in SegmentMeta
  PROVE  RxWrite(c, seg) \in Connections
<1> DEFINE fin == "FIN" \in seg.flags
           d == DebugMustHold(c, ~(fin /\ c.rx_fin), "duplicate_fin")
           e == MustHold(d, seg.data = <<>> \/ ~(fin \/ c.rx_fin), "write_after_fin")
<1>1. d \in Connections BY MustHoldType DEF Panics
<1>2. e \in Connections BY <1>1, MustHoldType DEF Panics
<1>3. wrapping_add(e.ackd, seq_size(seg)) \in SeqN
  BY <1>2, SizeType, WrapType DEF Connections
<1>4. e.rx \o seg.data \in Seq(Byte)
  <2>1. e.rx \in Seq(Byte) /\ seg.data \in Seq(Byte)
    BY <1>2 DEF Connections, SegmentMeta, Payload
  <2> QED BY <2>1
<1>5. (e.rx_fin \/ fin) \in BOOLEAN BY <1>2 DEF Connections
<1> HIDE DEF e
<1>6. [e EXCEPT !.ackd = wrapping_add(@, seq_size(seg)), !.rx_fin = @ \/ fin,
                !.rx = @ \o seg.data] \in Connections
  BY <1>2, <1>3, <1>4, <1>5 DEF Connections
<1> QED BY <1>6 DEF RxWrite, e

\* TxBuffer::on_send leaves a connection.
LEMMA OnSendType ==
  ASSUME NEW c \in Connections, NEW seg \in SegmentMeta
  PROVE  OnSend(c, seg) \in Connections
<1>1. seg.seqn \in SeqN /\ seg.ackn \in SeqN /\ seg.window \in 0 .. WindowMax
  BY DEF SegmentMeta
<1>2. wrapping_add(c.next, seq_size(seg)) \in SeqN
  BY WrapType, SizeType DEF Connections
<1>3. c.re_tx \in Seq(SegmentMeta) BY DEF Connections
<1>4. Append(c.re_tx, seg) \in Seq(SegmentMeta) BY <1>3
<1> QED BY <1>1, <1>2, <1>3, <1>4 DEF OnSend, Connections

\* What an acknowledgement leaves in the retransmission queue is empty or a
\* suffix of it: clear_re_tx_range removes from the front only.
LEMMA UnackedType ==
  ASSUME NEW q \in Seq(SegmentMeta), NEW end \in SeqN
  PROVE  /\ Unacked(q, end) \in Seq(SegmentMeta)
         /\ Unacked(q, end) # <<>> =>
              \E i \in 1 .. Len(q) : Unacked(q, end) = SubSeq(q, i, Len(q))
<1> DEFINE I == {i \in 1 .. Len(q) : ~lte(seqn_after(q[i]), end)}
           i == CHOOSE k \in I : \A j \in I : k <= j
<1>1. CASE I = {} BY <1>1 DEF Unacked
<1>2. CASE I # {}
  <2>1. I \in SUBSET Nat OBVIOUS
  <2>2. i \in I BY <1>2, <2>1, HasLeast
  <2>3. i \in 1 .. Len(q) BY <2>2
  <2>4. Unacked(q, end) = SubSeq(q, i, Len(q)) BY <1>2 DEF Unacked
  <2> HIDE DEF i, I
  <2>5. SubSeq(q, i, Len(q)) \in Seq(SegmentMeta) BY <2>3
  <2> QED BY <2>3, <2>4, <2>5
<1> QED BY <1>1, <1>2

\* TxBuffer::clear_re_tx_range leaves a connection.
LEMMA ClearRangeType ==
  ASSUME NEW c \in Connections, NEW end \in SeqN
  PROVE  clear_re_tx_range(c, end) \in Connections
<1> DEFINE d == Wake(c, {u \in Callers : /\ c.wait[u].kind = "Acknowledged"
                                         /\ lte(c.wait[u].arg, end)})
<1>1. d \in Connections BY WakeType
<1>2. Unacked(d.re_tx, end) \in Seq(SegmentMeta)
  BY <1>1, UnackedType DEF Connections
<1> HIDE DEF d
<1>3. [d EXCEPT !.re_tx = Unacked(@, end)] \in Connections
  BY <1>1, <1>2 DEF Connections
<1> QED BY <1>3 DEF clear_re_tx_range, d

\* The pure ACK that send_ack starts from is a segment.
LEMMA AckSegmentType ==
  ASSUME NEW c \in Connections
  PROVE  AckSegment(c) \in SegmentMeta
<1>1. c.next \in SeqN /\ c.ackd \in SeqN BY DEF Connections
<1> QED BY <1>1, WindowType, EmptySegmentType DEF AckSegment, SegmentFlags

\* Established with any channel states and flags is a state.
LEMMA EstablishedType ==
  ASSUME NEW tx \in ChannelState, NEW rx \in ChannelState, NEW called \in BOOLEAN,
         NEW active \in BOOLEAN
  PROVE  Established(tx, rx, called, active) \in ConnectionStates
BY DEF Established, ConnectionStates, StateKind

\* The fields of the state of a connection.
LEMMA StateFields ==
  ASSUME NEW c \in Connections
  PROVE  /\ c.state \in ConnectionStates
         /\ c.state.kind \in StateKind
         /\ c.state.tx_state \in ChannelState /\ c.state.rx_state \in ChannelState
         /\ c.state.close_called \in BOOLEAN /\ c.state.close_active \in BOOLEAN
BY DEF Connections, ConnectionStates

\* What send_ack reads from the buffer fits a segment, the rest is a buffer.
LEMMA PrefixType ==
  ASSUME NEW s \in Seq(Byte), NEW n \in Nat, n <= Len(s), n <= MAX_SEGMENT_SIZE
  PROVE  /\ SubSeq(s, 1, n) \in Payload
         /\ Len(SubSeq(s, 1, n)) = n
         /\ SubSeq(s, n + 1, Len(s)) \in Seq(Byte)
         /\ n = Len(s) => SubSeq(s, n + 1, Len(s)) = <<>>
<1>1. SubSeq(s, 1, n) \in Seq(Byte) /\ Len(SubSeq(s, 1, n)) = n OBVIOUS
<1>2. SubSeq(s, n + 1, Len(s)) \in Seq(Byte) OBVIOUS
<1>3. n = Len(s) => SubSeq(s, n + 1, Len(s)) = <<>> OBVIOUS
<1>4. n + 2 < SeqSpace BY SegmentAssumption, ConnectionAssumption
<1> QED BY <1>1, <1>2, <1>3, <1>4 DEF Payload

\* space_available is a u32, also when it underflows.
LEMMA SpaceType ==
  ASSUME NEW c \in Connections
  PROVE  space_available(c) \in SeqN
<1>1. c.unack \in SeqN /\ c.next \in SeqN /\ c.tx_window \in SeqN
  BY SeqNFacts DEF Connections
<1> QED BY <1>1, WrapType DEF space_available

\* TxBuffer::mark_fin leaves a connection.
LEMMA FinQueuedType ==
  ASSUME NEW c \in Connections
  PROVE  [c EXCEPT !.tx_fin = TRUE] \in Connections
BY DEF Connections

\* The fields of a segment.
LEMMA SegmentFields ==
  ASSUME NEW seg \in SegmentMeta
  PROVE  /\ seg.seqn \in SeqN /\ seg.ackn \in SeqN /\ seg.window \in 0 .. WindowMax
         /\ seg.data \in Seq(Byte) /\ Len(seg.data) \in Nat /\ Len(seg.data) \in SeqN
         /\ wrapping_add(seg.seqn, 1) \in SeqN
<1>1. seg.seqn \in SeqN /\ seg.ackn \in SeqN /\ seg.window \in 0 .. WindowMax
  BY DEF SegmentMeta
<1>2. seg.data \in Seq(Byte) /\ Len(seg.data) + 2 < SeqSpace
  BY DEF SegmentMeta, Payload
<1>3. Len(seg.data) \in Nat BY <1>2
<1>4. Len(seg.data) \in SeqN BY <1>2, <1>3, SegmentAssumption DEF SeqN
<1> QED BY <1>1, <1>2, <1>3, <1>4, SeqNFacts, WrapType

\* The congestion window wraps in its u16 and leaves a connection.
LEMMA UpdateCongestionType ==
  ASSUME NEW c \in Connections, NEW len \in Nat
  PROVE  UpdateCongestion(c, len) \in Connections
<1> DEFINE grown == IF c.dup_ack_count > 0 THEN SLOW_START_TRESHOLD
                    ELSE IF c.congestation_window <= SLOW_START_TRESHOLD
                         THEN 2 * c.congestation_window
                    ELSE c.congestation_window + len
           m == DebugMustHold(c, grown <= WindowMax, "congestion_overflow")
<1>1. grown \in Nat BY ConnectionAssumption, SegmentAssumption DEF Connections
<1> HIDE DEF grown
<1>2. grown % (WindowMax + 1) \in 0 .. WindowMax BY <1>1, SegmentAssumption
<1>3. m \in Connections BY MustHoldType DEF Panics
<1> HIDE DEF m
<1>4. [m EXCEPT !.congestation_window = grown % (WindowMax + 1)] \in Connections
  BY <1>2, <1>3 DEF Connections
<1> QED BY <1>4 DEF UpdateCongestion, m, grown
=============================================================================
