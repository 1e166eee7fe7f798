---------------------------- MODULE StreamProofs ----------------------------
(***************************************************************************)
(* What the methods of a connection do to the numbering of the two byte    *)
(* streams it takes part in: how they keep TxOk and RxOk, and what they    *)
(* send.                                                                   *)
(***************************************************************************)
EXTENDS TcpInvariant, MethodProofs

\* The offset of a sequence number in a stream is below SeqSpace.
LEMMA OffsetType ==
  ASSUME NEW isn \in SeqN, NEW s \in SeqN
  PROVE  Offset(isn, s) \in SeqN /\ Offset(isn, s) \in Nat
BY WrapType, SeqNFacts DEF Offset

\* Adding to a sequence number adds to its offset, as long as it does not reach
\* the end of the sequence space.
LEMMA OffsetAdd ==
  ASSUME NEW isn \in SeqN, NEW s \in SeqN, NEW n \in Nat,
         Offset(isn, s) + n < SeqSpace
  PROVE  Offset(isn, wrapping_add(s, n)) = Offset(isn, s) + n
BY SegmentAssumption DEF SeqN, Offset, wrapping_add, wrapping_sub

\* The initial sequence number has offset 0, the first byte offset 1.
LEMMA OffsetStart ==
  ASSUME NEW isn \in SeqN
  PROVE  /\ Offset(isn, isn) = 0
         /\ Offset(isn, wrapping_add(isn, 1)) = 1
BY SegmentAssumption DEF SeqN, Offset, wrapping_add, wrapping_sub

\* A sequence of elements of a set is one of elements of a larger set.
LEMMA SeqMono ==
  ASSUME NEW S, NEW T, S \subseteq T, NEW s \in Seq(S)
  PROVE  s \in Seq(T)
OBVIOUS

\* What is in the stream stays in it when more is written or its end is marked.
LEMMA OfStreamGrows ==
  ASSUME NEW isn \in SeqN, NEW w \in Nat, NEW v \in Nat, w <= v,
         NEW e \in BOOLEAN, NEW f \in BOOLEAN, e => f /\ w = v
  PROVE  OfStream(isn, w, e) \subseteq OfStream(isn, v, f)
<1> SUFFICES ASSUME NEW seg \in OfStream(isn, w, e) PROVE seg \in OfStream(isn, v, f)
  OBVIOUS
<1>1. seg \in SegmentMeta BY DEF OfStream
<1>2. Offset(isn, seg.seqn) \in Nat /\ Len(seg.data) \in Nat
  BY <1>1, OffsetType, SegmentFields
<1> QED BY <1>1, <1>2 DEF OfStream

\* What ends at some offset ends at a later one or before.
LEMMA UpToGrows ==
  ASSUME NEW isn \in SeqN, NEW m \in Nat, NEW n \in Nat, m <= n
  PROVE  UpTo(isn, m) \subseteq UpTo(isn, n)
<1> SUFFICES ASSUME NEW seg \in UpTo(isn, m) PROVE seg \in UpTo(isn, n) OBVIOUS
<1>1. seg \in SegmentMeta BY DEF UpTo
<1>2. Offset(isn, seg.seqn) \in Nat /\ seq_size(seg) \in Nat
  BY <1>1, OffsetType, SegmentFields, SizeType, SeqNFacts
<1> QED BY <1>1, <1>2 DEF UpTo

\* A segment without payload, SYN and FIN ends nowhere.
LEMMA ControlUpTo ==
  ASSUME NEW seg \in SegmentMeta, seg.data = <<>>, "FIN" \notin seg.flags, "SYN" \notin seg.flags,
         NEW isn, NEW m
  PROVE  seg \in UpTo(isn, m)
<1>1. seq_size(seg) = 0 BY DEF seq_size
<1> QED BY <1>1 DEF UpTo

\* Before anything is written, there is nothing of the stream but its SYN.
LEMMA SynUpTo ==
  ASSUME NEW isn \in SeqN
  PROVE  OfStream(isn, 0, FALSE) \subseteq UpTo(isn, 1)
<1> SUFFICES ASSUME NEW seg \in OfStream(isn, 0, FALSE) PROVE seg \in UpTo(isn, 1) OBVIOUS
<1> DEFINE k == Offset(isn, seg.seqn)
<1>1. seg \in SegmentMeta /\ "FIN" \notin seg.flags BY DEF OfStream
<1>2. k \in Nat /\ seg.data \in Seq(Byte) /\ Len(seg.data) \in Nat
  BY <1>1, SegmentFields, OffsetType
<1>3. seg.data = <<>>
  <2>1. seg.data # <<>> => 1 <= k /\ k + Len(seg.data) <= 0 + 1 BY DEF OfStream
  <2>2. seg.data # <<>> => Len(seg.data) # 0 BY <1>2
  <2> HIDE DEF k
  <2> QED BY <1>2, <2>1, <2>2
<1>4. CASE "SYN" \notin seg.flags BY <1>1, <1>3, <1>4, ControlUpTo
<1>5. CASE "SYN" \in seg.flags
  <2>1. k = 0 BY <1>5, OffsetStart DEF OfStream
  <2>2. seq_size(seg) = 1 BY <1>1, <1>3, <1>5 DEF seq_size
  <2> QED BY <1>1, <2>1, <2>2 DEF UpTo
<1> QED BY <1>4, <1>5

\* What acknowledges no more than m acknowledges no more than a larger number.
LEMMA AckUpToGrows ==
  ASSUME NEW isn \in SeqN, NEW m \in Nat, NEW j \in Nat, m <= j
  PROVE  AckUpTo(isn, m) \subseteq AckUpTo(isn, j)
<1> SUFFICES ASSUME NEW seg \in AckUpTo(isn, m) PROVE seg \in AckUpTo(isn, j) OBVIOUS
<1>1. seg \in SegmentMeta BY DEF AckUpTo
<1>2. Offset(isn, seg.ackn) \in Nat BY <1>1, SegmentFields, OffsetType
<1> QED BY <1>1, <1>2 DEF AckUpTo

-----------------------------------------------------------------------------
(* What the methods leave to each other.                                    *)

\* The fields of the two streams that SameCore does not name.
SameRest(c, d) ==
  /\ d.out = c.out /\ d.rx = c.rx /\ d.rx_fin = c.rx_fin /\ d.ackd = c.ackd

\* An assertion touches no stream.
LEMMA MustHoldRest ==
  ASSUME NEW c \in Connections, NEW holds, NEW what
  PROVE  /\ SameRest(c, MustHold(c, holds, what))
         /\ SameRest(c, DebugMustHold(c, holds, what))
BY DEF SameRest, MustHold, DebugMustHold, Connections

\* Waking and suspending calls touches no stream.
LEMMA WakeRest ==
  ASSUME NEW c \in Connections, NEW who, NEW u, NEW kind, NEW arg
  PROVE  /\ SameRest(c, Wake(c, who)) /\ SameRest(c, WakeKind(c, kind))
         /\ SameRest(c, Suspend(c, u, kind, arg))
BY DEF SameRest, Wake, WakeKind, Suspend, Connections

\* The triggers of a state touch no stream.
LEMMA EnterStateRest ==
  ASSUME NEW c \in Connections, NEW s \in ConnectionStates
  PROVE  SameRest(c, EnterState(c, s))
<1> DEFINE m == DebugMustHold(c, ValidTransition(c.state, s), "transition")
           d == [m EXCEPT !.state = s]
           who == {u \in Callers : c.wait[u].kind \in Reached(s)}
<1>1. m \in Connections /\ SameRest(c, m)
  BY MustHoldType, MustHoldRest DEF Panics
<1> HIDE DEF m
<1>2. d \in Connections /\ SameRest(c, d) BY <1>1 DEF Connections, SameRest
<1>3. EnterState(c, s) = Wake(d, who) BY DEF EnterState, m
<1> HIDE DEF d, who
<1>4. SameRest(d, Wake(d, who)) BY <1>2, WakeRest
<1> QED BY <1>2, <1>3, <1>4 DEF SameRest

\* Both together.
LEMMA EnterStateAll ==
  ASSUME NEW c \in Connections, NEW s \in ConnectionStates, NEW d, d = EnterState(c, s)
  PROVE  /\ d \in Connections /\ d.state = s /\ SameRest(c, d)
         /\ d.tx = c.tx /\ d.tx_fin = c.tx_fin /\ d.re_tx = c.re_tx /\ d.next = c.next
         /\ PanicKept(c, d)
BY EnterStateRest, EnterStateFields

\* What clear leaves of the streams.
LEMMA ClearAll ==
  ASSUME NEW c, NEW r, r = Clear(c)
  PROVE  /\ r.state = Closed /\ r.out = c.out /\ r.rx = <<>> /\ r.rx_fin = FALSE
         /\ r.tx_fin = FALSE /\ r.re_tx = <<>> /\ r.tx = <<>> /\ r.panic = c.panic
BY DEF Clear, New

Ended == {"Closed", "Reset"}

\* How the kind of a state develops, but for call_connect, the first SYN of a
\* listener and the return to LISTEN.
Later(j, k) ==
  \/ k = j \/ k \in Ended
  \/ /\ j \in {"SynSent", "SynReceived", "Established", "TimeWait"}
     /\ k \in {"Established", "TimeWait"}

\* The end of the peer's stream has been taken note of in the state.
Eof(c) == c.state.kind = "Established" /\ c.state.rx_state # "Open"

\* The queue p holds nothing that q does not.
KeptIn(q, p) == \A G : q \in Seq(G) => p \in Seq(G)

Gone(r) == r.state.kind \in Ended /\ r.rx = <<>> /\ ~r.rx_fin /\ ~r.tx_fin

SameStream(c, r) ==
  /\ r.tx = c.tx /\ r.tx_fin = c.tx_fin /\ r.next = c.next
  /\ r.rx = c.rx /\ r.rx_fin = c.rx_fin /\ r.ackd = c.ackd
  /\ KeptIn(c.re_tx, r.re_tx)
  /\ r.state.kind \in Idle => r.state.kind = c.state.kind
  /\ fin_sent(c.state) => fin_sent(r.state)
  /\ Eof(r) => Eof(c) \/ r.rx_fin

\* A method that sends nothing: it goes on with the streams or drops them.
Quiet(c, r) ==
  /\ r.out = c.out
  /\ r.panic = "none" => c.panic = "none"
  /\ Later(c.state.kind, r.state.kind)
  /\ (Gone(r) /\ r.re_tx = <<>>) \/ SameStream(c, r)

\* Quiet is transitive.
LEMMA QuietTrans ==
  ASSUME NEW c, NEW d, NEW e, Quiet(c, d), Quiet(d, e)
  PROVE  Quiet(c, e)
<1>1. /\ e.out = c.out /\ (e.panic = "none" => c.panic = "none")
      /\ Later(c.state.kind, e.state.kind)
  BY DEF Quiet, Later, Ended
<1>2. CASE Gone(e) /\ e.re_tx = <<>> BY <1>1, <1>2 DEF Quiet
<1>3. CASE Gone(d) /\ d.re_tx = <<>> /\ SameStream(d, e)
  <2>1. e.state.kind \in Ended BY <1>3 DEF Quiet, Later, Gone, Ended
  <2>2. e.re_tx \in Seq({})
    <3>1. d.re_tx \in Seq({}) BY <1>3
    <3> QED BY <1>3, <3>1 DEF SameStream, KeptIn
  <2>3. e.re_tx = <<>> BY <2>2
  <2> QED BY <1>1, <1>3, <2>1, <2>3 DEF Quiet, Gone, SameStream
<1>4. CASE SameStream(c, d) /\ SameStream(d, e)
  <2>1. KeptIn(c.re_tx, e.re_tx) BY <1>4 DEF SameStream, KeptIn
  <2>2. SameStream(c, e) BY <1>4, <2>1 DEF SameStream
  <2> QED BY <1>1, <2>2 DEF Quiet
<1> QED BY <1>2, <1>3, <1>4 DEF Quiet

\* Touching none of the fields of the streams is quiet.
LEMMA SameQuiet ==
  ASSUME NEW c, NEW r, SameCore(c, r), SameRest(c, r), PanicKept(c, r)
  PROVE  Quiet(c, r) /\ SameStream(c, r)
BY DEF SameCore, SameRest, PanicKept, Quiet, SameStream, KeptIn, Later, Eof

\* What set_state needs of the state to be quiet.
QuietState(c, s) ==
  /\ s \in ConnectionStates /\ s.kind \notin Idle
  /\ Later(c.state.kind, s.kind)
  /\ fin_sent(c.state) => fin_sent(s)
  /\ s.kind = "Established" /\ s.rx_state # "Open" => Eof(c) \/ c.rx_fin

\* set_state is quiet, also when it goes on to TIME-WAIT or CLOSED.
LEMMA SetStateQuiet ==
  ASSUME NEW c \in Connections, NEW s, QuietState(c, s), NEW r, r = SetState(c, s)
  PROVE  /\ r \in Connections /\ Quiet(c, r)
         /\ ~Reduces(s) => r.state = s /\ SameStream(c, r)
<1> DEFINE d == EnterState(c, s)
           e == EnterState(d, TimeWait)
           t == [e EXCEPT !.timer_re_tx = FALSE, !.timer_timewait = TRUE]
<1>1. s \in ConnectionStates /\ TimeWait \in ConnectionStates /\ TimeWait.kind = "TimeWait"
  BY StatesType DEF QuietState, TimeWait, Finished
<1>2. /\ d \in Connections /\ d.state = s /\ SameRest(c, d)
      /\ d.tx = c.tx /\ d.tx_fin = c.tx_fin /\ d.re_tx = c.re_tx /\ d.next = c.next
      /\ PanicKept(c, d)
  BY <1>1, EnterStateAll
<1>4. r = d \/ (Reduces(s) /\ (r = t \/ r = Clear(d))) BY DEF SetState, Reduces
<1>7. ~Reduces(s) => r = d BY DEF SetState, Reduces
<1> HIDE DEF d
<1>3. SameStream(c, d) /\ Quiet(c, d)
  BY <1>2 DEF SameStream, Quiet, SameRest, PanicKept, KeptIn, QuietState, Eof
<1>5. CASE r = t /\ Reduces(s)
  <2>3. /\ e \in Connections /\ e.state = TimeWait /\ SameRest(d, e)
        /\ e.tx = d.tx /\ e.tx_fin = d.tx_fin /\ e.re_tx = d.re_tx /\ e.next = d.next
        /\ PanicKept(d, e)
    BY <1>1, <1>2, EnterStateAll
  <2> HIDE DEF e
  <2>4. /\ t \in Connections /\ t.state = TimeWait /\ SameRest(d, t)
        /\ t.tx = d.tx /\ t.tx_fin = d.tx_fin /\ t.re_tx = d.re_tx /\ t.next = d.next
        /\ PanicKept(d, t)
    BY <2>3 DEF Connections, PanicKept, SameRest
  <2> HIDE DEF t
  <2>5. Quiet(d, t)
    BY <1>1, <1>2, <1>5, <2>4 DEF SameStream, Quiet, SameRest, PanicKept, KeptIn, Eof,
       Reduces, Later, Idle, fin_sent
  <2> QED BY <1>3, <1>5, <2>4, <2>5, QuietTrans
<1>6. CASE r = Clear(d) /\ Reduces(s)
  <2>1. r \in Connections BY <1>2, <1>6, ClearType
  <2>2. Quiet(d, r)
    BY <1>2, <1>6, ClearAll, KindOf DEF Quiet, Gone, Later, Ended
  <2> QED BY <1>3, <1>6, <2>1, <2>2, QuietTrans
<1> QED BY <1>2, <1>3, <1>4, <1>5, <1>6, <1>7

-----------------------------------------------------------------------------
(* send_ack.                                                                *)

\* What send_ack did: n bytes of the buffer and perhaps the FIN went into seg, which
\* was queued if it takes sequence numbers and sent unless an assertion failed.
AckSent(c, r, n, fin, seg) ==
  /\ n <= Len(c.tx) /\ (fin => c.tx_fin /\ n = Len(c.tx) /\ ~fin_sent(c.state))
  /\ seg.seqn = c.next /\ seg.ackn = c.ackd /\ seg.data = SubSeq(c.tx, 1, n)
  /\ seg.flags = IF fin THEN {"FIN", "ACK"} ELSE {"ACK"}
  /\ r.state = IF fin THEN Established("Fin", c.state.rx_state, c.state.close_called,
                                       c.state.close_active)
               ELSE c.state
  /\ r.tx = SubSeq(c.tx, n + 1, Len(c.tx)) /\ r.tx_fin = c.tx_fin
  /\ r.next = wrapping_add(c.next, seq_size(seg))
  /\ r.re_tx = IF seq_size(seg) # 0 THEN Append(c.re_tx, seg) ELSE c.re_tx
  /\ r.out = c.out \/ (r.panic = "none" /\ r.out = Append(c.out, seg))
  /\ r.rx = c.rx /\ r.rx_fin = c.rx_fin /\ r.ackd = c.ackd
  /\ PanicKept(c, r)

\* The fields of the segment and of the connection that send_ack leaves.
LEMMA SendAckEffect ==
  ASSUME NEW c \in Connections, NEW r, r = SendAck(c)
  PROVE  \E n \in Nat, fin \in BOOLEAN, seg \in SegmentMeta : AckSent(c, r, n, fin, seg)
<1> DEFINE limit == Least(MAX_SEGMENT_SIZE, space_available(c))
           n == Least(limit, Len(c.tx))
           data == SubSeq(c.tx, 1, n)
           read == [c EXCEPT !.tx = SubSeq(@, n + 1, Len(@))]
           woken == IF limit # 0 /\ data = <<>> /\ ~AnyAcknowledged(c)
                    THEN WakeKind(read, "TxQueueEmpty") ELSE read
           check1 == DebugMustHold(woken, c.state.kind # "Closed", "fin_sent_in_closed")
           checked == DebugMustHold(check1, fin_sent(c.state) => data = <<>>, "data_after_fin")
           fin == c.tx_fin /\ n < limit /\ ~fin_sent(c.state)
           s == Established("Fin", c.state.rx_state, c.state.close_called,
                            c.state.close_active)
           d == IF fin THEN SetState(checked, s) ELSE checked
           seg == [AckSegment(d) EXCEPT !.flags = IF fin THEN {"FIN", "ACK"} ELSE {"ACK"},
                                        !.data = data]
           sent == Send(OnSend(d, seg), seg)
           f == [sent EXCEPT !.timer_re_tx = @ \/ seq_size(seg) # 0]
<1>1. c.tx \in Seq(Byte) /\ Len(c.tx) \in Nat BY DEF Connections
<1>2. n \in Nat /\ n <= Len(c.tx) /\ n <= MAX_SEGMENT_SIZE /\ (n < limit => n = Len(c.tx))
  <2>1. space_available(c) \in Nat BY SpaceType, SeqNFacts
  <2>2. limit \in Nat /\ limit <= MAX_SEGMENT_SIZE
    BY <2>1, LeastType, ConnectionAssumption
  <2> HIDE DEF limit
  <2>3. n \in Nat /\ n <= limit /\ n <= Len(c.tx) BY <1>1, <2>2, LeastType
  <2>4. n < limit => n = Len(c.tx) BY <1>1, <2>2 DEF Least
  <2> HIDE DEF n
  <2> QED BY <1>1, <2>2, <2>3, <2>4, ConnectionAssumption
<1> HIDE DEF n
<1>3. data \in Payload /\ SubSeq(c.tx, n + 1, Len(c.tx)) \in Seq(Byte)
  BY <1>1, <1>2, PrefixType
<1>4. /\ read \in Connections /\ read.tx = SubSeq(c.tx, n + 1, Len(c.tx))
      /\ read.state = c.state /\ read.tx_fin = c.tx_fin /\ read.re_tx = c.re_tx
      /\ read.next = c.next /\ read.panic = c.panic /\ SameRest(c, read)
  BY <1>3 DEF Connections, SameRest
<1> HIDE DEF read, data, limit
<1>8. woken \in Connections /\ SameCore(read, woken) /\ PanicKept(read, woken)
      /\ SameRest(read, woken)
  <2>1. woken = read \/ woken = WakeKind(read, "TxQueueEmpty") OBVIOUS
  <2>2. SameCore(read, read) /\ PanicKept(read, read) /\ SameRest(read, read)
    BY DEF SameCore, PanicKept, SameRest
  <2> HIDE DEF woken
  <2> QED BY <1>4, <2>1, <2>2, WakeKindKeeps, WakeRest
<1> HIDE DEF woken
<1>9. /\ check1 \in Connections /\ SameCore(woken, check1) /\ PanicKept(woken, check1)
      /\ SameRest(woken, check1)
  BY <1>8, DebugMustHoldKeeps, MustHoldRest DEF Panics, NeverInTimer
<1> HIDE DEF check1
<1>10. /\ checked \in Connections /\ SameCore(check1, checked)
       /\ PanicKept(check1, checked) /\ SameRest(check1, checked)
  BY <1>9, DebugMustHoldKeeps, MustHoldRest DEF Panics, NeverInTimer
<1> HIDE DEF checked
<1>11. SameCore(read, checked) /\ PanicKept(read, checked) /\ SameRest(c, checked)
  BY <1>4, <1>8, <1>9, <1>10 DEF SameCore, PanicKept, SameRest
<1>13. s \in ConnectionStates BY StateFields, EstablishedType DEF ChannelState
<1>14. ~Reduces(s) BY DEF Reduces, Established
<1>15. /\ d \in Connections /\ PanicKept(c, d) /\ SameRest(c, d)
       /\ d.tx = read.tx /\ d.tx_fin = c.tx_fin /\ d.re_tx = c.re_tx /\ d.next = c.next
       /\ d.state = IF fin THEN s ELSE c.state
  <2>1. CASE fin
    <3>1. d = EnterState(checked, s) BY <2>1, <1>14 DEF SetState, Reduces
    <3>2. /\ d \in Connections /\ d.state = s /\ SameRest(checked, d)
          /\ d.tx = checked.tx /\ d.tx_fin = checked.tx_fin /\ d.re_tx = checked.re_tx
          /\ d.next = checked.next /\ PanicKept(checked, d)
      BY <3>1, <1>10, <1>13, EnterStateAll
    <3> HIDE DEF d, s
    <3> QED BY <2>1, <3>2, <1>4, <1>11 DEF SameCore, PanicKept, SameRest
  <2>2. CASE ~fin
    <3>1. d = checked BY <2>2
    <3> HIDE DEF d, fin, s
    <3> QED BY <2>2, <3>1, <1>4, <1>10, <1>11 DEF SameCore, PanicKept, SameRest
  <2> QED BY <2>1, <2>2
<1>23. fin => c.tx_fin /\ n = Len(c.tx) /\ ~fin_sent(c.state) BY <1>2 DEF fin
<1>24. fin \in BOOLEAN OBVIOUS
<1> HIDE DEF d, fin
<1>17. seg \in SegmentMeta /\ seg.seqn = d.next /\ seg.ackn = d.ackd /\ seg.data = data
       /\ seg.flags = IF fin THEN {"FIN", "ACK"} ELSE {"ACK"}
  <2>1. /\ AckSegment(d) \in SegmentMeta /\ AckSegment(d).seqn = d.next
        /\ AckSegment(d).ackn = d.ackd
    BY <1>15, AckSegmentType DEF AckSegment, Control
  <2> QED BY <2>1, <1>3 DEF SegmentMeta, SegmentFlags
<1> HIDE DEF seg
<1>22. (r = d /\ seq_size(seg) = 0) \/ r = f
  <2> HIDE DEF f
  <2>1. r = d \/ r = f
    BY Zenon DEF SendAck, f, sent, seg, d, s, fin, checked, check1, woken, read, data, n, limit
  <2>2. seq_size(seg) # 0 => r = f
    BY Zenon DEF SendAck, f, sent, seg, d, s, fin, checked, check1, woken, read, data, n, limit
  <2> QED BY <2>1, <2>2
<1>19. OnSend(d, seg) \in Connections /\ sent \in Connections
  BY <1>15, <1>17, OnSendType, SendType
<1>20. /\ f.panic = d.panic /\ f.state = d.state /\ f.tx = d.tx /\ f.tx_fin = d.tx_fin
       /\ f.next = wrapping_add(d.next, seq_size(seg))
       /\ f.re_tx = IF seq_size(seg) # 0 THEN Append(d.re_tx, seg) ELSE d.re_tx
       /\ f.rx = d.rx /\ f.rx_fin = d.rx_fin /\ f.ackd = d.ackd
       /\ f.out = d.out \/ (f.panic = "none" /\ f.out = Append(d.out, seg))
  <2> DEFINE o == OnSend(d, seg)
  <2>1. /\ o.panic = d.panic /\ o.state = d.state /\ o.tx = d.tx /\ o.tx_fin = d.tx_fin
        /\ o.next = wrapping_add(d.next, seq_size(seg))
        /\ o.re_tx = IF seq_size(seg) # 0 THEN Append(d.re_tx, seg) ELSE d.re_tx
        /\ o.rx = d.rx /\ o.rx_fin = d.rx_fin /\ o.ackd = d.ackd /\ o.out = d.out
    BY <1>15 DEF OnSend, Connections
  <2> HIDE DEF o
  <2>2. /\ sent.panic = o.panic /\ sent.state = o.state /\ sent.tx = o.tx
        /\ sent.tx_fin = o.tx_fin /\ sent.next = o.next /\ sent.re_tx = o.re_tx
        /\ sent.rx = o.rx /\ sent.rx_fin = o.rx_fin /\ sent.ackd = o.ackd
        /\ sent.out = o.out \/ (sent.panic = "none" /\ sent.out = Append(o.out, seg))
    BY <1>19 DEF Send, Connections, o
  <2> HIDE DEF sent
  <2>3. /\ f.panic = sent.panic /\ f.state = sent.state /\ f.tx = sent.tx
        /\ f.tx_fin = sent.tx_fin /\ f.next = sent.next /\ f.re_tx = sent.re_tx
        /\ f.rx = sent.rx /\ f.rx_fin = sent.rx_fin /\ f.ackd = sent.ackd
        /\ f.out = sent.out
    BY <1>19, ZenonT(40) DEF Connections
  <2> QED BY <2>1, <2>2, <2>3
<1> HIDE DEF f
<1>21. seq_size(seg) = 0 => d.next = wrapping_add(d.next, seq_size(seg))
  BY <1>15, WrapZero DEF Connections
<1>25. /\ r.panic = d.panic /\ r.state = d.state /\ r.tx = d.tx /\ r.tx_fin = d.tx_fin
       /\ r.next = wrapping_add(d.next, seq_size(seg))
       /\ r.re_tx = IF seq_size(seg) # 0 THEN Append(d.re_tx, seg) ELSE d.re_tx
       /\ r.rx = d.rx /\ r.rx_fin = d.rx_fin /\ r.ackd = d.ackd
       /\ r.out = d.out \/ (r.panic = "none" /\ r.out = Append(d.out, seg))
  BY <1>20, <1>21, <1>22
<1>26. AckSent(c, r, n, fin, seg)
  BY <1>2, <1>4, <1>15, <1>17, <1>23, <1>25 DEF AckSent, SameRest, PanicKept, s, data
<1> QED BY <1>2, <1>17, <1>24, <1>26

\* Nothing that was sent or is sent again comes after the next sequence number, which
\* has come as far as lo.
OutOk(c, isn, lo) ==
  Live(c) => /\ lo <= Offset(isn, c.next)
             /\ c.out \in Seq(UpTo(isn, Offset(isn, c.next)))
             /\ c.re_tx \in Seq(UpTo(isn, Offset(isn, c.next)))

\* What is sent of the stream fits its numbering, and so does what is still to send.
SendOk(c, isn, w, e, lo) ==
  /\ TxOk(c, isn, w, e) /\ (c.tx_fin => e)
  /\ lo \in Nat /\ OutOk(c, isn, lo)
  /\ c.out \in Seq(OfStream(isn, w, e))

\* The kind of the state and the mark of the FIN only move on.
KindStep(c, r) ==
  /\ r.panic = "none" => c.panic = "none"
  /\ Later(c.state.kind, r.state.kind)
  /\ \/ r.state.kind \in Ended /\ ~r.tx_fin
     \/ /\ r.state.kind \in Idle => r.state.kind = c.state.kind
        /\ c.tx_fin => r.tx_fin
        /\ r.tx_fin => c.tx_fin \/ r.state.kind \in {"Established", "TimeWait"}

\* The receiving side is left alone, or dropped.
RxKept(c, r) ==
  \/ Gone(r)
  \/ /\ r.rx = c.rx /\ r.rx_fin = c.rx_fin /\ r.ackd = c.ackd
     /\ Eof(r) => Eof(c) \/ r.rx_fin

\* The segments send_ack builds.
Acks(a) == {seg \in SegmentMeta : seg.ackn = a /\ seg.flags \in {{"ACK"}, {"FIN", "ACK"}}}

\* Nothing is sent or queued but what was queued and acknowledgements of a.
Emits(c, r, a) ==
  \A G : /\ Acks(a) \subseteq G /\ c.out \in Seq(G) /\ c.re_tx \in Seq(G)
         => r.out \in Seq(G) /\ r.re_tx \in Seq(G)

\* No connection that has ended has a FIN to send.
FinLive(c) == c.tx_fin => c.state.kind \notin Idle

\* A quiet method keeps all of this.
LEMMA QuietKeeps ==
  ASSUME NEW c, NEW r, Quiet(c, r)
  PROVE  /\ KindStep(c, r) /\ RxKept(c, r) /\ (FinLive(c) => FinLive(r))
         /\ \A a : Emits(c, r, a)
         /\ \A isn, w, e, lo : SendOk(c, isn, w, e, lo) => SendOk(r, isn, w, e, lo)
<1>1. KindStep(c, r) /\ RxKept(c, r) /\ (FinLive(c) => FinLive(r))
  BY DEF Quiet, KindStep, RxKept, Gone, SameStream, FinLive
<1>2. ASSUME NEW a PROVE Emits(c, r, a)
  <2> SUFFICES ASSUME NEW G, c.out \in Seq(G), c.re_tx \in Seq(G)
               PROVE  r.out \in Seq(G) /\ r.re_tx \in Seq(G)
    BY DEF Emits
  <2>1. CASE r.re_tx = <<>> BY <2>1 DEF Quiet
  <2>2. CASE SameStream(c, r) BY <2>2 DEF Quiet, SameStream, KeptIn
  <2> QED BY <2>1, <2>2 DEF Quiet
<1>3. ASSUME NEW isn, NEW w, NEW e, NEW lo, SendOk(c, isn, w, e, lo) PROVE SendOk(r, isn, w, e, lo)
  <2>1. CASE Gone(r)
    <3>1. r.state.kind \in Idle BY <2>1 DEF Gone, Idle, Ended
    <3> QED BY <1>3, <2>1, <3>1 DEF SendOk, OutOk, TxOk, Live, Quiet, Gone
  <2>2. CASE SameStream(c, r)
    <3>1. (r.tx_fin => e) /\ r.out \in Seq(OfStream(isn, w, e))
      BY <1>3, <2>2 DEF SendOk, Quiet, SameStream
    <3>2. ASSUME r.panic = "none", r.state.kind \notin Idle
          PROVE  c.panic = "none" /\ c.state.kind \notin Idle
      BY <3>2 DEF Quiet, Later, Idle, Ended
    <3>3. TxOk(r, isn, w, e)
      BY <1>3, <2>2, <3>2 DEF SendOk, TxOk, Live, SameStream, KeptIn
    <3>4. OutOk(r, isn, lo) /\ lo \in Nat
      BY <1>3, <2>2, <3>2 DEF SendOk, OutOk, Live, Quiet, SameStream, KeptIn
    <3> QED BY <3>1, <3>3, <3>4 DEF SendOk
  <2> QED BY <2>1, <2>2 DEF Quiet
<1> QED BY <1>1, <1>2, <1>3

\* What send_ack leaves: the receiving side, and a FIN that was queued is.
LEMMA SendAckKeeps ==
  ASSUME NEW c \in Connections, FinLive(c), NEW r, r = SendAck(c)
  PROVE  /\ KindStep(c, r) /\ FinLive(r) /\ Emits(c, r, c.ackd)
         /\ r.rx = c.rx /\ r.rx_fin = c.rx_fin /\ r.ackd = c.ackd
         /\ r.state.rx_state = c.state.rx_state /\ r.tx_fin = c.tx_fin
         /\ \/ r.state = c.state
            \/ /\ c.tx_fin /\ r.state.kind = "Established" /\ r.state.tx_state = "Fin"
               /\ c.state.kind \in {"SynSent", "SynReceived", "Established"}
         /\ c.state.kind = "Established" => RxKept(c, r)
<1>1. PICK n \in Nat, fin \in BOOLEAN, seg \in SegmentMeta : AckSent(c, r, n, fin, seg)
  BY SendAckEffect
<1>2. /\ r.state.rx_state = c.state.rx_state
      /\ ~fin => r.state = c.state
      /\ fin => /\ r.state.kind = "Established" /\ r.state.tx_state = "Fin"
                /\ c.tx_fin /\ ~fin_sent(c.state)
  BY <1>1 DEF AckSent, Established
<1>3. c.state.kind \in StateKind BY StateFields
<1>4. fin => c.state.kind \in {"SynSent", "SynReceived", "Established"}
  BY <1>2, <1>3 DEF FinLive, Idle, StateKind, fin_sent
<1>5. Later(c.state.kind, r.state.kind) BY <1>2, <1>4 DEF Later
<1>6. KindStep(c, r) /\ FinLive(r)
  BY <1>1, <1>2, <1>5 DEF KindStep, AckSent, PanicKept, FinLive, Idle
<1>7. Emits(c, r, c.ackd)
  <2> SUFFICES ASSUME NEW G, Acks(c.ackd) \subseteq G, c.out \in Seq(G), c.re_tx \in Seq(G)
               PROVE  r.out \in Seq(G) /\ r.re_tx \in Seq(G)
    BY DEF Emits
  <2>1. seg \in G BY <1>1 DEF AckSent, Acks
  <2>2. Append(c.out, seg) \in Seq(G) /\ Append(c.re_tx, seg) \in Seq(G) BY <2>1
  <2> QED BY <1>1, <2>2 DEF AckSent
<1>8. /\ r.rx = c.rx /\ r.rx_fin = c.rx_fin /\ r.ackd = c.ackd /\ r.tx_fin = c.tx_fin
  BY <1>1 DEF AckSent
<1>9. c.state.kind = "Established" => RxKept(c, r)
  BY <1>2, <1>8 DEF RxKept, Eof
<1>10. \/ r.state = c.state
       \/ /\ c.tx_fin /\ r.state.kind = "Established" /\ r.state.tx_state = "Fin"
          /\ c.state.kind \in {"SynSent", "SynReceived", "Established"}
  BY <1>2, <1>4
<1> QED BY <1>2, <1>6, <1>7, <1>8, <1>9, <1>10

\* The length of a segment that send_ack builds, in sequence numbers.
LEMMA AckSize ==
  ASSUME NEW seg \in SegmentMeta, NEW fin \in BOOLEAN,
         seg.flags = IF fin THEN {"FIN", "ACK"} ELSE {"ACK"}
  PROVE  seq_size(seg) = Len(seg.data) + (IF fin THEN 1 ELSE 0)
<1>1. Len(seg.data) \in Nat BY SegmentFields
<1>2. CASE fin BY <1>1, <1>2 DEF seq_size
<1>3. CASE ~fin BY <1>1, <1>3 DEF seq_size
<1> QED BY <1>2, <1>3

\* A segment without payload, SYN and FIN fits any stream.
LEMMA ControlOfStream ==
  ASSUME NEW seg \in SegmentMeta, seg.data = <<>>, "FIN" \notin seg.flags,
         NEW isn, NEW w, NEW e, "SYN" \in seg.flags => seg.seqn = isn
  PROVE  seg \in OfStream(isn, w, e)
BY DEF OfStream

\* send_ack numbers what it sends as the stream has it: the data is the next that was
\* written, and the FIN comes after all of it.
LEMMA SendAckSends ==
  ASSUME NEW c, ConnInv(c), NEW r, r = SendAck(c),
         NEW isn \in SeqN, NEW w \in Nat, w + 2 < SeqSpace, NEW e \in BOOLEAN, NEW lo,
         SendOk(c, isn, w, e, lo)
  PROVE  SendOk(r, isn, w, e, lo)
<1>0. c \in Connections BY DEF ConnInv
<1>1. PICK n \in Nat, fin \in BOOLEAN, seg \in SegmentMeta : AckSent(c, r, n, fin, seg)
  BY <1>0, SendAckEffect
<1>2. c.tx \in Seq(Byte) /\ Len(c.tx) \in Nat /\ c.next \in SeqN /\ c.re_tx \in Seq(SegmentMeta)
  BY <1>0 DEF Connections
<1>3. r.tx_fin => e BY <1>1 DEF AckSent, SendOk
<1>4. CASE r.panic # "none"
  BY <1>1, <1>3, <1>4 DEF AckSent, SendOk, OutOk, TxOk, Live
<1>5. CASE r.panic = "none" /\ c.state.kind \in Idle
  <2>1. c.panic = "none" /\ c.tx = <<>> /\ ~c.tx_fin
    BY <1>1, <1>5 DEF AckSent, PanicKept, ConnInv, Consistent
  <2>2. ~fin /\ n = 0 BY <1>1, <2>1 DEF AckSent
  <2>3. seg.data = <<>> /\ seg.flags = {"ACK"} /\ r.state = c.state
    BY <1>1, <2>1, <2>2 DEF AckSent
  <2>4. seg \in OfStream(isn, w, e) BY <2>3, ControlOfStream
  <2>5. Append(c.out, seg) \in Seq(OfStream(isn, w, e)) BY <2>4 DEF SendOk
  <2> QED BY <1>1, <1>3, <1>5, <2>3, <2>5 DEF AckSent, SendOk, OutOk, TxOk, Live
<1>6. CASE r.panic = "none" /\ c.state.kind \notin Idle
  <2> DEFINE k == Offset(isn, c.next)
             m == Len(c.tx)
             x == IF fin THEN 1 ELSE 0
  <2>1. c.panic = "none" /\ Consistent(c)
    BY <1>1, <1>6 DEF AckSent, PanicKept, ConnInv
  <2>2. /\ m <= w /\ \A i \in 1 .. m : c.tx[i] = w - m + i
        /\ k = w - m + 1 \/ (k = w + 2 /\ fin_sent(c.state))
        /\ c.re_tx \in Seq(OfStream(isn, w, e))
    BY <1>6, <2>1 DEF SendOk, TxOk, Live
  <2>3. k \in Nat BY <1>2, OffsetType
  <2>4. /\ n <= m /\ (fin => c.tx_fin /\ n = m /\ ~fin_sent(c.state))
        /\ seg.seqn = c.next /\ seg.data = SubSeq(c.tx, 1, n)
        /\ seg.flags = IF fin THEN {"FIN", "ACK"} ELSE {"ACK"}
        /\ r.tx = SubSeq(c.tx, n + 1, m)
        /\ r.next = wrapping_add(c.next, seq_size(seg))
    BY <1>1 DEF AckSent
  <2>5. /\ Len(seg.data) = n /\ \A i \in 1 .. n : seg.data[i] = c.tx[i]
        /\ Len(r.tx) = m - n /\ \A i \in 1 .. m - n : r.tx[i] = c.tx[n + i]
    <3>1. m \in Nat /\ n <= m BY <1>2, <2>4
    <3>2. Len(SubSeq(c.tx, 1, n)) = n /\ \A i \in 1 .. n : SubSeq(c.tx, 1, n)[i] = c.tx[i]
      BY <1>2, <3>1
    <3>3. /\ Len(SubSeq(c.tx, n + 1, m)) = m - n
          /\ \A i \in 1 .. m - n : SubSeq(c.tx, n + 1, m)[i] = c.tx[n + i]
      BY <1>2, <3>1
    <3> QED BY <2>4, <3>2, <3>3
  <2>6. seq_size(seg) = n + x BY <2>4, <2>5, AckSize
  <2>7. x \in 0 .. 1 /\ (fin <=> x = 1) OBVIOUS
  <2>8. fin_sent(c.state) => m = 0 /\ n = 0 /\ x = 0
    <3>1. fin_sent(c.state) => m = 0 BY <2>1 DEF Consistent
    <3> QED BY <3>1, <2>4, <1>2
  <2>9. seg.data # <<>> => n > 0 BY <2>5, SegmentFields
  <2>10. c.tx_fin => e BY DEF SendOk
  <2> HIDE DEF k, m, x
  <2>15. m \in Nat BY <1>2 DEF m
  <2>11. n > 0 \/ x = 1 => k = w - m + 1 BY <2>2, <2>7, <2>8
  <2>12. seg \in OfStream(isn, w, e)
    <3>1. "SYN" \notin seg.flags BY <2>4
    <3>2. ASSUME seg.data # <<>>
          PROVE  /\ 1 <= k /\ k + Len(seg.data) <= w + 1
                 /\ \A i \in 1 .. Len(seg.data) : seg.data[i] = k - 1 + i
      <4>1. k = w - m + 1 /\ n > 0 BY <3>2, <2>9, <2>11
      <4>2. 1 <= k /\ k + n <= w + 1 BY <4>1, <2>2, <2>3, <2>4, <2>15
      <4>3. ASSUME NEW i \in 1 .. n PROVE seg.data[i] = k - 1 + i
        <5>1. i \in 1 .. m BY <2>4, <2>15
        <5>2. seg.data[i] = w - m + i BY <5>1, <2>2, <2>5
        <5> QED BY <4>1, <5>2, <2>15
      <4> QED BY <4>2, <4>3, <2>5
    <3>3. ASSUME "FIN" \in seg.flags
          PROVE  "ACK" \in seg.flags /\ e /\ k + Len(seg.data) = w + 1
      <4>1. fin BY <3>3, <2>4
      <4>2. k = w - m + 1 /\ n = m BY <4>1, <2>4, <2>7, <2>11
      <4> QED BY <4>1, <4>2, <2>3, <2>4, <2>5, <2>10, <2>15
    <3> QED BY <3>1, <3>2, <3>3, <2>4 DEF OfStream, k
  <2>13. Append(c.out, seg) \in Seq(OfStream(isn, w, e))
         /\ Append(c.re_tx, seg) \in Seq(OfStream(isn, w, e))
    BY <2>2, <2>12 DEF SendOk
  <2>14. /\ r.out \in Seq(OfStream(isn, w, e)) /\ r.re_tx \in Seq(OfStream(isn, w, e))
    BY <1>1, <2>2, <2>13 DEF AckSent, SendOk
  <2>16. k + (n + x) < SeqSpace
    <3>1. SeqSpace \in Nat /\ m <= w BY <2>2, SegmentAssumption
    <3>2. CASE k = w - m + 1
      BY ONLY <2>3, <2>4, <2>7, <2>15, <3>1, <3>2, n \in Nat, w \in Nat, w + 2 < SeqSpace
    <3>3. CASE k = w + 2 /\ fin_sent(c.state) BY <2>8, <3>1, <3>3
    <3> QED BY <2>2, <3>2, <3>3
  <2>17. n + x \in Nat BY <2>7
  <2>18. Offset(isn, r.next) = k + n + x
    BY <1>2, <2>3, <2>4, <2>6, <2>7, <2>16, <2>17, OffsetAdd DEF k
  <2>19. Len(r.tx) <= w /\ \A i \in 1 .. Len(r.tx) : r.tx[i] = w - Len(r.tx) + i
    <3>1. Len(r.tx) <= w BY <2>2, <2>4, <2>5, <2>15
    <3>2. ASSUME NEW i \in 1 .. m - n PROVE r.tx[i] = w - (m - n) + i
      <4>1. n + i \in 1 .. m BY <2>4, <2>15
      <4>2. r.tx[i] = w - m + (n + i) BY <4>1, <2>2, <2>5
      <4> QED BY <4>2, <2>4, <2>15
    <3> QED BY <3>1, <3>2, <2>5
  <2>20. \/ Offset(isn, r.next) = w - Len(r.tx) + 1
         \/ Offset(isn, r.next) = w + 2 /\ fin_sent(r.state)
    <3>1. CASE fin
      <4>1. fin_sent(r.state) BY <1>1, <3>1 DEF AckSent, Established, fin_sent
      <4>2. k = w - m + 1 /\ n = m /\ x = 1 BY <3>1, <2>4, <2>7, <2>11
      <4> QED BY <4>1, <4>2, <2>3, <2>15, <2>18
    <3>2. CASE ~fin
      <4>1. x = 0 /\ r.state = c.state BY <1>1, <3>2, <2>7 DEF AckSent
      <4>2. CASE k = w - m + 1 BY <4>1, <4>2, <2>4, <2>5, <2>15, <2>18
      <4>3. CASE k = w + 2 /\ fin_sent(c.state)
        BY <4>1, <4>3, <2>8, <2>3, <2>15, <2>18
      <4> QED BY <4>2, <4>3, <2>2
    <3> QED BY <3>1, <3>2
  <2>21. OutOk(r, isn, lo) /\ lo \in Nat
    <3>1. lo \in Nat /\ lo <= k /\ c.out \in Seq(UpTo(isn, k)) /\ c.re_tx \in Seq(UpTo(isn, k))
      BY <1>6, <2>1 DEF SendOk, OutOk, Live, k
    <3>2. k + n + x \in Nat /\ k <= k + n + x /\ lo <= k + n + x
      BY ONLY <2>3, <2>7, <3>1, n \in Nat
    <3>3. UpTo(isn, k) \subseteq UpTo(isn, k + n + x) BY <2>3, <3>2, UpToGrows
    <3>4. seg \in UpTo(isn, k + n + x)
      <4>1. k + seq_size(seg) = k + n + x BY ONLY <2>3, <2>6, <2>7, n \in Nat
      <4>2. Offset(isn, seg.seqn) + seq_size(seg) = k + n + x BY <2>4, <4>1 DEF k
      <4> QED BY <3>2, <4>2 DEF UpTo
    <3>5. c.out \in Seq(UpTo(isn, k + n + x)) /\ c.re_tx \in Seq(UpTo(isn, k + n + x))
      BY <3>1, <3>3, SeqMono
    <3>6. /\ Append(c.out, seg) \in Seq(UpTo(isn, k + n + x))
          /\ Append(c.re_tx, seg) \in Seq(UpTo(isn, k + n + x))
      BY <3>4, <3>5
    <3>7. r.out \in Seq(UpTo(isn, k + n + x)) /\ r.re_tx \in Seq(UpTo(isn, k + n + x))
      BY <1>1, <3>5, <3>6 DEF AckSent
    <3> QED BY <2>18, <3>1, <3>2, <3>7 DEF OutOk
  <2> QED BY <1>3, <2>14, <2>19, <2>20, <2>21 DEF SendOk, TxOk
<1> QED BY <1>4, <1>5, <1>6

-----------------------------------------------------------------------------
(* The calls and the timers.                                                *)

\* A method that leaves the receiving side alone and sends acknowledgements of a.
Step(c, r, a) == KindStep(c, r) /\ RxKept(c, r) /\ Emits(c, r, a)

\* Step is transitive.
LEMMA StepTrans ==
  ASSUME NEW c, NEW d, NEW r, NEW a, Step(c, d, a), Step(d, r, a)
  PROVE  Step(c, r, a)
<1>1. KindStep(c, r) BY DEF Step, KindStep, Later, Ended, Idle
<1>2. RxKept(c, r)
  <2>1. CASE Gone(r) BY <2>1 DEF RxKept
  <2>2. CASE Gone(d) /\ ~Gone(r)
    <3>1. r.rx = <<>> /\ ~r.rx_fin BY <2>2 DEF Step, RxKept, Gone
    <3>2. r.state.kind \in Ended /\ ~r.tx_fin
      BY <2>2 DEF Step, KindStep, Later, Gone, Ended, Idle
    <3> QED BY <2>2, <3>1, <3>2 DEF Gone
  <2>3. CASE ~Gone(d) /\ ~Gone(r) BY <2>3 DEF Step, RxKept
  <2> QED BY <2>1, <2>2, <2>3
<1>3. Emits(c, r, a) BY DEF Step, Emits
<1> QED BY <1>1, <1>2, <1>3 DEF Step

\* A quiet method is a step.
LEMMA QuietStep ==
  ASSUME NEW c, NEW r, Quiet(c, r)
  PROVE  \A a : Step(c, r, a)
BY QuietKeeps DEF Step

\* A FIN stays with a connection that lives.
LEMMA FinLiveStep ==
  ASSUME NEW c, NEW r, KindStep(c, r), FinLive(c)
  PROVE  FinLive(r)
BY DEF KindStep, FinLive, Idle

\* No idle connection has a FIN to send, unless an assertion failed.
LEMMA LiveFin ==
  ASSUME NEW c, ConnInv(c), c.panic = "none"
  PROVE  c \in Connections /\ Consistent(c) /\ FinLive(c)
BY DEF ConnInv, Consistent, FinLive

\* Nothing happens.
LEMMA StutterStep ==
  ASSUME NEW c
  PROVE  Quiet(c, c)
BY DEF Quiet, Later, SameStream, KeptIn

\* Suspending a call is quiet.
LEMMA SuspendQuiet ==
  ASSUME NEW c \in Connections, NEW u \in Callers, NEW kind \in WaitKind, NEW arg \in Nat
  PROVE  /\ Quiet(c, Suspend(c, u, kind, arg)) /\ SameStream(c, Suspend(c, u, kind, arg))
         /\ Suspend(c, u, kind, arg) \in Connections
BY SuspendKeeps, WakeRest, SameQuiet

\* clear is quiet.
LEMMA ClearQuiet ==
  ASSUME NEW c
  PROVE  Quiet(c, Clear(c)) /\ Gone(Clear(c)) /\ Clear(c).re_tx = <<>>
BY ClearAll, KindOf DEF Quiet, Gone, Later, Ended

\* mark_fin in a connection that lives.
LEMMA FinQueued ==
  ASSUME NEW c, ConnInv(c), c.state.kind \notin Idle, NEW r, r = [c EXCEPT !.tx_fin = TRUE]
  PROVE  /\ ConnInv(r) /\ r.state = c.state /\ r.tx = c.tx /\ r.tx_fin = TRUE
         /\ r.panic = c.panic /\ FinLive(r)
         /\ r.rx = c.rx /\ r.rx_fin = c.rx_fin /\ r.ackd = c.ackd
         /\ \A a : Emits(c, r, a)
         /\ c.state.kind = "Established" => \A a : Step(c, r, a)
         /\ \A isn \in SeqN, w \in Nat, e \in BOOLEAN : \A lo :
              SendOk(c, isn, w, e, lo) => SendOk(r, isn, w, TRUE, lo)
<1>0. c \in Connections BY DEF ConnInv
<1>1. /\ ConnInv(r) /\ r.tx_fin = TRUE /\ r.tx = c.tx /\ r.state = c.state
      /\ r.panic = c.panic
  BY FinQueuedInv
<1>2. /\ r.rx = c.rx /\ r.rx_fin = c.rx_fin /\ r.ackd = c.ackd /\ r.out = c.out
      /\ r.re_tx = c.re_tx /\ r.next = c.next
  BY <1>0 DEF Connections
<1>3. FinLive(r) BY <1>1 DEF FinLive
<1>4. \A a : Emits(c, r, a) BY <1>2 DEF Emits
<1>5. c.state.kind = "Established" => KindStep(c, r) /\ RxKept(c, r)
  BY <1>1, <1>2 DEF KindStep, RxKept, Later, Eof, Idle
<1>6. ASSUME NEW isn \in SeqN, NEW w \in Nat, NEW e \in BOOLEAN, NEW lo, SendOk(c, isn, w, e, lo)
      PROVE  SendOk(r, isn, w, TRUE, lo)
  <2>1. OfStream(isn, w, e) \subseteq OfStream(isn, w, TRUE)
    <3>1. w <= w /\ TRUE \in BOOLEAN OBVIOUS
    <3>2. e => TRUE /\ w = w OBVIOUS
    <3> QED BY ONLY <3>1, <3>2, w \in Nat, isn \in SeqN, e \in BOOLEAN, OfStreamGrows
  <2>2. c.re_tx \in Seq(OfStream(isn, w, e)) => c.re_tx \in Seq(OfStream(isn, w, TRUE))
    BY <2>1, SeqMono
  <2>3. c.out \in Seq(OfStream(isn, w, TRUE)) BY <1>6, <2>1, SeqMono DEF SendOk
  <2> HIDE DEF OfStream
  <2> QED BY <1>1, <1>2, <1>6, <2>2, <2>3 DEF SendOk, OutOk, TxOk, Live
<1> QED BY <1>1, <1>2, <1>3, <1>4, <1>5, <1>6 DEF Step

\* The stream of w bytes can be numbered.
Short(isn, w, e) == isn \in SeqN /\ w \in Nat /\ w + 2 < SeqSpace /\ e \in BOOLEAN

\* Closing the sending side in SYN-RECEIVED.
LEMMA HalfCloseStep ==
  ASSUME NEW c, ConnInv(c), c.panic = "none", c.state.kind = "SynReceived",
         NEW called \in BOOLEAN,
         NEW r, r = SetState(SendAck([c EXCEPT !.tx_fin = TRUE]),
                             Established("Fin", "Open", called, TRUE))
  PROVE  /\ r \in Connections /\ Step(c, r, c.ackd) /\ r.tx_fin
         /\ \A isn, w, e, lo : Short(isn, w, e) /\ SendOk(c, isn, w, e, lo)
               => SendOk(r, isn, w, TRUE, lo)
<1> DEFINE g == [c EXCEPT !.tx_fin = TRUE]
           h == SendAck(g)
           s == Established("Fin", "Open", called, TRUE)
<1>1. /\ ConnInv(g) /\ g.state = c.state /\ g.tx = c.tx /\ g.tx_fin = TRUE
      /\ g.panic = "none" /\ FinLive(g)
      /\ g.rx = c.rx /\ g.rx_fin = c.rx_fin /\ g.ackd = c.ackd
      /\ Emits(c, g, c.ackd)
      /\ \A isn \in SeqN, w \in Nat, e \in BOOLEAN : \A lo :
           SendOk(c, isn, w, e, lo) => SendOk(g, isn, w, TRUE, lo)
  BY FinQueued DEF Idle
<1>2. r = SetState(h, s) OBVIOUS
<1> HIDE DEF g
<1>3. g \in Connections BY <1>1 DEF ConnInv
<1>4. /\ KindStep(g, h) /\ FinLive(h) /\ Emits(g, h, g.ackd)
      /\ h.rx = g.rx /\ h.rx_fin = g.rx_fin /\ h.ackd = g.ackd /\ h.tx_fin = g.tx_fin
      /\ h.state = g.state \/ (g.tx_fin /\ h.state.kind = "Established")
  BY <1>1, <1>3, SendAckKeeps
<1>5. ConnInv(h) BY <1>1, SendAckInv
<1>6. \A isn, w, e, lo : Short(isn, w, e) /\ SendOk(g, isn, w, TRUE, lo)
         => SendOk(h, isn, w, TRUE, lo)
  BY <1>1, SendAckSends DEF Short
<1> HIDE DEF h
<1>7. /\ s \in ConnectionStates /\ s.kind = "Established" /\ s.tx_state = "Fin"
      /\ s.rx_state = "Open"
  BY EstablishedType DEF Established, ChannelState
<1> HIDE DEF s
<1>8. QuietState(h, s) /\ ~Reduces(s)
  BY <1>1, <1>4, <1>7 DEF QuietState, Reduces, Idle, Later, fin_sent
<1>9. h \in Connections BY <1>5 DEF ConnInv
<1>10. r \in Connections /\ Quiet(h, r) /\ r.state = s /\ SameStream(h, r)
  BY <1>2, <1>8, <1>9, SetStateQuiet
<1>11. /\ \A a : Emits(h, r, a)
       /\ \A isn, w, e, lo : SendOk(h, isn, w, e, lo) => SendOk(r, isn, w, e, lo)
  BY <1>10, QuietKeeps
<1>12. Emits(c, r, c.ackd) BY <1>1, <1>4, <1>11 DEF Emits
<1>13. r.tx_fin /\ KindStep(c, r) /\ RxKept(c, r)
  <2>1. r.tx_fin /\ r.rx = c.rx /\ r.rx_fin = c.rx_fin /\ r.ackd = c.ackd
    BY <1>1, <1>4, <1>10 DEF SameStream
  <2>2. KindStep(c, r) BY <2>1, <1>7, <1>10 DEF KindStep, Later, Idle
  <2>3. RxKept(c, r) BY <2>1, <1>7, <1>10 DEF RxKept, Eof
  <2> QED BY <2>1, <2>2, <2>3
<1> QED BY <1>1, <1>6, <1>10, <1>11, <1>12, <1>13 DEF Step, Short

\* The elements of a concatenation.
LEMMA ConcatFields ==
  ASSUME NEW s \in Seq(Byte), NEW t \in Seq(Byte)
  PROVE  /\ s \o t \in Seq(Byte) /\ Len(s \o t) = Len(s) + Len(t)
         /\ \A i \in 1 .. Len(s) : (s \o t)[i] = s[i]
         /\ \A i \in Len(s) + 1 .. Len(s) + Len(t) : (s \o t)[i] = t[i - Len(s)]
<1>1. Len(s) \in Nat /\ Len(t) \in Nat OBVIOUS
<1>2. s \o t \in Seq(Byte) /\ Len(s \o t) = Len(s) + Len(t) OBVIOUS
<1>3. ASSUME NEW i \in 1 .. Len(s) PROVE (s \o t)[i] = s[i] BY <1>1
<1>4. ASSUME NEW i \in Len(s) + 1 .. Len(s) + Len(t) PROVE (s \o t)[i] = t[i - Len(s)]
  BY <1>1
<1> QED BY <1>2, <1>3, <1>4

\* call_send appends to the stream, and what it sends is numbered as written.
LEMMA CallSendStep ==
  ASSUME NEW c, ConnInv(c), c.panic = "none", CanSend(c), c.state.tx_state = "Open",
         ~c.tx_fin, NEW k \in Nat, NEW v \in Nat, k + 2 < SeqSpace,
         NEW r, r = CallSend(c, [i \in 1 .. k |-> v + i])
  PROVE  /\ Step(c, r, c.ackd) /\ ~r.tx_fin
         /\ \A isn, lo : /\ Short(isn, v + k, FALSE) /\ SendOk(c, isn, v, FALSE, lo)
                     => SendOk(r, isn, v + k, FALSE, lo)
<1> DEFINE data == [i \in 1 .. k |-> v + i]
           d == [c EXCEPT !.tx = @ \o data]
           arg == wrapping_add(c.next, Len(data))
<1>0. c \in Connections /\ Consistent(c) /\ FinLive(c) BY LiveFin
<1>1. data \in Seq(Byte) /\ Len(data) = k /\ \A i \in 1 .. k : data[i] = v + i
  BY DEF Byte
<1>2. c.tx \in Seq(Byte) /\ Len(c.tx) \in Nat BY <1>0 DEF Connections
<1>11. r = IF c.state.kind # "Established" THEN Suspend(d, "writer", "Acknowledged", arg)
          ELSE IF unack_has_space(d) /\ (Len(d.tx) >= MAX_SEGMENT_SIZE \/ NagleZero)
               THEN SendAck(d) ELSE d
  BY DEF CallSend, DebugMustHold, MustHold
<1> HIDE DEF data
<1>3. c.tx \o data \in Seq(Byte) BY <1>1, <1>2
<1>4. /\ d \in Connections /\ d.tx = c.tx \o data /\ d.state = c.state
      /\ d.tx_fin = c.tx_fin /\ d.re_tx = c.re_tx /\ d.next = c.next /\ d.unack = c.unack
      /\ d.timer_re_tx = c.timer_re_tx /\ d.timer_timewait = c.timer_timewait
      /\ d.wait = c.wait /\ d.panic = c.panic /\ SameRest(c, d)
  BY <1>0, <1>3 DEF Connections, SameRest
<1>12. r = d \/ (c.state.kind = "Established" /\ r = SendAck(d))
       \/ r = Suspend(d, "writer", "Acknowledged", arg)
  BY <1>11, Zenon
<1> HIDE DEF d
<1>5. Step(c, d, c.ackd)
  BY <1>4 DEF Step, KindStep, RxKept, Emits, SameRest, Later, Eof
<1>6. FinLive(d) /\ ~d.tx_fin BY <1>4 DEF FinLive
<1>7. c.state.kind \notin Idle /\ ~fin_sent(c.state)
  BY DEF CanSend, Idle, fin_sent
<1>8. c.state.kind = "Established" => ConnInv(d)
  BY <1>0, <1>4, <1>7 DEF ConnInv, Consistent
<1>9. ASSUME NEW isn, NEW lo, Short(isn, v + k, FALSE), SendOk(c, isn, v, FALSE, lo)
      PROVE  SendOk(d, isn, v + k, FALSE, lo)
  <2>1. OfStream(isn, v, FALSE) \subseteq OfStream(isn, v + k, FALSE)
    <3>1. v <= v + k /\ v + k \in Nat /\ FALSE \in BOOLEAN OBVIOUS
    <3>2. isn \in SeqN BY <1>9 DEF Short
    <3>3. FALSE => FALSE /\ v = v + k OBVIOUS
    <3> QED BY ONLY <3>1, <3>2, <3>3, v \in Nat, OfStreamGrows
  <2>2. /\ c.re_tx \in Seq(OfStream(isn, v, FALSE))
        /\ Len(c.tx) <= v /\ \A i \in 1 .. Len(c.tx) : c.tx[i] = v - Len(c.tx) + i
        /\ Offset(isn, c.next) = v - Len(c.tx) + 1
    BY <1>7, <1>9 DEF SendOk, TxOk, Live
  <2>3. c.re_tx \in Seq(OfStream(isn, v + k, FALSE)) /\ c.out \in Seq(OfStream(isn, v + k, FALSE))
    BY <1>9, <2>1, <2>2, SeqMono DEF SendOk
  <2>4. /\ Len(d.tx) = Len(c.tx) + k
        /\ \A i \in 1 .. Len(c.tx) : d.tx[i] = c.tx[i]
        /\ \A i \in Len(c.tx) + 1 .. Len(c.tx) + k : d.tx[i] = data[i - Len(c.tx)]
    <3> DEFINE t == c.tx \o data
    <3>1. /\ Len(t) = Len(c.tx) + Len(data)
          /\ \A i \in 1 .. Len(c.tx) : t[i] = c.tx[i]
          /\ \A i \in Len(c.tx) + 1 .. Len(c.tx) + Len(data) : t[i] = data[i - Len(c.tx)]
      BY <1>1, <1>2, ConcatFields
    <3>2. d.tx = t BY <1>4
    <3> HIDE DEF t
    <3> QED BY <1>1, <3>1, <3>2
  <2>5. ASSUME NEW i \in 1 .. Len(d.tx) PROVE d.tx[i] = (v + k) - Len(d.tx) + i
    <3>1. CASE i <= Len(c.tx)
      <4>1. i \in 1 .. Len(c.tx) BY <3>1, <1>2, <2>4
      <4>2. d.tx[i] = v - Len(c.tx) + i BY <4>1, <2>2, <2>4
      <4> QED BY <4>1, <4>2, <1>2, <2>4
    <3>2. CASE i > Len(c.tx)
      <4>1. /\ i \in Len(c.tx) + 1 .. Len(c.tx) + k
            /\ i - Len(c.tx) \in 1 .. k
        BY <3>2, <1>2, <2>4
      <4>2. d.tx[i] = v + (i - Len(c.tx)) BY <4>1, <1>1, <2>4
      <4> QED BY <4>1, <4>2, <1>2, <2>4
    <3> QED BY <3>1, <3>2, <1>2
  <2>6. Len(d.tx) <= v + k /\ Offset(isn, d.next) = (v + k) - Len(d.tx) + 1
    BY <1>2, <1>4, <2>2, <2>4
  <2>7. d.out = c.out BY <1>4 DEF SameRest
  <2>8. OutOk(d, isn, lo) /\ lo \in Nat BY <1>4, <1>9, <2>7 DEF SendOk, OutOk, Live
  <2> QED BY <1>4, <1>6, <2>3, <2>5, <2>6, <2>7, <2>8 DEF SendOk, TxOk
<1>10. CASE r = d BY <1>5, <1>6, <1>9, <1>10
<1>13. CASE c.state.kind = "Established" /\ r = SendAck(d)
  <2>1. ConnInv(d) /\ d.state.kind = "Established" /\ d.ackd = c.ackd
    BY <1>4, <1>8, <1>13 DEF SameRest
  <2>2. Step(d, r, c.ackd) /\ ~r.tx_fin
    BY <1>4, <1>6, <1>13, <2>1, SendAckKeeps DEF Step
  <2>3. \A isn, lo : Short(isn, v + k, FALSE) /\ SendOk(d, isn, v + k, FALSE, lo)
                => SendOk(r, isn, v + k, FALSE, lo)
    BY <1>13, <2>1, SendAckSends DEF Short
  <2> QED BY <1>5, <1>9, <2>2, <2>3, StepTrans
<1>14. CASE r = Suspend(d, "writer", "Acknowledged", arg)
  <2>1. arg \in Nat
    <3>1. k \in SeqN /\ c.next \in SeqN BY <1>0, SegmentAssumption DEF SeqN, Connections
    <3> QED BY <1>1, <3>1, WrapType, SeqNFacts
  <2> HIDE DEF arg
  <2>2. Quiet(d, r) BY <1>4, <1>14, <2>1, SuspendQuiet DEF Callers, WaitKind
  <2>3. /\ Step(d, r, c.ackd)
        /\ \A isn, w, e, lo : SendOk(d, isn, w, e, lo) => SendOk(r, isn, w, e, lo)
    BY <2>2, QuietStep, QuietKeeps
  <2>4. ~r.tx_fin BY <1>6, <2>2 DEF Quiet, Gone, SameStream
  <2> QED BY <1>5, <1>9, <2>3, <2>4, StepTrans
<1> QED BY <1>10, <1>12, <1>13, <1>14

\* The method sends what fits the stream, whose end it may have marked.
Sends(c, r) ==
  \A isn, w, e, lo : Short(isn, w, e) /\ SendOk(c, isn, w, e, lo)
     => SendOk(r, isn, w, e \/ r.tx_fin, lo)

\* A quiet method marks no end.
LEMMA QuietSends ==
  ASSUME NEW c, NEW r, Quiet(c, r)
  PROVE  Sends(c, r)
<1> SUFFICES ASSUME NEW isn, NEW w, NEW e, NEW lo, Short(isn, w, e), SendOk(c, isn, w, e, lo)
             PROVE  SendOk(r, isn, w, e \/ r.tx_fin, lo)
  BY DEF Sends
<1>1. SendOk(r, isn, w, e, lo) BY QuietKeeps
<1>2. (e \/ r.tx_fin) = e BY <1>1 DEF Short, SendOk
<1> QED BY <1>1, <1>2

\* Once the end is marked, what fits the ended stream is what is to be sent.
LEMMA MarkedSends ==
  ASSUME NEW c, NEW r, r.tx_fin,
         \A isn, w, e, lo : Short(isn, w, e) /\ SendOk(c, isn, w, e, lo)
            => SendOk(r, isn, w, TRUE, lo)
  PROVE  Sends(c, r)
<1>1. \A e : (e \/ r.tx_fin) = TRUE OBVIOUS
<1> QED BY <1>1 DEF Sends

\* call_shutdown marks the end of the stream, which is where the FIN is.
LEMMA CallShutdownStep ==
  ASSUME NEW c, ConnInv(c), c.panic = "none", CanShutdown(c), NEW r, r = CallShutdown(c)
  PROVE  Step(c, r, c.ackd) /\ Sends(c, r)
<1> DEFINE s == [c.state EXCEPT !.close_active = TRUE]
           active == IF c.state.rx_state = "Open" THEN SetState(c, s) ELSE c
           wait == Suspend(c, "closer", "TxQueueEmpty", 0)
           half == SetState(SendAck([c EXCEPT !.tx_fin = TRUE]),
                            Established("Fin", "Open", FALSE, TRUE))
           g == [active EXCEPT !.tx_fin = TRUE]
<1>0. c \in Connections /\ Consistent(c) /\ FinLive(c) BY LiveFin
<1>1. CASE r = wait \/ r = Clear(c)
  <2>1. Quiet(c, r)
    BY <1>0, <1>1, SuspendQuiet, ClearQuiet DEF Callers, WaitKind
  <2> QED BY <2>1, QuietStep, QuietSends
<1>2. CASE c.state.kind = "SynReceived" /\ r = half
  <2>1. /\ Step(c, r, c.ackd) /\ r.tx_fin
        /\ \A isn, w, e, lo : Short(isn, w, e) /\ SendOk(c, isn, w, e, lo)
              => SendOk(r, isn, w, TRUE, lo)
    BY <1>2, HalfCloseStep
  <2> QED BY <2>1, MarkedSends
<1>3. CASE c.state.kind = "Established" /\ c.state.tx_state = "Open" /\ r = SendAck(g)
  <2>1. /\ s \in ConnectionStates /\ s.kind = "Established" /\ s.tx_state = "Open"
        /\ s.rx_state = c.state.rx_state
    BY <1>0, <1>3, StateFields DEF ConnectionStates
  <2> HIDE DEF s
  <2>2. MayEnter(c, s) /\ ~Reduces(s) /\ QuietState(c, s)
    BY <1>3, <2>1 DEF MayEnter, Reduces, Idle, fin_sent, FinAcked, QuietState, Later, Eof
  <2>3. ConnInv(SetState(c, s)) BY <2>2, SetStateUnack
  <2>4. Quiet(c, SetState(c, s)) /\ SetState(c, s).state = s /\ SameStream(c, SetState(c, s))
    BY <1>0, <2>2, SetStateQuiet
  <2>5. /\ ConnInv(active) /\ Quiet(c, active) /\ active.state.kind = "Established"
        /\ active.ackd = c.ackd
    BY <1>3, <2>1, <2>3, <2>4, StutterStep DEF SameStream
  <2> HIDE DEF active
  <2>6. /\ Step(c, active, c.ackd)
        /\ \A isn, w, e, lo : SendOk(c, isn, w, e, lo) => SendOk(active, isn, w, e, lo)
    BY <2>5, QuietStep, QuietKeeps
  <2>7. /\ ConnInv(g) /\ g.state = active.state /\ g.tx_fin = TRUE /\ FinLive(g)
        /\ g.ackd = c.ackd /\ Step(active, g, c.ackd)
        /\ \A isn \in SeqN, w \in Nat, e \in BOOLEAN : \A lo :
             SendOk(active, isn, w, e, lo) => SendOk(g, isn, w, TRUE, lo)
    <3>1. active.state.kind \notin Idle BY <2>5 DEF Idle
    <3>2. /\ ConnInv(g) /\ g.state = active.state /\ g.tx_fin = TRUE /\ FinLive(g)
          /\ g.ackd = active.ackd
          /\ active.state.kind = "Established" => \A a : Step(active, g, a)
          /\ \A isn \in SeqN, w \in Nat, e \in BOOLEAN : \A lo :
               SendOk(active, isn, w, e, lo) => SendOk(g, isn, w, TRUE, lo)
      BY <2>5, <3>1, FinQueued
    <3> HIDE DEF g
    <3> QED BY <2>5, <3>2
  <2> HIDE DEF g
  <2>8. g \in Connections BY <2>7 DEF ConnInv
  <2>9. Step(g, r, c.ackd) /\ r.tx_fin = TRUE
    <3>1. /\ KindStep(g, r) /\ Emits(g, r, g.ackd) /\ r.tx_fin = g.tx_fin
          /\ g.state.kind = "Established" => RxKept(g, r)
      BY <1>3, <2>7, <2>8, SendAckKeeps
    <3> QED BY <2>5, <2>7, <3>1 DEF Step
  <2>10. \A isn, w, e, lo : Short(isn, w, e) /\ SendOk(g, isn, w, TRUE, lo)
            => SendOk(r, isn, w, TRUE, lo)
    BY <1>3, <2>7, SendAckSends DEF Short
  <2>11. Step(c, r, c.ackd) BY <2>6, <2>7, <2>9, StepTrans
  <2>12. \A isn, w, e, lo : Short(isn, w, e) /\ SendOk(c, isn, w, e, lo)
            => SendOk(r, isn, w, TRUE, lo)
    BY <2>6, <2>7, <2>10 DEF Short
  <2> QED BY <2>9, <2>11, <2>12, MarkedSends
<1>4. \/ r = wait \/ r = Clear(c)
      \/ c.state.kind = "SynReceived" /\ r = half
      \/ c.state.kind = "Established" /\ c.state.tx_state = "Open" /\ r = SendAck(g)
  BY DEF CallShutdown, CanShutdown
<1> QED BY <1>1, <1>2, <1>3, <1>4

\* call_close marks the end of the stream if no shutdown has.
LEMMA CallCloseStep ==
  ASSUME NEW c, ConnInv(c), c.panic = "none", CanClose(c), NEW r, r = CallClose(c)
  PROVE  Step(c, r, c.ackd) /\ Sends(c, r)
<1> DEFINE g == [c EXCEPT !.tx_fin = TRUE]
           fin == SendAck(g)
           opened == c.state.tx_state = "Open"
           d == IF opened THEN fin ELSE c
           s == [d.state EXCEPT
                   !.close_called = TRUE,
                   !.close_active = c.state.close_active \/ c.state.rx_state = "Open"]
           e == SetState(d, s)
           half == SetState(fin, Established("Fin", "Open", TRUE, TRUE))
           wait == Suspend(c, "closer", "TxQueueEmpty", 0)
<1>0. c \in Connections /\ Consistent(c) /\ FinLive(c) BY LiveFin
<1>1. CASE r = wait \/ r = Clear(c)
  <2>1. Quiet(c, r)
    BY <1>0, <1>1, SuspendQuiet, ClearQuiet DEF Callers, WaitKind
  <2> QED BY <2>1, QuietStep, QuietSends
<1>2. CASE c.state.kind = "SynReceived" /\ r = Suspend(half, "closer", "BothClosed", 0)
  <2>1. /\ half \in Connections /\ Step(c, half, c.ackd) /\ half.tx_fin
        /\ \A isn, w, b, lo : Short(isn, w, b) /\ SendOk(c, isn, w, b, lo)
              => SendOk(half, isn, w, TRUE, lo)
    BY <1>2, HalfCloseStep
  <2> HIDE DEF half
  <2>6. "closer" \in Callers /\ "BothClosed" \in WaitKind /\ 0 \in Nat BY DEF Callers, WaitKind
  <2>2. Quiet(half, r) /\ SameStream(half, r) BY <1>2, <2>1, <2>6, SuspendQuiet
  <2>3. /\ Step(half, r, c.ackd)
        /\ \A isn, w, b, lo : SendOk(half, isn, w, b, lo) => SendOk(r, isn, w, b, lo)
    BY <2>2, QuietStep, QuietKeeps
  <2>4. r.tx_fin BY <2>1, <2>2 DEF SameStream
  <2>5. Sends(c, r) BY <2>1, <2>3, <2>4, MarkedSends
  <2> QED BY <2>1, <2>3, <2>5, StepTrans
<1>3. CASE c.state.kind = "Established" /\ (r = e \/ r = Suspend(e, "closer", "BothClosed", 0))
  <2>1. /\ d \in Connections /\ d.state.kind = "Established" /\ Step(c, d, c.ackd)
        /\ opened => /\ d.tx_fin /\ d.state.tx_state \in {"Open", "Fin"}
                     /\ \A isn, w, b, lo : /\ Short(isn, w, b) /\ SendOk(c, isn, w, b, lo)
                                       => SendOk(d, isn, w, TRUE, lo)
        /\ ~opened => d = c
    <3>1. CASE ~opened
      <4>1. Quiet(c, c) BY StutterStep
      <4> QED BY <1>0, <1>3, <3>1, <4>1, QuietStep
    <3>2. CASE opened
      <4>1. c.state.kind \notin Idle BY <1>3 DEF Idle
      <4>2. /\ ConnInv(g) /\ g.state = c.state /\ g.tx_fin = TRUE /\ FinLive(g)
            /\ g.ackd = c.ackd
            /\ c.state.kind = "Established" => \A a : Step(c, g, a)
            /\ \A isn \in SeqN, w \in Nat, b \in BOOLEAN : \A lo :
                 SendOk(c, isn, w, b, lo) => SendOk(g, isn, w, TRUE, lo)
        BY <4>1, FinQueued
      <4> HIDE DEF g
      <4>3. g \in Connections BY <4>2 DEF ConnInv
      <4>4. /\ KindStep(g, fin) /\ Emits(g, fin, g.ackd) /\ fin.tx_fin = g.tx_fin
            /\ \/ fin.state = g.state
               \/ g.tx_fin /\ fin.state.kind = "Established" /\ fin.state.tx_state = "Fin"
            /\ g.state.kind = "Established" => RxKept(g, fin)
        BY <4>2, <4>3, SendAckKeeps
      <4>5. \A isn, w, b, lo : Short(isn, w, b) /\ SendOk(g, isn, w, TRUE, lo)
               => SendOk(fin, isn, w, TRUE, lo)
        BY <4>2, SendAckSends DEF Short
      <4>6. fin \in Connections
        <5>1. ConnInv(fin) BY <4>2, SendAckInv
        <5> QED BY <5>1 DEF ConnInv
      <4>7. d = fin BY <3>2
      <4> HIDE DEF fin, d
      <4>8. Step(g, fin, c.ackd) BY <1>3, <4>2, <4>4 DEF Step
      <4>9. Step(c, fin, c.ackd) BY <1>3, <4>2, <4>8, StepTrans
      <4>10. fin.tx_fin /\ fin.state.kind = "Established" /\ fin.state.tx_state \in {"Open", "Fin"}
        BY <1>3, <3>2, <4>2, <4>4
      <4>11. \A isn, w, b, lo : /\ Short(isn, w, b) /\ SendOk(c, isn, w, b, lo)
                => SendOk(fin, isn, w, TRUE, lo)
        BY <4>2, <4>5 DEF Short
      <4> QED BY <3>2, <4>6, <4>7, <4>9, <4>10, <4>11
    <3> QED BY <3>1, <3>2
  <2> HIDE DEF d
  <2>2. /\ s \in ConnectionStates /\ s.kind = "Established"
        /\ s.tx_state = d.state.tx_state /\ s.rx_state = d.state.rx_state
    <3>1. d.state \in ConnectionStates /\ c.state.close_active \in BOOLEAN
      BY <1>0, <2>1, StateFields
    <3>2. (c.state.close_active \/ c.state.rx_state = "Open") \in BOOLEAN OBVIOUS
    <3> QED BY <2>1, <3>1, <3>2 DEF ConnectionStates
  <2> HIDE DEF s
  <2>3. QuietState(d, s) /\ (opened => ~Reduces(s))
    BY <2>1, <2>2 DEF QuietState, Idle, Later, fin_sent, Eof, Reduces
  <2>4. /\ e \in Connections /\ Quiet(d, e) /\ (opened => SameStream(d, e))
    BY <2>1, <2>3, SetStateQuiet
  <2> HIDE DEF e
  <2>5. /\ Quiet(e, Suspend(e, "closer", "BothClosed", 0))
        /\ SameStream(e, Suspend(e, "closer", "BothClosed", 0))
    <3>1. "closer" \in Callers /\ "BothClosed" \in WaitKind /\ 0 \in Nat
      BY DEF Callers, WaitKind
    <3> QED BY <2>4, <3>1, SuspendQuiet
  <2>6. Quiet(d, r) /\ (opened => r.tx_fin)
    <3>1. CASE r = e BY <2>1, <2>4, <3>1 DEF SameStream
    <3>2. CASE r = Suspend(e, "closer", "BothClosed", 0)
      <4>1. Quiet(e, r) /\ SameStream(e, r) BY <2>5, <3>2
      <4>2. Quiet(d, r) BY <2>4, <4>1, QuietTrans
      <4>3. opened => r.tx_fin BY <2>1, <2>4, <4>1 DEF SameStream
      <4> QED BY <4>2, <4>3
    <3> QED BY <1>3, <3>1, <3>2
  <2>7. Step(c, r, c.ackd) BY <2>1, <2>6, QuietStep, StepTrans
  <2>8. CASE opened
    <3>1. \A isn, w, b, lo : SendOk(d, isn, w, b, lo)
             => SendOk(r, isn, w, b, lo) BY <2>6, QuietKeeps
    <3>2. Sends(c, r) BY <2>1, <2>6, <2>8, <3>1, MarkedSends
    <3> QED BY <2>7, <3>2
  <2>9. CASE ~opened BY <2>1, <2>6, <2>7, <2>9, QuietSends
  <2> QED BY <2>8, <2>9
<1>4. \/ r = wait \/ r = Clear(c)
      \/ c.state.kind = "SynReceived" /\ r = Suspend(half, "closer", "BothClosed", 0)
      \/ c.state.kind = "Established" /\ (r = e \/ r = Suspend(e, "closer", "BothClosed", 0))
  BY DEF CallClose, CanClose
<1> QED BY <1>1, <1>2, <1>3, <1>4

\* What user_data.send does to a connection.
LEMMA SendAll ==
  ASSUME NEW c \in Connections, NEW seg \in SegmentMeta, NEW r, r = Send(c, seg)
  PROVE  /\ r \in Connections /\ SameCore(c, r) /\ PanicKept(c, r) /\ r.panic = c.panic
         /\ r.rx = c.rx /\ r.rx_fin = c.rx_fin /\ r.ackd = c.ackd /\ r.init_seqn = c.init_seqn
         /\ r.out = c.out \/ r.out = Append(c.out, seg)
<1>1. r \in Connections /\ SameCore(c, r) /\ PanicKept(c, r) /\ r.panic = c.panic
  BY SendKeeps
<1>2. /\ r.rx = c.rx /\ r.rx_fin = c.rx_fin /\ r.ackd = c.ackd /\ r.init_seqn = c.init_seqn
      /\ r.out = c.out \/ r.out = Append(c.out, seg)
  BY DEF Send, Connections
<1> QED BY <1>1, <1>2

\* The segment fits the stream and comes before the next sequence number.
Fits(c, seg, isn, w, e) ==
  /\ seg \in OfStream(isn, w, e)
  /\ Live(c) => seg \in UpTo(isn, Offset(isn, c.next))

\* A segment that is sent as it is leaves the streams to the caller.
LEMMA SendStep ==
  ASSUME NEW c \in Connections, NEW seg \in SegmentMeta, NEW r, r = Send(c, seg)
  PROVE  /\ KindStep(c, r) /\ RxKept(c, r)
         /\ \A G : seg \in G /\ c.out \in Seq(G) => r.out \in Seq(G)
         /\ \A isn, w, e, lo : SendOk(c, isn, w, e, lo) /\ Fits(c, seg, isn, w, e) =>
              SendOk(r, isn, w, e, lo)
<1>1. /\ SameCore(c, r) /\ r.panic = c.panic
      /\ r.rx = c.rx /\ r.rx_fin = c.rx_fin /\ r.ackd = c.ackd
      /\ r.out = c.out \/ r.out = Append(c.out, seg)
  BY SendAll
<1>2. \A G : seg \in G /\ c.out \in Seq(G) => r.out \in Seq(G)
  <2> SUFFICES ASSUME NEW G, seg \in G, c.out \in Seq(G) PROVE r.out \in Seq(G) OBVIOUS
  <2>1. Append(c.out, seg) \in Seq(G) OBVIOUS
  <2> QED BY <1>1, <2>1
<1>3. KindStep(c, r) /\ RxKept(c, r)
  BY <1>1 DEF KindStep, RxKept, SameCore, Later, Eof
<1>4. \A isn, w, e, lo : SendOk(c, isn, w, e, lo) /\ Fits(c, seg, isn, w, e)
         => SendOk(r, isn, w, e, lo)
  <2> SUFFICES ASSUME NEW isn, NEW w, NEW e, NEW lo, SendOk(c, isn, w, e, lo),
                      Fits(c, seg, isn, w, e)
               PROVE  SendOk(r, isn, w, e, lo)
    OBVIOUS
  <2>1. r.out \in Seq(OfStream(isn, w, e)) BY <1>2 DEF SendOk, Fits
  <2>2. OutOk(r, isn, lo) /\ lo \in Nat BY <1>1, <1>2 DEF SendOk, Fits, OutOk, Live, SameCore
  <2>3. TxOk(r, isn, w, e) /\ (r.tx_fin => e) BY <1>1 DEF SendOk, TxOk, Live, SameCore
  <2> QED BY <2>1, <2>2, <2>3 DEF SendOk
<1> QED BY <1>2, <1>3, <1>4

\* The resets the library sends.
Rsts == {seg \in SegmentMeta : seg.data = <<>> /\ seg.flags \in {{"RST"}, {"RST", "ACK"}}}

\* A reset fits any stream.
LEMMA RstOfStream ==
  ASSUME NEW seg \in Rsts, NEW isn, NEW w, NEW e
  PROVE  seg \in OfStream(isn, w, e) /\ \A c : Fits(c, seg, isn, w, e)
BY ControlOfStream, ControlUpTo DEF Rsts, Fits

\* call_abort lets go of the connection, with a reset if there is a peer.
LEMMA CallAbortStep ==
  ASSUME NEW c, ConnInv(c), c.panic = "none", NEW r, r = CallAbort(c)
  PROVE  /\ KindStep(c, r) /\ Gone(r) /\ r.re_tx = <<>> /\ Sends(c, r)
         /\ c.state.kind \in {"Listen", "SynSent"} => r.out = c.out
         /\ \A G : {seg \in Rsts : seg.flags = {"RST"}} \subseteq G /\ c.out \in Seq(G) =>
              r.out \in Seq(G)
<1> DEFINE rst == Control({"RST"}, c.next, 0, curr_window(c))
           d == Send(c, rst)
<1>0. c \in Connections BY DEF ConnInv
<1>1. rst \in SegmentMeta /\ rst \in Rsts /\ rst.flags = {"RST"}
  <2>1. rst \in SegmentMeta
    BY <1>0, WindowType, SeqNFacts, EmptySegmentType DEF SegmentFlags, Connections
  <2>2. rst.data = <<>> /\ rst.flags = {"RST"} BY DEF Control
  <2> QED BY <2>1, <2>2 DEF Rsts
<1>2. r = Clear(c) \/ (c.state.kind \notin {"Listen", "SynSent"} /\ r = Clear(d))
  BY DEF CallAbort
<1> HIDE DEF rst
<1>3. /\ KindStep(c, d)
      /\ \A G : rst \in G /\ c.out \in Seq(G) => d.out \in Seq(G)
      /\ \A isn, w, e, lo : SendOk(c, isn, w, e, lo) /\ Fits(c, rst, isn, w, e) =>
           SendOk(d, isn, w, e, lo)
  BY <1>0, <1>1, SendStep
<1>4. CASE r = Clear(c)
  <2>1. Quiet(c, r) /\ Gone(r) /\ r.re_tx = <<>> /\ r.out = c.out
    BY <1>4, ClearQuiet DEF Quiet
  <2> QED BY <2>1, QuietKeeps, QuietSends
<1>5. CASE c.state.kind \notin {"Listen", "SynSent"} /\ r = Clear(d)
  <2> HIDE DEF d
  <2>1. Quiet(d, r) /\ Gone(r) /\ r.re_tx = <<>> /\ r.out = d.out
    BY <1>5, ClearQuiet DEF Quiet
  <2>2. KindStep(d, r) /\ \A isn, w, e, lo : SendOk(d, isn, w, e, lo) => SendOk(r, isn, w, e, lo)
    BY <2>1, QuietKeeps
  <2>3. KindStep(c, r) BY <1>3, <2>1, <2>2 DEF KindStep, Gone, Later
  <2>4. Sends(c, r)
    <3> SUFFICES ASSUME NEW isn, NEW w, NEW e, NEW lo, Short(isn, w, e), SendOk(c, isn, w, e, lo)
                 PROVE  SendOk(r, isn, w, e \/ r.tx_fin, lo)
      BY DEF Sends
    <3>1. Fits(c, rst, isn, w, e) BY <1>1, RstOfStream
    <3>2. SendOk(r, isn, w, e, lo) BY <1>3, <2>2, <3>1
    <3>3. (e \/ r.tx_fin) = e BY <2>1 DEF Short, Gone
    <3> QED BY <3>2, <3>3
  <2>5. \A G : {seg \in Rsts : seg.flags = {"RST"}} \subseteq G /\ c.out \in Seq(G) =>
           r.out \in Seq(G)
    BY <1>1, <1>3, <2>1
  <2> QED BY <1>5, <2>1, <2>3, <2>4, <2>5
<1> QED BY <1>2, <1>4, <1>5

\* The FIN mark of a step that does not set it.
LEMMA UnmarkedSends ==
  ASSUME NEW c, NEW r, \A isn, w, e, lo : Short(isn, w, e) /\ SendOk(c, isn, w, e, lo)
                          => SendOk(r, isn, w, e, lo)
  PROVE  Sends(c, r)
<1> SUFFICES ASSUME NEW isn, NEW w, NEW e, NEW lo, Short(isn, w, e), SendOk(c, isn, w, e, lo)
             PROVE  SendOk(r, isn, w, e \/ r.tx_fin, lo)
  BY DEF Sends
<1>1. SendOk(r, isn, w, e, lo) OBVIOUS
<1>2. (e \/ r.tx_fin) = e BY <1>1 DEF Short, SendOk
<1> QED BY <1>1, <1>2

\* The first segment of a queue goes with the queue.
LEMMA HeadIn ==
  ASSUME NEW G, NEW s \in Seq(G), s # <<>>
  PROVE  Head(s) \in G
OBVIOUS

\* What a call or timer does in the handshake: a listener sends nothing but its answer
\* to a SYN, and a client in SYN-SENT only repeats itself.
Opening(c, r) ==
  /\ c.state.kind \in {"Listen", "SynSent"} => r.state.kind \in {c.state.kind} \cup Ended
  /\ c.state.kind \in Idle => r.out = c.out
  /\ c.state.kind = "SynSent" /\ r.state.kind = "SynSent" =>
       /\ r.init_seqn = c.init_seqn /\ r.unack = c.unack /\ r.next = c.next
       /\ KeptIn(c.re_tx, r.re_tx)
       /\ \A G : c.out \in Seq(G) /\ c.re_tx \in Seq(G) => r.out \in Seq(G)

\* on_time_tick repeats the first segment that is not acknowledged, or ends TIME-WAIT.
LEMMA OnTimeTickStep ==
  ASSUME NEW c, ConnInv(c), c.panic = "none", NEW expired, NEW r, r = OnTimeTick(c, expired)
  PROVE  Step(c, r, c.ackd) /\ Sends(c, r) /\ Opening(c, r)
<1> DEFINE e == [c EXCEPT !.timer_re_tx = FALSE]
           d == IF "re_tx" \in expired /\ c.timer_re_tx THEN OnTimerReTx(c) ELSE c
<1>0. c \in Connections /\ Consistent(c) /\ FinLive(c) BY LiveFin
<1>1. /\ e \in Connections /\ SameRest(c, e) /\ e.state = c.state /\ e.tx = c.tx
      /\ e.tx_fin = c.tx_fin /\ e.re_tx = c.re_tx /\ e.next = c.next /\ e.unack = c.unack
      /\ e.init_seqn = c.init_seqn /\ e.panic = c.panic
      /\ e.timer_timewait = c.timer_timewait
  BY <1>0 DEF Connections, SameRest
<1>2. d = c \/ d = e \/ (c.re_tx # <<>> /\ d = Send(c, Head(c.re_tx)))
  <2>1. CASE "re_tx" \in expired /\ c.timer_re_tx
    <3> DEFINE f == [e EXCEPT !.timer_re_tx = TRUE]
    <3>1. c.state.kind \in {"Listen", "SynSent", "SynReceived", "Established", "Reset"}
      BY <1>0, <2>1, StateFields DEF Consistent, StateKind
    <3>2. d = e \/ (d = Send(f, Head(c.re_tx)) /\ c.re_tx # <<>>)
      BY <2>1, <3>1 DEF OnTimerReTx
    <3>3. f = c BY <1>0, <2>1 DEF Connections
    <3> QED BY <3>2, <3>3
  <2> QED BY <2>1
<1>3. r = d \/ (d.timer_timewait /\ r = OnTimerTimewait(d)) BY DEF OnTimeTick
<1> HIDE DEF d, e
<1>4. /\ Step(c, d, c.ackd) /\ Opening(c, d) /\ d.panic = c.panic /\ d.state = c.state
      /\ d.timer_timewait = c.timer_timewait
      /\ \A isn, w, b, lo : SendOk(c, isn, w, b, lo) => SendOk(d, isn, w, b, lo)
  <2>1. CASE d = c
    <3>1. Quiet(c, d) BY <2>1, StutterStep
    <3>2. Opening(c, d) BY <2>1 DEF Opening, KeptIn
    <3> QED BY <2>1, <3>1, <3>2, QuietStep
  <2>2. CASE d = e
    <3>1. Quiet(c, d) BY <1>1, <2>2 DEF Quiet, SameStream, SameRest, KeptIn, Later, Eof
    <3>2. Opening(c, d) BY <1>1, <2>2 DEF Opening, KeptIn, SameRest
    <3> QED BY <1>1, <2>2, <3>1, <3>2, QuietStep, QuietKeeps
  <2>3. CASE c.re_tx # <<>> /\ d = Send(c, Head(c.re_tx))
    <3> DEFINE h == Head(c.re_tx)
    <3>1. c.re_tx \in Seq(SegmentMeta) BY <1>0 DEF Connections
    <3>2. h \in SegmentMeta BY <2>3, <3>1, HeadIn
    <3>3. \A G : c.re_tx \in Seq(G) => h \in G BY <2>3, HeadIn
    <3>4. d = Send(c, h) BY <2>3
    <3> HIDE DEF h
    <3>5. /\ KindStep(c, d) /\ RxKept(c, d)
          /\ \A G : h \in G /\ c.out \in Seq(G) => d.out \in Seq(G)
          /\ \A isn, w, b, lo : SendOk(c, isn, w, b, lo) /\ Fits(c, h, isn, w, b) =>
               SendOk(d, isn, w, b, lo)
      BY <1>0, <3>2, <3>4, SendStep
    <3>6. SameCore(c, d) /\ d.panic = c.panic /\ d.init_seqn = c.init_seqn
      BY <1>0, <3>2, <3>4, SendAll
    <3>7. \A G : c.out \in Seq(G) /\ c.re_tx \in Seq(G) => d.out \in Seq(G) BY <3>3, <3>5
    <3>8. Step(c, d, c.ackd) BY <3>5, <3>6, <3>7 DEF Step, Emits, SameCore
    <3>9. c.state.kind \notin Idle BY <1>0, <2>3 DEF Consistent
    <3>10. Opening(c, d) BY <3>6, <3>7, <3>9 DEF Opening, KeptIn, SameCore, Idle
    <3>11. ASSUME NEW isn, NEW w, NEW b, NEW lo, SendOk(c, isn, w, b, lo)
           PROVE  SendOk(d, isn, w, b, lo)
      <4>1. c.state.kind \notin Idle BY <1>0, <2>3 DEF Consistent
      <4>2. c.re_tx \in Seq(OfStream(isn, w, b)) BY <3>11, <4>1 DEF SendOk, TxOk, Live
      <4>3. Live(c) => c.re_tx \in Seq(UpTo(isn, Offset(isn, c.next))) BY <3>11 DEF SendOk, OutOk
      <4>4. Fits(c, h, isn, w, b) BY <3>3, <4>2, <4>3 DEF Fits
      <4> QED BY <3>5, <3>11, <4>4
    <3> QED BY <3>6, <3>8, <3>10, <3>11 DEF SameCore
  <2> QED BY <1>2, <2>1, <2>2, <2>3
<1>5. CASE r = d BY <1>4, <1>5, UnmarkedSends
<1>6. CASE d.timer_timewait /\ r = OnTimerTimewait(d)
  <2>1. d.state.kind = "TimeWait" BY <1>0, <1>4, <1>6 DEF Consistent
  <2>2. r = Clear(d) BY <1>6, <2>1 DEF OnTimerTimewait, MustHold
  <2>3. Quiet(d, r) BY <2>2, ClearQuiet
  <2>4. Step(c, r, c.ackd) BY <1>4, <2>3, QuietStep, StepTrans
  <2>5. \A isn, w, b, lo : SendOk(c, isn, w, b, lo) => SendOk(r, isn, w, b, lo)
    BY <1>4, <2>3, QuietKeeps
  <2>6. Opening(c, r) BY <1>4, <2>1 DEF Opening, Idle
  <2> QED BY <2>4, <2>5, <2>6, UnmarkedSends
<1> QED BY <1>3, <1>5, <1>6

\* In LISTEN and SYN-SENT the calls suspend the caller or let go of the connection.
LEMMA CallOpening ==
  ASSUME NEW c, ConnInv(c), c.panic = "none", c.state.kind \in {"Listen", "SynSent"}, NEW r,
         \/ \E n : r = CallRecv(c, n)
         \/ r = CallShutdown(c) \/ r = CallClose(c) \/ r = CallAbort(c)
         \/ \E data : /\ CanSend(c) /\ c.state.tx_state = "Open" /\ ~c.tx_fin
                      /\ r = CallSend(c, data)
  PROVE  Opening(c, r)
<1>0. c \in Connections BY DEF ConnInv
<1>1. ASSUME NEW n, r = CallRecv(c, n) PROVE Opening(c, r)
  <2>2. c.state.kind # "Established" OBVIOUS
  <2>1. r = Suspend(c, "reader", "Established", 0) BY ONLY <1>1, <2>2, Zenon DEF CallRecv
  <2> QED BY <1>0, <2>1 DEF Suspend, Opening, KeptIn, Connections
<1>2. CASE r = CallShutdown(c) \/ r = CallClose(c) \/ r = CallAbort(c)
  <2>1. r = Clear(c) BY <1>2 DEF CallShutdown, CallClose, CallAbort
  <2>2. r.state.kind = "Closed" /\ r.out = c.out BY <2>1, ClearAll, KindOf
  <2> QED BY <2>2 DEF Opening, Ended
<1>3. ASSUME NEW data, CanSend(c), c.state.tx_state = "Open", ~c.tx_fin, r = CallSend(c, data)
      PROVE  Opening(c, r)
  <2> DEFINE d == [c EXCEPT !.tx = @ \o data]
  <2>1. r = Suspend(d, "writer", "Acknowledged", wrapping_add(c.next, Len(data)))
    BY <1>3 DEF CallSend, DebugMustHold, MustHold
  <2>2. c.state.kind # "Listen" BY <1>3 DEF CanSend
  <2>3. /\ d.out = c.out /\ d.re_tx = c.re_tx /\ d.unack = c.unack /\ d.next = c.next
        /\ d.state = c.state /\ d.init_seqn = c.init_seqn /\ DOMAIN d = DOMAIN c
    BY <1>0 DEF Connections
  <2> HIDE DEF d
  <2>4. /\ r.out = d.out /\ r.re_tx = d.re_tx /\ r.unack = d.unack /\ r.next = d.next
        /\ r.state = d.state /\ r.init_seqn = d.init_seqn
    BY <2>1 DEF Suspend
  <2> QED BY <2>2, <2>3, <2>4 DEF Opening, KeptIn
<1> QED BY <1>1, <1>2, <1>3

-----------------------------------------------------------------------------
(* The receiving side.                                                      *)

\* What leaves the receiving side alone, or drops it, keeps its numbering.
LEMMA RxKeptOk ==
  ASSUME NEW c \in Connections, NEW r, NEW isn, NEW n \in Nat, NEW w \in Nat, NEW e,
         RxOk(c, isn, n, w, e), RxKept(c, r), Later(c.state.kind, r.state.kind),
         c.state.kind = "SynSent" => r.state.kind \notin {"Established", "TimeWait"}
  PROVE  RxOk(r, isn, n, w, e)
<1>1. Len(c.rx) \in Nat BY DEF Connections
<1>2. CASE Gone(r) BY <1>1, <1>2 DEF RxOk, Acking, Gone, Ended
<1>3. CASE ~Gone(r)
  <2>1. /\ r.rx = c.rx /\ r.rx_fin = c.rx_fin /\ r.ackd = c.ackd
        /\ Eof(r) => Eof(c) \/ r.rx_fin
    BY <1>3 DEF RxKept
  <2>2. /\ r.state.kind \in {"Listen", "SynSent", "SynReceived"} => r.state.kind = c.state.kind
        /\ r.state.kind \in {"SynReceived", "Established", "TimeWait"} =>
             c.state.kind \in {"SynReceived", "Established", "TimeWait"}
    BY DEF Later, Ended
  <2> QED BY <2>1, <2>2 DEF RxOk, Acking, Eof
<1> QED BY <1>2, <1>3

\* A sequence in two parts.
Split(s, a, b) ==
  /\ a \in Seq(Byte) /\ b \in Seq(Byte) /\ Len(a) + Len(b) = Len(s)
  /\ \A i \in 1 .. Len(a) : a[i] = s[i]
  /\ \A i \in 1 .. Len(b) : b[i] = s[Len(a) + i]

\* The bytes in data have been read from the buffer.
RxRead(c, d, data) ==
  /\ Split(c.rx, data, d.rx)
  /\ d.rx_fin = c.rx_fin /\ d.ackd = c.ackd /\ d.state = c.state

\* The bytes of the stream after the first n.
After(n, s) == \A i \in 1 .. Len(s) : s[i] = n + i

\* They are the next ones of the stream.
LEMMA RxReadOk ==
  ASSUME NEW c \in Connections, NEW d, NEW data, RxRead(c, d, data),
         NEW isn, NEW n \in Nat, NEW w \in Nat, NEW e, RxOk(c, isn, n, w, e)
  PROVE  /\ RxOk(d, isn, n + Len(data), w, e)
         /\ After(n, data)
<1>1. /\ Len(c.rx) \in Nat /\ Len(d.rx) \in Nat /\ Len(data) \in Nat
      /\ Len(data) + Len(d.rx) = Len(c.rx)
  BY DEF Connections, RxRead, Split
<1>2. \A i \in 1 .. Len(c.rx) : c.rx[i] = n + i BY DEF RxOk, Acking
<1>3. ASSUME NEW i \in 1 .. Len(data) PROVE data[i] = n + i
  <2>1. i \in 1 .. Len(c.rx) BY <1>1
  <2> QED BY <1>2, <2>1 DEF RxRead, Split
<1>4. ASSUME NEW i \in 1 .. Len(d.rx) PROVE d.rx[i] = n + Len(data) + i
  <2>1. Len(data) + i \in 1 .. Len(c.rx) BY <1>1
  <2>2. d.rx[i] = n + (Len(data) + i) BY <1>2, <2>1 DEF RxRead, Split
  <2> QED BY <1>1, <2>2
<1>5. n + Len(data) + Len(d.rx) = n + Len(c.rx)
  <2> DEFINE x == Len(data)
             y == Len(d.rx)
             z == Len(c.rx)
  <2>1. x \in Nat /\ y \in Nat /\ z \in Nat /\ x + y = z BY <1>1
  <2> HIDE DEF x, y, z
  <2>2. n + x + y = n + z BY <2>1
  <2> QED BY <2>2 DEF x, y, z
<1>6. d.rx_fin = c.rx_fin /\ d.ackd = c.ackd /\ d.state = c.state BY DEF RxRead, Split
<1>7. RxOk(d, isn, n + Len(data), w, e) BY <1>4, <1>5, <1>6 DEF RxOk, Acking
<1> QED BY <1>3, <1>7 DEF After

\* The two parts of a sequence.
LEMMA SplitFields ==
  ASSUME NEW s \in Seq(Byte), NEW n \in Nat, n <= Len(s),
         NEW a, a = SubSeq(s, 1, n), NEW b, b = SubSeq(s, n + 1, Len(s))
  PROVE  Split(s, a, b)
<1>1. Len(s) \in Nat OBVIOUS
<1>2. a \in Seq(Byte) /\ Len(a) = n /\ \A i \in 1 .. n : a[i] = s[i] BY <1>1
<1>3. /\ b \in Seq(Byte) /\ Len(b) = Len(s) - n
      /\ \A i \in 1 .. Len(s) - n : b[i] = s[n + i]
  BY <1>1
<1>4. Len(a) + Len(b) = Len(s) BY ONLY <1>1, <1>2, <1>3, n \in Nat, n <= Len(s)
<1>5. \A i \in 1 .. Len(a) : a[i] = s[i] BY ONLY <1>2
<1>6. \A i \in 1 .. Len(b) : b[i] = s[Len(a) + i] BY ONLY <1>2, <1>3
<1> QED BY <1>2, <1>3, <1>4, <1>5, <1>6 DEF Split

\* call_recv returns the next bytes of the stream and keeps the rest.
LEMMA CallRecvStep ==
  ASSUME NEW c, ConnInv(c), c.panic = "none", CanRecv(c), NEW k \in Nat,
         NEW r, r = CallRecv(c, k), NEW data, data = RecvData(c, k)
  PROVE  /\ KindStep(c, r) /\ Emits(c, r, c.ackd) /\ Sends(c, r)
         /\ r.ackd = c.ackd \/ Gone(r)
         /\ data \in Seq(Byte)
         /\ \A isn, e : \A n, w \in Nat :
              RxOk(c, isn, n, w, e) => /\ RxOk(r, isn, n + Len(data), w, e)
                                       /\ After(n, data)
<1> DEFINE l == Least(k, Len(c.rx))
           m == MustHold(c, ~c.done, "read_after_done")
           short == Len(c.rx) < k
           read == [m EXCEPT !.rx = SubSeq(@, Least(k, Len(@)) + 1, Len(@)),
                             !.done = short /\ c.rx_fin]
           f == MustHold(read, c.rx_fin, "short_read")
           s == [c.state EXCEPT !.rx_state = "Closed"]
<1>0. c \in Connections /\ Consistent(c) /\ FinLive(c) BY LiveFin
<1>1. c.rx \in Seq(Byte) /\ Len(c.rx) \in Nat /\ c.rx_fin \in BOOLEAN BY <1>0 DEF Connections
<1>2. l \in Nat /\ l <= Len(c.rx) BY <1>1, LeastType
<1>3. \/ data = <<>> /\ Quiet(c, r) /\ (r.state = c.state)
      \/ data = SubSeq(c.rx, 1, l) /\ r = read
      \/ /\ data = SubSeq(c.rx, 1, l) /\ r = SetState(f, s)
         /\ c.state.kind = "Established" /\ c.state.rx_state # "Open"
  <2>1. CASE c.state.kind # "Established"
    <3>1. data = <<>> /\ r = Suspend(c, "reader", "Established", 0)
      BY <2>1 DEF CallRecv, RecvData
    <3>2. "reader" \in Callers /\ "Established" \in WaitKind /\ 0 \in Nat
      BY DEF Callers, WaitKind
    <3>3. r.state = c.state BY <1>0, <3>1, <3>2, SuspendKeeps DEF SameCore
    <3> QED BY <1>0, <3>1, <3>2, <3>3, SuspendQuiet
  <2>2. CASE c.state.kind = "Established" /\ ~short
    <3>1. r = read BY <2>2 DEF CallRecv
    <3>2. data = SubSeq(c.rx, 1, l) BY <2>2 DEF RecvData
    <3> QED BY <3>1, <3>2
  <2>3. CASE c.state.kind = "Established" /\ short /\ c.state.rx_state = "Open"
    <3>1. data = <<>> /\ r = Suspend(c, "reader", "Recv", k)
      BY <2>3 DEF CallRecv, RecvData
    <3>2. "reader" \in Callers /\ "Recv" \in WaitKind BY DEF Callers, WaitKind
    <3>3. r.state = c.state BY <1>0, <3>1, <3>2, SuspendKeeps DEF SameCore
    <3> QED BY <1>0, <3>1, <3>2, <3>3, SuspendQuiet
  <2>4. CASE c.state.kind = "Established" /\ short /\ c.state.rx_state # "Open"
    <3>1. r = SetState(f, s) BY <2>4 DEF CallRecv
    <3>2. data = SubSeq(c.rx, 1, l) BY <2>4 DEF RecvData
    <3> QED BY <2>4, <3>1, <3>2
  <2> QED BY <2>1, <2>2, <2>3, <2>4
<1>4. CASE data = <<>> /\ Quiet(c, r) /\ r.state = c.state
  <2>1. KindStep(c, r) /\ RxKept(c, r) /\ Emits(c, r, c.ackd) /\ Sends(c, r)
    BY <1>4, QuietKeeps, QuietSends
  <2>2. r.ackd = c.ackd \/ Gone(r) BY <2>1 DEF RxKept
  <2>3. data \in Seq(Byte) /\ Len(data) = 0 BY <1>4
  <2>4. ASSUME NEW isn, NEW e, NEW n \in Nat, NEW w \in Nat, RxOk(c, isn, n, w, e)
        PROVE  /\ RxOk(r, isn, n + Len(data), w, e)
               /\ After(n, data)
    <3>1. RxOk(r, isn, n, w, e) BY <1>0, <1>4, <2>1, <2>4, RxKeptOk DEF Later
    <3>2. n + Len(data) = n BY <2>3
    <3>3. After(n, data) BY <2>3 DEF After
    <3> QED BY <3>1, <3>2, <3>3
  <2> QED BY <2>1, <2>2, <2>3, <2>4
<1>5. /\ m \in Connections /\ SameCore(c, m) /\ SameRest(c, m)
      /\ m.panic = "none" => c.panic = "none"
  BY <1>0, MustHoldKeeps, MustHoldRest DEF Panics, Connections
<1> HIDE DEF m, s
<1>6. /\ read \in Connections /\ read.rx = SubSeq(c.rx, l + 1, Len(c.rx))
      /\ read.state = c.state /\ read.tx = c.tx /\ read.tx_fin = c.tx_fin
      /\ read.re_tx = c.re_tx /\ read.next = c.next /\ read.out = c.out
      /\ read.rx_fin = c.rx_fin /\ read.ackd = c.ackd
      /\ read.panic = "none" => c.panic = "none"
  <2> DEFINE x == [m EXCEPT !.rx = SubSeq(c.rx, l + 1, Len(c.rx))]
             b == short /\ c.rx_fin
  <2>1. m.rx = c.rx BY <1>5 DEF SameRest
  <2>2. SubSeq(c.rx, l + 1, Len(c.rx)) \in Seq(Byte) BY <1>1, <1>2
  <2> HIDE DEF l
  <2>3. /\ x \in Connections /\ x.rx = SubSeq(c.rx, l + 1, Len(c.rx))
        /\ x.state = m.state /\ x.tx = m.tx /\ x.tx_fin = m.tx_fin
        /\ x.re_tx = m.re_tx /\ x.next = m.next /\ x.out = m.out
        /\ x.rx_fin = m.rx_fin /\ x.ackd = m.ackd /\ x.panic = m.panic
    BY <1>5, <2>2 DEF Connections
  <2>4. read = [x EXCEPT !.done = b]
    BY <2>1 DEF l
  <2>5. b \in BOOLEAN OBVIOUS
  <2> HIDE DEF x, read, b
  <2>6. /\ read \in Connections /\ read.rx = x.rx
        /\ read.state = x.state /\ read.tx = x.tx /\ read.tx_fin = x.tx_fin
        /\ read.re_tx = x.re_tx /\ read.next = x.next /\ read.out = x.out
        /\ read.rx_fin = x.rx_fin /\ read.ackd = x.ackd /\ read.panic = x.panic
    BY <2>3, <2>4, <2>5 DEF Connections
  <2> QED BY <1>5, <2>3, <2>6 DEF SameCore, SameRest
<1> HIDE DEF read
<1>7. KindStep(c, read) /\ \A a : Emits(c, read, a) BY <1>6 DEF KindStep, Emits, Later
<1>8. \A isn, w, e, lo : SendOk(c, isn, w, e, lo) => SendOk(read, isn, w, e, lo)
  BY <1>6 DEF SendOk, OutOk, TxOk, Live
<1>9. ASSUME data = SubSeq(c.rx, 1, l) PROVE RxRead(c, read, data)
  <2> HIDE DEF l
  <2>1. Split(c.rx, data, read.rx)
    <3>1. read.rx = SubSeq(c.rx, l + 1, Len(c.rx)) BY <1>6
    <3> QED BY ONLY <1>1, <1>2, <1>9, <3>1, SplitFields
  <2> QED BY <1>6, <2>1 DEF RxRead, Split
<1>10. CASE data = SubSeq(c.rx, 1, l) /\ r = read
  <2>1. RxRead(c, r, data) BY <1>9, <1>10
  <2>2. data \in Seq(Byte) /\ r.ackd = c.ackd BY <2>1 DEF RxRead, Split
  <2>3. Sends(c, r) BY <1>8, <1>10, UnmarkedSends
  <2>4. \A isn, e : \A n, w \in Nat :
          RxOk(c, isn, n, w, e) => /\ RxOk(r, isn, n + Len(data), w, e)
                                   /\ After(n, data)
    BY ONLY <1>0, <2>1, RxReadOk
  <2> QED BY <1>7, <1>10, <2>2, <2>3, <2>4
<1>11. CASE /\ data = SubSeq(c.rx, 1, l) /\ r = SetState(f, s)
            /\ c.state.kind = "Established" /\ c.state.rx_state # "Open"
  <2>1. RxRead(c, read, data) BY <1>9, <1>11
  <2>2. data \in Seq(Byte) BY <2>1 DEF RxRead, Split
  <2>3. f \in Connections /\ Quiet(read, f) /\ f.state = c.state
    <3>1. /\ f \in Connections /\ SameCore(read, f) /\ SameRest(read, f)
          /\ PanicKept(read, f)
      BY <1>1, <1>6, MustHoldKeeps, MustHoldRest DEF Panics, NeverInTimer
    <3> QED BY <1>6, <3>1, SameQuiet DEF SameCore
  <2> HIDE DEF f
  <2>4. s \in ConnectionStates /\ s.kind = "Established" /\ s.tx_state = c.state.tx_state
    BY <1>0, <1>11, StateFields DEF s, ConnectionStates, ChannelState
  <2>5. QuietState(f, s)
    BY <1>11, <2>3, <2>4 DEF QuietState, Idle, Later, fin_sent, Eof
  <2>6. Quiet(f, r) BY <1>11, <2>3, <2>5, SetStateQuiet
  <2>7. Quiet(read, r) BY <2>3, <2>6, QuietTrans
  <2>8. /\ KindStep(read, r) /\ RxKept(read, r) /\ Emits(read, r, c.ackd)
        /\ \A isn, w, e, lo : SendOk(read, isn, w, e, lo) => SendOk(r, isn, w, e, lo)
    BY <2>7, QuietKeeps
  <2>9. KindStep(c, r) /\ Emits(c, r, c.ackd)
    <3>1. KindStep(c, r) BY <1>6, <1>7, <2>8 DEF KindStep, Later, Ended, Idle
    <3>2. Emits(c, r, c.ackd) BY <1>7, <2>8 DEF Emits
    <3> QED BY <3>1, <3>2
  <2>10. Sends(c, r) BY <1>8, <2>8, UnmarkedSends
  <2>11. r.ackd = c.ackd \/ Gone(r) BY <1>6, <2>8 DEF RxKept
  <2>12. ASSUME NEW isn, NEW e, NEW n \in Nat, NEW w \in Nat, RxOk(c, isn, n, w, e)
         PROVE  /\ RxOk(r, isn, n + Len(data), w, e)
                /\ After(n, data)
    <3>1. /\ RxOk(read, isn, n + Len(data), w, e)
          /\ After(n, data)
      BY ONLY <1>0, <2>1, <2>12, n \in Nat, w \in Nat, RxReadOk
    <3>2. n + Len(data) \in Nat BY <2>2
    <3>3. Later(read.state.kind, r.state.kind) /\ read.state.kind # "SynSent"
      BY <1>6, <1>11, <2>8 DEF KindStep
    <3> QED BY <1>6, <2>8, <3>1, <3>2, <3>3, RxKeptOk
  <2> QED BY <2>2, <2>9, <2>10, <2>11, <2>12
<1> QED BY <1>3, <1>4, <1>10, <1>11

-----------------------------------------------------------------------------
(* on_segment.                                                              *)

\* Nothing is sent or queued but what was queued and acknowledgements.
EmitsAcks(c, r) ==
  \A G : (\A a : Acks(a) \subseteq G) /\ c.out \in Seq(G) /\ c.re_tx \in Seq(G)
         => r.out \in Seq(G) /\ r.re_tx \in Seq(G)

\* What on_segment does to the sending side, unless it resets the connection.
TxStep(c, r) ==
  /\ KindStep(c, r) /\ EmitsAcks(c, r)
  /\ \A isn, w, e, lo : Short(isn, w, e) /\ SendOk(c, isn, w, e, lo) => SendOk(r, isn, w, e, lo)

\* A quiet method is such a step.
LEMMA QuietTx ==
  ASSUME NEW c, NEW r, Quiet(c, r)
  PROVE  TxStep(c, r)
BY QuietKeeps DEF TxStep, EmitsAcks, Emits

\* TxStep is transitive.
LEMMA TxTrans ==
  ASSUME NEW c, NEW d, NEW r, TxStep(c, d), TxStep(d, r)
  PROVE  TxStep(c, r)
<1>1. KindStep(c, r) BY DEF TxStep, KindStep, Later, Ended, Idle
<1>2. EmitsAcks(c, r) BY DEF TxStep, EmitsAcks
<1>3. \A isn, w, e, lo : Short(isn, w, e) /\ SendOk(c, isn, w, e, lo) => SendOk(r, isn, w, e, lo)
  BY DEF TxStep
<1> QED BY <1>1, <1>2, <1>3 DEF TxStep

\* An ACK in answer, without payload.
LEMMA AckAnswer ==
  ASSUME NEW c \in Connections, NEW r, r = Send(c, AckSegment(c))
  PROVE  Step(c, r, c.ackd) /\ TxStep(c, r) /\ r \in Connections
<1> DEFINE seg == AckSegment(c)
<1>1. /\ seg \in SegmentMeta /\ seg.flags = {"ACK"} /\ seg.data = <<>> /\ seg.ackn = c.ackd
  BY AckSegmentType DEF AckSegment, Control
<1> HIDE DEF seg
<1>2. r = Send(c, seg) BY DEF seg
<1>3. seg \in Acks(c.ackd) BY <1>1 DEF Acks
<1>4. \A isn, w, e : Fits(c, seg, isn, w, e) BY <1>1, ControlOfStream, ControlUpTo DEF Fits
<1>5. /\ KindStep(c, r) /\ RxKept(c, r)
      /\ \A G : seg \in G /\ c.out \in Seq(G) => r.out \in Seq(G)
      /\ \A isn, w, e, lo : SendOk(c, isn, w, e, lo) /\ Fits(c, seg, isn, w, e) =>
           SendOk(r, isn, w, e, lo)
  BY <1>1, <1>2, SendStep
<1>6. r \in Connections /\ r.re_tx = c.re_tx BY <1>1, <1>2, SendAll DEF SameCore
<1>7. Emits(c, r, c.ackd) BY <1>3, <1>5, <1>6 DEF Emits
<1>8. EmitsAcks(c, r) BY <1>7 DEF EmitsAcks, Emits
<1> QED BY <1>4, <1>5, <1>6, <1>7, <1>8 DEF Step, TxStep

\* send_ack is such a step.
LEMMA SendAckTx ==
  ASSUME NEW c, ConnInv(c), FinLive(c), NEW r, r = SendAck(c)
  PROVE  TxStep(c, r)
<1>0. c \in Connections BY DEF ConnInv
<1>1. KindStep(c, r) /\ Emits(c, r, c.ackd) BY <1>0, SendAckKeeps
<1>2. EmitsAcks(c, r) BY <1>1 DEF EmitsAcks, Emits
<1>3. \A isn, w, e, lo : Short(isn, w, e) /\ SendOk(c, isn, w, e, lo) => SendOk(r, isn, w, e, lo)
  BY SendAckSends DEF Short
<1> QED BY <1>1, <1>2, <1>3 DEF TxStep

\* Nothing is sent or queued but what was queued and acknowledgements of what has been
\* received, which does not shrink.
Acked(c, r) ==
  \/ r.state.kind \in Ended
  \/ /\ Emits(c, r, r.ackd)
     /\ Len(c.rx) <= Len(r.rx) /\ (c.rx_fin => r.rx_fin)

\* A step that leaves the receiving side alone is such a step.
LEMMA StepAcked ==
  ASSUME NEW c \in Connections, NEW r, Step(c, r, c.ackd)
  PROVE  Acked(c, r)
<1>1. Len(c.rx) \in Nat BY DEF Connections
<1> QED BY <1>1 DEF Step, Acked, RxKept, Gone

\* A quiet method may come first.
LEMMA QuietAcked ==
  ASSUME NEW c, NEW d, NEW r, Quiet(c, d), Acked(d, r), Later(d.state.kind, r.state.kind)
  PROVE  Acked(c, r)
<1>1. CASE r.state.kind \in Ended BY <1>1 DEF Acked
<1>2. CASE r.state.kind \notin Ended
  <2>1. SameStream(c, d) BY <1>2 DEF Quiet, Gone, Later, Ended
  <2>2. d.rx = c.rx /\ d.rx_fin = c.rx_fin BY <2>1 DEF SameStream
  <2>3. Emits(c, d, r.ackd) BY QuietKeeps
  <2>4. Emits(c, r, r.ackd) BY <1>2, <2>3 DEF Acked, Emits
  <2> QED BY <1>2, <2>2, <2>4 DEF Acked
<1> QED BY <1>1, <1>2

\* What is left of the retransmission queue was in it.
LEMMA UnackedKept ==
  ASSUME NEW q \in Seq(SegmentMeta), NEW end \in SeqN
  PROVE  KeptIn(q, Unacked(q, end))
<1> SUFFICES ASSUME NEW G, q \in Seq(G) PROVE Unacked(q, end) \in Seq(G) BY DEF KeptIn
<1>1. CASE Unacked(q, end) = <<>> BY <1>1
<1>2. CASE Unacked(q, end) # <<>>
  <2>1. PICK i \in 1 .. Len(q) : Unacked(q, end) = SubSeq(q, i, Len(q))
    BY <1>2, UnackedType
  <2>2. SubSeq(q, i, Len(q)) \in Seq(G) OBVIOUS
  <2> QED BY <2>1, <2>2
<1> QED BY <1>1, <1>2

\* Removing what is acknowledged is quiet.
LEMMA ClearRangeQuiet ==
  ASSUME NEW c \in Connections, NEW end \in SeqN, NEW r, r = clear_re_tx_range(c, end)
  PROVE  /\ r \in Connections /\ Quiet(c, r) /\ SameStream(c, r) /\ r.state = c.state
         /\ r.init_seqn = c.init_seqn /\ r.panic = c.panic
<1> DEFINE d == Wake(c, {u \in Callers : /\ c.wait[u].kind = "Acknowledged"
                                         /\ lte(c.wait[u].arg, end)})
<1>1. d \in Connections /\ SameCore(c, d) /\ d.panic = c.panic BY WakeKeeps
<1>2. SameRest(c, d) BY WakeRest
<1>3. d.init_seqn = c.init_seqn BY DEF Wake, Connections
<1>4. r = [d EXCEPT !.re_tx = Unacked(@, end)] BY DEF clear_re_tx_range
<1> HIDE DEF d
<1>5. r \in Connections BY ClearRangeType
<1>6. /\ r.panic = c.panic /\ r.init_seqn = c.init_seqn
      /\ r.state = c.state /\ r.tx = c.tx /\ r.tx_fin = c.tx_fin /\ r.next = c.next
      /\ r.re_tx = Unacked(c.re_tx, end) /\ SameRest(c, r)
  BY <1>1, <1>2, <1>3, <1>4 DEF Connections, SameCore, SameRest
<1>7. KeptIn(c.re_tx, r.re_tx) BY <1>6, UnackedKept DEF Connections
<1>8. Quiet(c, r) /\ SameStream(c, r)
  BY <1>6, <1>7 DEF Quiet, SameStream, SameRest, Later, Eof
<1> QED BY <1>5, <1>6, <1>8

\* A new ACK is quiet.
LEMMA OnNewAckQuiet ==
  ASSUME NEW c \in Connections, NEW seg \in SegmentMeta, NEW r, r = OnNewAck(c, seg)
  PROVE  r \in Connections /\ Quiet(c, r) /\ SameStream(c, r) /\ r.state = c.state
<1> DEFINE d == UpdateCongestion(c, Len(seg.data))
           who == {u \in Callers : c.wait[u].kind = "Recv" /\ c.wait[u].arg <= Len(c.rx)}
           e == Wake(d, who)
           f == clear_re_tx_range(e, seg.ackn)
           w == Least(seg.window, d.congestation_window)
<1>1. d \in Connections /\ SameCore(c, d) /\ PanicKept(c, d)
  BY SegmentFields, UpdateCongestionKeeps
<1>2. SameRest(c, d)
  <2> DEFINE grown == IF c.dup_ack_count > 0 THEN SLOW_START_TRESHOLD
                      ELSE IF c.congestation_window <= SLOW_START_TRESHOLD
                           THEN 2 * c.congestation_window
                      ELSE c.congestation_window + Len(seg.data)
             m == DebugMustHold(c, grown <= WindowMax, "congestion_overflow")
  <2>1. m \in Connections /\ SameRest(c, m) BY MustHoldType, MustHoldRest DEF Panics
  <2>2. d = [m EXCEPT !.congestation_window = grown % (WindowMax + 1)]
    BY DEF UpdateCongestion
  <2> HIDE DEF m, grown, d
  <2> QED BY <2>1, <2>2 DEF SameRest, Connections
<1>3. r = [f EXCEPT !.tx_window = w, !.unack = seg.ackn, !.timer_re_tx = f.re_tx # <<>>]
  BY DEF OnNewAck
<1>10. w \in 0 .. WindowMax BY <1>1, SegmentFields DEF Least, Connections
<1> HIDE DEF d, who, w
<1>4. /\ e \in Connections /\ SameCore(d, e) /\ PanicKept(d, e) /\ SameRest(d, e)
  BY <1>1, WakeKeeps, WakeRest
<1> HIDE DEF e
<1>5. Quiet(c, e) /\ SameStream(c, e) /\ e.state = c.state
  <2>1. SameCore(c, e) /\ SameRest(c, e) /\ PanicKept(c, e)
    BY <1>1, <1>2, <1>4 DEF SameCore, SameRest, PanicKept
  <2> QED BY <2>1, SameQuiet DEF SameCore
<1>6. f \in Connections /\ Quiet(e, f) /\ SameStream(e, f) /\ f.state = e.state
  BY <1>4, SegmentFields, ClearRangeQuiet
<1> HIDE DEF f
<1>7. /\ r \in Connections /\ r.state = f.state /\ r.tx = f.tx /\ r.tx_fin = f.tx_fin
      /\ r.re_tx = f.re_tx /\ r.next = f.next /\ r.panic = f.panic
      /\ r.out = f.out /\ r.rx = f.rx /\ r.rx_fin = f.rx_fin /\ r.ackd = f.ackd
  BY <1>3, <1>6, <1>10, SegmentFields, ZenonT(40) DEF Connections
<1>8. Quiet(f, r) /\ SameStream(f, r) BY <1>7 DEF Quiet, SameStream, KeptIn, Later, Eof
<1>9. Quiet(c, r) BY <1>5, <1>6, <1>8, QuietTrans
<1>11. SameStream(c, r)
  <2>1. KeptIn(c.re_tx, r.re_tx) BY <1>5, <1>6, <1>8 DEF SameStream, KeptIn
  <2> QED BY <1>5, <1>6, <1>8, <2>1 DEF SameStream
<1> QED BY <1>5, <1>6, <1>7, <1>9, <1>11

\* The ACK of our FIN is quiet, and ends the connection only after the peer's FIN.
LEMMA OnFinAckedQuiet ==
  ASSUME NEW c \in Connections, NEW seg \in SegmentMeta, NEW r, r = OnFinAcked(c, seg)
  PROVE  /\ r \in Connections /\ Quiet(c, r)
         /\ SameStream(c, r) \/ (Gone(r) /\ r.re_tx = <<>> /\ Eof(c))
<1> DEFINE m == DebugMustHold(c, c.tx = <<>> /\ c.re_tx = <<>>, "fin_acked_early")
           s == [c.state EXCEPT !.tx_state = "Closed"]
<1>1. CASE c.state.kind = "Established" /\ c.state.tx_state = "Fin" /\ seg.ackn = c.next
  <2>1. /\ m \in Connections /\ SameCore(c, m) /\ PanicKept(c, m) /\ SameRest(c, m)
    BY DebugMustHoldKeeps, MustHoldRest DEF Panics, NeverInTimer
  <2>2. r = SetState(m, s) BY <1>1 DEF OnFinAcked
  <2>3. /\ s \in ConnectionStates /\ s.kind = "Established" /\ s.tx_state = "Closed"
        /\ s.rx_state = c.state.rx_state
    BY <1>1, StateFields DEF ConnectionStates, ChannelState
  <2> HIDE DEF s, m
  <2>4. Quiet(c, m) /\ SameStream(c, m) /\ m.state = c.state
    BY <2>1, SameQuiet DEF SameCore
  <2>5. QuietState(m, s) BY <1>1, <2>3, <2>4 DEF QuietState, Idle, Later, fin_sent, Eof
  <2>6. r \in Connections /\ Quiet(m, r) /\ (~Reduces(s) => SameStream(m, r))
    BY <2>1, <2>2, <2>5, SetStateQuiet
  <2>7. Quiet(c, r) BY <2>4, <2>6, QuietTrans
  <2>8. SameStream(c, r) \/ (Gone(r) /\ r.re_tx = <<>> /\ Eof(c))
    <3>1. CASE Reduces(s)
      <4>1. Eof(c) BY <1>1, <2>3, <3>1 DEF Reduces, Eof
      <4> QED BY <2>7, <4>1 DEF Quiet
    <3>2. CASE ~Reduces(s)
      <4>1. SameStream(m, r) BY <2>6, <3>2
      <4>2. KeptIn(c.re_tx, r.re_tx) BY <2>4, <4>1 DEF SameStream, KeptIn
      <4> QED BY <2>4, <4>1, <4>2 DEF SameStream
    <3> QED BY <3>1, <3>2
  <2> QED BY <2>6, <2>7, <2>8
<1>2. CASE ~(c.state.kind = "Established" /\ c.state.tx_state = "Fin" /\ seg.ackn = c.next)
  <2>1. r = c BY <1>2 DEF OnFinAcked
  <2>2. SameStream(c, r) BY <2>1 DEF SameStream, KeptIn
  <2> QED BY <2>1, <2>2, StutterStep
<1> QED BY <1>1, <1>2

\* So is handling an ackn.
LEMMA OnAckQuiet ==
  ASSUME NEW c \in Connections, c.state.kind \in {"TimeWait", "SynReceived", "Established"},
         NEW seg \in SegmentMeta, NEW r, r = OnAck(c, seg)
  PROVE  /\ r \in Connections /\ Quiet(c, r)
         /\ r.state.kind # "SynReceived"
         /\ SameStream(c, r) \/ (Gone(r) /\ r.re_tx = <<>> /\ Eof(c))
<1> DEFINE d == IF c.state.kind = "SynReceived" THEN SetState(c, FULLY_OPEN) ELSE c
           e == IF c.unack # seg.ackn THEN OnNewAck(d, seg) ELSE d
<1>1. r = OnFinAcked(e, seg) BY DEF OnAck
<1>2. /\ d \in Connections /\ Quiet(c, d) /\ SameStream(c, d) /\ d.state.kind # "SynReceived"
      /\ Eof(d) => Eof(c)
  <2>1. CASE c.state.kind = "SynReceived"
    <3>1. d = SetState(c, FULLY_OPEN) BY <2>1
    <3>2. QuietState(c, FULLY_OPEN) /\ ~Reduces(FULLY_OPEN)
      BY <2>1, KindOf, StatesType DEF QuietState, Reduces, Idle, Later, fin_sent
    <3>3. d \in Connections /\ Quiet(c, d) /\ SameStream(c, d) /\ d.state = FULLY_OPEN
      BY <3>1, <3>2, SetStateQuiet
    <3> QED BY <3>3, KindOf DEF Eof
  <2>2. CASE c.state.kind # "SynReceived"
    BY <2>2, StutterStep DEF SameStream, KeptIn
  <2> QED BY <2>1, <2>2
<1> HIDE DEF d
<1>3. /\ e \in Connections /\ Quiet(d, e) /\ SameStream(d, e) /\ e.state = d.state
  <2>1. CASE c.unack # seg.ackn BY <1>2, <2>1, OnNewAckQuiet
  <2>2. CASE c.unack = seg.ackn BY <1>2, <2>2, StutterStep DEF SameStream, KeptIn
  <2> QED BY <2>1, <2>2
<1> HIDE DEF e
<1>4. /\ r \in Connections /\ Quiet(e, r)
      /\ SameStream(e, r) \/ (Gone(r) /\ r.re_tx = <<>> /\ Eof(e))
  BY <1>1, <1>3, OnFinAckedQuiet
<1>5. Quiet(c, e) /\ SameStream(c, e) /\ (Eof(e) => Eof(c)) /\ e.state.kind # "SynReceived"
  <2>1. KeptIn(c.re_tx, e.re_tx) BY <1>2, <1>3 DEF SameStream, KeptIn
  <2>2. SameStream(c, e) BY <1>2, <1>3, <2>1 DEF SameStream
  <2> QED BY <1>2, <1>3, <2>2, QuietTrans DEF Eof
<1>6. Quiet(c, r) BY <1>4, <1>5, QuietTrans
<1>7. r.state.kind # "SynReceived" BY <1>4, <1>5 DEF Quiet, Later, Ended
<1>8. SameStream(e, r) => SameStream(c, r)
  <2>1. SameStream(e, r) => KeptIn(c.re_tx, r.re_tx) BY <1>5 DEF SameStream, KeptIn
  <2> QED BY <1>5, <2>1 DEF SameStream
<1> QED BY <1>4, <1>5, <1>6, <1>7, <1>8

\* The peer's FIN is quiet once it is stored.
LEMMA OnFinQuiet ==
  ASSUME NEW c \in Connections, c.rx_fin, NEW non_ordered, NEW r, r = OnFin(c, non_ordered)
  PROVE  r \in Connections /\ Quiet(c, r)
<1> DEFINE w == Wake(c, Callers)
           v == [w EXCEPT !.timer_re_tx = FALSE, !.timer_timewait = TRUE]
           k == WakeKind(c, "Recv")
           s == IF c.state.kind = "SynReceived" THEN Established("Open", "Fin", FALSE, FALSE)
                ELSE [c.state EXCEPT !.rx_state = "Fin"]
<1>1. CASE c.state.kind = "TimeWait" /\ non_ordered
  <2>1. r = v BY <1>1 DEF OnFin
  <2>2. w \in Connections /\ SameCore(c, w) /\ PanicKept(c, w) /\ SameRest(c, w)
    BY WakeKeeps, WakeRest
  <2>3. Quiet(c, w) BY <2>2, SameQuiet
  <2> HIDE DEF w
  <2>4. /\ v \in Connections /\ v.state = w.state /\ v.tx = w.tx /\ v.tx_fin = w.tx_fin
        /\ v.re_tx = w.re_tx /\ v.next = w.next /\ v.panic = w.panic
        /\ v.out = w.out /\ v.rx = w.rx /\ v.rx_fin = w.rx_fin /\ v.ackd = w.ackd
    BY <2>2 DEF Connections
  <2> HIDE DEF v
  <2>5. Quiet(w, v) BY <2>4 DEF Quiet, SameStream, KeptIn, Later, Eof
  <2> QED BY <2>1, <2>3, <2>4, <2>5, QuietTrans
<1>2. CASE c.state.kind \in {"SynReceived", "Established"}
  <2>1. r = SetState(k, s) BY <1>2 DEF OnFin
  <2>2. /\ k \in Connections /\ SameCore(c, k) /\ PanicKept(c, k) /\ SameRest(c, k)
    BY WakeKindKeeps, WakeRest
  <2>3. Quiet(c, k) /\ k.state = c.state /\ k.rx_fin
    BY <2>2, SameQuiet DEF SameCore, SameRest
  <2>4. /\ s \in ConnectionStates /\ s.kind = "Established"
        /\ fin_sent(c.state) => s.tx_state = c.state.tx_state
    <3>1. CASE c.state.kind = "SynReceived"
      BY <3>1, EstablishedType DEF Established, ChannelState, fin_sent
    <3>2. CASE c.state.kind = "Established"
      BY <3>2, StateFields DEF ConnectionStates, ChannelState
    <3> QED BY <1>2, <3>1, <3>2
  <2> HIDE DEF k, s
  <2>5. QuietState(k, s) BY <1>2, <2>3, <2>4 DEF QuietState, Idle, Later, fin_sent
  <2>6. r \in Connections /\ Quiet(k, r) BY <2>1, <2>2, <2>5, SetStateQuiet
  <2> QED BY <2>3, <2>6, QuietTrans
<1>3. CASE r = c BY <1>3, StutterStep
<1>4. r = c \/ (c.state.kind = "TimeWait" /\ non_ordered)
      \/ c.state.kind \in {"SynReceived", "Established"}
  BY DEF OnFin
<1> QED BY <1>1, <1>2, <1>3, <1>4

\* What RxBuffer::write does.
LEMMA RxWriteAll ==
  ASSUME NEW c \in Connections, NEW seg \in SegmentMeta, NEW r, r = RxWrite(c, seg)
  PROVE  /\ r \in Connections /\ SameCore(c, r) /\ PanicKept(c, r) /\ r.out = c.out
         /\ r.ackd = wrapping_add(c.ackd, seq_size(seg))
         /\ r.rx_fin = (c.rx_fin \/ "FIN" \in seg.flags)
         /\ r.rx = c.rx \o seg.data
<1> DEFINE fin == "FIN" \in seg.flags
           d == DebugMustHold(c, ~(fin /\ c.rx_fin), "duplicate_fin")
           e == MustHold(d, seg.data = <<>> \/ ~(fin \/ c.rx_fin), "write_after_fin")
<1>1. r \in Connections BY RxWriteType
<1>2. d \in Connections /\ SameCore(c, d) /\ PanicKept(c, d) /\ SameRest(c, d)
  BY DebugMustHoldKeeps, MustHoldRest DEF Panics, NeverInTimer, Connections
<1>7. r = [e EXCEPT !.ackd = wrapping_add(@, seq_size(seg)), !.rx_fin = @ \/ fin,
                    !.rx = @ \o seg.data]
  BY DEF RxWrite
<1> HIDE DEF d
<1>3. e \in Connections /\ SameCore(d, e) /\ PanicKept(d, e) /\ SameRest(d, e)
  BY <1>2, MustHoldKeeps, MustHoldRest DEF Panics, NeverInTimer, Connections
<1> HIDE DEF e
<1>4. SameCore(c, e) /\ PanicKept(c, e) /\ SameRest(c, e)
  BY <1>2, <1>3 DEF SameCore, PanicKept, SameRest
<1>5. /\ r.state = e.state /\ r.tx = e.tx /\ r.tx_fin = e.tx_fin /\ r.re_tx = e.re_tx
      /\ r.next = e.next /\ r.unack = e.unack /\ r.timer_re_tx = e.timer_re_tx
      /\ r.timer_timewait = e.timer_timewait /\ r.panic = e.panic /\ r.out = e.out
      /\ r.ackd = wrapping_add(e.ackd, seq_size(seg))
      /\ r.rx_fin = (e.rx_fin \/ fin) /\ r.rx = e.rx \o seg.data
  BY <1>3, <1>7, ZenonT(40) DEF Connections
<1> QED BY <1>1, <1>4, <1>5 DEF SameCore, PanicKept, SameRest

\* A segment that continues the stream is stored where it belongs.
LEMMA RxWriteOk ==
  ASSUME NEW c \in Connections, ~c.rx_fin, c.state.kind \in {"Established", "TimeWait"},
         NEW isn, NEW w, NEW e, Short(isn, w, e), NEW n \in Nat,
         NEW seg \in OfStream(isn, w, e), "SYN" \notin seg.flags, seg.seqn = c.ackd,
         RxOk(c, isn, n, w, e), NEW r, r = RxWrite(c, seg)
  PROVE  RxOk(r, isn, n, w, e)
<1> DEFINE k == Offset(isn, c.ackd)
           m == Len(c.rx)
           l == Len(seg.data)
           x == IF "FIN" \in seg.flags THEN 1 ELSE 0
<1>0. isn \in SeqN /\ w \in Nat /\ w + 2 < SeqSpace BY DEF Short
<1>1. seg \in SegmentMeta BY DEF OfStream
<1>2. /\ r.state = c.state /\ r.ackd = wrapping_add(c.ackd, seq_size(seg))
      /\ r.rx_fin <=> "FIN" \in seg.flags
      /\ r.rx = c.rx \o seg.data
  <2>1. /\ SameCore(c, r) /\ r.ackd = wrapping_add(c.ackd, seq_size(seg))
        /\ r.rx_fin = (c.rx_fin \/ "FIN" \in seg.flags) /\ r.rx = c.rx \o seg.data
    BY <1>1, RxWriteAll
  <2>2. r.rx_fin <=> "FIN" \in seg.flags BY <2>1
  <2> QED BY <2>1, <2>2 DEF SameCore
<1>3. /\ c.rx \in Seq(Byte) /\ m \in Nat /\ c.ackd \in SeqN /\ seg.data \in Seq(Byte) /\ l \in Nat
  BY <1>1, SegmentFields DEF Connections
<1>4. /\ k = n + m + 1 /\ n + m <= w
      /\ \A i \in 1 .. m : c.rx[i] = n + i
      /\ ~Eof(c)
  BY DEF RxOk, Acking, Eof
<1>5. /\ seg.data # <<>> => k + l <= w + 1 /\ \A i \in 1 .. l : seg.data[i] = k - 1 + i
      /\ "FIN" \in seg.flags => e /\ k + l = w + 1
  BY DEF OfStream
<1>6. seq_size(seg) = l + x BY <1>3 DEF seq_size
<1>7. x \in 0 .. 1 /\ (x = 1 <=> "FIN" \in seg.flags) OBVIOUS
<1>8. seg.data = <<>> => l = 0 BY <1>3
<1>9. /\ Len(r.rx) = m + l
      /\ \A i \in 1 .. m : r.rx[i] = c.rx[i]
      /\ \A i \in m + 1 .. m + l : r.rx[i] = seg.data[i - m]
  <2> DEFINE t == c.rx \o seg.data
  <2>1. /\ Len(t) = Len(c.rx) + Len(seg.data)
        /\ \A i \in 1 .. Len(c.rx) : t[i] = c.rx[i]
        /\ \A i \in Len(c.rx) + 1 .. Len(c.rx) + Len(seg.data) : t[i] = seg.data[i - Len(c.rx)]
    BY <1>3, ConcatFields
  <2>2. r.rx = t BY <1>2
  <2> HIDE DEF t
  <2> QED BY <2>1, <2>2
<1> HIDE DEF k, m, l, x
<1>10. k + (l + x) <= w + 2 BY <1>0, <1>3, <1>4, <1>5, <1>7, <1>8
<1>11. Offset(isn, r.ackd) = k + l + x
  <2>1. k \in Nat BY <1>3, <1>4
  <2>2. l + x \in Nat /\ k + (l + x) < SeqSpace
    BY <1>0, <1>3, <1>7, <1>10, <2>1, SegmentAssumption
  <2>3. Offset(isn, wrapping_add(c.ackd, l + x)) = k + (l + x)
    BY <1>0, <1>3, <2>1, <2>2, OffsetAdd DEF k
  <2> QED BY <1>2, <1>3, <1>6, <1>7, <2>1, <2>3
<1>12. n + (m + l) <= w /\ ("FIN" \in seg.flags => e /\ n + (m + l) = w)
  <2>1. k = n + m + 1 /\ n + m <= w BY <1>4
  <2>2. CASE seg.data = <<>>
    <3>1. n + (m + l) <= w BY <1>3, <1>8, <2>1, <2>2
    <3>2. k + l = w + 1 => n + (m + l) = w BY <1>0, <1>3, <2>1
    <3> QED BY <1>5, <3>1, <3>2
  <2>3. CASE seg.data # <<>>
    <3>1. k + l <= w + 1 BY <1>5, <2>3
    <3>2. n + (m + l) <= w BY <1>0, <1>3, <2>1, <3>1
    <3>3. k + l = w + 1 => n + (m + l) = w BY <1>0, <1>3, <2>1
    <3> QED BY <1>5, <3>2, <3>3
  <2> QED BY <2>2, <2>3
<1>13. ASSUME NEW i \in 1 .. m + l PROVE r.rx[i] = n + i
  <2>1. CASE i <= m
    <3>1. i \in 1 .. m BY <1>3, <2>1
    <3> QED BY <1>4, <1>9, <3>1
  <2>2. CASE i > m
    <3>1. i \in m + 1 .. m + l /\ i - m \in 1 .. l BY <1>3, <2>2
    <3>2. seg.data # <<>> BY <1>3, <1>8, <3>1
    <3>3. r.rx[i] = k - 1 + (i - m) BY <1>5, <1>9, <3>1, <3>2
    <3> QED BY <1>3, <1>4, <3>3
  <2> QED BY <1>3, <2>1, <2>2
<1>14. Offset(isn, r.ackd) = n + (m + l) + 1 + x BY <1>3, <1>4, <1>7, <1>11
<1>15. r.rx_fin => x = 1 BY <1>2, <1>7
<1>16. ~r.rx_fin => x = 0 BY <1>2, <1>7
<1>17. ~(r.state.kind = "Established" /\ r.state.rx_state # "Open") BY <1>2, <1>4 DEF Eof
<1> DEFINE received == n + Len(r.rx)
<1>18. /\ \A i \in 1 .. Len(r.rx) : r.rx[i] = n + i
       /\ received <= w /\ (r.rx_fin => e /\ received = w)
       /\ Offset(isn, r.ackd) = received + 1 + (IF r.rx_fin THEN 1 ELSE 0)
  BY <1>2, <1>9, <1>12, <1>13, <1>14, <1>15, <1>16
<1> HIDE DEF received
<1> QED BY <1>2, <1>17, <1>18 DEF RxOk, Acking, received

\* send_ack leaves the receiving side alone.
LEMMA SendAckRx ==
  ASSUME NEW c \in Connections, FinLive(c), c.state.kind \notin {"SynSent", "SynReceived"},
         NEW isn, NEW w \in Nat, NEW e, NEW n \in Nat, RxOk(c, isn, n, w, e),
         NEW r, r = SendAck(c)
  PROVE  RxOk(r, isn, n, w, e)
<1>1. /\ KindStep(c, r)
      /\ r.rx = c.rx /\ r.rx_fin = c.rx_fin /\ r.ackd = c.ackd
      /\ r.state = c.state \/ c.state.kind \in {"SynSent", "SynReceived", "Established"}
      /\ c.state.kind = "Established" => RxKept(c, r)
  BY SendAckKeeps
<1>2. CASE c.state.kind = "Established"
  BY <1>1, <1>2, RxKeptOk DEF KindStep
<1>3. CASE c.state.kind # "Established"
  BY <1>1, <1>3 DEF RxOk, Acking
<1> QED BY <1>2, <1>3

\* An empty segment changes nothing that is stored.
LEMMA RxWriteNothing ==
  ASSUME NEW c \in Connections, NEW seg \in SegmentMeta, seg.data = <<>>,
         "SYN" \notin seg.flags, "FIN" \notin seg.flags, NEW r, r = RxWrite(c, seg)
  PROVE  Quiet(c, r) /\ r.state = c.state
<1>1. /\ r \in Connections /\ SameCore(c, r) /\ PanicKept(c, r) /\ r.out = c.out
      /\ r.ackd = wrapping_add(c.ackd, seq_size(seg))
      /\ r.rx_fin = (c.rx_fin \/ "FIN" \in seg.flags)
      /\ r.rx = c.rx \o seg.data
  BY RxWriteAll
<1>2. seq_size(seg) = 0 BY DEF seq_size
<1>3. r.ackd = c.ackd BY <1>1, <1>2, WrapZero DEF Connections
<1>4. c.rx \in Seq(Byte) /\ c.rx_fin \in BOOLEAN BY DEF Connections
<1>5. r.rx = c.rx BY <1>1, <1>4
<1>6. r.rx_fin = c.rx_fin BY <1>1, <1>4
<1> QED BY <1>1, <1>3, <1>5, <1>6, SameQuiet DEF SameRest, SameCore

\* What on_segment does with a segment after its ACK.
LEMMA OnPayloadStep ==
  ASSUME NEW c, ConnInv(c), FinLive(c), c.state.kind \notin {"SynSent", "SynReceived"},
         NEW isn, NEW w, NEW e, Short(isn, w, e), NEW n \in Nat, RxOk(c, isn, n, w, e),
         NEW seg \in OfStream(isn, w, e), "SYN" \notin seg.flags,
         \/ c.state.kind \in {"Established", "TimeWait"} /\ ~c.rx_fin
         \/ seg.data = <<>> /\ "FIN" \notin seg.flags,
         NEW non_ordered, NEW r, r = OnPayload(c, seg, non_ordered)
  PROVE  TxStep(c, r) /\ RxOk(r, isn, n, w, e) /\ Acked(c, r)
<1> DEFINE b == RxWrite(c, seg)
           g == SendAck(b)
<1>0. c \in Connections /\ w \in Nat BY DEF ConnInv, Short
<1>1. seg \in SegmentMeta BY DEF OfStream
<1>2. CASE r = c
  <2>1. TxStep(c, r) /\ Step(c, r, c.ackd) BY <1>2, StutterStep, QuietTx, QuietStep
  <2>2. Acked(c, r) BY <1>0, <2>1, StepAcked
  <2> QED BY <1>2, <2>1, <2>2
<1>3. CASE r = Send(c, AckSegment(c))
  <2>1. Step(c, r, c.ackd) /\ TxStep(c, r) BY <1>0, <1>3, AckAnswer
  <2>2. RxKept(c, r) /\ Later(c.state.kind, r.state.kind) BY <2>1 DEF Step, KindStep
  <2>3. Acked(c, r) BY <1>0, <2>1, StepAcked
  <2> QED BY <1>0, <2>1, <2>2, <2>3, RxKeptOk
<1>4. CASE seg.seqn = c.ackd /\ r = AfterAck(g, seg, non_ordered)
  <2>1. /\ b \in Connections /\ SameCore(c, b) /\ PanicKept(c, b) /\ b.out = c.out
        /\ b.rx_fin = (c.rx_fin \/ "FIN" \in seg.flags) /\ b.rx = c.rx \o seg.data
    BY <1>0, <1>1, RxWriteAll
  <2>2. ConnInv(b) BY <1>1, RxWriteInv
  <2>3. TxStep(c, b) /\ FinLive(b)
    BY <2>1 DEF TxStep, EmitsAcks, KindStep, SendOk, OutOk, TxOk, Live, FinLive, SameCore,
      PanicKept, Later
  <2>4. RxOk(b, isn, n, w, e)
    <3>1. CASE c.state.kind \in {"Established", "TimeWait"} /\ ~c.rx_fin
      BY <1>0, <1>4, <3>1, RxWriteOk
    <3>2. CASE seg.data = <<>> /\ "FIN" \notin seg.flags
      <4>1. Quiet(c, b) /\ b.state = c.state BY <1>0, <1>1, <3>2, RxWriteNothing
      <4>2. RxKept(c, b) /\ KindStep(c, b) BY <4>1, QuietKeeps
      <4> QED BY <1>0, <4>1, <4>2, RxKeptOk DEF KindStep
    <3> QED BY <3>1, <3>2
  <2>5. b.state.kind \notin {"SynSent", "SynReceived"} BY <2>1 DEF SameCore
  <2> HIDE DEF b
  <2>6. TxStep(b, g) /\ RxOk(g, isn, n, w, e) /\ g.rx_fin = b.rx_fin /\ g \in Connections
        /\ g.state.kind # "SynSent" /\ g.rx = b.rx /\ g.ackd = b.ackd /\ Emits(b, g, b.ackd)
    <3>1. TxStep(b, g) BY <2>2, <2>3, SendAckTx
    <3>2. RxOk(g, isn, n, w, e) BY <1>0, <2>1, <2>3, <2>4, <2>5, SendAckRx
    <3>3. /\ g.rx_fin = b.rx_fin /\ (g.state = b.state \/ g.state.kind = "Established")
          /\ g.rx = b.rx /\ g.ackd = b.ackd /\ Emits(b, g, b.ackd)
      BY <2>1, <2>3, SendAckKeeps
    <3>4. ConnInv(g) BY <2>2, SendAckInv
    <3> QED BY <2>5, <3>1, <3>2, <3>3, <3>4 DEF ConnInv
  <2> HIDE DEF g
  <2>7. Quiet(g, r)
    <3>1. CASE "FIN" \in seg.flags
      <4>1. g.rx_fin BY <2>1, <2>6, <3>1
      <4>2. r = OnFin(g, non_ordered) BY <1>4, <3>1 DEF AfterAck
      <4> QED BY <2>6, <4>1, <4>2, OnFinQuiet
    <3>2. CASE "FIN" \notin seg.flags
      <4>1. r = g BY <1>4, <3>2 DEF AfterAck
      <4> QED BY <4>1, StutterStep
    <3> QED BY <3>1, <3>2
  <2>8. TxStep(g, r) /\ RxKept(g, r) /\ KindStep(g, r) BY <2>7, QuietTx, QuietKeeps
  <2>9. RxOk(r, isn, n, w, e) BY <1>0, <2>6, <2>8, RxKeptOk DEF KindStep
  <2>10. TxStep(c, g) BY <2>3, <2>6, TxTrans
  <2>11. Acked(c, r)
    <3>1. CASE Gone(r) BY <3>1 DEF Acked, Gone
    <3>2. CASE ~Gone(r)
      <4>1. r.ackd = b.ackd /\ r.rx = b.rx /\ r.rx_fin = b.rx_fin
        BY <2>6, <2>8, <3>2 DEF RxKept
      <4>2. Len(c.rx) <= Len(b.rx) /\ (c.rx_fin => b.rx_fin)
        <5>1. c.rx \in Seq(Byte) /\ seg.data \in Seq(Byte)
          BY <1>0, <1>1, SegmentFields DEF Connections
        <5>2. Len(c.rx \o seg.data) = Len(c.rx) + Len(seg.data) BY <5>1, ConcatFields
        <5>3. \A i, j \in Nat : i <= i + j OBVIOUS
        <5>4. Len(c.rx) \in Nat /\ Len(seg.data) \in Nat BY <5>1
        <5>5. Len(c.rx) <= Len(c.rx) + Len(seg.data) BY <5>3, <5>4
        <5>6. b.rx = c.rx \o seg.data /\ (c.rx_fin => b.rx_fin) BY <2>1
        <5> QED BY ONLY <5>2, <5>5, <5>6
      <4>3. Emits(c, b, b.ackd) BY <2>1 DEF Emits, SameCore
      <4>4. Emits(g, r, b.ackd) BY <2>7, QuietKeeps
      <4>5. Emits(c, r, b.ackd) BY <2>6, <4>3, <4>4 DEF Emits
      <4> QED BY <4>1, <4>2, <4>5 DEF Acked
    <3> QED BY <3>1, <3>2
  <2> QED BY <2>8, <2>9, <2>10, <2>11, TxTrans
<1>5. r = c \/ r = Send(c, AckSegment(c))
      \/ (seg.seqn = c.ackd /\ r = AfterAck(g, seg, non_ordered))
  BY DEF OnPayload
<1> QED BY <1>2, <1>3, <1>4, <1>5

\* The connection has been reset: nothing is left of it, but perhaps a RST to send.
Dropped(c, r) ==
  /\ r.state.kind \in Ended \cup {"Listen"}
  /\ r.rx = <<>> /\ ~r.rx_fin /\ ~r.tx_fin /\ r.re_tx = <<>>
  /\ r.panic = "none" => c.panic = "none"
  /\ \/ r.out = c.out
     \/ \E rst \in Rsts : rst.flags = {"RST"} /\ r.out = Append(c.out, rst)

\* clear, then RESET or LISTEN.
LEMMA DropTo ==
  ASSUME NEW c \in Connections, NEW s \in {Reset, Listen}, NEW r, r = SetState(Clear(c), s)
  PROVE  Dropped(c, r) /\ r.state = s /\ r.out = c.out
<1> DEFINE d == Clear(c)
<1>1. /\ d \in Connections /\ d.out = c.out /\ d.rx = <<>> /\ d.rx_fin = FALSE
      /\ d.tx_fin = FALSE /\ d.re_tx = <<>> /\ d.panic = c.panic
  BY ClearType, ClearAll
<1>2. s \in ConnectionStates /\ s.kind \in {"Reset", "Listen"} BY StatesType, KindOf
<1>3. r = EnterState(d, s) BY <1>2 DEF SetState
<1> HIDE DEF d
<1>4. /\ r.state = s /\ SameRest(d, r) /\ r.tx_fin = d.tx_fin /\ r.re_tx = d.re_tx
      /\ PanicKept(d, r)
  BY <1>1, <1>2, <1>3, EnterStateAll
<1> QED BY <1>1, <1>2, <1>4 DEF Dropped, SameRest, PanicKept, Ended

\* A segment without a number takes none.
LEMMA SizeZero ==
  ASSUME NEW seg \in SegmentMeta, seq_size(seg) = 0
  PROVE  seg.data = <<>> /\ "FIN" \notin seg.flags
<1> DEFINE len == Len(seg.data)
           syn == IF "SYN" \in seg.flags THEN 1 ELSE 0
           fin == IF "FIN" \in seg.flags THEN 1 ELSE 0
<1>1. seg.data \in Seq(Byte) /\ len \in Nat BY SegmentFields
<1>2. syn \in Nat /\ fin \in Nat OBVIOUS
<1>3. len + syn + fin = 0 BY DEF seq_size
<1> HIDE DEF len, syn, fin
<1>4. len = 0 /\ fin = 0 BY <1>1, <1>2, <1>3
<1>5. "FIN" \notin seg.flags BY <1>4 DEF fin
<1>6. seg.data = <<>> BY <1>1, <1>4 DEF len
<1> QED BY <1>5, <1>6

\* A segment of the peer's stream in TIME-WAIT, SYN-RECEIVED or ESTABLISHED.
LEMMA OnSegmentOpenStep ==
  ASSUME NEW c, ConnInv(c), c.panic = "none",
         c.state.kind \in {"TimeWait", "SynReceived", "Established"},
         NEW isn, NEW w, NEW e, Short(isn, w, e), NEW n \in Nat, RxOk(c, isn, n, w, e),
         NEW seg \in OfStream(isn, w, e), NEW r, r = OnSegmentOpen(c, seg)
  PROVE  \/ /\ TxStep(c, r) /\ RxOk(r, isn, n, w, e) /\ Acked(c, r)
            /\ "ACK" \notin seg.flags => Step(c, r, c.ackd)
         \/ /\ Dropped(c, r)
            /\ r.state.kind = "Listen" => c.state.kind = "SynReceived" /\ "RST" \in seg.flags
<1> DEFINE win == Least(seg.window, c.congestation_window)
           d == [c EXCEPT !.tx_window = win]
           rst == Control({"RST"}, c.next, 0, curr_window(c))
           a == OnAck(d, seg)
<1>0. c \in Connections /\ Consistent(c) /\ FinLive(c) /\ w \in Nat BY LiveFin DEF Short
<1>1. seg \in SegmentMeta BY DEF OfStream
<1>2. win \in 0 .. WindowMax BY <1>0, <1>1, SegmentFields DEF Least, Connections
<1> HIDE DEF win
<1>3. /\ d \in Connections /\ SameCore(c, d) /\ SameRest(c, d) /\ PanicKept(c, d)
      /\ d.panic = "none" /\ d.wait = c.wait
  BY <1>0, <1>2 DEF Connections, SameCore, SameRest, PanicKept
<1>4. ConnInv(d) /\ Quiet(c, d) /\ d.state = c.state
  BY <1>3, SameCoreInv, SameQuiet DEF SenderKept, SameCore
<1>5. r = IF ~check_segment_seq_ok(c, seg) THEN OnUnacceptable(c, seg)
          ELSE IF "RST" \in seg.flags THEN OnReset(d)
          ELSE IF "SYN" \in seg.flags THEN ToReset(Send(d, rst))
          ELSE IF "ACK" \notin seg.flags THEN AfterAck(d, seg, FALSE)
          ELSE IF ~ack_valid(c, seg) THEN d
          ELSE OnPayload(a, seg, is_non_ordered_ack(c, seg.ackn))
  BY DEF OnSegmentOpen, win
<1> HIDE DEF d
<1>6. ASSUME Step(c, r, c.ackd), TxStep(c, r)
      PROVE  TxStep(c, r) /\ RxOk(r, isn, n, w, e) /\ Acked(c, r) /\ Step(c, r, c.ackd)
  <2>1. RxOk(r, isn, n, w, e) BY <1>0, <1>6, RxKeptOk DEF Step, KindStep
  <2> QED BY <1>0, <1>6, <2>1, StepAcked
<1>7. ASSUME r = c \/ r = d PROVE Step(c, r, c.ackd) /\ TxStep(c, r)
  BY <1>4, <1>7, StutterStep, QuietStep, QuietTx
<1>8. CASE ~check_segment_seq_ok(c, seg)
  <2>1. r = c \/ r = Send(c, AckSegment(c)) BY <1>5, <1>8 DEF OnUnacceptable
  <2>2. Step(c, r, c.ackd) /\ TxStep(c, r) BY <1>0, <1>7, <2>1, AckAnswer
  <2> QED BY <1>6, <2>2
<1>9. CASE check_segment_seq_ok(c, seg) /\ "RST" \in seg.flags
  <2>1. r = OnReset(d) BY <1>5, <1>9
  <2>2. CASE c.state.kind = "SynReceived"
    <3>1. r = SetState(Clear(d), Listen) BY <1>4, <2>1, <2>2 DEF OnReset
    <3>2. Dropped(d, r) BY <1>3, <3>1, DropTo
    <3> QED BY <1>3, <1>9, <2>2, <3>2 DEF Dropped, SameRest
  <2>3. CASE c.state.kind = "Established"
    <3>1. r = SetState(Clear(d), Reset) BY <1>4, <2>1, <2>3 DEF OnReset, ToReset
    <3>2. Dropped(d, r) /\ r.state.kind = "Reset" BY <1>3, <3>1, DropTo, KindOf
    <3> QED BY <1>3, <3>2 DEF Dropped, SameRest
  <2>4. CASE c.state.kind = "TimeWait"
    <3>1. r = MustHold(d, FALSE, "rst_unreachable") BY <1>4, <2>1, <2>4 DEF OnReset
    <3>2. "rst_unreachable" \in Panics \ {"none"} /\ FALSE \in BOOLEAN
          /\ "rst_unreachable" \notin NeverInTimer
      BY DEF Panics, NeverInTimer
    <3>3. /\ SameCore(d, MustHold(d, FALSE, "rst_unreachable"))
          /\ PanicKept(d, MustHold(d, FALSE, "rst_unreachable"))
      BY <1>3, <3>2, MustHoldKeeps
    <3>4. SameRest(d, MustHold(d, FALSE, "rst_unreachable")) BY <1>3, MustHoldRest
    <3>5. Quiet(d, r) BY <3>1, <3>3, <3>4, SameQuiet
    <3>6. Quiet(c, r) BY <1>4, <3>5, QuietTrans
    <3>7. Step(c, r, c.ackd) /\ TxStep(c, r) BY <3>6, QuietStep, QuietTx
    <3> QED BY <1>6, <3>7
  <2> QED BY <2>2, <2>3, <2>4
<1>10. CASE check_segment_seq_ok(c, seg) /\ "RST" \notin seg.flags /\ "SYN" \in seg.flags
  <2> DEFINE f == Send(d, rst)
  <2>1. r = SetState(Clear(f), Reset) BY <1>5, <1>10 DEF ToReset
  <2>2. rst \in SegmentMeta /\ rst \in Rsts /\ rst.flags = {"RST"}
    <3>1. rst \in SegmentMeta
      BY <1>0, WindowType, SeqNFacts, EmptySegmentType DEF SegmentFlags, Connections
    <3>2. rst.data = <<>> /\ rst.flags = {"RST"} BY DEF Control
    <3> QED BY <3>1, <3>2 DEF Rsts
  <2> HIDE DEF rst
  <2>3. /\ f \in Connections /\ f.panic = d.panic
        /\ f.out = d.out \/ f.out = Append(d.out, rst)
    BY <1>3, <2>2, SendAll
  <2> HIDE DEF f
  <2>4. Dropped(f, r) /\ r.state.kind = "Reset" /\ r.out = f.out
    BY <2>1, <2>3, DropTo, KindOf
  <2> QED BY <1>3, <2>2, <2>3, <2>4 DEF Dropped, SameRest
<1>11. CASE /\ check_segment_seq_ok(c, seg) /\ "RST" \notin seg.flags /\ "SYN" \notin seg.flags
            /\ "ACK" \notin seg.flags
  <2>1. "FIN" \notin seg.flags BY <1>11 DEF OfStream
  <2>2. r = d BY <1>5, <1>11, <2>1 DEF AfterAck
  <2> QED BY <1>6, <1>7, <2>2
<1>12. CASE /\ check_segment_seq_ok(c, seg) /\ "RST" \notin seg.flags /\ "SYN" \notin seg.flags
            /\ "ACK" \in seg.flags /\ ~ack_valid(c, seg)
  <2>1. r = d BY <1>5, <1>12
  <2> QED BY <1>6, <1>7, <2>1
<1>13. CASE /\ check_segment_seq_ok(c, seg) /\ "RST" \notin seg.flags /\ "SYN" \notin seg.flags
            /\ "ACK" \in seg.flags /\ ack_valid(c, seg)
  <2>1. r = OnPayload(a, seg, is_non_ordered_ack(c, seg.ackn)) BY <1>5, <1>13
  <2>2. ack_valid(d, seg) BY <1>3, <1>13 DEF ack_valid, SameCore
  <2>3. /\ a \in Connections /\ Quiet(d, a) /\ a.state.kind # "SynReceived"
        /\ SameStream(d, a) \/ (Gone(a) /\ a.re_tx = <<>> /\ Eof(d))
    BY <1>1, <1>3, <1>4, OnAckQuiet
  <2>4. ConnInv(a) BY <1>1, <1>3, <1>4, <2>2, OnAckInv
  <2> HIDE DEF a
  <2>5. Quiet(c, a) BY <1>4, <2>3, QuietTrans
  <2>6. TxStep(c, a) /\ KindStep(c, a) /\ RxKept(c, a) BY <2>5, QuietTx, QuietKeeps
  <2>7. FinLive(a) BY <1>0, <2>6, FinLiveStep
  <2>8. RxOk(a, isn, n, w, e) BY <1>0, <2>6, RxKeptOk DEF KindStep
  <2>9. a.state.kind \notin {"SynSent", "SynReceived"}
    BY <2>3, <2>6 DEF KindStep, Later, Ended
  <2>10. \/ a.state.kind \in {"Established", "TimeWait"} /\ ~a.rx_fin
         \/ seg.data = <<>> /\ "FIN" \notin seg.flags
    <3>1. CASE c.rx_fin
      <4>1. seq_size(seg) = 0 BY <1>13, <3>1 DEF check_segment_seq_ok, curr_window
      <4> QED BY <1>1, <4>1, SizeZero
    <3>2. CASE ~c.rx_fin
      <4>1. ~Eof(c) BY <3>2 DEF RxOk, Acking, Eof
      <4>2. SameStream(d, a) BY <1>4, <2>3, <4>1 DEF Eof
      <4>3. ~a.rx_fin BY <1>3, <3>2, <4>2 DEF SameStream, SameRest
      <4>4. a.state.kind \in {"Established", "TimeWait"}
        BY <1>4, <2>6, <2>9, <4>2 DEF SameStream, KindStep, Later, Ended, Idle
      <4> QED BY <4>3, <4>4
    <3> QED BY <3>1, <3>2
  <2>11. TxStep(a, r) /\ RxOk(r, isn, n, w, e) /\ Acked(a, r)
    BY <1>13, <2>1, <2>4, <2>7, <2>8, <2>9, <2>10, OnPayloadStep
  <2>12. TxStep(c, r) BY <2>6, <2>11, TxTrans
  <2>13. Acked(c, r) BY <2>5, <2>11, QuietAcked DEF TxStep, KindStep
  <2> QED BY <1>13, <2>11, <2>12, <2>13
<1> QED BY <1>8, <1>9, <1>10, <1>11, <1>12, <1>13

\* The resets without an acknowledgement.
PlainRsts == {seg \in Rsts : seg.flags = {"RST"}}

\* A segment for a connection that has ended is answered with a reset.
LEMMA OnSegmentClosedStep ==
  ASSUME NEW c \in Connections, NEW seg \in SegmentMeta, NEW r, r = OnSegmentClosed(c, seg)
  PROVE  /\ KindStep(c, r) /\ RxKept(c, r) /\ r.re_tx = c.re_tx /\ r.state = c.state
         /\ r.tx_fin = c.tx_fin
         /\ \A isn, w, e, lo : SendOk(c, isn, w, e, lo) => SendOk(r, isn, w, e, lo)
         /\ "ACK" \notin seg.flags =>
              \A G : PlainRsts \subseteq G /\ c.out \in Seq(G) => r.out \in Seq(G)
<1> DEFINE rst == response_to_closed(seg)
<1>1. wrapping_add(seg.seqn, Len(seg.data)) \in SeqN BY SegmentFields, WrapType
<1>2. 0 \in 0 .. WindowMax BY SegmentAssumption
<1>3. rst \in SegmentMeta
  BY <1>1, <1>2, SegmentFields, SeqNFacts, EmptySegmentType
     DEF response_to_closed, SegmentFlags
<1>4. /\ rst.data = <<>> /\ rst.flags \in {{"RST"}, {"RST", "ACK"}}
      /\ "ACK" \notin seg.flags => rst.flags = {"RST"}
  BY DEF response_to_closed, Control
<1> HIDE DEF rst
<1>5. rst \in Rsts /\ ("ACK" \notin seg.flags => rst \in PlainRsts)
  BY <1>3, <1>4 DEF Rsts, PlainRsts
<1>6. r = c \/ r = Send(c, rst) BY DEF OnSegmentClosed, rst
<1>7. CASE r = c
  BY <1>7, StutterStep, QuietKeeps
<1>8. CASE r = Send(c, rst)
  <2>1. /\ KindStep(c, r) /\ RxKept(c, r)
        /\ \A G : rst \in G /\ c.out \in Seq(G) => r.out \in Seq(G)
        /\ \A isn, w, e, lo : SendOk(c, isn, w, e, lo) /\ Fits(c, rst, isn, w, e) =>
             SendOk(r, isn, w, e, lo)
    BY <1>3, <1>8, SendStep
  <2>2. r.re_tx = c.re_tx /\ r.state = c.state /\ r.tx_fin = c.tx_fin
    BY <1>3, <1>8, SendAll DEF SameCore
  <2>3. \A isn, w, e : Fits(c, rst, isn, w, e) BY <1>5, RstOfStream
  <2>4. "ACK" \notin seg.flags =>
          \A G : PlainRsts \subseteq G /\ c.out \in Seq(G) => r.out \in Seq(G)
    BY <1>5, <2>1
  <2>5. \A isn, w, e, lo : SendOk(c, isn, w, e, lo) => SendOk(r, isn, w, e, lo) BY <2>1, <2>3
  <2> QED BY <2>1, <2>2, <2>4, <2>5
<1> QED BY <1>6, <1>7, <1>8

\* The connection has sent its SYN, the segment syn, and nothing else.
Opened(c, r, new, syn) ==
  /\ syn \in SegmentMeta /\ syn.seqn = new /\ syn.data = <<>>
  /\ syn.flags \in {{"SYN"}, {"SYN", "ACK"}}
  /\ r.tx = <<>> /\ ~r.tx_fin /\ r.re_tx = <<syn>> /\ r.next = wrapping_add(new, 1)
  /\ r.rx = c.rx /\ r.rx_fin = c.rx_fin
  /\ r.out = c.out \/ r.out = Append(c.out, syn)
  /\ r.panic = "none" => c.panic = "none"

\* The connection has neither written nor sent anything.
Unsent(c, v, lo) == v = 0 /\ lo <= 1 /\ c.out = <<>>

\* Its stream begins with the SYN.
LEMMA OpenedSends ==
  ASSUME NEW c, NEW r, NEW new \in SeqN, NEW syn, Opened(c, r, new, syn)
  PROVE  \A e, lo : SendOk(c, new, 0, e, lo) /\ Unsent(c, 0, lo) => SendOk(r, new, 0, e, lo)
<1> SUFFICES ASSUME NEW e, NEW lo, SendOk(c, new, 0, e, lo), Unsent(c, 0, lo)
             PROVE  SendOk(r, new, 0, e, lo)
  OBVIOUS
<1>1. syn \in OfStream(new, 0, e) BY ControlOfStream DEF Opened
<1>2. r.out \in Seq(OfStream(new, 0, e)) /\ r.re_tx \in Seq(OfStream(new, 0, e))
  <2>1. Append(c.out, syn) \in Seq(OfStream(new, 0, e)) BY <1>1 DEF SendOk
  <2>2. <<syn>> \in Seq(OfStream(new, 0, e)) BY <1>1
  <2> QED BY <2>1, <2>2 DEF SendOk, Opened
<1>3. r.tx = <<>> /\ ~r.tx_fin BY DEF Opened
<1>4. Offset(new, r.next) = 0 - Len(r.tx) + 1 BY <1>3, OffsetStart DEF Opened
<1>5. TxOk(r, new, 0, e) BY <1>2, <1>3, <1>4 DEF TxOk, Live
<1>6. OutOk(r, new, lo) /\ lo \in Nat
  <2>1. Offset(new, r.next) = 1 /\ lo \in Nat /\ lo <= 1 /\ c.out = <<>>
    BY OffsetStart DEF Opened, Unsent, SendOk
  <2>2. syn \in UpTo(new, 1)
    <3>1. syn \in SegmentMeta /\ Offset(new, syn.seqn) = 0 /\ seq_size(syn) = 1
      BY OffsetStart DEF Opened, seq_size
    <3> QED BY <3>1 DEF UpTo
  <2>3. <<>> \in Seq(UpTo(new, 1)) /\ <<syn>> \in Seq(UpTo(new, 1)) BY <2>2
  <2>4. Append(<<>>, syn) = <<syn>> OBVIOUS
  <2>5. r.out \in Seq(UpTo(new, 1)) /\ r.re_tx \in Seq(UpTo(new, 1))
    BY <2>1, <2>3, <2>4 DEF Opened
  <2> QED BY <2>1, <2>5 DEF OutOk
<1> QED BY <1>2, <1>3, <1>5, <1>6 DEF SendOk

\* A SYN that has been built and queued.
LEMMA SynQueued ==
  ASSUME NEW b \in Connections, b.re_tx = <<>>, b.tx = <<>>, ~b.tx_fin,
         NEW syn \in SegmentMeta, syn.seqn = b.next, syn.data = <<>>,
         syn.flags \in {{"SYN"}, {"SYN", "ACK"}}, NEW f,
         f = [OnSend(b, syn) EXCEPT !.timer_re_tx = TRUE]
  PROVE  /\ f \in Connections /\ Opened(b, f, b.next, syn) /\ f.state = b.state
         /\ f.ackd = b.ackd /\ f.out = b.out /\ f.panic = b.panic
         /\ f.init_seqn = b.init_seqn /\ f.unack = b.unack
<1>1. seq_size(syn) = 1
  <2>1. Len(syn.data) = 0 /\ "SYN" \in syn.flags /\ "FIN" \notin syn.flags OBVIOUS
  <2> QED BY <2>1 DEF seq_size
<1>2. OnSend(b, syn) \in Connections BY OnSendType
<1>3. f \in Connections BY <1>2 DEF Connections
<1>4. /\ f.tx = b.tx /\ f.tx_fin = b.tx_fin /\ f.re_tx = Append(b.re_tx, syn)
      /\ f.next = wrapping_add(b.next, 1) /\ f.rx = b.rx /\ f.rx_fin = b.rx_fin
      /\ f.out = b.out /\ f.panic = b.panic /\ f.state = b.state /\ f.ackd = b.ackd
      /\ f.init_seqn = b.init_seqn /\ f.unack = b.unack
  BY <1>1, <1>2 DEF OnSend, Connections
<1>5. Append(b.re_tx, syn) = <<syn>> OBVIOUS
<1> QED BY <1>3, <1>4, <1>5 DEF Opened

\* A segment in LISTEN: the SYN of a stream opens the connection.
LEMMA OnSegmentListenStep ==
  ASSUME NEW c, ConnInv(c), c.panic = "none", c.state.kind = "Listen",
         NEW seg \in SegmentMeta, NEW new \in SeqN, NEW r,
         r = OnSegmentListen(c, seg, new)
  PROVE  \/ /\ KindStep(c, r) /\ RxKept(c, r) /\ r.state = c.state /\ r.tx_fin = c.tx_fin
            /\ \A isn, w, e, lo : SendOk(c, isn, w, e, lo) => SendOk(r, isn, w, e, lo)
            /\ \A G : PlainRsts \subseteq G /\ c.out \in Seq(G) => r.out \in Seq(G)
            /\ "ACK" \notin seg.flags => r.out = c.out
         \/ /\ "SYN" \in seg.flags /\ r.state.kind = "SynReceived"
            /\ r.ackd = wrapping_add(seg.seqn, 1) /\ r.unack = new
            /\ \E syn : Opened(c, r, new, syn) /\ syn.ackn = r.ackd
<1> DEFINE m == MustHold(c, seg.data = <<>>, "syn_with_data")
           d == [m EXCEPT !.ackd = wrapping_add(seg.seqn, 1), !.init_seqn = new,
                          !.unack = new, !.next = new, !.tx_window = seg.window]
           syn == Control({"SYN", "ACK"}, new, d.ackd, curr_window(d))
           rst == Control({"RST"}, seg.ackn, 0, 0)
           b == SetState(d, SynReceived)
           f == [OnSend(b, syn) EXCEPT !.timer_re_tx = TRUE]
<1>0. /\ c \in Connections /\ Consistent(c)
      /\ c.re_tx = <<>> /\ c.tx = <<>> /\ ~c.tx_fin
  BY DEF ConnInv, Consistent, Idle
<1>1. m \in Connections /\ SameCore(c, m) /\ SameRest(c, m) /\ PanicKept(c, m)
  BY <1>0, MustHoldKeeps, MustHoldRest DEF Panics, NeverInTimer
<1>13. \/ r = c \/ ("ACK" \in seg.flags /\ r = Send(c, rst))
       \/ ("SYN" \in seg.flags /\ r = Send(f, syn))
  BY DEF OnSegmentListen
<1> HIDE DEF m
<1>2. /\ d \in Connections /\ d.next = new /\ d.tx = m.tx /\ d.tx_fin = m.tx_fin
      /\ d.re_tx = m.re_tx /\ d.panic = m.panic
      /\ d.ackd = wrapping_add(seg.seqn, 1) /\ d.out = m.out /\ d.rx = m.rx
      /\ d.rx_fin = m.rx_fin /\ d.unack = new
  BY <1>1, SegmentFields DEF Connections, SameRest
<1> HIDE DEF d
<1>3. b = EnterState(d, SynReceived) BY KindOf DEF SetState
<1> HIDE DEF b
<1>4. /\ b \in Connections /\ b.state = SynReceived /\ SameRest(d, b)
      /\ b.tx = d.tx /\ b.tx_fin = d.tx_fin /\ b.re_tx = d.re_tx /\ b.next = d.next
      /\ PanicKept(d, b) /\ b.unack = d.unack
  <2>1. d \in Connections /\ SynReceived \in ConnectionStates BY <1>2, StatesType
  <2>2. b.unack = d.unack BY ONLY <1>3, <2>1, EnterStateFields
  <2> QED BY ONLY <1>3, <2>1, <2>2, EnterStateAll
<1>5. syn \in SegmentMeta
  <2>1. d.ackd \in SeqN BY <1>2 DEF Connections
  <2> QED BY <1>2, <2>1, WindowType, ControlFields DEF SegmentFlags
<1>6. syn.seqn = new /\ syn.data = <<>> /\ syn.flags = {"SYN", "ACK"} /\ syn.ackn = d.ackd
  BY DEF Control
<1> HIDE DEF syn
<1>7. b.re_tx = <<>> /\ b.tx = <<>> /\ ~b.tx_fin /\ b.next = new
  BY <1>0, <1>1, <1>2, <1>4 DEF SameCore
<1>8. /\ f \in Connections /\ Opened(b, f, new, syn) /\ f.state = b.state
      /\ f.ackd = b.ackd /\ f.out = b.out /\ f.panic = b.panic /\ f.unack = b.unack
  <2>1. syn.seqn = b.next /\ syn.flags \in {{"SYN"}, {"SYN", "ACK"}} BY <1>6, <1>7
  <2>2. f = [OnSend(b, syn) EXCEPT !.timer_re_tx = TRUE] OBVIOUS
  <2> HIDE DEF f
  <2>3. /\ f \in Connections /\ Opened(b, f, b.next, syn) /\ f.state = b.state
        /\ f.ackd = b.ackd /\ f.out = b.out /\ f.panic = b.panic /\ f.unack = b.unack
    <3>1. /\ b \in Connections /\ b.re_tx = <<>> /\ b.tx = <<>> /\ ~b.tx_fin
          /\ syn \in SegmentMeta /\ syn.data = <<>>
      BY <1>4, <1>5, <1>6, <1>7
    <3> QED BY ONLY <2>1, <2>2, <3>1, SynQueued
  <2> QED BY <1>7, <2>3
<1> HIDE DEF f
<1>9. CASE "SYN" \in seg.flags /\ r = Send(f, syn)
  <2>1. /\ r \in Connections /\ SameCore(f, r) /\ r.panic = f.panic
        /\ r.rx = f.rx /\ r.rx_fin = f.rx_fin /\ r.ackd = f.ackd
        /\ r.out = f.out \/ r.out = Append(f.out, syn)
    BY <1>5, <1>8, <1>9, SendAll
  <2>2. r.state.kind = "SynReceived" /\ r.ackd = wrapping_add(seg.seqn, 1)
    BY <1>2, <1>4, <1>8, <2>1, KindOf DEF SameCore, SameRest
  <2>3. b.out = c.out /\ b.rx = c.rx /\ b.rx_fin = c.rx_fin
    BY <1>1, <1>2, <1>4 DEF SameRest
  <2>4. r.panic = "none" => c.panic = "none" OBVIOUS
  <2>5. Opened(c, r, new, syn) BY <1>8, <2>1, <2>3, <2>4 DEF Opened, SameCore
  <2>6. syn.ackn = r.ackd BY <1>2, <1>6, <2>2
  <2>7. r.unack = new BY <1>2, <1>4, <1>8, <2>1 DEF SameCore
  <2> QED BY <1>9, <2>2, <2>5, <2>6, <2>7
<1>10. rst \in PlainRsts
  <2>1. 0 \in 0 .. WindowMax BY SegmentAssumption
  <2>2. rst \in SegmentMeta
    BY <2>1, SegmentFields, SeqNFacts, EmptySegmentType DEF SegmentFlags
  <2>3. rst.data = <<>> /\ rst.flags = {"RST"} BY DEF Control
  <2> QED BY <2>2, <2>3 DEF PlainRsts, Rsts
<1> HIDE DEF rst
<1>11. CASE "ACK" \in seg.flags /\ r = Send(c, rst)
  <2>0. rst \in SegmentMeta /\ rst \in Rsts BY <1>10 DEF PlainRsts, Rsts
  <2>1. /\ KindStep(c, r) /\ RxKept(c, r)
        /\ \A G : rst \in G /\ c.out \in Seq(G) => r.out \in Seq(G)
        /\ \A isn, w, e, lo : SendOk(c, isn, w, e, lo) /\ Fits(c, rst, isn, w, e) =>
             SendOk(r, isn, w, e, lo)
    BY <1>0, <1>11, <2>0, SendStep
  <2>2. r.state = c.state /\ r.tx_fin = c.tx_fin BY <1>0, <1>11, <2>0, SendAll DEF SameCore
  <2>3. \A isn, w, e : Fits(c, rst, isn, w, e) BY <2>0, RstOfStream
  <2>4. \A isn, w, e, lo : SendOk(c, isn, w, e, lo) => SendOk(r, isn, w, e, lo) BY <2>1, <2>3
  <2>5. \A G : PlainRsts \subseteq G /\ c.out \in Seq(G) => r.out \in Seq(G)
    BY <1>10, <2>1
  <2> QED BY <1>11, <2>1, <2>2, <2>4, <2>5
<1>12. CASE r = c BY <1>12, StutterStep, QuietKeeps
<1> QED BY <1>9, <1>11, <1>12, <1>13

\* A SYN's acknowledgement is in the range that SYN-SENT waits for.
LEMMA SynAcked ==
  ASSUME NEW new \in SeqN
  PROVE  in_range_inclusive(wrapping_add(new, 1), new, wrapping_add(new, 1))
BY SegmentAssumption DEF SeqN, wrapping_add, in_range_inclusive

\* A segment in SYN-SENT, when nothing but the SYN can have been acknowledged.
LEMMA OnSegmentSynSentStep ==
  ASSUME NEW c, ConnInv(c), c.panic = "none", c.state.kind = "SynSent",
         NEW new \in SeqN, c.init_seqn = new, c.unack = new, c.next = wrapping_add(new, 1),
         NEW isn, NEW w, NEW e, Short(isn, w, e), NEW n \in Nat, RxOk(c, isn, n, w, e),
         NEW seg \in OfStream(isn, w, e), seg \in AckOf(wrapping_add(new, 1)),
         NEW r, r = OnSegmentSynSent(c, seg)
  PROVE  \/ r = c
         \/ Dropped(c, r) /\ r.state.kind = "Reset"
         \/ /\ TxStep(c, r) /\ RxOk(r, isn, n, w, e) /\ Acked(c, r)
            /\ r.state.kind # "SynSent"
<1> DEFINE k == clear_re_tx_range(c, seg.ackn)
           d == [k EXCEPT !.ackd = wrapping_add(seg.seqn, 1), !.unack = seg.ackn,
                          !.tx_window = seg.window]
           g == SetState(d, FULLY_OPEN)
<1>0. c \in Connections /\ FinLive(c) /\ seg \in SegmentMeta BY LiveFin DEF OfStream
<1>1. \/ r = c \/ r = SetState(Clear(c), Reset)
      \/ {"SYN", "ACK"} \subseteq seg.flags /\ r = SendAck(g)
  <2>1. "ACK" \in seg.flags => seg.ackn = wrapping_add(new, 1) BY DEF AckOf
  <2>2. "ACK" \in seg.flags => in_range_inclusive(seg.ackn, c.unack, c.next)
    BY <2>1, SynAcked
  <2>3. clear_re_tx_range(c, seg.ackn) \in Connections
    BY <1>0, SegmentFields, ClearRangeQuiet
  <2>4. d.unack = seg.ackn BY <2>3 DEF Connections
  <2>5. CASE ~({"SYN", "ACK"} \subseteq seg.flags)
    BY <2>2, <2>5 DEF OnSegmentSynSent, ToReset
  <2>6. CASE {"SYN", "ACK"} \subseteq seg.flags
    <3>1. d.unack = wrapping_add(c.init_seqn, 1) BY <2>1, <2>4, <2>6
    <3> QED BY <2>2, <2>6, <3>1 DEF OnSegmentSynSent, ToReset
  <2> QED BY <2>5, <2>6
<1>2. CASE r = SetState(Clear(c), Reset) BY <1>0, <1>2, DropTo, KindOf
<1>3. CASE {"SYN", "ACK"} \subseteq seg.flags /\ r = SendAck(g)
  <2>1. ConnInv(k) /\ k.state = c.state /\ k.panic = "none"
    BY <1>0, SegmentFields, ClearRangeInv
  <2>2. k \in Connections /\ Quiet(c, k) /\ SameStream(c, k)
    BY <1>0, SegmentFields, ClearRangeQuiet
  <2> HIDE DEF k
  <2>3. /\ d \in Connections /\ d.unack = seg.ackn /\ d.state = k.state /\ d.tx = k.tx
        /\ d.tx_fin = k.tx_fin
        /\ d.re_tx = k.re_tx /\ d.next = k.next /\ d.timer_re_tx = k.timer_re_tx
        /\ d.timer_timewait = k.timer_timewait /\ d.wait = k.wait /\ d.panic = k.panic
        /\ d.out = k.out /\ d.rx = k.rx /\ d.rx_fin = k.rx_fin
        /\ d.ackd = wrapping_add(seg.seqn, 1)
    BY <1>0, <2>2, SegmentFields DEF Connections
  <2> HIDE DEF d
  <2>4. ConnInv(d) /\ d.state.kind = "SynSent"
    BY <2>1, <2>3 DEF ConnInv, Consistent, FinAcked
  <2>5. MayEnter(d, FULLY_OPEN) /\ ~Reduces(FULLY_OPEN)
    BY <2>4, KindOf, StatesType DEF MayEnter, Reduces, Idle, fin_sent, FinAcked
  <2>6. QuietState(d, FULLY_OPEN)
    BY <2>4, KindOf, StatesType DEF QuietState, Later, Idle, fin_sent
  <2>7. ConnInv(g) /\ g.state = FULLY_OPEN BY <2>4, <2>5, SetStateUnack
  <2>8. Quiet(d, g) /\ SameStream(d, g) BY <2>3, <2>5, <2>6, SetStateQuiet
  <2> HIDE DEF g
  <2>9. TxStep(c, k) /\ TxStep(d, g) BY <2>2, <2>8, QuietTx
  <2>10. TxStep(k, d)
    BY <2>3 DEF TxStep, KindStep, EmitsAcks, SendOk, OutOk, TxOk, Live, Later
  <2>11. TxStep(c, g) BY <2>9, <2>10, TxTrans
  <2>12. FinLive(g) BY <1>0, <2>11, FinLiveStep DEF TxStep
  <2>13. TxStep(g, r) BY <1>3, <2>7, <2>12, SendAckTx
  <2>14. TxStep(c, r) BY <2>11, <2>13, TxTrans
  <2>15. /\ g.rx = c.rx /\ g.rx_fin = c.rx_fin /\ g.ackd = wrapping_add(seg.seqn, 1)
    BY <2>2, <2>3, <2>8 DEF SameStream
  <2>16. seg.seqn = isn BY <1>3 DEF OfStream
  <2>17. Offset(isn, g.ackd) = 1 BY <2>15, <2>16, OffsetStart DEF Short
  <2>18. /\ r.rx = g.rx /\ r.rx_fin = g.rx_fin /\ r.ackd = g.ackd /\ Emits(g, r, g.ackd)
         /\ r.state.rx_state = g.state.rx_state
         /\ r.state = g.state \/ r.state.kind = "Established"
    <3>1. g \in Connections BY <2>7 DEF ConnInv
    <3> QED BY <1>3, <2>12, <3>1, SendAckKeeps
  <2>19. r.state.kind = "Established" /\ r.state.rx_state = "Open"
    BY <2>7, <2>18, KindOf
  <2>20. RxOk(r, isn, n, w, e)
    <3>1. n + Len(c.rx) = 0 /\ ~c.rx_fin BY DEF RxOk, Acking
    <3>2. r.rx = c.rx /\ ~r.rx_fin /\ Offset(isn, r.ackd) = 1
      BY <2>15, <2>17, <2>18, <3>1
    <3> QED BY <2>19, <3>1, <3>2 DEF RxOk, Acking
  <2>21. Acked(c, r)
    <3>1. Emits(c, k, g.ackd) /\ Emits(d, g, g.ackd) BY <2>2, <2>8, QuietKeeps
    <3>2. Emits(k, d, g.ackd) BY <2>3 DEF Emits
    <3>3. Emits(c, r, g.ackd) BY <2>18, <3>1, <3>2 DEF Emits
    <3>4. c.rx \in Seq(Byte) BY <1>0 DEF Connections
    <3>5. Len(c.rx) <= Len(c.rx) BY <3>4
    <3>6. r.rx = c.rx /\ r.rx_fin = c.rx_fin /\ r.ackd = g.ackd BY <2>15, <2>18
    <3> QED BY <3>3, <3>5, <3>6 DEF Acked
  <2> QED BY <2>14, <2>19, <2>20, <2>21
<1> QED BY <1>1, <1>2, <1>3

-----------------------------------------------------------------------------
(* What the invariant of Tcp asks of a method, call or segment.             *)

\* The state of the connection and the mark of its stream's end.
Moved(c, r) ==
  /\ r.panic = "none" => c.panic = "none"
  /\ c.state.kind \in Ended => r.state.kind \in Ended
  /\ r.state.kind \in {"Listen", "SynReceived"} => c.state.kind \in {"Listen", "SynReceived"}
  /\ r.state.kind = "SynSent" => c.state.kind = "SynSent"
  /\ EndKept(c) => EndKept(r)
  /\ r.tx_fin => c.tx_fin \/ EndKept(r)

\* A reset is sent by a connection that ends, or by a listener.
Resets(c, r) ==
  /\ c.state.kind \notin {"Listen", "SynReceived"}
  /\ c.out \in Seq(NoReset) /\ c.re_tx \in Seq(NoReset)
  => r.re_tx \in Seq(NoReset) /\ (r.out \in Seq(NoReset) \/ r.state.kind \in Ended)

\* A client in SYN-SENT repeats itself.
Repeats(c, r) ==
  c.state.kind = "SynSent" /\ r.state.kind = "SynSent" =>
    /\ r.init_seqn = c.init_seqn /\ r.unack = c.unack /\ r.next = c.next
    /\ KeptIn(c.re_tx, r.re_tx)
    /\ \A G : c.out \in Seq(G) /\ c.re_tx \in Seq(G) => r.out \in Seq(G)

\* The server acknowledges nothing but the sequence number before first.
Answers(c, first) ==
  /\ c.state.kind \in {"SynReceived", "Established", "TimeWait"} =>
       c.ackd = first /\ c.re_tx \in Seq(AckOf(first))
  /\ c.out \in Seq(AckOf(first))

\* The segments of send_ack and the resets among those of the invariant.
LEMMA SentSets ==
  /\ \A a : Acks(a) \subseteq AckOf(a) /\ Acks(a) \subseteq NoReset
  /\ \A a : PlainRsts \subseteq AckOf(a)
BY DEF Acks, AckOf, NoReset, PlainRsts, Rsts

\* KindStep says all of Moved, given that only a connection with a FIN is past it.
LEMMA KindMoved ==
  ASSUME NEW c, ConnInv(c), c.panic = "none", NEW r, KindStep(c, r), c.tx_fin => EndKept(c)
  PROVE  Moved(c, r)
<1>1. c.state.kind = "TimeWait" => c.tx_fin BY DEF ConnInv, Consistent, fin_sent
<1>2. /\ r.panic = "none" => c.panic = "none"
      /\ c.state.kind \in Ended => r.state.kind \in Ended
      /\ r.state.kind \in {"Listen", "SynReceived"} => c.state.kind \in {"Listen", "SynReceived"}
      /\ r.state.kind = "SynSent" => c.state.kind = "SynSent"
  BY DEF KindStep, Later, Ended
<1>3. ASSUME EndKept(c) PROVE EndKept(r)
  <2>1. r.state.kind \notin {"Listen", "SynSent", "SynReceived"}
    BY <1>3 DEF EndKept, KindStep, Later, Ended
  <2>2. ASSUME r.state.kind = "Established" PROVE r.tx_fin
    <3>1. c.state.kind \in {"Established", "TimeWait"}
      BY <1>3, <2>2 DEF EndKept, KindStep, Later, Ended
    <3>2. c.tx_fin BY <1>1, <1>3, <3>1 DEF EndKept
    <3> QED BY <2>2, <3>2 DEF KindStep, Ended
  <2> QED BY <2>1, <2>2 DEF EndKept
<1>4. ASSUME r.tx_fin, ~c.tx_fin PROVE EndKept(r)
  BY <1>4 DEF EndKept, KindStep, Ended
<1> QED BY <1>2, <1>3, <1>4 DEF Moved

\* What the calls and the timers do.
Local(c, r) ==
  /\ KindStep(c, r) /\ Opening(c, r)
  /\ r.ackd = c.ackd \/ r.state.kind \in Ended
  /\ \/ Emits(c, r, c.ackd)
     \/ /\ r.state.kind \in Ended /\ r.re_tx = <<>>
        /\ \A G : PlainRsts \subseteq G /\ c.out \in Seq(G) => r.out \in Seq(G)

\* They do what is asked.
LEMMA LocalMoves ==
  ASSUME NEW c, ConnInv(c), c.panic = "none", c.tx_fin => EndKept(c), NEW r, Local(c, r)
  PROVE  /\ Moved(c, r) /\ Resets(c, r) /\ Repeats(c, r)
         /\ \A first : c.state.kind # "SynSent" /\ Answers(c, first) => Answers(r, first)
<1>0. ASSUME NEW G, Acks(c.ackd) \subseteq G, c.out \in Seq(G), c.re_tx \in Seq(G)
      PROVE  /\ r.re_tx \in Seq(G)
             /\ r.out \in Seq(G) \/ r.state.kind \in Ended
             /\ PlainRsts \subseteq G => r.out \in Seq(G)
  <2>1. CASE Emits(c, r, c.ackd) BY <1>0, <2>1 DEF Emits
  <2>2. CASE /\ r.state.kind \in Ended /\ r.re_tx = <<>>
             /\ \A H : PlainRsts \subseteq H /\ c.out \in Seq(H) => r.out \in Seq(H)
    BY <1>0, <2>2
  <2> QED BY <2>1, <2>2 DEF Local
<1>1. Moved(c, r) BY KindMoved DEF Local
<1>2. Resets(c, r)
  <2>1. Acks(c.ackd) \subseteq NoReset BY SentSets
  <2> QED BY <1>0, <2>1 DEF Resets
<1>3. Repeats(c, r) BY DEF Repeats, Local, Opening
<1>4. ASSUME NEW first, c.state.kind # "SynSent", Answers(c, first) PROVE Answers(r, first)
  <2>0. c \in Connections /\ c.state.kind \in StateKind BY StateFields DEF ConnInv
  <2>1. CASE c.state.kind \in {"SynReceived", "Established", "TimeWait"}
    <3>1. c.ackd = first /\ c.re_tx \in Seq(AckOf(first)) /\ c.out \in Seq(AckOf(first))
      BY <1>4, <2>1 DEF Answers
    <3>2. Acks(c.ackd) \subseteq AckOf(first) /\ PlainRsts \subseteq AckOf(first)
      BY <3>1, SentSets
    <3>3. r.out \in Seq(AckOf(first)) /\ r.re_tx \in Seq(AckOf(first))
      BY <1>0, <3>1, <3>2
    <3> QED BY <3>1, <3>3 DEF Answers, Local, Ended
  <2>2. CASE c.state.kind \in Idle
    <3>1. r.out = c.out BY <2>2 DEF Local, Opening
    <3>2. r.state.kind \in Idle
      BY <2>2 DEF Local, Opening, KindStep, Later, Idle, Ended
    <3> QED BY <1>4, <3>1, <3>2 DEF Answers, Idle
  <2> QED BY <1>4, <2>0, <2>1, <2>2 DEF StateKind, Idle
<1> QED BY <1>1, <1>2, <1>3, <1>4

\* The same of a segment that drops the connection.
LEMMA DroppedMoves ==
  ASSUME NEW c \in Connections, c.state.kind \notin Ended \cup {"Listen"}, NEW r, Dropped(c, r),
         r.state.kind = "Listen" => c.state.kind = "SynReceived"
  PROVE  /\ Moved(c, r) /\ Resets(c, r) /\ Repeats(c, r)
         /\ \A first : Answers(c, first) => Answers(r, first)
         /\ \A isn, w, e, lo : SendOk(c, isn, w, e, lo) => SendOk(r, isn, w, e, lo)
         /\ \A isn, e : \A n, w \in Nat : RxOk(c, isn, n, w, e) => RxOk(r, isn, n, w, e)
<1>1. ASSUME NEW G, PlainRsts \subseteq G, c.out \in Seq(G) PROVE r.out \in Seq(G)
  <2>1. ASSUME NEW rst \in Rsts, rst.flags = {"RST"}, r.out = Append(c.out, rst)
        PROVE  r.out \in Seq(G)
    <3>1. rst \in G BY <1>1, <2>1 DEF PlainRsts
    <3>2. Append(c.out, rst) \in Seq(G) BY <1>1, <3>1
    <3> QED BY <2>1, <3>2
  <2> QED BY <1>1, <2>1 DEF Dropped
<1>2. Moved(c, r) BY DEF Moved, Dropped, EndKept, Ended
<1>3. Resets(c, r) BY DEF Resets, Dropped, Ended
<1>4. Repeats(c, r) BY DEF Repeats, Dropped, Ended
<1>5. ASSUME NEW first, Answers(c, first) PROVE Answers(r, first)
  <2>1. r.out \in Seq(AckOf(first)) BY <1>1, <1>5, SentSets DEF Answers
  <2> QED BY <2>1 DEF Answers, Dropped, Ended
<1>6. ASSUME NEW isn, NEW w, NEW e, NEW lo, SendOk(c, isn, w, e, lo) PROVE SendOk(r, isn, w, e, lo)
  <2>1. PlainRsts \subseteq OfStream(isn, w, e) BY RstOfStream DEF PlainRsts
  <2>2. r.out \in Seq(OfStream(isn, w, e)) BY <1>1, <1>6, <2>1 DEF SendOk
  <2>3. r.state.kind \in Idle /\ ~r.tx_fin BY DEF Dropped, Idle, Ended
  <2> QED BY <1>6, <2>2, <2>3 DEF SendOk, OutOk, TxOk, Live
<1>7. ASSUME NEW isn, NEW e, NEW n \in Nat, NEW w \in Nat, RxOk(c, isn, n, w, e)
      PROVE  RxOk(r, isn, n, w, e)
  <2>0. Len(c.rx) \in Nat BY DEF Connections
  <2>1. n <= w BY <1>7, <2>0 DEF RxOk, Acking
  <2>2. r.state.kind = "Listen" => n = 0 BY <1>7, <2>0 DEF RxOk, Acking
  <2>3. n + Len(r.rx) = n /\ ~r.rx_fin /\ r.rx = <<>> BY DEF Dropped
  <2>4. r.state.kind \in Ended \cup {"Listen"} BY DEF Dropped
  <2> QED BY <2>1, <2>2, <2>3, <2>4 DEF RxOk, Acking, Ended
<1> QED BY <1>2, <1>3, <1>4, <1>5, <1>6, <1>7

\* The same of a SYN that opens the connection.
LEMMA OpenedMoves ==
  ASSUME NEW c \in Connections, c.state.kind = "Listen", NEW r, r.state.kind = "SynReceived",
         NEW new \in SeqN, NEW syn, Opened(c, r, new, syn), syn.ackn = r.ackd,
         NEW isn \in SeqN, r.ackd = wrapping_add(isn, 1)
  PROVE  /\ Moved(c, r) /\ Resets(c, r) /\ Repeats(c, r)
         /\ Answers(c, wrapping_add(isn, 1)) => Answers(r, wrapping_add(isn, 1))
         /\ \A e : \A n, w \in Nat : RxOk(c, isn, n, w, e) => RxOk(r, isn, n, w, e)
<1> DEFINE first == wrapping_add(isn, 1)
<1>1. Moved(c, r) BY DEF Moved, Opened, EndKept, Ended
<1>2. Resets(c, r) BY DEF Resets
<1>3. Repeats(c, r) BY DEF Repeats
<1>4. ASSUME Answers(c, first) PROVE Answers(r, first)
  <2>1. syn \in AckOf(first) BY DEF Opened, AckOf
  <2>2. c.out \in Seq(AckOf(first)) BY <1>4 DEF Answers
  <2> HIDE DEF first
  <2>3. Append(c.out, syn) \in Seq(AckOf(first)) /\ <<syn>> \in Seq(AckOf(first))
    BY <2>1, <2>2
  <2>4. r.out \in Seq(AckOf(first)) /\ r.re_tx \in Seq(AckOf(first))
    BY <2>2, <2>3 DEF Opened
  <2> QED BY <2>4 DEF Answers, first
<1>5. ASSUME NEW e, NEW n \in Nat, NEW w \in Nat, RxOk(c, isn, n, w, e)
      PROVE  RxOk(r, isn, n, w, e)
  <2>1. n + Len(c.rx) = 0 /\ ~c.rx_fin BY <1>5 DEF RxOk, Acking
  <2>2. r.rx = c.rx /\ ~r.rx_fin BY <2>1 DEF Opened
  <2>3. Offset(isn, r.ackd) = 1 BY OffsetStart
  <2> QED BY <1>5, <2>1, <2>2, <2>3 DEF RxOk, Acking
<1> QED BY <1>1, <1>2, <1>3, <1>4, <1>5

\* The same of a segment that the connection goes on with.
LEMMA TxMoves ==
  ASSUME NEW c, ConnInv(c), c.panic = "none", c.tx_fin => EndKept(c), NEW r, TxStep(c, r),
         c.state.kind = "SynSent" => r.state.kind # "SynSent"
  PROVE  Moved(c, r) /\ Resets(c, r) /\ Repeats(c, r)
<1>1. Moved(c, r) BY KindMoved DEF TxStep
<1>2. Resets(c, r)
  <2>1. \A a : Acks(a) \subseteq NoReset BY SentSets
  <2> QED BY <2>1 DEF Resets, TxStep, EmitsAcks
<1>3. Repeats(c, r) BY DEF Repeats
<1> QED BY <1>1, <1>2, <1>3

\* A connection that is open and emits acknowledgements of the same number answers.
LEMMA StepAnswers ==
  ASSUME NEW c, NEW r, NEW first, Answers(c, first), Step(c, r, c.ackd),
         c.state.kind \in {"SynReceived", "Established", "TimeWait"}
  PROVE  Answers(r, first)
<1>1. c.ackd = first /\ c.re_tx \in Seq(AckOf(first)) /\ c.out \in Seq(AckOf(first))
  BY DEF Answers
<1>2. Acks(c.ackd) \subseteq AckOf(first) BY <1>1, SentSets
<1>3. r.out \in Seq(AckOf(first)) /\ r.re_tx \in Seq(AckOf(first))
  BY <1>1, <1>2 DEF Step, Emits
<1>4. r.ackd = c.ackd \/ r.state.kind \in Ended BY DEF Step, RxKept, Gone
<1> QED BY <1>1, <1>3, <1>4 DEF Answers, Ended

\* The state in which the client expects the answer to its SYN.
Awaits(c, new) ==
  c.init_seqn = new /\ c.unack = new /\ c.next = wrapping_add(new, 1)

\* What is received is acknowledged, and nothing else is.
Answered(c, r, seg, new) ==
  /\ c.state.kind \in {"SynSent"} \cup Acking => Acked(c, r) \/ r.state.kind = "Listen"
  /\ c.state.kind = "Listen" =>
       \/ r.state.kind = "Listen" /\ (seg \in NoAck => r.out = c.out)
       \/ /\ r.state.kind = "SynReceived" /\ r.unack = new
          /\ \E syn : Opened(c, r, new, syn) /\ syn.ackn = r.ackd

\* on_segment does what is asked, for a segment of the peer's stream.
LEMMA OnSegmentMoves ==
  ASSUME NEW c, ConnInv(c), c.panic = "none", c.tx_fin => EndKept(c),
         NEW isn, NEW w, NEW e, Short(isn, w, e), NEW n \in Nat, RxOk(c, isn, n, w, e),
         NEW seg \in SegmentMeta, c.state.kind \notin Ended => seg \in OfStream(isn, w, e),
         NEW new \in SeqN,
         c.state.kind = "SynSent" => Awaits(c, new) /\ seg \in AckOf(wrapping_add(new, 1)),
         NEW r, r = OnSegment(c, seg, new)
  PROVE  /\ Moved(c, r) /\ Resets(c, r) /\ Repeats(c, r) /\ RxOk(r, isn, n, w, e)
         /\ Answered(c, r, seg, new)
         /\ /\ c.state.kind # "SynSent" /\ seg \in NoAck
            /\ Answers(c, wrapping_add(isn, 1))
            => Answers(r, wrapping_add(isn, 1))
         /\ r.state.kind = "Listen" => c.state.kind = "Listen" \/ "RST" \in seg.flags
         /\ \A v, f, lo : /\ Short(new, v, f) /\ SendOk(c, new, v, f, lo)
                          /\ c.state.kind = "Listen" => Unsent(c, v, lo)
                          => SendOk(r, new, v, f, lo)
<1>0. c \in Connections /\ w \in Nat /\ isn \in SeqN BY DEF ConnInv, Short
<1> DEFINE first == wrapping_add(isn, 1)
<1>1. CASE c.state.kind \in Ended
  <2>1. r = OnSegmentClosed(c, seg) BY <1>1 DEF OnSegment, Ended
  <2>2. /\ KindStep(c, r) /\ RxKept(c, r) /\ r.re_tx = c.re_tx /\ r.state = c.state
        /\ r.tx_fin = c.tx_fin
        /\ \A i, v, f, lo : SendOk(c, i, v, f, lo) => SendOk(r, i, v, f, lo)
        /\ "ACK" \notin seg.flags =>
             \A G : PlainRsts \subseteq G /\ c.out \in Seq(G) => r.out \in Seq(G)
    BY <1>0, <2>1, OnSegmentClosedStep
  <2>3. Moved(c, r) BY <2>2, KindMoved
  <2>4. Resets(c, r) /\ Repeats(c, r) BY <1>1, <2>2 DEF Resets, Repeats, Ended
  <2>5. RxOk(r, isn, n, w, e) BY <1>0, <1>1, <2>2, RxKeptOk DEF Later, Ended
  <2>6. ASSUME seg \in NoAck, Answers(c, first) PROVE Answers(r, first)
    <3>1. PlainRsts \subseteq AckOf(first) BY SentSets
    <3>2. r.out \in Seq(AckOf(first)) BY <2>2, <2>6, <3>1 DEF Answers, NoAck
    <3> QED BY <1>1, <2>2, <3>2 DEF Answers, Ended
  <2>7. Answered(c, r, seg, new) BY <1>1 DEF Answered, Acking, Ended
  <2> QED BY <1>1, <2>2, <2>3, <2>4, <2>5, <2>6, <2>7 DEF Ended
<1>2. CASE c.state.kind = "Listen"
  <2>0. seg \in OfStream(isn, w, e) BY <1>2 DEF Ended
  <2>1. r = OnSegmentListen(c, seg, new) BY <1>2 DEF OnSegment
  <2>2. \/ /\ KindStep(c, r) /\ RxKept(c, r) /\ r.state = c.state /\ r.tx_fin = c.tx_fin
           /\ \A i, v, f, lo : SendOk(c, i, v, f, lo) => SendOk(r, i, v, f, lo)
           /\ \A G : PlainRsts \subseteq G /\ c.out \in Seq(G) => r.out \in Seq(G)
           /\ "ACK" \notin seg.flags => r.out = c.out
        \/ /\ "SYN" \in seg.flags /\ r.state.kind = "SynReceived"
           /\ r.ackd = wrapping_add(seg.seqn, 1) /\ r.unack = new
           /\ \E syn : Opened(c, r, new, syn) /\ syn.ackn = r.ackd
    BY <1>2, <2>1, OnSegmentListenStep
  <2>3. CASE /\ KindStep(c, r) /\ RxKept(c, r) /\ r.state = c.state /\ r.tx_fin = c.tx_fin
             /\ \A i, v, f, lo : SendOk(c, i, v, f, lo) => SendOk(r, i, v, f, lo)
             /\ \A G : PlainRsts \subseteq G /\ c.out \in Seq(G) => r.out \in Seq(G)
             /\ "ACK" \notin seg.flags => r.out = c.out
    <3>1. Moved(c, r) BY <2>3, KindMoved
    <3>2. Resets(c, r) /\ Repeats(c, r) BY <1>2 DEF Resets, Repeats
    <3>3. RxOk(r, isn, n, w, e) BY <1>0, <1>2, <2>3, RxKeptOk DEF Later
    <3>4. ASSUME Answers(c, first) PROVE Answers(r, first)
      <4>1. PlainRsts \subseteq AckOf(first) BY SentSets
      <4>2. r.out \in Seq(AckOf(first)) BY <2>3, <3>4, <4>1 DEF Answers
      <4> QED BY <1>2, <2>3, <4>2 DEF Answers
    <3>5. Answered(c, r, seg, new) BY <1>2, <2>3 DEF Answered, Acking, NoAck
    <3> QED BY <1>2, <2>3, <3>1, <3>2, <3>3, <3>4, <3>5
  <2>4. ASSUME "SYN" \in seg.flags, r.state.kind = "SynReceived",
               r.ackd = wrapping_add(seg.seqn, 1), r.unack = new, NEW syn,
               Opened(c, r, new, syn), syn.ackn = r.ackd
        PROVE  /\ Moved(c, r) /\ Resets(c, r) /\ Repeats(c, r) /\ RxOk(r, isn, n, w, e)
               /\ Answered(c, r, seg, new)
               /\ Answers(c, first) => Answers(r, first)
               /\ \A f, lo : SendOk(c, new, 0, f, lo) /\ Unsent(c, 0, lo) =>
                    SendOk(r, new, 0, f, lo)
    <3>1. r.ackd = wrapping_add(isn, 1) BY <2>0, <2>4 DEF OfStream
    <3>2. /\ Moved(c, r) /\ Resets(c, r) /\ Repeats(c, r)
          /\ Answers(c, wrapping_add(isn, 1)) => Answers(r, wrapping_add(isn, 1))
          /\ \A g : \A k, v \in Nat : RxOk(c, isn, k, v, g) => RxOk(r, isn, k, v, g)
      BY <1>0, <1>2, <2>4, <3>1, OpenedMoves
    <3>3. RxOk(r, isn, n, w, e) BY <1>0, <3>2
    <3>4. \A f, lo : SendOk(c, new, 0, f, lo) /\ Unsent(c, 0, lo) => SendOk(r, new, 0, f, lo)
      BY <2>4, OpenedSends
    <3>5. Answered(c, r, seg, new) BY <1>2, <2>4 DEF Answered, Acking
    <3> QED BY <3>2, <3>3, <3>4, <3>5
  <2>5. \A v, lo : Unsent(c, v, lo) => v = 0 BY DEF Unsent
  <2> QED BY <1>2, <2>2, <2>3, <2>4, <2>5
<1>3. CASE c.state.kind = "SynSent"
  <2>0. seg \in OfStream(isn, w, e) BY <1>3 DEF Ended
  <2>1. r = OnSegmentSynSent(c, seg) BY <1>3 DEF OnSegment
  <2>2. \/ r = c
        \/ Dropped(c, r) /\ r.state.kind = "Reset"
        \/ /\ TxStep(c, r) /\ RxOk(r, isn, n, w, e) /\ Acked(c, r)
           /\ r.state.kind # "SynSent"
    BY <1>3, <2>0, <2>1, OnSegmentSynSentStep DEF Awaits
  <2>3. CASE r = c
    <3>1. Quiet(c, r) BY <2>3, StutterStep
    <3>2. Moved(c, r) BY <3>1, QuietKeeps, KindMoved
    <3>3. Resets(c, r) /\ Repeats(c, r) BY <2>3 DEF Resets, Repeats, KeptIn
    <3>4. Acked(c, r) BY <1>0, <3>1, QuietStep, StepAcked
    <3>5. Answered(c, r, seg, new) BY <1>3, <3>4 DEF Answered
    <3> QED BY <1>3, <2>3, <3>2, <3>3, <3>5
  <2>4. CASE Dropped(c, r) /\ r.state.kind = "Reset"
    <3>1. /\ Moved(c, r) /\ Resets(c, r) /\ Repeats(c, r)
          /\ \A i, v, f, lo : SendOk(c, i, v, f, lo) => SendOk(r, i, v, f, lo)
          /\ \A i, f : \A k, v \in Nat : RxOk(c, i, k, v, f) => RxOk(r, i, k, v, f)
      BY <1>0, <1>3, <2>4, DroppedMoves DEF Ended
    <3>2. Answered(c, r, seg, new) BY <1>3, <2>4 DEF Answered, Acked, Ended
    <3> QED BY <1>0, <1>3, <2>4, <3>1, <3>2
  <2>5. CASE TxStep(c, r) /\ RxOk(r, isn, n, w, e) /\ Acked(c, r) /\ r.state.kind # "SynSent"
    <3>1. Moved(c, r) /\ Resets(c, r) /\ Repeats(c, r) BY <2>5, TxMoves
    <3>2. r.state.kind # "Listen" BY <1>3, <2>5 DEF TxStep, KindStep, Later, Ended
    <3>3. Answered(c, r, seg, new) BY <1>3, <2>5 DEF Answered
    <3> QED BY <1>3, <2>5, <3>1, <3>2, <3>3 DEF TxStep
  <2> QED BY <2>2, <2>3, <2>4, <2>5
<1>4. CASE c.state.kind \in {"TimeWait", "SynReceived", "Established"}
  <2>0. seg \in OfStream(isn, w, e) BY <1>4 DEF Ended
  <2>1. r = OnSegmentOpen(c, seg) BY <1>4 DEF OnSegment
  <2>2. \/ /\ TxStep(c, r) /\ RxOk(r, isn, n, w, e) /\ Acked(c, r)
           /\ "ACK" \notin seg.flags => Step(c, r, c.ackd)
        \/ /\ Dropped(c, r)
           /\ r.state.kind = "Listen" => c.state.kind = "SynReceived" /\ "RST" \in seg.flags
    BY <1>4, <2>0, <2>1, OnSegmentOpenStep
  <2>3. CASE /\ TxStep(c, r) /\ RxOk(r, isn, n, w, e) /\ Acked(c, r)
             /\ "ACK" \notin seg.flags => Step(c, r, c.ackd)
    <3>1. Moved(c, r) /\ Resets(c, r) /\ Repeats(c, r) BY <1>4, <2>3, TxMoves
    <3>2. r.state.kind # "Listen" BY <1>4, <2>3 DEF TxStep, KindStep, Later, Ended
    <3>3. ASSUME seg \in NoAck, Answers(c, first) PROVE Answers(r, first)
      BY <1>4, <2>3, <3>3, StepAnswers DEF NoAck
    <3>4. Answered(c, r, seg, new) BY <1>4, <2>3 DEF Answered
    <3> QED BY <1>4, <2>3, <3>1, <3>2, <3>3, <3>4 DEF TxStep
  <2>4. CASE /\ Dropped(c, r)
             /\ r.state.kind = "Listen" => c.state.kind = "SynReceived" /\ "RST" \in seg.flags
    <3>1. /\ Moved(c, r) /\ Resets(c, r) /\ Repeats(c, r)
          /\ \A a : Answers(c, a) => Answers(r, a)
          /\ \A i, v, f, lo : SendOk(c, i, v, f, lo) => SendOk(r, i, v, f, lo)
          /\ \A i, f : \A k, v \in Nat : RxOk(c, i, k, v, f) => RxOk(r, i, k, v, f)
      BY <1>0, <1>4, <2>4, DroppedMoves DEF Ended
    <3>2. Answered(c, r, seg, new) BY <1>4, <2>4 DEF Answered, Acked, Dropped
    <3> QED BY <1>0, <1>4, <2>4, <3>1, <3>2
  <2> QED BY <2>2, <2>3, <2>4
<1>5. c.state.kind \in StateKind BY <1>0, StateFields
<1> QED BY <1>1, <1>2, <1>3, <1>4, <1>5 DEF StateKind, Ended

\* What ends at offset m or before is of the stream as it was when m - 1 bytes were sent.
LEMMA SentBefore ==
  ASSUME NEW isn \in SeqN, NEW w \in Nat, NEW e, NEW m \in Nat, 1 <= m, m <= w + 1,
         NEW seg \in OfStream(isn, w, e), seg \in UpTo(isn, m)
  PROVE  seg \in OfStream(isn, m - 1, FALSE)
<1> DEFINE k == Offset(isn, seg.seqn)
           l == Len(seg.data)
           fin == IF "FIN" \in seg.flags THEN 1 ELSE 0
           syn == IF "SYN" \in seg.flags THEN 1 ELSE 0
<1>1. seg \in SegmentMeta BY DEF OfStream
<1>2. k \in Nat /\ l \in Nat /\ seg.data \in Seq(Byte) BY <1>1, SegmentFields, OffsetType
<1>3. seg.data # <<>> => l # 0 BY <1>2
<1>4. seq_size(seg) = l + syn + fin BY <1>1 DEF seq_size
<1>5. fin \in 0 .. 1 /\ syn \in 0 .. 1 /\ ("FIN" \in seg.flags => fin = 1) OBVIOUS
<1>6. l + syn + fin # 0 => k + (l + syn + fin) <= m BY <1>4 DEF UpTo
<1>7. /\ "SYN" \in seg.flags => seg.seqn = isn
      /\ seg.data # <<>> =>
           1 <= k /\ k + l <= w + 1 /\ \A i \in 1 .. l : seg.data[i] = k - 1 + i
      /\ "FIN" \in seg.flags => k + l = w + 1
  BY DEF OfStream
<1> HIDE DEF k, l, fin, syn
<1>8. "FIN" \notin seg.flags
  <2> SUFFICES ASSUME "FIN" \in seg.flags PROVE FALSE OBVIOUS
  <2>1. fin = 1 /\ k + l = w + 1 BY <1>5, <1>7
  <2>2. k + (l + syn + 1) <= m BY <1>2, <1>5, <1>6, <2>1
  <2> QED BY ONLY <1>2, <1>5, <2>1, <2>2, w \in Nat, m \in Nat, m <= w + 1
<1>9. seg.data # <<>> => k + l <= (m - 1) + 1
  <2> SUFFICES ASSUME seg.data # <<>> PROVE k + l <= (m - 1) + 1 OBVIOUS
  <2>1. k + (l + syn + fin) <= m BY <1>2, <1>3, <1>5, <1>6
  <2> QED BY ONLY <1>2, <1>5, <2>1, m \in Nat
<1> QED BY <1>1, <1>7, <1>8, <1>9 DEF OfStream, k, l

\* on_segment receives nothing that was not sent: m is the peer's next sequence number.
LEMMA ReceivedSent ==
  ASSUME NEW c, ConnInv(c), c.panic = "none", c.tx_fin => EndKept(c), c.state.kind \notin Ended,
         NEW isn, NEW w, NEW e, Short(isn, w, e), NEW n \in Nat, RxOk(c, isn, n, w, e),
         NEW m \in Nat, 1 <= m, m <= w + 1 \/ m = w + 2,
         c.state.kind \in Acking => Offset(isn, c.ackd) <= m,
         NEW seg \in OfStream(isn, w, e), seg \in UpTo(isn, m), NEW new \in SeqN,
         c.state.kind = "SynSent" => Awaits(c, new) /\ seg \in AckOf(wrapping_add(new, 1)),
         NEW r, r = OnSegment(c, seg, new), ConnInv(r), r.state.kind \in Acking
  PROVE  Offset(isn, r.ackd) <= m
<1>0. /\ c \in Connections /\ r \in Connections /\ isn \in SeqN /\ w \in Nat
      /\ w + 2 < SeqSpace /\ seg \in SegmentMeta /\ c.state.kind \in StateKind
  BY StateFields DEF ConnInv, Short, OfStream
<1>1. Len(c.rx) \in Nat /\ Len(r.rx) \in Nat
  <2>1. c.rx \in Seq(Byte) BY <1>0 DEF Connections
  <2>2. r.rx \in Seq(Byte) BY <1>0 DEF Connections
  <2>3. \A s \in Seq(Byte) : Len(s) \in Nat OBVIOUS
  <2> QED BY <2>1, <2>2, <2>3
<1>2. CASE m = w + 2
  <2>1. RxOk(r, isn, n, w, e) BY <1>0, OnSegmentMoves
  <2>2. /\ n + Len(r.rx) <= w
        /\ Offset(isn, r.ackd) = n + Len(r.rx) + 1 + (IF r.rx_fin THEN 1 ELSE 0)
    BY <2>1 DEF RxOk
  <2>3. \A i, j, k \in Nat, b \in BOOLEAN :
          i + j <= k => i + j + 1 + (IF b THEN 1 ELSE 0) <= k + 2
    OBVIOUS
  <2>4. r.rx_fin \in BOOLEAN BY <1>0 DEF Connections
  <2>5. n + Len(r.rx) + 1 + (IF r.rx_fin THEN 1 ELSE 0) <= w + 2
    BY ONLY <1>0, <1>1, <2>2, <2>3, <2>4, n \in Nat
  <2> QED BY ONLY <1>2, <2>2, <2>5
<1>3. CASE m <= w + 1
  <2> DEFINE v == m - 1
  <2>1. v \in Nat /\ v + 1 = m /\ v <= w BY <1>0, <1>3
  <2>2. Short(isn, v, FALSE)
    <3>1. v + 2 < SeqSpace BY <1>0, <2>1, SegmentAssumption
    <3> QED BY <1>0, <2>1, <3>1 DEF Short
  <2>3. seg \in OfStream(isn, v, FALSE) BY <1>0, <1>3, SentBefore
  <2> HIDE DEF v
  <2>4. RxOk(c, isn, n, v, FALSE)
    <3> DEFINE received == n + Len(c.rx)
               fin == IF c.rx_fin THEN 1 ELSE 0
    <3>1. /\ received \in Nat /\ received <= w /\ (c.rx_fin => received = w)
          /\ \A i \in 1 .. Len(c.rx) : c.rx[i] = n + i
          /\ c.state.kind \in {"Listen", "SynSent", "SynReceived"} => received = 0 /\ ~c.rx_fin
          /\ c.state.kind \in Acking => Offset(isn, c.ackd) = received + 1 + fin
          /\ c.state.kind = "Established" /\ c.state.rx_state # "Open" => c.rx_fin
      BY <1>1 DEF RxOk
    <3>2. fin \in 0 .. 1 /\ (c.rx_fin => fin = 1) OBVIOUS
    <3>3. c.state.kind \in Acking \/ c.state.kind \in {"Listen", "SynSent"}
      BY <1>0 DEF Acking, StateKind, Ended
    <3> HIDE DEF received, fin
    <3>4. received <= v /\ ~c.rx_fin
      <4>1. CASE c.state.kind \in Acking
        <5>1. received + 1 + fin <= v + 1 BY <2>1, <3>1, <4>1
        <5>2. received <= v BY ONLY <2>1, <3>1, <3>2, <5>1
        <5>3. c.rx_fin => FALSE BY ONLY <1>0, <2>1, <3>1, <3>2, <5>1
        <5> QED BY <5>2, <5>3
      <4>2. CASE c.state.kind \in {"Listen", "SynSent"} BY <2>1, <3>1, <4>2
      <4> QED BY <3>3, <4>1, <4>2
    <3> QED BY <3>1, <3>4 DEF RxOk, received, fin
  <2>5. RxOk(r, isn, n, v, FALSE) BY <1>0, <2>2, <2>3, <2>4, OnSegmentMoves
  <2>6. /\ n + Len(r.rx) <= v /\ ~r.rx_fin
        /\ Offset(isn, r.ackd) = n + Len(r.rx) + 1 + (IF r.rx_fin THEN 1 ELSE 0)
    BY <2>5 DEF RxOk
  <2>7. Offset(isn, r.ackd) = n + Len(r.rx) + 1 + 0 BY <2>6
  <2> QED BY ONLY <1>1, <2>1, <2>6, <2>7, n \in Nat
<1> QED BY <1>2, <1>3

\* A step is local if it opens as asked.
LEMMA StepLocal ==
  ASSUME NEW c, NEW r, Step(c, r, c.ackd), Opening(c, r)
  PROVE  Local(c, r)
BY DEF Local, Step, RxKept, Gone

\* So are the calls: each is made only while there is a connection.
LEMMA CallLocal ==
  ASSUME NEW c, ConnInv(c), c.panic = "none", c.state.kind \notin Ended, NEW r,
         \/ \E k \in Nat : CanRecv(c) /\ r = CallRecv(c, k)
         \/ CanShutdown(c) /\ r = CallShutdown(c)
         \/ CanClose(c) /\ r = CallClose(c)
         \/ r = CallAbort(c)
         \/ \E k, v \in Nat : /\ CanSend(c) /\ c.state.tx_state = "Open" /\ ~c.tx_fin
                              /\ k + 2 < SeqSpace
                              /\ r = CallSend(c, [i \in 1 .. k |-> v + i])
  PROVE  Local(c, r)
<1>1. Opening(c, r)
  <2>1. CASE c.state.kind \in {"Listen", "SynSent"} BY <2>1, CallOpening
  <2>2. CASE c.state.kind \notin {"Listen", "SynSent"} BY <2>2 DEF Opening, Idle, Ended
  <2> QED BY <2>1, <2>2
<1>2. ASSUME NEW k \in Nat, CanRecv(c), r = CallRecv(c, k) PROVE Local(c, r)
  <2> DEFINE data == RecvData(c, k)
  <2>1. KindStep(c, r) /\ Emits(c, r, c.ackd) /\ (r.ackd = c.ackd \/ Gone(r))
    BY <1>2, CallRecvStep
  <2> QED BY <1>1, <2>1 DEF Local, Gone
<1>3. CASE CanShutdown(c) /\ r = CallShutdown(c) BY <1>1, <1>3, CallShutdownStep, StepLocal
<1>4. CASE CanClose(c) /\ r = CallClose(c) BY <1>1, <1>4, CallCloseStep, StepLocal
<1>5. CASE r = CallAbort(c)
  <2>1. /\ KindStep(c, r) /\ Gone(r) /\ r.re_tx = <<>>
        /\ \A G : {seg \in Rsts : seg.flags = {"RST"}} \subseteq G /\ c.out \in Seq(G) =>
             r.out \in Seq(G)
    BY <1>5, CallAbortStep
  <2> QED BY <1>1, <2>1 DEF Local, Gone, PlainRsts
<1>6. ASSUME NEW k \in Nat, NEW v \in Nat, CanSend(c), c.state.tx_state = "Open", ~c.tx_fin,
             k + 2 < SeqSpace, r = CallSend(c, [i \in 1 .. k |-> v + i])
      PROVE  Local(c, r)
  <2>1. Step(c, r, c.ackd) BY <1>6, CallSendStep
  <2> QED BY <1>1, <2>1, StepLocal
<1> QED BY <1>2, <1>3, <1>4, <1>5, <1>6

\* call_connect of a new connection.
LEMMA CallConnectStep ==
  ASSUME NEW isn \in SeqN, NEW r, r = CallConnect(New, isn)
  PROVE  /\ r.state.kind = "SynSent" /\ r.init_seqn = isn /\ r.unack = isn
         /\ \E syn : Opened(New, r, isn, syn) /\ syn.flags = {"SYN"}
<1> DEFINE b == SetState(New, SynSent)
           d == [b EXCEPT !.init_seqn = isn, !.unack = isn, !.next = isn]
           syn == Control({"SYN"}, isn, 0, curr_window(d))
           g == Send(d, syn)
           e == [OnSend(g, syn) EXCEPT !.timer_re_tx = TRUE]
<1>0. New \in Connections BY NewType
<1>1. r = Suspend(e, "opener", "Established", 0) BY DEF CallConnect
<1>2. b = EnterState(New, SynSent) BY KindOf DEF SetState
<1>3. /\ b \in Connections /\ b.state = SynSent /\ SameRest(New, b)
      /\ b.tx = New.tx /\ b.tx_fin = New.tx_fin /\ b.re_tx = New.re_tx
      /\ PanicKept(New, b)
  BY <1>0, <1>2, StatesType, EnterStateAll
<1> HIDE DEF b
<1>4. /\ d \in Connections /\ d.state = SynSent /\ d.out = <<>> /\ d.rx = <<>>
      /\ d.rx_fin = FALSE /\ d.tx = <<>> /\ d.tx_fin = FALSE /\ d.re_tx = <<>>
      /\ d.next = isn /\ d.unack = isn /\ d.init_seqn = isn
  BY <1>3 DEF SameRest, New, Connections
<1> HIDE DEF d
<1>5. syn \in SegmentMeta
  BY <1>4, WindowType, SeqNFacts, EmptySegmentType DEF SegmentFlags
<1>6. syn.seqn = isn /\ syn.data = <<>> /\ syn.flags = {"SYN"} BY DEF Control
<1> HIDE DEF syn
<1>7. /\ g \in Connections /\ SameCore(d, g)
      /\ g.rx = d.rx /\ g.rx_fin = d.rx_fin /\ g.init_seqn = d.init_seqn
      /\ g.out = d.out \/ g.out = Append(d.out, syn)
  BY <1>4, <1>5, SendAll
<1> HIDE DEF g
<1>8. g.re_tx = <<>> /\ g.tx = <<>> /\ ~g.tx_fin /\ g.next = isn BY <1>4, <1>7 DEF SameCore
<1>9. e = [OnSend(g, syn) EXCEPT !.timer_re_tx = TRUE] OBVIOUS
<1> HIDE DEF e
<1>10. syn.seqn = g.next /\ syn.flags \in {{"SYN"}, {"SYN", "ACK"}} BY <1>6, <1>8
<1>11. /\ e \in Connections /\ Opened(g, e, g.next, syn) /\ e.state = g.state
       /\ e.ackd = g.ackd /\ e.out = g.out /\ e.panic = g.panic
       /\ e.init_seqn = g.init_seqn /\ e.unack = g.unack
  BY <1>5, <1>6, <1>7, <1>8, <1>9, <1>10, SynQueued, Zenon
<1>12. r.init_seqn = e.init_seqn /\ r.unack = e.unack /\ r.state = e.state
       /\ r.tx = e.tx /\ r.tx_fin = e.tx_fin /\ r.re_tx = e.re_tx /\ r.next = e.next
       /\ r.rx = e.rx /\ r.rx_fin = e.rx_fin /\ r.out = e.out
  BY <1>1, <1>11 DEF Suspend, Connections
<1>13. New.rx = <<>> /\ New.rx_fin = FALSE /\ New.out = <<>> /\ New.panic = "none" BY DEF New
<1>14. Opened(New, r, isn, syn)
  BY <1>4, <1>6, <1>7, <1>8, <1>11, <1>12, <1>13 DEF Opened
<1>15. r.state.kind = "SynSent" /\ r.init_seqn = isn /\ r.unack = isn
  BY <1>4, <1>7, <1>11, <1>12, KindOf DEF SameCore
<1> QED BY <1>6, <1>14, <1>15

-----------------------------------------------------------------------------
(* The receiver of a stream meets its end in call_recv alone, and a          *)
(* connection that has been let go of stays so.                              *)

\* The connection has been let go of; its application has met the end of the
\* stream.
Parted(c) == c.state.kind \in {"TimeWait", "Reset", "Closed"}
AtEnd(s) == s.kind = "Established" /\ s.rx_state = "Closed"

Stays(c, r) ==
  /\ Parted(c) => Parted(r)
  /\ AtEnd(c.state) => AtEnd(r.state) \/ Parted(r)
  /\ AtEnd(r.state) => AtEnd(c.state)

\* What leaves the state alone, or lets go of the connection, keeps to this.
LEMMA StaysSame ==
  ASSUME NEW c, NEW r, r.state = c.state \/ Parted(r)
  PROVE  Stays(c, r)
BY DEF Stays, Parted, AtEnd

\* One method after another.
LEMMA StaysTrans ==
  ASSUME NEW c, NEW d, NEW r, Stays(c, d), Stays(d, r)
  PROVE  Stays(c, r)
BY DEF Stays

\* set_state, within a connection.
LEMMA SetStateStays ==
  ASSUME NEW c \in Connections, ~Parted(c), NEW s \in ConnectionStates,
         AtEnd(s) <=> AtEnd(c.state), NEW r, r = SetState(c, s)
  PROVE  Stays(c, r) /\ r \in Connections /\ (~Reduces(s) => r.state = s)
<1> DEFINE d == EnterState(c, s)
           f == EnterState(d, TimeWait)
<1>1. d \in Connections /\ d.state = s BY EnterStateAll
<1> HIDE DEF d
<1>2. CASE ~Reduces(s)
  <2>1. r = d BY <1>2 DEF SetState, Reduces, d
  <2> QED BY <1>1, <1>2, <2>1 DEF Stays
<1>3. CASE Reduces(s) /\ s.close_active
  <2>1. r = [f EXCEPT !.timer_re_tx = FALSE, !.timer_timewait = TRUE]
    BY <1>3 DEF SetState, Reduces, d
  <2>2. f \in Connections /\ f.state = TimeWait BY <1>1, StatesType, EnterStateAll
  <2> HIDE DEF f
  <2>3. r \in Connections /\ r.state = TimeWait BY <2>1, <2>2 DEF Connections
  <2>4. Parted(r) BY <2>3 DEF Parted, TimeWait, Finished
  <2> QED BY <1>3, <2>3, <2>4, StaysSame
<1>4. CASE Reduces(s) /\ ~s.close_active
  <2>1. r = Clear(d) BY <1>4 DEF SetState, Reduces, d
  <2>2. r.state = Closed BY <2>1, ClearAll
  <2>3. Parted(r) /\ r \in Connections BY <1>1, <2>1, <2>2, KindOf, ClearType DEF Parted
  <2> QED BY <1>4, <2>3, StaysSame
<1> QED BY <1>2, <1>3, <1>4

\* send_ack keeps the receive channel.
LEMMA SendAckStays ==
  ASSUME NEW c \in Connections, FinLive(c), c.state.kind \notin {"SynSent", "SynReceived"},
         NEW r, r = SendAck(c)
  PROVE  Stays(c, r)
<1>1. PICK n \in Nat, fin \in BOOLEAN, seg \in SegmentMeta : AckSent(c, r, n, fin, seg)
  BY SendAckEffect
<1>2. CASE ~fin
  <2>1. r.state = c.state BY <1>1, <1>2 DEF AckSent
  <2> QED BY <2>1, StaysSame
<1>3. CASE fin
  <2>1. /\ r.state = Established("Fin", c.state.rx_state, c.state.close_called,
                                 c.state.close_active)
        /\ c.tx_fin /\ ~fin_sent(c.state)
    BY <1>1, <1>3 DEF AckSent
  <2>2. c.state.kind = "Established"
    <3>1. c.state.kind \in StateKind BY StateFields
    <3> QED BY <2>1, <3>1 DEF FinLive, Idle, fin_sent, StateKind
  <2>3. r.state.kind = "Established" /\ r.state.rx_state = c.state.rx_state
    BY <2>1 DEF Established
  <2> QED BY <2>2, <2>3 DEF Stays, Parted, AtEnd
<1> QED BY <1>2, <1>3

\* A suspended call leaves the state alone, and so does an end that is queued.
LEMMA SuspendStays ==
  ASSUME NEW c \in Connections, NEW u, NEW kind, NEW arg, NEW r, r = Suspend(c, u, kind, arg)
  PROVE  r.state = c.state
BY DEF Suspend, Connections

\* tx.rs, the FIN mark.
LEMMA FinQueuedStays ==
  ASSUME NEW c \in Connections, NEW r, r = [c EXCEPT !.tx_fin = TRUE]
  PROVE  r \in Connections /\ r.state = c.state
BY DEF Connections

\* The half-closed state that follows SYN-RECEIVED.
LEMMA HalfCloseStays ==
  ASSUME NEW c, ConnInv(c), c.state.kind = "SynReceived", NEW called \in BOOLEAN,
         NEW r, r = SetState(SendAck([c EXCEPT !.tx_fin = TRUE]),
                             Established("Fin", "Open", called, TRUE))
  PROVE  Stays(c, r) /\ r \in Connections
<1> DEFINE g == [c EXCEPT !.tx_fin = TRUE]
           f == SendAck(g)
           s == Established("Fin", "Open", called, TRUE)
<1>1. ConnInv(g)
  <2>1. c.state.kind \notin Idle BY DEF Idle
  <2> QED BY <2>1, FinQueued
<1> HIDE DEF g
<1>2. f \in Connections BY <1>1, SendAckInv DEF ConnInv
<1> HIDE DEF f
<1>3. s \in ConnectionStates BY EstablishedType DEF ChannelState
<1>4. ~Reduces(s) /\ ~AtEnd(s) /\ s.kind = "Established" BY DEF Reduces, AtEnd, Established
<1> HIDE DEF s
<1>5. r = EnterState(f, s) BY <1>4 DEF SetState, Reduces, f, g, s
<1>6. r \in Connections /\ r.state = s BY <1>2, <1>3, <1>5, EnterStateAll
<1> QED BY <1>4, <1>6 DEF Stays, Parted, AtEnd

\* call_send.
LEMMA CallSendStays ==
  ASSUME NEW c, ConnInv(c), c.panic = "none", CanSend(c), NEW data \in Seq(Byte),
         c.state.tx_state = "Open", ~c.tx_fin, NEW r, r = CallSend(c, data)
  PROVE  Stays(c, r)
<1> DEFINE open == DebugMustHold(c, c.state.tx_state = "Open", "send_after_fin")
           m == MustHold(open, ~c.tx_fin, "send_after_fin")
           d == [m EXCEPT !.tx = @ \o data]
<1>0. c \in Connections /\ FinLive(c) BY LiveFin
<1>1. m = c BY DEF MustHold, DebugMustHold
<1>2. d \in Connections /\ d.state = c.state /\ d.tx_fin = c.tx_fin
  <2>1. c.tx \o data \in Seq(Byte) BY <1>0 DEF Connections
  <2> QED BY <1>0, <1>1, <2>1 DEF Connections
<1>3. \/ r = d \/ (r = SendAck(d) /\ c.state.kind = "Established")
      \/ r = Suspend(d, "writer", "Acknowledged", wrapping_add(c.next, Len(data)))
  BY DEF CallSend
<1> HIDE DEF d
<1>4. CASE r = d BY <1>2, <1>4, StaysSame
<1>5. CASE r = SendAck(d) /\ c.state.kind = "Established"
  <2>1. FinLive(d) BY <1>0, <1>2 DEF FinLive
  <2>2. Stays(d, r) BY <1>2, <1>5, <2>1, SendAckStays
  <2> QED BY <1>2, <2>2 DEF Stays, Parted
<1>6. CASE r = Suspend(d, "writer", "Acknowledged", wrapping_add(c.next, Len(data)))
  <2>1. r.state = d.state BY <1>2, <1>6, SuspendStays
  <2> QED BY <1>2, <2>1, StaysSame
<1> QED BY <1>3, <1>4, <1>5, <1>6

\* call_shutdown.
LEMMA CallShutdownStays ==
  ASSUME NEW c, ConnInv(c), c.panic = "none", CanShutdown(c), NEW r, r = CallShutdown(c)
  PROVE  Stays(c, r)
<1> DEFINE s == [c.state EXCEPT !.close_active = TRUE]
           active == IF c.state.rx_state = "Open" THEN SetState(c, s) ELSE c
           wait == Suspend(c, "closer", "TxQueueEmpty", 0)
           half == SetState(SendAck([c EXCEPT !.tx_fin = TRUE]),
                            Established("Fin", "Open", FALSE, TRUE))
           full == SendAck([active EXCEPT !.tx_fin = TRUE])
<1>0. c \in Connections /\ Consistent(c) /\ FinLive(c) BY LiveFin
<1>1. \/ r = Clear(c) \/ r = wait
      \/ c.state.kind = "SynReceived" /\ r = half
      \/ c.state.kind = "Established" /\ c.state.tx_state = "Open" /\ r = full
  BY DEF CallShutdown, CanShutdown
<1>2. CASE r = Clear(c)
  <2>1. r.state = Closed BY <1>2, ClearAll
  <2>2. Parted(r) BY <2>1, KindOf DEF Parted
  <2> QED BY <2>2, StaysSame
<1>3. CASE r = wait
  <2>1. r.state = c.state BY <1>0, <1>3, SuspendStays
  <2> QED BY <2>1, StaysSame
<1>4. CASE c.state.kind = "SynReceived" /\ r = half BY <1>4, HalfCloseStays
<1>5. CASE c.state.kind = "Established" /\ c.state.tx_state = "Open" /\ r = full
  <2>1. /\ s \in ConnectionStates /\ s.kind = "Established" /\ s.tx_state = "Open"
        /\ s.rx_state = c.state.rx_state
    BY <1>0, <1>5, StateFields DEF ConnectionStates
  <2> HIDE DEF s
  <2>2. ~Reduces(s) /\ (AtEnd(s) <=> AtEnd(c.state)) BY <1>5, <2>1 DEF Reduces, AtEnd
  <2>3. /\ active \in Connections /\ active.state.kind = "Established" /\ Stays(c, active)
    <3>1. CASE c.state.rx_state # "Open" BY <1>0, <1>5, <3>1 DEF Stays
    <3>2. CASE c.state.rx_state = "Open"
      <4>1. active = SetState(c, s) BY <3>2
      <4>2. active = EnterState(c, s) BY <2>2, <4>1 DEF SetState, Reduces
      <4>3. active \in Connections /\ active.state = s BY <1>0, <2>1, <4>2, EnterStateAll
      <4> QED BY <1>5, <2>1, <2>2, <4>3 DEF Stays, Parted
    <3> QED BY <3>1, <3>2
  <2> HIDE DEF active
  <2> DEFINE g == [active EXCEPT !.tx_fin = TRUE]
  <2>4. g \in Connections /\ g.state = active.state BY <2>3, FinQueuedStays
  <2>5. r = SendAck(g) BY <1>5
  <2> HIDE DEF g
  <2>6. FinLive(g) BY <2>3, <2>4 DEF FinLive, Idle
  <2>7. Stays(g, r) BY <2>3, <2>4, <2>5, <2>6, SendAckStays
  <2>8. Stays(active, g) BY <2>4, StaysSame
  <2> QED BY <2>3, <2>7, <2>8, StaysTrans
<1> QED BY <1>1, <1>2, <1>3, <1>4, <1>5

\* call_close.
LEMMA CallCloseStays ==
  ASSUME NEW c, ConnInv(c), c.panic = "none", CanClose(c), NEW r, r = CallClose(c)
  PROVE  Stays(c, r)
<1> DEFINE g == [c EXCEPT !.tx_fin = TRUE]
           fin == SendAck(g)
           opened == c.state.tx_state = "Open"
           d == IF opened THEN fin ELSE c
           s == [d.state EXCEPT
                   !.close_called = TRUE,
                   !.close_active = c.state.close_active \/ c.state.rx_state = "Open"]
           e == SetState(d, s)
           half == SetState(fin, Established("Fin", "Open", TRUE, TRUE))
           wait == Suspend(c, "closer", "TxQueueEmpty", 0)
<1>0. c \in Connections /\ Consistent(c) /\ FinLive(c) BY LiveFin
<1>1. \/ r = Clear(c) \/ r = wait
      \/ c.state.kind = "SynReceived" /\ r = Suspend(half, "closer", "BothClosed", 0)
      \/ c.state.kind = "Established" /\ (r = e \/ r = Suspend(e, "closer", "BothClosed", 0))
  BY DEF CallClose, CanClose
<1>2. CASE r = Clear(c)
  <2>1. r.state = Closed BY <1>2, ClearAll
  <2>2. Parted(r) BY <2>1, KindOf DEF Parted
  <2> QED BY <2>2, StaysSame
<1>3. CASE r = wait
  <2>1. r.state = c.state BY <1>0, <1>3, SuspendStays
  <2> QED BY <2>1, StaysSame
<1>4. CASE c.state.kind = "SynReceived" /\ r = Suspend(half, "closer", "BothClosed", 0)
  <2>1. Stays(c, half) /\ half \in Connections BY <1>4, HalfCloseStays
  <2> HIDE DEF half
  <2>2. r.state = half.state BY <1>4, <2>1, SuspendStays
  <2> QED BY <2>1, <2>2, StaysSame, StaysTrans
<1>5. CASE c.state.kind = "Established" /\ (r = e \/ r = Suspend(e, "closer", "BothClosed", 0))
  <2>1. ConnInv(g) /\ g \in Connections /\ g.state = c.state /\ FinLive(g)
    <3>1. c.state.kind \notin Idle BY <1>5 DEF Idle
    <3>2. ConnInv(g) /\ g.state = c.state /\ FinLive(g) BY <3>1, FinQueued
    <3> QED BY <3>2 DEF ConnInv
  <2> HIDE DEF g
  <2>3. fin \in Connections /\ Stays(g, fin)
    <3>1. fin \in Connections BY <2>1, SendAckInv DEF ConnInv
    <3> QED BY <1>5, <2>1, <3>1, SendAckStays
  <2>4. d.state.kind = "Established" /\ d \in Connections /\ Stays(c, d)
    <3>1. fin.state.kind = "Established"
      <4>1. PICK n \in Nat, b \in BOOLEAN, seg \in SegmentMeta : AckSent(g, fin, n, b, seg)
        BY <2>1, SendAckEffect
      <4> QED BY <1>5, <2>1, <4>1 DEF AckSent, Established
    <3>2. Stays(c, fin) BY <2>1, <2>3 DEF Stays, Parted
    <3>3. Stays(c, c) BY DEF Stays
    <3> QED BY <1>0, <1>5, <2>3, <3>1, <3>2, <3>3
  <2> HIDE DEF d
  <2>5. /\ s \in ConnectionStates /\ s.kind = "Established" /\ s.rx_state = d.state.rx_state
    <3>1. d.state \in ConnectionStates BY <2>4, StateFields
    <3>2. (c.state.close_active \/ c.state.rx_state = "Open") \in BOOLEAN OBVIOUS
    <3> QED BY <2>4, <3>1, <3>2 DEF ConnectionStates
  <2> HIDE DEF s
  <2>6. (AtEnd(s) <=> AtEnd(d.state)) /\ ~Parted(d) BY <2>4, <2>5 DEF AtEnd, Parted
  <2>8. Stays(d, e) /\ e \in Connections BY <2>4, <2>5, <2>6, SetStateStays
  <2> HIDE DEF e
  <2>9. r.state = e.state BY <1>5, <2>8, SuspendStays
  <2>10. Stays(c, e) BY <2>4, <2>8, StaysTrans
  <2> QED BY <2>9, <2>10, StaysSame, StaysTrans
<1> QED BY <1>1, <1>2, <1>3, <1>4, <1>5

\* call_abort.
LEMMA CallAbortStays ==
  ASSUME NEW c, ConnInv(c), c.panic = "none", NEW r, r = CallAbort(c)
  PROVE  Stays(c, r)
<1>1. Gone(r) BY CallAbortStep
<1>2. Parted(r) BY <1>1 DEF Gone, Ended, Parted
<1> QED BY <1>2, StaysSame

\* The timers.
LEMMA OnTimeTickStays ==
  ASSUME NEW c, ConnInv(c), c.panic = "none", NEW expired, NEW r, r = OnTimeTick(c, expired)
  PROVE  Stays(c, r)
<1> DEFINE e == [c EXCEPT !.timer_re_tx = FALSE]
           f == [e EXCEPT !.timer_re_tx = TRUE]
           d == IF "re_tx" \in expired /\ c.timer_re_tx THEN OnTimerReTx(c) ELSE c
           m == MustHold(d, d.state.kind = "TimeWait", "timewait_elsewhere")
<1>0. c \in Connections /\ Consistent(c) BY LiveFin
<1>1. e \in Connections /\ e.state = c.state BY <1>0 DEF Connections
<1>2. d.state = c.state
  <2>1. CASE d = c BY <2>1
  <2>2. CASE c.timer_re_tx /\ d = OnTimerReTx(c)
    <3>1. c.state.kind \in {"Listen", "SynSent", "SynReceived", "Established", "Reset"}
      BY <1>0, <2>2, StateFields DEF Consistent, StateKind
    <3>2. d = e \/ (d = Send(f, Head(c.re_tx)) /\ c.re_tx # <<>>)
      BY <2>2, <3>1 DEF OnTimerReTx
    <3>3. f \in Connections /\ f.state = c.state BY <1>0, <1>1 DEF Connections
    <3> HIDE DEF f, e, d
    <3>4. c.re_tx \in Seq(SegmentMeta) BY <1>0 DEF Connections
    <3>5. c.re_tx # <<>> => Head(c.re_tx) \in SegmentMeta BY <3>4, HeadIn
    <3> QED BY <1>1, <3>2, <3>3, <3>5, SendAll DEF SameCore
  <2> QED BY <2>1, <2>2
<1>3. r = d \/ r = Clear(m) BY DEF OnTimeTick, OnTimerTimewait
<1> HIDE DEF d, m
<1>4. CASE r = d BY <1>2, <1>4, StaysSame
<1>5. CASE r = Clear(m)
  <2>1. r.state = Closed BY <1>5, ClearAll
  <2>2. Parted(r) BY <2>1, KindOf DEF Parted
  <2> QED BY <2>2, StaysSame
<1> QED BY <1>3, <1>4, <1>5

\* The peer's FIN, for a receiver that has not met the end.
LEMMA OnFinStays ==
  ASSUME NEW c \in Connections, ~AtEnd(c.state), NEW non_ordered, NEW r, r = OnFin(c, non_ordered)
  PROVE  Stays(c, r)
<1> DEFINE m == WakeKind(c, "Recv")
           s == IF c.state.kind = "SynReceived" THEN Established("Open", "Fin", FALSE, FALSE)
                ELSE [c.state EXCEPT !.rx_state = "Fin"]
           t == Wake(c, Callers)
<1>1. CASE c.state.kind = "TimeWait"
  <2>1. r = c \/ r = [t EXCEPT !.timer_re_tx = FALSE, !.timer_timewait = TRUE]
    BY <1>1 DEF OnFin
  <2>2. t \in Connections /\ t.state = c.state BY WakeType, WakeKeeps DEF SameCore
  <2> HIDE DEF t
  <2>3. r.state = c.state BY <2>1, <2>2 DEF Connections
  <2> QED BY <2>3, StaysSame
<1>2. CASE c.state.kind \in {"SynReceived", "Established"}
  <2>1. r = SetState(m, s) BY <1>2 DEF OnFin
  <2>2. m \in Connections /\ m.state = c.state
    BY WakeType, WakeKeeps DEF SameCore, WakeKind
  <2> HIDE DEF m
  <2>3. s \in ConnectionStates /\ s.rx_state = "Fin"
    <3>1. CASE c.state.kind = "SynReceived"
      BY <3>1, EstablishedType DEF ChannelState, Established
    <3>2. CASE c.state.kind # "SynReceived"
      BY <3>2, StateFields DEF ConnectionStates, ChannelState
    <3> QED BY <3>1, <3>2
  <2> HIDE DEF s
  <2>4. ~AtEnd(s) /\ ~AtEnd(m.state) /\ ~Parted(m) BY <1>2, <2>2, <2>3 DEF AtEnd, Parted
  <2>5. Stays(m, r) BY <2>1, <2>2, <2>3, <2>4, SetStateStays
  <2> QED BY <2>2, <2>5 DEF Stays, Parted
<1>3. CASE c.state.kind \notin {"TimeWait", "SynReceived", "Established"}
  BY <1>3, StaysSame DEF OnFin
<1> QED BY <1>1, <1>2, <1>3

\* The payload of a segment.
LEMMA OnPayloadStays ==
  ASSUME NEW c, ConnInv(c), FinLive(c), c.state.kind \notin {"SynSent", "SynReceived"},
         NEW seg \in SegmentMeta, AtEnd(c.state) => "FIN" \notin seg.flags,
         NEW non_ordered, NEW r, r = OnPayload(c, seg, non_ordered)
  PROVE  Stays(c, r)
<1> DEFINE b == RxWrite(c, seg)
           g == SendAck(b)
<1>0. c \in Connections BY DEF ConnInv
<1>1. \/ r = c \/ r = Send(c, AckSegment(c)) \/ r = AfterAck(g, seg, non_ordered)
  BY DEF OnPayload
<1>2. CASE r = c BY <1>2, StaysSame
<1>3. CASE r = Send(c, AckSegment(c))
  <2>1. AckSegment(c) \in SegmentMeta BY <1>0, AckSegmentType
  <2>2. SameCore(c, r) BY <1>0, <1>3, <2>1, SendAll
  <2> QED BY <2>2, StaysSame DEF SameCore
<1>4. CASE r = AfterAck(g, seg, non_ordered)
  <2>1. b \in Connections /\ SameCore(c, b) BY <1>0, RxWriteAll
  <2>2. ConnInv(b) BY RxWriteInv
  <2> HIDE DEF b
  <2>3. /\ FinLive(b) /\ b.state = c.state BY <2>1 DEF FinLive, SameCore
  <2>4. Stays(b, g) BY <2>1, <2>3, SendAckStays
  <2>5. g \in Connections BY <2>2, SendAckInv DEF ConnInv
  <2> HIDE DEF g
  <2>6. Stays(c, g) BY <2>3, <2>4 DEF Stays, Parted
  <2>7. Stays(g, r)
    <3>1. CASE "FIN" \notin seg.flags BY <1>4, <3>1, StaysSame DEF AfterAck
    <3>2. CASE "FIN" \in seg.flags
      <4>1. r = OnFin(g, non_ordered) BY <1>4, <3>2 DEF AfterAck
      <4>2. ~AtEnd(g.state) BY <2>6, <3>2 DEF Stays
      <4> QED BY <2>5, <4>1, <4>2, OnFinStays
    <3> QED BY <3>1, <3>2
  <2> QED BY <2>6, <2>7, StaysTrans
<1> QED BY <1>1, <1>2, <1>3, <1>4

\* A valid ACK.
LEMMA OnAckStays ==
  ASSUME NEW c \in Connections, c.state.kind \in {"TimeWait", "SynReceived", "Established"},
         NEW seg \in SegmentMeta, NEW r, r = OnAck(c, seg)
  PROVE  Stays(c, r)
<1> DEFINE d == IF c.state.kind = "SynReceived" THEN SetState(c, FULLY_OPEN) ELSE c
           e == IF c.unack # seg.ackn THEN OnNewAck(d, seg) ELSE d
           m == DebugMustHold(e, e.tx = <<>> /\ e.re_tx = <<>>, "fin_acked_early")
           s == [e.state EXCEPT !.tx_state = "Closed"]
<1>1. d \in Connections /\ Stays(c, d)
  <2>1. CASE c.state.kind = "SynReceived"
    <3>1. ~Parted(c) /\ (AtEnd(FULLY_OPEN) <=> AtEnd(c.state))
      BY <2>1, KindOf DEF Parted, AtEnd
    <3>2. d = SetState(c, FULLY_OPEN) /\ FULLY_OPEN \in ConnectionStates BY <2>1, StatesType
    <3> QED BY <3>1, <3>2, SetStateStays
  <2>2. CASE c.state.kind # "SynReceived" BY <2>2, StaysSame
  <2> QED BY <2>1, <2>2
<1> HIDE DEF d
<1>2. e \in Connections /\ e.state = d.state BY <1>1, OnNewAckQuiet
<1>3. \/ r = e
      \/ e.state.kind = "Established" /\ r = SetState(m, s)
  BY DEF OnAck, OnFinAcked, d
<1> HIDE DEF e
<1>4. Stays(e, r)
  <2>1. CASE r = e BY <2>1, StaysSame
  <2>2. CASE e.state.kind = "Established" /\ r = SetState(m, s)
    <3>1. m \in Connections /\ m.state = e.state
      <4>1. /\ (e.tx = <<>> /\ e.re_tx = <<>>) \in BOOLEAN
            /\ "fin_acked_early" \in Panics \ {"none"} /\ "fin_acked_early" \notin NeverInTimer
        BY DEF Panics, NeverInTimer
      <4> QED BY <1>2, <4>1, DebugMustHoldKeeps DEF SameCore
    <3> HIDE DEF m
    <3>2. /\ s \in ConnectionStates /\ s.kind = "Established"
          /\ s.rx_state = e.state.rx_state
      BY <1>2, <2>2, StateFields DEF ConnectionStates, ChannelState
    <3> HIDE DEF s
    <3>3. ~Parted(m) /\ (AtEnd(s) <=> AtEnd(m.state)) BY <2>2, <3>1, <3>2 DEF Parted, AtEnd
    <3>4. Stays(m, r) BY <2>2, <3>1, <3>2, <3>3, SetStateStays
    <3> QED BY <3>1, <3>4 DEF Stays, Parted
  <2> QED BY <1>3, <2>1, <2>2
<1>5. Stays(d, e) BY <1>2, StaysSame
<1>6. Stays(c, e) BY <1>1, <1>5, StaysTrans
<1> QED BY <1>4, <1>6, StaysTrans

\* A segment for TIME-WAIT, SYN-RECEIVED or ESTABLISHED: a connection that has met
\* the FIN has no window, so no segment with another FIN is acceptable.
LEMMA OnSegmentOpenStays ==
  ASSUME NEW c, ConnInv(c), c.panic = "none",
         c.state.kind \in {"TimeWait", "SynReceived", "Established"},
         Eof(c) => c.rx_fin, NEW seg \in SegmentMeta,
         "FIN" \in seg.flags => "ACK" \in seg.flags, NEW r, r = OnSegmentOpen(c, seg)
  PROVE  Stays(c, r)
<1> DEFINE win == Least(seg.window, c.congestation_window)
           d == [c EXCEPT !.tx_window = win]
           rst == Control({"RST"}, c.next, 0, curr_window(c))
           a == OnAck(d, seg)
<1>0. c \in Connections /\ Consistent(c) /\ FinLive(c) BY LiveFin
<1>2. win \in 0 .. WindowMax BY <1>0, SegmentFields DEF Least, Connections
<1> HIDE DEF win
<1>3. /\ d \in Connections /\ SameCore(c, d) /\ SameRest(c, d) /\ PanicKept(c, d)
      /\ d.panic = "none" /\ d.wait = c.wait
  BY <1>0, <1>2 DEF Connections, SameCore, SameRest, PanicKept
<1>4. ConnInv(d) /\ Quiet(c, d) /\ d.state = c.state
  BY <1>3, SameCoreInv, SameQuiet DEF SenderKept, SameCore
<1>5. r = IF ~check_segment_seq_ok(c, seg) THEN OnUnacceptable(c, seg)
          ELSE IF "RST" \in seg.flags THEN OnReset(d)
          ELSE IF "SYN" \in seg.flags THEN ToReset(Send(d, rst))
          ELSE IF "ACK" \notin seg.flags THEN AfterAck(d, seg, FALSE)
          ELSE IF ~ack_valid(c, seg) THEN d
          ELSE OnPayload(a, seg, is_non_ordered_ack(c, seg.ackn))
  BY DEF OnSegmentOpen, win
<1> HIDE DEF d
<1>6. CASE r = c \/ r = d BY <1>4, <1>6, StaysSame
<1>7. CASE r = Send(c, AckSegment(c))
  <2>1. AckSegment(c) \in SegmentMeta BY <1>0, AckSegmentType
  <2>2. SameCore(c, r) BY <1>0, <1>7, <2>1, SendAll
  <2> QED BY <2>2, StaysSame DEF SameCore
<1>8. ASSUME NEW x \in Connections, NEW s \in {Reset, Listen}, r = SetState(Clear(x), s),
             s = Listen => c.state.kind = "SynReceived"
      PROVE  Stays(c, r)
  <2>1. r.state = s BY <1>8, DropTo
  <2>2. CASE s = Reset
    <3>1. Parted(r) BY <2>1, <2>2, KindOf DEF Parted
    <3> QED BY <3>1, StaysSame
  <2>3. CASE s = Listen BY <1>8, <2>1, <2>3, KindOf DEF Stays, Parted, AtEnd
  <2> QED BY <2>2, <2>3
<1>9. CASE check_segment_seq_ok(c, seg) /\ "RST" \in seg.flags
  <2>1. r = OnReset(d) BY <1>5, <1>9
  <2>2. CASE c.state.kind = "SynReceived"
    <3>1. r = SetState(Clear(d), Listen) BY <1>4, <2>1, <2>2 DEF OnReset
    <3> QED BY <1>3, <1>8, <2>2, <3>1
  <2>3. CASE c.state.kind = "Established"
    <3>1. r = SetState(Clear(d), Reset) BY <1>4, <2>1, <2>3 DEF OnReset, ToReset
    <3>2. Reset # Listen BY KindOf
    <3> QED BY <1>3, <1>8, <3>1, <3>2
  <2>4. CASE c.state.kind = "TimeWait"
    <3>1. r = MustHold(d, FALSE, "rst_unreachable") BY <1>4, <2>1, <2>4 DEF OnReset
    <3>2. "rst_unreachable" \in Panics \ {"none"} /\ FALSE \in BOOLEAN BY DEF Panics
    <3>3. SameCore(d, MustHold(d, FALSE, "rst_unreachable")) BY <1>3, <3>2, MustHoldKeeps
    <3>4. r.state = c.state BY <1>4, <3>1, <3>3 DEF SameCore
    <3> QED BY <3>4, StaysSame
  <2> QED BY <2>2, <2>3, <2>4
<1>10. CASE check_segment_seq_ok(c, seg) /\ "RST" \notin seg.flags /\ "SYN" \in seg.flags
  <2> DEFINE f == Send(d, rst)
  <2>1. r = SetState(Clear(f), Reset) BY <1>5, <1>10 DEF ToReset
  <2>2. rst \in SegmentMeta
    BY <1>0, WindowType, SeqNFacts, EmptySegmentType DEF SegmentFlags, Connections
  <2> HIDE DEF rst
  <2>3. f \in Connections BY <1>3, <2>2, SendAll
  <2> HIDE DEF f
  <2>4. Reset # Listen BY KindOf
  <2> QED BY <1>8, <2>1, <2>3, <2>4
<1>11. CASE /\ check_segment_seq_ok(c, seg) /\ "RST" \notin seg.flags /\ "SYN" \notin seg.flags
            /\ "ACK" \notin seg.flags
  <2>1. r = d BY <1>5, <1>11 DEF AfterAck
  <2> QED BY <1>6, <2>1
<1>12. CASE /\ check_segment_seq_ok(c, seg) /\ "RST" \notin seg.flags /\ "SYN" \notin seg.flags
            /\ "ACK" \in seg.flags /\ ack_valid(c, seg)
  <2>1. r = OnPayload(a, seg, is_non_ordered_ack(c, seg.ackn)) BY <1>5, <1>12
  <2>2. ack_valid(d, seg) BY <1>3, <1>12 DEF ack_valid, SameCore
  <2>3. /\ a \in Connections /\ Quiet(d, a) /\ a.state.kind # "SynReceived"
    BY <1>3, <1>4, OnAckQuiet
  <2>4. ConnInv(a) BY <1>3, <1>4, <2>2, OnAckInv
  <2>5. Stays(d, a) BY <1>3, <1>4, OnAckStays
  <2> HIDE DEF a
  <2>6. Quiet(c, a) BY <1>4, <2>3, QuietTrans
  <2>7. KindStep(c, a) BY <2>6, QuietKeeps
  <2>8. FinLive(a) BY <1>0, <2>7, FinLiveStep
  <2>9. a.state.kind \notin {"SynSent", "SynReceived"}
    BY <2>3, <2>7 DEF KindStep, Later, Ended
  <2>10. Stays(c, a) BY <1>4, <2>5 DEF Stays, Parted
  <2>11. AtEnd(a.state) => "FIN" \notin seg.flags
    <3>1. ASSUME AtEnd(a.state) PROVE "FIN" \notin seg.flags
      <4>1. c.rx_fin BY <2>10, <3>1 DEF Stays, AtEnd, Eof
      <4>2. seq_size(seg) = 0 BY <1>12, <4>1 DEF check_segment_seq_ok, curr_window
      <4> QED BY <4>2, SizeZero
    <3> QED BY <3>1
  <2>12. Stays(a, r) BY <2>1, <2>4, <2>8, <2>9, <2>11, OnPayloadStays
  <2> QED BY <2>10, <2>12, StaysTrans
<1>13. CASE /\ check_segment_seq_ok(c, seg) /\ "RST" \notin seg.flags /\ "SYN" \notin seg.flags
            /\ "ACK" \in seg.flags /\ ~ack_valid(c, seg)
  BY <1>5, <1>6, <1>13
<1>14. CASE ~check_segment_seq_ok(c, seg)
  BY <1>5, <1>6, <1>7, <1>14 DEF OnUnacceptable
<1> QED BY <1>9, <1>10, <1>11, <1>12, <1>13, <1>14

\* on_segment.
LEMMA OnSegmentStays ==
  ASSUME NEW c, ConnInv(c), c.panic = "none", NEW isn, NEW w, NEW e, NEW n,
         RxOk(c, isn, n, w, e), NEW seg \in SegmentMeta,
         c.state.kind \notin Ended => seg \in OfStream(isn, w, e), NEW new \in SeqN,
         NEW r, r = OnSegment(c, seg, new)
  PROVE  Stays(c, r)
<1>0. c \in Connections /\ FinLive(c) BY LiveFin
<1>1. CASE c.state.kind \in Ended
  <2>1. r = OnSegmentClosed(c, seg) BY <1>1 DEF OnSegment, Ended
  <2>2. r.state = c.state BY <1>0, <2>1, OnSegmentClosedStep
  <2> QED BY <2>2, StaysSame
<1>2. CASE c.state.kind = "Listen"
  <2>1. r = OnSegmentListen(c, seg, new) BY <1>2 DEF OnSegment
  <2>2. r.state = c.state \/ r.state.kind = "SynReceived" BY <1>2, <2>1, OnSegmentListenStep
  <2> QED BY <1>2, <2>2 DEF Stays, Parted, AtEnd
<1>3. CASE c.state.kind = "SynSent"
  <2> DEFINE k == clear_re_tx_range(c, seg.ackn)
             d == [k EXCEPT !.ackd = wrapping_add(seg.seqn, 1), !.unack = seg.ackn,
                            !.tx_window = seg.window]
             g == SetState(d, FULLY_OPEN)
             rst == Control({"RST"}, seg.ackn, 0, curr_window(c))
  <2>1. r = OnSegmentSynSent(c, seg) BY <1>3 DEF OnSegment
  <2>2. r = c \/ r = Send(c, rst) \/ r = SetState(Clear(c), Reset) \/ r = d \/ r = SendAck(g)
    BY <2>1 DEF OnSegmentSynSent, ToReset
  <2>3. k \in Connections /\ Quiet(c, k) /\ SameStream(c, k) /\ k.state = c.state
    BY <1>0, SegmentFields, ClearRangeQuiet
  <2> HIDE DEF k
  <2>4. d \in Connections /\ d.state = c.state /\ d.tx_fin = k.tx_fin
    BY <1>0, <2>3, SegmentFields DEF Connections
  <2> HIDE DEF d
  <2>5. CASE r = c \/ r = d BY <2>4, <2>5, StaysSame
  <2>6. CASE r = Send(c, rst)
    <3>1. rst \in SegmentMeta
      BY <1>0, WindowType, SeqNFacts, SegmentFields, EmptySegmentType DEF SegmentFlags
    <3> HIDE DEF rst
    <3>2. SameCore(c, r) BY <1>0, <2>6, <3>1, SendAll
    <3> QED BY <3>2, StaysSame DEF SameCore
  <2>7. CASE r = SetState(Clear(c), Reset)
    <3>1. r.state = Reset BY <1>0, <2>7, DropTo
    <3>2. Parted(r) BY <3>1, KindOf DEF Parted
    <3> QED BY <3>2, StaysSame
  <2>8. CASE r = SendAck(g)
    <3>1. ~Parted(d) /\ (AtEnd(FULLY_OPEN) <=> AtEnd(d.state)) /\ ~Reduces(FULLY_OPEN)
      BY <1>3, <2>4, KindOf DEF Parted, AtEnd, Reduces
    <3>2. g \in Connections /\ Stays(d, g) /\ g.state = FULLY_OPEN
      BY <2>4, <3>1, StatesType, SetStateStays
    <3> HIDE DEF g
    <3>3. FinLive(g) /\ g.state.kind = "Established" BY <3>2, KindOf DEF FinLive, Idle
    <3>4. Stays(g, r) BY <2>8, <3>2, <3>3, SendAckStays
    <3>5. Stays(c, d) BY <2>4, StaysSame
    <3> QED BY <3>2, <3>4, <3>5, StaysTrans
  <2> QED BY <2>2, <2>5, <2>6, <2>7, <2>8
<1>4. CASE c.state.kind \in {"TimeWait", "SynReceived", "Established"}
  <2>1. r = OnSegmentOpen(c, seg) BY <1>4 DEF OnSegment
  <2>2. "FIN" \in seg.flags => "ACK" \in seg.flags BY <1>4 DEF OfStream, Ended
  <2>3. Eof(c) => c.rx_fin BY DEF RxOk, Acking, Eof
  <2> QED BY <1>4, <2>1, <2>2, <2>3, OnSegmentOpenStays
<1>5. c.state.kind \in StateKind BY <1>0, StateFields
<1> QED BY <1>1, <1>2, <1>3, <1>4, <1>5 DEF StateKind, Ended

\* call_recv meets the end of the stream with all of it read.
LEMMA CallRecvEnd ==
  ASSUME NEW c, ConnInv(c), c.panic = "none", CanRecv(c), NEW k \in Nat,
         NEW r, r = CallRecv(c, k)
  PROVE  ~Parted(c) /\ ~AtEnd(c.state) /\ (AtEnd(r.state) => r.rx = <<>>)
<1> DEFINE m == MustHold(c, ~c.done, "read_after_done")
           short == Len(c.rx) < k
           read == [m EXCEPT !.rx = SubSeq(@, Least(k, Len(@)) + 1, Len(@)),
                             !.done = short /\ c.rx_fin]
           f == MustHold(read, c.rx_fin, "short_read")
           s == [c.state EXCEPT !.rx_state = "Closed"]
<1>0. c \in Connections BY DEF ConnInv
<1>1. ~Parted(c) /\ ~AtEnd(c.state) BY DEF CanRecv, Parted, AtEnd
<1>2. c.rx \in Seq(Byte) /\ Len(c.rx) \in Nat /\ c.rx_fin \in BOOLEAN BY <1>0 DEF Connections
<1>3. m \in Connections /\ m.state = c.state /\ m.rx = c.rx
  <2>1. m \in Connections /\ SameCore(c, m) /\ SameRest(c, m)
    BY <1>0, MustHoldKeeps, MustHoldRest DEF Panics, Connections
  <2> QED BY <2>1 DEF SameCore, SameRest
<1> HIDE DEF m
<1>4. read \in Connections /\ read.state = c.state
      /\ (short => read.rx = <<>>)
  <2> DEFINE rest == SubSeq(c.rx, Least(k, Len(c.rx)) + 1, Len(c.rx))
             b == short /\ c.rx_fin
             x == [m EXCEPT !.rx = rest]
  <2>1. Least(k, Len(c.rx)) \in Nat /\ (short => Least(k, Len(c.rx)) = Len(c.rx))
    BY <1>2, LeastType DEF Least
  <2>2. rest \in Seq(Byte) BY <1>2, <2>1
  <2>3. short => rest = <<>> BY <1>2, <2>1
  <2>4. b \in BOOLEAN OBVIOUS
  <2>5. read = [m EXCEPT !.rx = rest, !.done = b] BY <1>3
  <2> HIDE DEF b, rest, read
  <2>6. x \in Connections /\ x.rx = rest /\ x.state = c.state BY <1>3, <2>2 DEF Connections
  <2>7. read = [x EXCEPT !.done = b] BY <2>5
  <2> HIDE DEF x
  <2>8. read \in Connections /\ read.rx = rest /\ read.state = c.state
    BY <2>4, <2>6, <2>7 DEF Connections
  <2> QED BY <2>3, <2>8
<1>5. \/ r = Suspend(c, "reader", "Established", 0) \/ r = Suspend(c, "reader", "Recv", k)
      \/ r = read
      \/ short /\ c.state.kind = "Established" /\ r = SetState(f, s)
  BY DEF CallRecv, m
<1> HIDE DEF read
<1>6. CASE r = Suspend(c, "reader", "Established", 0) \/ r = Suspend(c, "reader", "Recv", k)
  <2>1. r.state = c.state BY <1>0, <1>6, SuspendStays
  <2> QED BY <1>1, <2>1
<1>7. CASE r = read BY <1>1, <1>4, <1>7
<1>8. CASE short /\ c.state.kind = "Established" /\ r = SetState(f, s)
  <2>1. f \in Connections /\ f.state = c.state /\ f.rx = <<>>
    BY <1>2, <1>4, <1>8, MustHoldKeeps, MustHoldRest DEF Panics, SameCore, SameRest
  <2> HIDE DEF f
  <2>2. s \in ConnectionStates BY <1>0, StateFields DEF ConnectionStates, ChannelState
  <2> HIDE DEF s
  <2> DEFINE g == EnterState(f, s)
             t == EnterState(g, TimeWait)
  <2>3. g \in Connections /\ g.rx = <<>> BY <2>1, <2>2, EnterStateAll DEF SameRest
  <2>4. t \in Connections /\ t.state = TimeWait BY <2>3, StatesType, EnterStateAll
  <2>5. \/ r = g \/ r = Clear(g)
        \/ r = [t EXCEPT !.timer_re_tx = FALSE, !.timer_timewait = TRUE]
    BY <1>8 DEF SetState
  <2> HIDE DEF g, t
  <2>6. CASE r = g BY <1>1, <2>3, <2>6
  <2>7. CASE r = Clear(g) BY <1>1, <2>7, ClearAll
  <2>8. CASE r = [t EXCEPT !.timer_re_tx = FALSE, !.timer_timewait = TRUE]
    <3>1. r.state = TimeWait BY <2>4, <2>8 DEF Connections
    <3>2. ~AtEnd(r.state) BY <3>1 DEF AtEnd, TimeWait, Finished
    <3> QED BY <1>1, <3>2
  <2> QED BY <2>5, <2>6, <2>7, <2>8
<1> QED BY <1>5, <1>6, <1>7, <1>8
=============================================================================
