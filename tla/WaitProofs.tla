----------------------------- MODULE WaitProofs -----------------------------
(***************************************************************************)
(* Every method of a connection keeps WaitsOk: a suspended call is woken   *)
(* before what it waits for becomes impossible.                            *)
(***************************************************************************)
EXTENDS MethodProofs

\* What trigger_event does to the suspended calls: some are woken.
Woken(c, r) == \A u \in Callers : r.wait[u] = c.wait[u] \/ r.wait[u] = NoWait

\* A method that panics has panicked before it ends.
Alive(c, r) == r.panic = "none" => c.panic = "none"

\* What r asks of the calls that are suspended on c.
Fits(c, r) ==
  c.panic = "none" =>
    /\ r.state.kind \in {"TimeWait", "Reset", "Closed"} =>
         \A u \in Callers : c.wait[u] = NoWait
    /\ ~(r.state.kind = "Established" /\ r.state.rx_state = "Open") => NobodyWaits(c, "Recv")
    /\ r.tx_fin => NobodyWaits(c, "Acknowledged")

\* A call that is not suspended waits for nothing.
LEMMA NoWaitKind == NoWait.kind = "None"
BY DEF NoWait

\* Waking calls keeps WaitsOk.
LEMMA WokenInto ==
  ASSUME NEW c, WaitsOk(c), NEW r, Woken(c, r), Alive(c, r), Fits(c, r)
  PROVE  WaitsOk(r)
<1> SUFFICES ASSUME r.panic = "none"
             PROVE  /\ \A u \in Callers : r.wait[u].kind = "None" => r.wait[u] = NoWait
                    /\ r.state.kind \in {"TimeWait", "Reset", "Closed"} =>
                         \A u \in Callers : r.wait[u] = NoWait
                    /\ ~(r.state.kind = "Established" /\ r.state.rx_state = "Open")
                         => NobodyWaits(r, "Recv")
                    /\ r.tx_fin => NobodyWaits(r, "Acknowledged")
  BY DEF WaitsOk
<1>1. c.panic = "none" BY DEF Alive
<1>2. \A u \in Callers : r.wait[u].kind = "None" => r.wait[u] = NoWait
  BY <1>1 DEF WaitsOk, Woken
<1>3. r.state.kind \in {"TimeWait", "Reset", "Closed"} =>
        \A u \in Callers : r.wait[u] = NoWait
  BY <1>1 DEF Fits, Woken
<1>4. ~(r.state.kind = "Established" /\ r.state.rx_state = "Open") => NobodyWaits(r, "Recv")
  BY <1>1, NoWaitKind DEF Fits, Woken, NobodyWaits
<1>5. r.tx_fin => NobodyWaits(r, "Acknowledged")
  BY <1>1, NoWaitKind DEF Fits, Woken, NobodyWaits
<1> QED BY <1>2, <1>3, <1>4, <1>5

\* A method that leaves the state and the FIN mark.
LEMMA SameWaits ==
  ASSUME NEW c, WaitsOk(c), NEW r, r.wait = c.wait \/ Woken(c, r), Alive(c, r),
         r.state = c.state, r.tx_fin = c.tx_fin
  PROVE  WaitsOk(r)
<1>1. Woken(c, r) BY DEF Woken
<1>2. Fits(c, r) BY DEF Fits, WaitsOk
<1> QED BY <1>1, <1>2, WokenInto

\* Waking again.
LEMMA WokenTrans ==
  ASSUME NEW c, NEW d, NEW r, Woken(c, d), Woken(d, r)
  PROVE  Woken(c, r)
BY DEF Woken

\* trigger_event
LEMMA WakeWoken ==
  ASSUME NEW c \in Connections, NEW who, NEW r, r = Wake(c, who)
  PROVE  /\ r \in Connections /\ Woken(c, r) /\ Alive(c, r)
         /\ r.state = c.state /\ r.tx_fin = c.tx_fin /\ r.panic = c.panic
         /\ \A u \in Callers : u \in who => r.wait[u] = NoWait
<1>1. r \in Connections /\ SameCore(c, r) /\ r.panic = c.panic BY WakeKeeps
<1>2. r.wait = [u \in Callers |-> IF u \in who THEN NoWait ELSE c.wait[u]]
  BY DEF Wake, Connections
<1>3. Woken(c, r) /\ \A u \in Callers : u \in who => r.wait[u] = NoWait BY <1>2 DEF Woken
<1> QED BY <1>1, <1>3 DEF SameCore, Alive

\* The calls that wait for one condition.
LEMMA WakeKindWoken ==
  ASSUME NEW c \in Connections, NEW kind \in WaitKind, NEW r, r = WakeKind(c, kind)
  PROVE  /\ r \in Connections /\ Woken(c, r) /\ Alive(c, r)
         /\ r.state = c.state /\ r.tx_fin = c.tx_fin /\ r.panic = c.panic
         /\ NobodyWaits(r, kind)
<1> DEFINE who == {u \in Callers : c.wait[u].kind = kind}
<1>1. r = Wake(c, who) BY DEF WakeKind
<1>2. kind # "None" BY DEF WaitKind
<1>3. /\ r \in Connections /\ Woken(c, r) /\ Alive(c, r)
      /\ r.state = c.state /\ r.tx_fin = c.tx_fin /\ r.panic = c.panic
      /\ \A u \in Callers : u \in who => r.wait[u] = NoWait
  <2> HIDE DEF who
  <2> QED BY <1>1, WakeWoken
<1>4. NobodyWaits(r, kind) BY <1>2, <1>3, NoWaitKind DEF NobodyWaits, Woken
<1> QED BY <1>3, <1>4

\* assert! and debug_assert!
LEMMA MustHoldWaits ==
  ASSUME NEW c \in Connections, NEW holds, NEW what \in Panics \ {"none"},
         NEW r, r = MustHold(c, holds, what) \/ r = DebugMustHold(c, holds, what)
  PROVE  /\ r \in Connections /\ r.wait = c.wait /\ Woken(c, r) /\ Alive(c, r)
         /\ r.state = c.state /\ r.tx_fin = c.tx_fin
<1>1. r = c \/ r = [c EXCEPT !.panic = what] BY DEF MustHold, DebugMustHold
<1>2. CASE r = c BY <1>2 DEF Alive, Woken
<1>3. CASE r = [c EXCEPT !.panic = what] BY <1>3 DEF Connections, Alive, Woken
<1> QED BY <1>1, <1>2, <1>3

\* user_data.send
LEMMA SendWaits ==
  ASSUME NEW c \in Connections, NEW seg \in SegmentMeta, NEW r, r = Send(c, seg)
  PROVE  /\ r \in Connections /\ r.wait = c.wait /\ Woken(c, r) /\ Alive(c, r)
         /\ r.state = c.state /\ r.tx_fin = c.tx_fin /\ r.panic = c.panic
<1>1. /\ r \in Connections /\ SameCore(c, r) /\ r.wait = c.wait /\ r.panic = c.panic
  BY SendKeeps
<1> QED BY <1>1 DEF SameCore, Alive, Woken

\* return_retry_after and return_continue_after
LEMMA SuspendWaits ==
  ASSUME NEW c \in Connections, WaitsOk(c), NEW u \in Callers, NEW kind \in WaitKind,
         NEW arg \in Nat,
         c.panic = "none" =>
           /\ c.state.kind \notin {"TimeWait", "Reset", "Closed"}
           /\ kind = "Recv" => c.state.kind = "Established" /\ c.state.rx_state = "Open"
           /\ kind = "Acknowledged" => ~c.tx_fin,
         NEW r, r = Suspend(c, u, kind, arg)
  PROVE  WaitsOk(r)
<1>1. /\ r \in Connections /\ r.state = c.state /\ r.tx_fin = c.tx_fin /\ r.panic = c.panic
      /\ r.wait = [c.wait EXCEPT ![u] = WaitFor(kind, arg)]
  <2>1. SameCore(c, r) /\ r \in Connections BY SuspendKeeps
  <2>2. r.panic = c.panic /\ r.wait = [c.wait EXCEPT ![u] = WaitFor(kind, arg)]
    BY DEF Suspend, Connections
  <2> QED BY <2>1, <2>2 DEF SameCore
<1>2. c.wait \in [Callers -> WaitUntil] BY DEF Connections
<1>3. WaitFor(kind, arg).kind = kind /\ kind # "None" BY DEF WaitFor, WaitKind
<1>4. \A v \in Callers : r.wait[v] = IF v = u THEN WaitFor(kind, arg) ELSE c.wait[v]
  BY <1>1, <1>2
<1> SUFFICES ASSUME c.panic = "none"
             PROVE  /\ \A v \in Callers : r.wait[v].kind = "None" => r.wait[v] = NoWait
                    /\ ~(r.state.kind = "Established" /\ r.state.rx_state = "Open")
                         => NobodyWaits(r, "Recv")
                    /\ r.tx_fin => NobodyWaits(r, "Acknowledged")
  BY <1>1 DEF WaitsOk
<1>5. \A v \in Callers : r.wait[v].kind = "None" => r.wait[v] = NoWait
  BY <1>3, <1>4 DEF WaitsOk
<1>6. ASSUME NEW k, k # kind, NobodyWaits(c, k) PROVE NobodyWaits(r, k)
  BY <1>3, <1>4, <1>6 DEF NobodyWaits
<1>7. ~(r.state.kind = "Established" /\ r.state.rx_state = "Open") => NobodyWaits(r, "Recv")
  BY <1>1, <1>6 DEF WaitsOk
<1>8. r.tx_fin => NobodyWaits(r, "Acknowledged") BY <1>1, <1>6 DEF WaitsOk
<1> QED BY <1>5, <1>7, <1>8

\* clear() drops every suspended call with an error.
LEMMA ClearWaits ==
  ASSUME NEW c, NEW r, r = Clear(c)
  PROVE  WaitsOk(r) /\ \A u \in Callers : r.wait[u] = NoWait
<1>1. r.wait = [u \in Callers |-> NoWait] /\ r.tx_fin = FALSE BY ONLY r = Clear(c) DEF Clear, New
<1> QED BY <1>1, NoWaitKind DEF WaitsOk, NobodyWaits

-----------------------------------------------------------------------------
\* set_state, the triggers.
LEMMA EnterWaits ==
  ASSUME NEW c \in Connections, NEW s \in ConnectionStates, NEW d, d = EnterState(c, s)
  PROVE  /\ d \in Connections /\ Woken(c, d) /\ Alive(c, d)
         /\ d.state = s /\ d.tx_fin = c.tx_fin
         /\ \A u \in Callers : c.wait[u].kind \in Reached(s) => d.wait[u] = NoWait
<1> DEFINE m == DebugMustHold(c, ValidTransition(c.state, s), "transition")
           f == [m EXCEPT !.state = s]
           who == {u \in Callers : c.wait[u].kind \in Reached(s)}
<1>1. m \in Connections /\ m.wait = c.wait /\ Alive(c, m)
  <2>1. "transition" \in Panics \ {"none"} BY DEF Panics
  <2> QED BY <2>1, MustHoldWaits
<1> HIDE DEF m
<1>2. f \in Connections /\ f.wait = c.wait /\ f.panic = m.panic BY <1>1 DEF Connections
<1>3. d = Wake(f, who) BY DEF EnterState, m
<1> HIDE DEF f, who
<1>4. Woken(f, d) /\ Alive(f, d) /\ \A u \in Callers : u \in who => d.wait[u] = NoWait
  BY <1>2, <1>3, WakeWoken
<1>5. d \in Connections /\ d.state = s /\ d.tx_fin = c.tx_fin BY EnterStateFields
<1>6. Woken(c, d) /\ Alive(c, d) BY <1>1, <1>2, <1>4 DEF Woken, Alive
<1> QED BY <1>4, <1>5, <1>6 DEF who

\* set_state wakes whoever could wait for ever: in TIME-WAIT nobody is left.
LEMMA SetStateWaits ==
  ASSUME NEW c \in Connections, WaitsOk(c), NEW s \in ConnectionStates,
         c.panic = "none" =>
           /\ s.kind \in {"TimeWait", "Reset", "Closed"} => \A u \in Callers : c.wait[u] = NoWait
           /\ ~(s.kind = "Established" /\ s.rx_state = "Open") => NobodyWaits(c, "Recv")
           /\ Reduces(s) => c.tx_fin,
         NEW r, r = SetState(c, s)
  PROVE  /\ WaitsOk(r) /\ Alive(c, r) /\ r \in Connections
         /\ ~Reduces(s) => Woken(c, r) /\ r.state = s /\ r.tx_fin = c.tx_fin
<1> DEFINE d == EnterState(c, s)
           e == EnterState(d, TimeWait)
           t == [e EXCEPT !.timer_re_tx = FALSE, !.timer_timewait = TRUE]
<1>1. /\ d \in Connections /\ Woken(c, d) /\ Alive(c, d)
      /\ d.state = s /\ d.tx_fin = c.tx_fin
      /\ \A u \in Callers : c.wait[u].kind \in Reached(s) => d.wait[u] = NoWait
  BY EnterWaits
<1> HIDE DEF d
<1>2. WaitsOk(d)
  <2>1. Fits(c, d) BY <1>1 DEF Fits, WaitsOk
  <2> QED BY <1>1, <2>1, WokenInto
<1>3. CASE ~Reduces(s)
  <2>1. r = d BY <1>3 DEF SetState, Reduces, d
  <2> QED BY <1>1, <1>2, <1>3, <2>1
<1>4. CASE Reduces(s) /\ s.close_active
  <2>1. r = t BY <1>4 DEF SetState, Reduces, d
  <2>2. /\ e \in Connections /\ Woken(d, e) /\ Alive(d, e) /\ e.state = TimeWait
        /\ e.tx_fin = d.tx_fin
    BY <1>1, StatesType, EnterWaits
  <2> HIDE DEF e
  <2>3. t \in Connections /\ t.wait = e.wait /\ t.panic = e.panic
        /\ t.state = e.state /\ t.tx_fin = e.tx_fin
    BY <2>2 DEF Connections
  <2>4. ASSUME d.panic = "none", NEW u \in Callers PROVE d.wait[u] = NoWait
    <3>1. c.panic = "none" BY <1>1, <2>4 DEF Alive
    <3>2. s.kind = "Established" /\ s.tx_state = "Closed" /\ s.rx_state = "Closed"
      BY <1>4 DEF Reduces
    <3>3. Reached(s) = {"TxQueueEmpty", "Established", "TxClosed", "RxClosed", "BothClosed"}
      BY <3>2 DEF Reached, output_buffer_guaranteed_clear
    <3>4. c.wait[u].kind # "Recv" /\ c.wait[u].kind # "Acknowledged"
      BY <1>4, <3>1, <3>2 DEF WaitsOk, NobodyWaits
    <3>5. c.wait[u].kind \in WaitKind \cup {"None"} BY DEF Connections, WaitUntil
    <3>6. c.wait[u].kind = "None" => c.wait[u] = NoWait BY <3>1 DEF WaitsOk
    <3> QED BY <1>1, <3>3, <3>4, <3>5, <3>6 DEF WaitKind, Woken
  <2>5. Woken(d, t) /\ Alive(d, t) BY <2>2, <2>3 DEF Woken, Alive
  <2>6. Fits(d, t) BY <2>4, NoWaitKind DEF Fits, NobodyWaits
  <2> HIDE DEF t
  <2>7. WaitsOk(t) BY <1>2, <2>5, <2>6, WokenInto
  <2> QED BY <1>1, <1>4, <2>1, <2>3, <2>5, <2>7 DEF Alive
<1>5. CASE Reduces(s) /\ ~s.close_active
  <2>1. r = Clear(d) BY <1>5 DEF SetState, Reduces, d
  <2>2. r.panic = d.panic /\ r \in Connections
    BY <1>1, <2>1, ClearType DEF Clear, New
  <2> QED BY <1>1, <1>5, <2>1, <2>2, ClearWaits DEF Alive
<1> QED BY <1>3, <1>4, <1>5

\* send_ack: it may queue the FIN, but no state in which a sender or reader waits in vain.
LEMMA SendAckWaits ==
  ASSUME NEW c, ConnInv(c), WaitsOk(c), NEW r, r = SendAck(c)
  PROVE  /\ WaitsOk(r) /\ Woken(c, r) /\ Alive(c, r) /\ r.tx_fin = c.tx_fin
         /\ r \in Connections
         /\ \/ r.state = c.state
            \/ r.state = Established("Fin", c.state.rx_state, c.state.close_called,
                                     c.state.close_active)
<1> DEFINE limit == Least(MAX_SEGMENT_SIZE, space_available(c))
           n == Least(limit, Len(c.tx))
           data == SubSeq(c.tx, 1, n)
           read == [c EXCEPT !.tx = SubSeq(@, n + 1, Len(@))]
           woken == IF limit # 0 /\ data = <<>> /\ ~AnyAcknowledged(c)
                    THEN WakeKind(read, "TxQueueEmpty") ELSE read
           check1 == DebugMustHold(woken, c.state.kind # "Closed", "fin_sent_in_closed")
           checked == DebugMustHold(check1, fin_sent(c.state) => data = <<>>, "data_after_fin")
           fin == c.tx_fin /\ n < limit /\ ~fin_sent(c.state)
           s == Established("Fin", c.state.rx_state, c.state.close_called,
                            c.state.close_active)
           d == IF fin THEN SetState(checked, s) ELSE checked
           seg == [AckSegment(d) EXCEPT !.flags = IF fin THEN {"FIN", "ACK"} ELSE {"ACK"},
                                        !.data = data]
           sent == Send(OnSend(d, seg), seg)
           f == [sent EXCEPT !.timer_re_tx = @ \/ seq_size(seg) # 0]
<1>0. c \in Connections BY DEF ConnInv
<1>1. c.tx \in Seq(Byte) /\ Len(c.tx) \in Nat BY <1>0 DEF Connections
<1>2. n \in Nat /\ n <= Len(c.tx) /\ n <= MAX_SEGMENT_SIZE
  <2>1. space_available(c) \in Nat BY <1>0, SpaceType, SeqNFacts
  <2>2. limit \in Nat /\ limit <= MAX_SEGMENT_SIZE
    BY <2>1, LeastType, ConnectionAssumption
  <2> HIDE DEF limit
  <2>3. n \in Nat /\ n <= limit /\ n <= Len(c.tx) BY <1>1, <2>2, LeastType
  <2> HIDE DEF n
  <2> QED BY <1>1, <2>2, <2>3, ConnectionAssumption
<1>3. r = d \/ r = f BY DEF SendAck
<1> HIDE DEF n
<1>4. data \in Payload /\ SubSeq(c.tx, n + 1, Len(c.tx)) \in Seq(Byte)
  BY <1>1, <1>2, PrefixType
<1>5. /\ read \in Connections /\ read.state = c.state /\ read.tx_fin = c.tx_fin
      /\ read.wait = c.wait /\ read.panic = c.panic
  BY <1>0, <1>4 DEF Connections
<1> HIDE DEF read, data, limit
<1>6. /\ woken \in Connections /\ Woken(c, woken) /\ Alive(c, woken)
      /\ woken.state = c.state /\ woken.tx_fin = c.tx_fin
  <2>1. CASE woken = read BY <1>5, <2>1 DEF Woken, Alive
  <2>2. CASE woken = WakeKind(read, "TxQueueEmpty")
    <3>1. /\ woken \in Connections /\ Woken(read, woken) /\ Alive(read, woken)
          /\ woken.state = read.state /\ woken.tx_fin = read.tx_fin
      BY <1>5, <2>2, WakeKindWoken DEF WaitKind
    <3> QED BY <1>5, <3>1 DEF Woken, Alive
  <2> QED BY <2>1, <2>2
<1> HIDE DEF woken
<1>7. /\ checked \in Connections /\ Woken(c, checked) /\ Alive(c, checked)
      /\ checked.state = c.state /\ checked.tx_fin = c.tx_fin
  <2>1. /\ check1 \in Connections /\ check1.wait = woken.wait /\ Alive(woken, check1)
        /\ check1.state = woken.state /\ check1.tx_fin = woken.tx_fin
    <3>1. "fin_sent_in_closed" \in Panics \ {"none"} BY DEF Panics
    <3> QED BY <1>6, <3>1, MustHoldWaits
  <2> HIDE DEF check1
  <2>2. /\ checked \in Connections /\ checked.wait = check1.wait /\ Alive(check1, checked)
        /\ checked.state = check1.state /\ checked.tx_fin = check1.tx_fin
    <3>1. "data_after_fin" \in Panics \ {"none"} BY DEF Panics
    <3> QED BY <2>1, <3>1, MustHoldWaits
  <2> QED BY <1>6, <2>1, <2>2 DEF Woken, Alive
<1> HIDE DEF checked
<1>8. WaitsOk(checked) BY <1>7, SameWaits
<1>9. s \in ConnectionStates /\ s.kind = "Established" /\ s.tx_state = "Fin"
      /\ s.rx_state = c.state.rx_state
  <2>1. s \in ConnectionStates BY <1>0, StateFields, EstablishedType DEF ChannelState
  <2> QED BY <2>1 DEF Established
<1> HIDE DEF s
<1>10. /\ d \in Connections /\ WaitsOk(d) /\ Woken(c, d) /\ Alive(c, d)
       /\ d.tx_fin = c.tx_fin /\ (d.state = c.state \/ d.state = s)
  <2>1. CASE ~fin BY <1>7, <1>8, <2>1
  <2>2. CASE fin
    <3>1. ~Reduces(s) BY <1>9 DEF Reduces
    <3>2. checked.panic = "none" /\ s.rx_state # "Open" => NobodyWaits(checked, "Recv")
      BY <1>7, <1>8, <1>9 DEF WaitsOk
    <3>3. /\ WaitsOk(d) /\ Alive(checked, d) /\ d \in Connections
          /\ Woken(checked, d) /\ d.state = s /\ d.tx_fin = checked.tx_fin
      BY <1>7, <1>8, <1>9, <2>2, <3>1, <3>2, SetStateWaits
    <3> QED BY <1>7, <3>3, WokenTrans DEF Alive
  <2> QED BY <2>1, <2>2
<1> HIDE DEF d
<1>11. seg \in SegmentMeta
  <2>1. AckSegment(d) \in SegmentMeta BY <1>10, AckSegmentType
  <2> HIDE DEF fin
  <2> QED BY <2>1, <1>4 DEF SegmentMeta, SegmentFlags
<1> HIDE DEF seg
<1>12. /\ f \in Connections /\ f.wait = d.wait /\ f.panic = d.panic
       /\ f.state = d.state /\ f.tx_fin = d.tx_fin
  <2> DEFINE o == OnSend(d, seg)
  <2>1. o \in Connections BY <1>10, <1>11, OnSendType
  <2>2. /\ o.wait = d.wait /\ o.panic = d.panic /\ o.state = d.state
        /\ o.tx_fin = d.tx_fin
    BY <1>10 DEF OnSend, Connections
  <2> HIDE DEF o
  <2>3. /\ sent \in Connections /\ sent.wait = o.wait /\ sent.panic = o.panic
        /\ sent.state = o.state /\ sent.tx_fin = o.tx_fin
    BY <1>11, <2>1, SendWaits DEF o
  <2> HIDE DEF sent
  <2>4. /\ f \in Connections /\ f.wait = sent.wait /\ f.panic = sent.panic
        /\ f.state = sent.state /\ f.tx_fin = sent.tx_fin
    <3>1. (sent.timer_re_tx \/ seq_size(seg) # 0) \in BOOLEAN OBVIOUS
    <3> QED BY <2>3, <3>1, ZenonT(40) DEF Connections
  <2> QED BY <2>2, <2>3, <2>4
<1> HIDE DEF f
<1>13. /\ WaitsOk(f) /\ Woken(c, f) /\ Alive(c, f) /\ f.tx_fin = c.tx_fin
       /\ f.state = c.state \/ f.state = s
  <2>1. Alive(d, f) BY <1>12 DEF Alive
  <2>2. WaitsOk(f) BY <1>10, <1>12, <2>1, SameWaits
  <2> QED BY <1>10, <1>12, <2>2 DEF Woken, Alive
<1> QED BY <1>3, <1>10, <1>12, <1>13 DEF s

-----------------------------------------------------------------------------
(* The calls of the application.                                             *)

\* The FIN mark is set only when no sender is suspended.
LEMMA FinQueuedWaits ==
  ASSUME NEW c \in Connections, WaitsOk(c), c.panic = "none" => NobodyWaits(c, "Acknowledged"),
         NEW r, r = [c EXCEPT !.tx_fin = TRUE]
  PROVE  WaitsOk(r) /\ r.wait = c.wait /\ Alive(c, r) /\ r.state = c.state
<1>1. r.wait = c.wait /\ r.panic = c.panic /\ r.state = c.state BY DEF Connections
<1>2. Woken(c, r) /\ Alive(c, r) BY <1>1 DEF Woken, Alive
<1>3. Fits(c, r) BY <1>1 DEF Fits, WaitsOk
<1> QED BY <1>1, <1>2, <1>3, WokenInto

\* No sender is suspended.
LEMMA NoSenders ==
  ASSUME NEW c, ~AnyAcknowledged(c) PROVE NobodyWaits(c, "Acknowledged")
BY DEF AnyAcknowledged, NobodyWaits

\* call_connect
LEMMA CallConnectWaits ==
  ASSUME NEW c, ConnInv(c), WaitsOk(c), CanConnect(c), NEW isn \in SeqN,
         NEW r, r = CallConnect(c, isn)
  PROVE  WaitsOk(r)
<1> DEFINE b == SetState(c, SynSent)
           d == [b EXCEPT !.init_seqn = isn, !.unack = isn, !.next = isn]
           syn == Control({"SYN"}, isn, 0, curr_window(d))
           g == Send(d, syn)
           o == OnSend(g, syn)
           e == [o EXCEPT !.timer_re_tx = TRUE]
<1>0. c \in Connections BY DEF ConnInv
<1>1. /\ WaitsOk(b) /\ b \in Connections /\ b.state = SynSent
  <2>1. SynSent \in ConnectionStates /\ SynSent.kind = "SynSent" /\ ~Reduces(SynSent)
    BY StatesType, KindOf DEF Reduces
  <2>2. c.panic = "none" => NobodyWaits(c, "Recv") BY DEF WaitsOk, CanConnect
  <2> QED BY <1>0, <2>1, <2>2, SetStateWaits
<1> HIDE DEF b
<1>2. /\ d \in Connections /\ d.wait = b.wait /\ d.panic = b.panic
      /\ d.state = b.state /\ d.tx_fin = b.tx_fin
  BY <1>1 DEF Connections
<1> HIDE DEF d
<1>3. syn \in SegmentMeta
  BY <1>2, WindowType, SeqNFacts, EmptySegmentType DEF SegmentFlags
<1> HIDE DEF syn
<1>4. /\ g \in Connections /\ g.wait = d.wait /\ g.panic = d.panic
      /\ g.state = d.state /\ g.tx_fin = d.tx_fin
  BY <1>2, <1>3, SendWaits
<1> HIDE DEF g
<1>5. /\ o \in Connections /\ o.wait = g.wait /\ o.panic = g.panic
      /\ o.state = g.state /\ o.tx_fin = g.tx_fin
  <2>1. o \in Connections BY <1>3, <1>4, OnSendType
  <2> QED BY <1>4, <2>1 DEF OnSend, Connections
<1> HIDE DEF o
<1>6. /\ e \in Connections /\ e.wait = o.wait /\ e.panic = o.panic
      /\ e.state = o.state /\ e.tx_fin = o.tx_fin
  BY <1>5 DEF Connections
<1>7. r = Suspend(e, "opener", "Established", 0) BY DEF CallConnect, e, o, g, syn, d, b
<1> HIDE DEF e
<1>8. WaitsOk(e) BY <1>1, <1>2, <1>4, <1>5, <1>6, SameWaits DEF Alive
<1>9. e.state.kind = "SynSent" BY <1>1, <1>2, <1>4, <1>5, <1>6, KindOf
<1> QED BY <1>6, <1>7, <1>8, <1>9, SuspendWaits DEF Callers, WaitKind

\* call_send
LEMMA CallSendWaits ==
  ASSUME NEW c, ConnInv(c), WaitsOk(c), c.panic = "none", CanSend(c), NEW data \in Payload,
         NEW r, r = CallSend(c, data)
  PROVE  WaitsOk(r)
<1> DEFINE open == DebugMustHold(c, c.state.tx_state = "Open", "send_after_fin")
           m == MustHold(open, ~c.tx_fin, "send_after_fin")
           d == [m EXCEPT !.tx = @ \o data]
           arg == wrapping_add(c.next, Len(data))
<1>0. c \in Connections /\ "send_after_fin" \in Panics \ {"none"} BY DEF ConnInv, Panics
<1>1. /\ open \in Connections /\ open.wait = c.wait /\ Alive(c, open)
      /\ open.state = c.state /\ open.tx_fin = c.tx_fin
  BY <1>0, MustHoldWaits
<1> HIDE DEF open
<1>2. /\ m \in Connections /\ m.wait = open.wait /\ Alive(open, m)
      /\ m.state = open.state /\ m.tx_fin = open.tx_fin
  BY <1>0, <1>1, MustHoldWaits
<1>3. m.panic = "none" => ~c.tx_fin BY <1>0, <1>1 DEF MustHold, Connections
<1> HIDE DEF m
<1>4. m.tx \o data \in Seq(Byte) BY <1>2 DEF Connections, Payload
<1>5. /\ d \in Connections /\ d.wait = m.wait /\ d.panic = m.panic
      /\ d.state = m.state /\ d.tx_fin = m.tx_fin
  BY <1>2, <1>4 DEF Connections
<1> HIDE DEF d
<1>6. WaitsOk(d)
  <2>1. Alive(c, d) BY <1>1, <1>2, <1>5 DEF Alive
  <2> QED BY <1>1, <1>2, <1>5, <2>1, SameWaits
<1>7. CASE c.state.kind # "Established"
  <2>1. arg \in Nat
    <3>1. Len(data) \in Nat /\ Len(data) + 2 < SeqSpace BY DEF Payload
    <3>2. Len(data) \in SeqN BY <3>1, SegmentAssumption DEF SeqN
    <3> QED BY <1>0, <3>2, WrapType, SeqNFacts DEF Connections
  <2> HIDE DEF arg
  <2>2. r = Suspend(d, "writer", "Acknowledged", arg)
    BY <1>7 DEF CallSend, d, m, open, arg
  <2>3. d.state.kind \notin {"TimeWait", "Reset", "Closed"} BY <1>1, <1>2, <1>5 DEF CanSend
  <2>4. d.panic = "none" => ~d.tx_fin BY <1>1, <1>2, <1>3, <1>5
  <2>5. "writer" \in Callers /\ "Acknowledged" \in WaitKind BY DEF Callers, WaitKind
  <2> QED BY <1>5, <1>6, <2>1, <2>2, <2>3, <2>4, <2>5, SuspendWaits
<1>8. CASE c.state.kind = "Established"
  <2>1. r = d \/ r = SendAck(d) BY <1>8 DEF CallSend, d, m, open
  <2>2. ConnInv(d)
    <3>1. /\ SameCore(c, open) /\ PanicKept(c, open)
      BY <1>0, DebugMustHoldKeeps DEF Panics, NeverInTimer, open
    <3>2. SameCore(open, m) /\ PanicKept(open, m)
      BY <1>1, <3>1, MustHoldKeeps DEF Panics, NeverInTimer, m
    <3>3. /\ d.re_tx = m.re_tx /\ d.next = m.next /\ d.unack = m.unack
          /\ d.timer_re_tx = m.timer_re_tx /\ d.timer_timewait = m.timer_timewait
      BY <1>2, <1>4 DEF d, Connections
    <3>4. d.panic \notin NeverInTimer BY <1>5, <3>1, <3>2 DEF PanicKept, ConnInv
    <3>5. ASSUME d.panic = "none" PROVE Consistent(d)
      <4>1. ~c.tx_fin /\ Consistent(c) BY <1>3, <1>5, <3>5 DEF ConnInv
      <4>2. ~fin_sent(c.state) BY <4>1 DEF Consistent
      <4>3. /\ d.state = c.state /\ d.tx_fin = c.tx_fin /\ d.re_tx = c.re_tx
            /\ d.next = c.next /\ d.unack = c.unack /\ d.timer_re_tx = c.timer_re_tx
            /\ d.timer_timewait = c.timer_timewait
        BY <1>5, <3>1, <3>2, <3>3 DEF SameCore
      <4> QED BY <1>8, <4>1, <4>2, <4>3 DEF Consistent, Idle
    <3> QED BY <1>5, <3>4, <3>5 DEF ConnInv
  <2> QED BY <1>6, <2>1, <2>2, SendAckWaits
<1> QED BY <1>7, <1>8

\* call_recv: a reader is suspended only where data can still come.
LEMMA CallRecvWaits ==
  ASSUME NEW c, ConnInv(c), WaitsOk(c), c.panic = "none", CanRecv(c), NEW n \in Nat,
         NEW r, r = CallRecv(c, n)
  PROVE  WaitsOk(r)
<1> DEFINE short == Len(c.rx) < n
           m == MustHold(c, ~c.done, "read_after_done")
           read == [m EXCEPT !.rx = SubSeq(@, Least(n, Len(@)) + 1, Len(@)),
                             !.done = short /\ c.rx_fin]
           checked == MustHold(read, c.rx_fin, "short_read")
           s == [c.state EXCEPT !.rx_state = "Closed"]
<1>0. c \in Connections /\ Consistent(c) BY DEF ConnInv
<1>1. /\ m \in Connections /\ m.wait = c.wait /\ Alive(c, m)
      /\ m.state = c.state /\ m.tx_fin = c.tx_fin
  <2>1. "read_after_done" \in Panics \ {"none"} BY DEF Panics
  <2> QED BY <1>0, <2>1, MustHoldWaits
<1> HIDE DEF m
<1>2. SubSeq(m.rx, Least(n, Len(m.rx)) + 1, Len(m.rx)) \in Seq(Byte)
  <2>1. m.rx \in Seq(Byte) /\ Len(m.rx) \in Nat BY <1>1 DEF Connections
  <2>2. Least(n, Len(m.rx)) \in Nat BY <2>1, LeastType
  <2> QED BY <2>1, <2>2
<1>3. (short /\ c.rx_fin) \in BOOLEAN OBVIOUS
<1>4. /\ read \in Connections /\ read.wait = m.wait /\ read.panic = m.panic
      /\ read.state = m.state /\ read.tx_fin = m.tx_fin
  BY <1>1, <1>2, <1>3 DEF Connections
<1> HIDE DEF read
<1>5. /\ checked \in Connections /\ checked.wait = read.wait /\ Alive(read, checked)
      /\ checked.state = read.state /\ checked.tx_fin = read.tx_fin
  <2>1. "short_read" \in Panics \ {"none"} BY DEF Panics
  <2> QED BY <1>4, <2>1, MustHoldWaits
<1> HIDE DEF checked
<1>6. WaitsOk(read) /\ WaitsOk(checked)
  <2>1. Alive(c, read) /\ Alive(c, checked) BY <1>1, <1>4, <1>5 DEF Alive
  <2> QED BY <1>1, <1>4, <1>5, <2>1, SameWaits
<1>7. /\ s \in ConnectionStates /\ s.kind = c.state.kind /\ s.rx_state = "Closed"
      /\ s.tx_state = c.state.tx_state
  BY <1>0, StateFields DEF ConnectionStates, ChannelState
<1>8. CASE c.state.kind # "Established"
  <2>1. r = Suspend(c, "reader", "Established", 0) BY <1>8 DEF CallRecv
  <2>2. c.state.kind \notin {"TimeWait", "Reset", "Closed"} BY <1>8 DEF CanRecv
  <2> QED BY <1>0, <2>1, <2>2, SuspendWaits DEF Callers, WaitKind
<1>9. CASE c.state.kind = "Established" /\ r = Suspend(c, "reader", "Recv", n)
           /\ c.state.rx_state = "Open"
  BY <1>0, <1>9, SuspendWaits DEF Callers, WaitKind
<1>10. CASE c.state.kind = "Established" /\ c.state.rx_state # "Open" /\ r = SetState(checked, s)
  <2>1. checked.panic = "none" => NobodyWaits(checked, "Recv")
    BY <1>1, <1>4, <1>5, <1>6, <1>10 DEF WaitsOk
  <2>2. Reduces(s) => checked.tx_fin
    <3>1. Reduces(s) => fin_sent(c.state) BY <1>7, <1>10 DEF Reduces, fin_sent
    <3> QED BY <1>0, <1>1, <1>4, <1>5, <3>1 DEF Consistent
  <2> HIDE DEF s
  <2> QED BY <1>5, <1>6, <1>7, <1>10, <2>1, <2>2, SetStateWaits
<1>11. \/ c.state.kind # "Established"
       \/ r = read
       \/ c.state.kind = "Established" /\ r = Suspend(c, "reader", "Recv", n)
          /\ c.state.rx_state = "Open"
       \/ c.state.kind = "Established" /\ c.state.rx_state # "Open" /\ r = SetState(checked, s)
  BY DEF CallRecv, checked, s, read, m
<1> QED BY <1>6, <1>8, <1>9, <1>10, <1>11

\* The half-closed state that follows SYN-RECEIVED.
LEMMA HalfCloseWaits ==
  ASSUME NEW c, ConnInv(c), WaitsOk(c), c.panic = "none", c.state.kind = "SynReceived",
         NobodyWaits(c, "Acknowledged"), NEW called \in BOOLEAN,
         NEW r, r = SetState(SendAck([c EXCEPT !.tx_fin = TRUE]),
                             Established("Fin", "Open", called, TRUE))
  PROVE  WaitsOk(r) /\ r \in Connections /\ r.state.kind = "Established"
<1> DEFINE g == [c EXCEPT !.tx_fin = TRUE]
           h == SendAck(g)
           s == Established("Fin", "Open", called, TRUE)
<1>0. c \in Connections BY DEF ConnInv
<1>1. ConnInv(g) BY FinQueuedInv DEF Idle
<1>2. WaitsOk(g) BY <1>0, FinQueuedWaits
<1> HIDE DEF g
<1>3. WaitsOk(h) /\ h \in Connections BY <1>1, <1>2, SendAckWaits
<1> HIDE DEF h
<1>4. s \in ConnectionStates /\ s.kind = "Established" /\ s.tx_state = "Fin"
      /\ s.rx_state = "Open"
  BY EstablishedType DEF Established, ChannelState
<1>5. r = SetState(h, s) BY DEF g, h
<1> HIDE DEF s
<1>6. ~Reduces(s) BY <1>4 DEF Reduces
<1> QED BY <1>3, <1>4, <1>5, <1>6, SetStateWaits

\* call_shutdown
LEMMA CallShutdownWaits ==
  ASSUME NEW c, ConnInv(c), WaitsOk(c), c.panic = "none", CanShutdown(c),
         NEW r, r = CallShutdown(c)
  PROVE  WaitsOk(r)
<1> DEFINE s == [c.state EXCEPT !.close_active = TRUE]
           active == IF c.state.rx_state = "Open" THEN SetState(c, s) ELSE c
           g == [active EXCEPT !.tx_fin = TRUE]
           wait == Suspend(c, "closer", "TxQueueEmpty", 0)
           half == SetState(SendAck([c EXCEPT !.tx_fin = TRUE]),
                            Established("Fin", "Open", FALSE, TRUE))
<1>0. c \in Connections BY DEF ConnInv
<1>1. ASSUME c.state.kind \in {"SynReceived", "Established"} PROVE WaitsOk(wait)
  <2>1. c.state.kind \notin {"TimeWait", "Reset", "Closed"} BY <1>1
  <2> QED BY <1>0, <2>1, SuspendWaits DEF Callers, WaitKind
<1>2. CASE c.state.kind \in {"Listen", "SynSent"}
  <2>1. r = Clear(c) BY <1>2 DEF CallShutdown
  <2> QED BY <2>1, ClearWaits
<1>3. CASE c.state.kind = "SynReceived"
  <2>1. CASE AnyAcknowledged(c)
    <3>1. r = wait BY <1>3, <2>1 DEF CallShutdown
    <3> QED BY <1>1, <1>3, <3>1
  <2>2. CASE ~AnyAcknowledged(c)
    <3>1. r = half BY <1>3, <2>2 DEF CallShutdown
    <3>2. NobodyWaits(c, "Acknowledged") BY <2>2, NoSenders
    <3> QED BY <1>3, <3>1, <3>2, HalfCloseWaits
  <2> QED BY <2>1, <2>2
<1>4. CASE c.state.kind = "Established" /\ c.state.tx_state = "Open"
  <2>1. CASE SendersQueued(c)
    <3>1. r = wait BY <1>4, <2>1 DEF CallShutdown
    <3> QED BY <1>1, <1>4, <3>1
  <2>2. CASE ~SendersQueued(c)
    <3>1. r = SendAck(g) BY <1>4, <2>2 DEF CallShutdown
    <3>2. NobodyWaits(c, "Acknowledged") BY <2>2, NoSenders DEF SendersQueued
    <3>3. /\ s \in ConnectionStates /\ s.kind = "Established" /\ s.tx_state = "Open"
          /\ s.rx_state = c.state.rx_state
      BY <1>0, <1>4, StateFields DEF ConnectionStates
    <3> HIDE DEF s
    <3>4. MayEnter(c, s) /\ ~Reduces(s)
      BY <1>4, <3>3 DEF MayEnter, Reduces, Idle, fin_sent, FinAcked
    <3>5. c.state.rx_state = "Open" =>
            /\ ConnInv(SetState(c, s)) /\ WaitsOk(SetState(c, s)) /\ Woken(c, SetState(c, s))
            /\ SetState(c, s).state = s
      <4>1. ConnInv(SetState(c, s)) BY <3>4, SetStateUnack
      <4>2. c.state.rx_state = "Open" =>
              /\ WaitsOk(SetState(c, s)) /\ Woken(c, SetState(c, s))
              /\ SetState(c, s).state = s
        BY <1>0, <3>3, <3>4, SetStateWaits
      <4> QED BY <4>1, <4>2
    <3>6. /\ ConnInv(active) /\ WaitsOk(active) /\ NobodyWaits(active, "Acknowledged")
          /\ active.state.kind = "Established"
      <4>1. CASE c.state.rx_state = "Open"
        <5>1. active = SetState(c, s) BY <4>1
        <5>2. NobodyWaits(SetState(c, s), "Acknowledged")
          BY <3>2, <3>5, <4>1, NoWaitKind DEF NobodyWaits, Woken
        <5> QED BY <3>3, <3>5, <4>1, <5>1, <5>2
      <4>2. CASE c.state.rx_state # "Open" BY <1>4, <3>2, <4>2
      <4> QED BY <4>1, <4>2
    <3> HIDE DEF active
    <3>7. ConnInv(g) BY <3>6, FinQueuedInv DEF Idle
    <3>8. active \in Connections BY <3>6 DEF ConnInv
    <3>9. WaitsOk(g) BY <3>6, <3>8, FinQueuedWaits
    <3> HIDE DEF g
    <3> QED BY <3>1, <3>7, <3>9, SendAckWaits
  <2> QED BY <2>1, <2>2
<1> QED BY <1>2, <1>3, <1>4 DEF CanShutdown

\* call_close: the closer waits only for a connection that is not over yet.
LEMMA CallCloseWaits ==
  ASSUME NEW c, ConnInv(c), WaitsOk(c), c.panic = "none", CanClose(c),
         NEW r, r = CallClose(c)
  PROVE  WaitsOk(r)
<1> DEFINE g == [c EXCEPT !.tx_fin = TRUE]
           fin == SendAck(g)
           opened == c.state.tx_state = "Open"
           d == IF opened THEN fin ELSE c
           s == [d.state EXCEPT
                   !.close_called = TRUE,
                   !.close_active = c.state.close_active \/ c.state.rx_state = "Open"]
           e == SetState(d, s)
           both == d.state.tx_state = "Closed" /\ d.state.rx_state = "Closed"
           half == SetState(fin, Established("Fin", "Open", TRUE, TRUE))
           wait == Suspend(c, "closer", "TxQueueEmpty", 0)
<1>0. c \in Connections /\ Consistent(c) BY DEF ConnInv
<1>1. ASSUME c.state.kind \in {"SynReceived", "Established"} PROVE WaitsOk(wait)
  <2>1. c.state.kind \notin {"TimeWait", "Reset", "Closed"} BY <1>1
  <2> QED BY <1>0, <2>1, SuspendWaits DEF Callers, WaitKind
<1>2. CASE c.state.kind \in {"Listen", "SynSent"}
  <2>1. r = Clear(c) BY <1>2 DEF CallClose
  <2> QED BY <2>1, ClearWaits
<1>3. CASE c.state.kind = "SynReceived"
  <2>1. CASE SendersQueued(c)
    <3>1. r = wait BY <1>3, <2>1 DEF CallClose
    <3> QED BY <1>1, <1>3, <3>1
  <2>2. CASE ~SendersQueued(c)
    <3>1. r = Suspend(half, "closer", "BothClosed", 0) BY <1>3, <2>2 DEF CallClose
    <3>2. NobodyWaits(c, "Acknowledged") BY <2>2, NoSenders DEF SendersQueued
    <3>3. WaitsOk(half) /\ half \in Connections /\ half.state.kind = "Established"
      BY <1>3, <3>2, HalfCloseWaits
    <3> HIDE DEF half
    <3> QED BY <3>1, <3>3, SuspendWaits DEF Callers, WaitKind
  <2> QED BY <2>1, <2>2
<1>4. CASE c.state.kind = "Established" /\ opened /\ SendersQueued(c)
  <2>1. r = wait BY <1>4 DEF CallClose
  <2> QED BY <1>1, <1>4, <2>1
<1>5. CASE c.state.kind = "Established" /\ ~(opened /\ SendersQueued(c))
  <2>1. r = IF both THEN e ELSE Suspend(e, "closer", "BothClosed", 0)
    BY <1>5 DEF CallClose
  <2>2. /\ ConnInv(d) /\ WaitsOk(d) /\ d.state.kind = "Established"
    <3>1. CASE opened
      <4>1. NobodyWaits(c, "Acknowledged") BY <1>5, <3>1, NoSenders DEF SendersQueued
      <4>2. ConnInv(g) /\ g.state = c.state BY <1>5, FinQueuedInv DEF Idle
      <4>3. WaitsOk(g) BY <1>0, <4>1, FinQueuedWaits
      <4> HIDE DEF g
      <4>4. ConnInv(fin) /\ WaitsOk(fin) /\ fin.state.kind = "Established"
        BY <1>5, <4>2, <4>3, SendAckInv, SendAckWaits
      <4> QED BY <3>1, <4>4
    <3>2. CASE ~opened BY <1>5, <3>2
    <3> QED BY <3>1, <3>2
  <2> HIDE DEF d
  <2>3. d \in Connections BY <2>2 DEF ConnInv
  <2>4. /\ s \in ConnectionStates /\ s.kind = "Established"
        /\ s.tx_state = d.state.tx_state /\ s.rx_state = d.state.rx_state
    BY <2>2, <2>3, StateFields DEF ConnectionStates
  <2> HIDE DEF s
  <2>5. Reduces(s) => both BY <2>4 DEF Reduces
  <2>6. d.panic = "none" /\ Reduces(s) => d.tx_fin
    <3>1. Reduces(s) => fin_sent(d.state) BY <2>2, <2>4 DEF Reduces, fin_sent
    <3> QED BY <2>2, <3>1 DEF ConnInv, Consistent
  <2>7. d.panic = "none" /\ s.rx_state # "Open" => NobodyWaits(d, "Recv")
    BY <2>2, <2>4 DEF WaitsOk
  <2>8. WaitsOk(e) /\ e \in Connections /\ (~Reduces(s) => e.state = s)
    BY <2>2, <2>3, <2>4, <2>6, <2>7, SetStateWaits
  <2> HIDE DEF e, both
  <2>9. CASE both BY <2>1, <2>8, <2>9
  <2>10. CASE ~both
    <3>1. e.state.kind \notin {"TimeWait", "Reset", "Closed"} BY <2>4, <2>5, <2>8, <2>10
    <3> QED BY <2>1, <2>8, <2>10, <3>1, SuspendWaits DEF Callers, WaitKind
  <2> QED BY <2>9, <2>10
<1> QED BY <1>2, <1>3, <1>4, <1>5 DEF CanClose

\* call_abort
LEMMA CallAbortWaits ==
  ASSUME NEW c, NEW r, r = CallAbort(c)
  PROVE  WaitsOk(r)
<1>1. \E d : r = Clear(d) BY DEF CallAbort
<1> QED BY <1>1, ClearWaits

-----------------------------------------------------------------------------
(* on_segment and on_time_tick.                                              *)

\* A method that leaves the core and the suspended calls alone.
LEMMA SameCoreWaits ==
  ASSUME NEW c, WaitsOk(c), NEW r, SameCore(c, r), r.wait = c.wait, PanicKept(c, r)
  PROVE  WaitsOk(r)
<1>1. Alive(c, r) /\ r.state = c.state /\ r.tx_fin = c.tx_fin
  BY DEF Alive, PanicKept, SameCore
<1> QED BY <1>1, SameWaits

\* user_data.send
LEMMA SendKeepsWaits ==
  ASSUME NEW c \in Connections, WaitsOk(c), NEW seg \in SegmentMeta, NEW r, r = Send(c, seg)
  PROVE  WaitsOk(r)
<1>1. r.wait = c.wait /\ Alive(c, r) /\ r.state = c.state /\ r.tx_fin = c.tx_fin
  BY SendWaits
<1> QED BY <1>1, SameWaits

\* on_segment in CLOSED and RESET
LEMMA OnSegmentClosedWaits ==
  ASSUME NEW c \in Connections, WaitsOk(c), NEW seg \in SegmentMeta,
         NEW r, r = OnSegmentClosed(c, seg)
  PROVE  WaitsOk(r)
<1>1. wrapping_add(seg.seqn, Len(seg.data)) \in SeqN BY SegmentFields, WrapType
<1>2. 0 \in 0 .. WindowMax BY SegmentAssumption
<1>3. response_to_closed(seg) \in SegmentMeta
  BY <1>1, <1>2, SegmentFields, SeqNFacts, EmptySegmentType
     DEF response_to_closed, SegmentFlags
<1>4. r = c \/ r = Send(c, response_to_closed(seg)) BY DEF OnSegmentClosed
<1> QED BY <1>3, <1>4, SendKeepsWaits

\* on_segment in LISTEN
LEMMA OnSegmentListenWaits ==
  ASSUME NEW c \in Connections, WaitsOk(c), c.panic = "none" => c.state.kind = "Listen",
         NEW seg \in SegmentMeta, NEW isn \in SeqN, NEW r,
         r = OnSegmentListen(c, seg, isn)
  PROVE  WaitsOk(r)
<1> DEFINE m == MustHold(c, seg.data = <<>>, "syn_with_data")
           d == [m EXCEPT !.ackd = wrapping_add(seg.seqn, 1), !.init_seqn = isn,
                          !.unack = isn, !.next = isn, !.tx_window = seg.window]
           syn_ack == Control({"SYN", "ACK"}, isn, d.ackd, curr_window(d))
           rst == Control({"RST"}, seg.ackn, 0, 0)
           b == SetState(d, SynReceived)
           e == OnSend(b, syn_ack)
           f == [e EXCEPT !.timer_re_tx = TRUE]
<1>1. /\ m \in Connections /\ m.wait = c.wait /\ Alive(c, m)
      /\ m.state = c.state /\ m.tx_fin = c.tx_fin
  <2>1. "syn_with_data" \in Panics \ {"none"} BY DEF Panics
  <2> QED BY <2>1, MustHoldWaits
<1> HIDE DEF m
<1>2. /\ d \in Connections /\ d.wait = m.wait /\ d.panic = m.panic
      /\ d.state = m.state /\ d.tx_fin = m.tx_fin
  BY <1>1, SegmentFields DEF Connections
<1> HIDE DEF d
<1>3. WaitsOk(d)
  <2>1. Alive(c, d) BY <1>1, <1>2 DEF Alive
  <2> QED BY <1>1, <1>2, <2>1, SameWaits
<1>4. WaitsOk(b) /\ b \in Connections
  <2>1. SynReceived \in ConnectionStates /\ SynReceived.kind = "SynReceived"
        /\ ~Reduces(SynReceived)
    BY StatesType, KindOf DEF Reduces
  <2>2. d.panic = "none" => NobodyWaits(d, "Recv") BY <1>1, <1>2, <1>3 DEF WaitsOk, Alive
  <2> QED BY <1>2, <1>3, <2>1, <2>2, SetStateWaits
<1> HIDE DEF b
<1>5. syn_ack \in SegmentMeta
  <2>1. d.ackd \in SeqN BY <1>2 DEF Connections
  <2> QED BY <1>2, <2>1, WindowType, ControlFields DEF SegmentFlags
<1> HIDE DEF syn_ack
<1>6. /\ e \in Connections /\ e.wait = b.wait /\ e.panic = b.panic
      /\ e.state = b.state /\ e.tx_fin = b.tx_fin
  <2>1. e \in Connections BY <1>4, <1>5, OnSendType
  <2> QED BY <1>4, <2>1 DEF OnSend, Connections
<1> HIDE DEF e
<1>7. /\ f \in Connections /\ f.wait = e.wait /\ f.panic = e.panic
      /\ f.state = e.state /\ f.tx_fin = e.tx_fin
  BY <1>6 DEF Connections
<1> HIDE DEF f
<1>8. WaitsOk(f)
  <2>1. Alive(b, f) BY <1>6, <1>7 DEF Alive
  <2> QED BY <1>4, <1>6, <1>7, <2>1, SameWaits
<1>9. rst \in SegmentMeta
  <2>1. 0 \in 0 .. WindowMax BY SegmentAssumption
  <2> QED BY <2>1, SegmentFields, SeqNFacts, EmptySegmentType DEF SegmentFlags
<1> HIDE DEF rst
<1>10. r \in {c, Send(c, rst), Send(f, syn_ack)}
  BY DEF OnSegmentListen, rst, f, e, b, syn_ack, d, m
<1> QED BY <1>5, <1>7, <1>8, <1>9, <1>10, SendKeepsWaits

\* clear_re_tx_range wakes senders.
LEMMA ClearRangeWaits ==
  ASSUME NEW c \in Connections, NEW end \in SeqN, NEW r, r = clear_re_tx_range(c, end)
  PROVE  /\ r \in Connections /\ Woken(c, r) /\ r.panic = c.panic
         /\ r.state = c.state /\ r.tx_fin = c.tx_fin
<1> DEFINE who == {u \in Callers : c.wait[u].kind = "Acknowledged" /\ lte(c.wait[u].arg, end)}
           d == Wake(c, who)
<1>1. r = [d EXCEPT !.re_tx = Unacked(@, end)] BY DEF clear_re_tx_range
<1> HIDE DEF who
<1>2. d \in Connections /\ Woken(c, d) /\ d.panic = c.panic
      /\ d.state = c.state /\ d.tx_fin = c.tx_fin
  BY WakeWoken
<1> HIDE DEF d
<1>3. r \in Connections BY ClearRangeType
<1>4. r.wait = d.wait /\ r.panic = d.panic /\ r.state = d.state /\ r.tx_fin = d.tx_fin
  BY <1>1, <1>2 DEF Connections
<1> QED BY <1>2, <1>3, <1>4 DEF Woken

\* clear, then RESET or LISTEN: nobody is left.
LEMMA ToWaits ==
  ASSUME NEW c, ConnInv(c), NEW s \in {Reset, Listen}, NEW r, r = SetState(Clear(c), s)
  PROVE  WaitsOk(r)
<1> DEFINE d == Clear(c)
<1>1. ConnInv(d) BY ClearInv
<1>2. WaitsOk(d) /\ \A u \in Callers : d.wait[u] = NoWait BY ClearWaits
<1>3. d \in Connections BY <1>1 DEF ConnInv
<1> HIDE DEF d
<1>4. s \in ConnectionStates /\ ~Reduces(s) BY KindOf, StatesType DEF Reduces
<1>5. NobodyWaits(d, "Recv") BY <1>2, NoWaitKind DEF NobodyWaits
<1> QED BY <1>2, <1>3, <1>4, <1>5, SetStateWaits DEF d

\* on_segment in SYN-SENT
LEMMA OnSegmentSynSentWaits ==
  ASSUME NEW c, ConnInv(c), WaitsOk(c), c.panic = "none", c.state.kind = "SynSent",
         NEW seg \in SegmentMeta, NEW r, r = OnSegmentSynSent(c, seg)
  PROVE  WaitsOk(r)
<1> DEFINE k == clear_re_tx_range(c, seg.ackn)
           d == [k EXCEPT !.ackd = wrapping_add(seg.seqn, 1), !.unack = seg.ackn,
                          !.tx_window = seg.window]
           rst == Control({"RST"}, seg.ackn, 0, curr_window(c))
           g == SetState(d, FULLY_OPEN)
<1>0. c \in Connections BY DEF ConnInv
<1>1. /\ ConnInv(k) /\ Woken(c, k) /\ k.panic = c.panic
      /\ k.state = c.state /\ k.tx_fin = c.tx_fin
  BY <1>0, SegmentFields, ClearRangeInv, ClearRangeWaits
<1> HIDE DEF k
<1>2. k \in Connections BY <1>1 DEF ConnInv
<1>3. /\ d \in Connections /\ d.unack = seg.ackn /\ d.state = k.state /\ d.tx = k.tx
      /\ d.tx_fin = k.tx_fin
      /\ d.re_tx = k.re_tx /\ d.next = k.next /\ d.timer_re_tx = k.timer_re_tx
      /\ d.timer_timewait = k.timer_timewait /\ d.wait = k.wait /\ d.panic = k.panic
  BY <1>2, SegmentFields DEF Connections
<1> HIDE DEF d
<1>4. ConnInv(d) /\ d.state.kind = "SynSent"
  BY <1>1, <1>3 DEF ConnInv, Consistent, FinAcked
<1>5. WaitsOk(d)
  <2>1. Woken(c, d) /\ Alive(c, d) BY <1>1, <1>3 DEF Woken, Alive
  <2> QED BY <1>1, <1>3, <2>1, SameWaits
<1>6. ~Reduces(FULLY_OPEN) /\ FULLY_OPEN \in ConnectionStates
      /\ FULLY_OPEN.kind = "Established" /\ FULLY_OPEN.rx_state = "Open"
  <2>1. ~Reduces(FULLY_OPEN) /\ FULLY_OPEN \in ConnectionStates BY KindOf, StatesType DEF Reduces
  <2> QED BY <2>1 DEF FULLY_OPEN, Established
<1>7. MayEnter(d, FULLY_OPEN)
  BY <1>4, KindOf, StatesType DEF MayEnter, Reduces, Idle, fin_sent, FinAcked
<1>8. ConnInv(g) BY <1>4, <1>6, <1>7, SetStateUnack
<1>9. WaitsOk(g) BY <1>3, <1>5, <1>6, SetStateWaits
<1> HIDE DEF g
<1>10. WaitsOk(SendAck(g)) BY <1>8, <1>9, SendAckWaits
<1>11. rst \in SegmentMeta
  BY <1>0, SegmentFields, SeqNFacts, WindowType, EmptySegmentType DEF SegmentFlags
<1> HIDE DEF rst
<1>12. WaitsOk(Send(c, rst)) BY <1>0, <1>11, SendKeepsWaits
<1>13. WaitsOk(ToReset(c)) BY ToWaits DEF ToReset
<1>14. r \in {c, Send(c, rst), ToReset(c), d, SendAck(g)}
  BY DEF OnSegmentSynSent, d, k, g, rst
<1> QED BY <1>5, <1>10, <1>12, <1>13, <1>14

\* An acceptable RST ends the connection for everybody.
LEMMA OnResetWaits ==
  ASSUME NEW c, ConnInv(c), WaitsOk(c), NEW r, r = OnReset(c)
  PROVE  WaitsOk(r)
<1> DEFINE m == MustHold(c, FALSE, "rst_unreachable")
<1>0. c \in Connections BY DEF ConnInv
<1>1. WaitsOk(m)
  <2>1. m = c \/ m = [c EXCEPT !.panic = "rst_unreachable"] BY DEF MustHold
  <2>2. m.wait = c.wait /\ Alive(c, m) /\ m.state = c.state /\ m.tx_fin = c.tx_fin
    BY <1>0, <2>1 DEF Alive, Connections
  <2> QED BY <2>2, SameWaits
<1>2. r = SetState(Clear(c), Listen) \/ r = SetState(Clear(c), Reset) \/ r = m
  BY DEF OnReset, ToReset
<1> QED BY <1>1, <1>2, ToWaits

\* A new ACK wakes readers and senders.
LEMMA OnNewAckWaits ==
  ASSUME NEW c \in Connections, WaitsOk(c), NEW seg \in SegmentMeta,
         NEW r, r = OnNewAck(c, seg)
  PROVE  WaitsOk(r)
<1> DEFINE d == UpdateCongestion(c, Len(seg.data))
           who == {u \in Callers : c.wait[u].kind = "Recv" /\ c.wait[u].arg <= Len(c.rx)}
           e == Wake(d, who)
           f == clear_re_tx_range(e, seg.ackn)
           w == Least(seg.window, d.congestation_window)
<1>1. d \in Connections /\ SameCore(c, d) /\ PanicKept(c, d) /\ d.wait = c.wait
  BY SegmentFields, UpdateCongestionKeeps
<1>2. r = [f EXCEPT !.tx_window = w, !.unack = seg.ackn, !.timer_re_tx = f.re_tx # <<>>]
  BY DEF OnNewAck
<1> HIDE DEF d, who
<1>3. WaitsOk(d) BY <1>1, SameCoreWaits
<1>4. e \in Connections /\ Woken(d, e) /\ e.panic = d.panic
      /\ e.state = d.state /\ e.tx_fin = d.tx_fin
  BY <1>1, WakeWoken
<1> HIDE DEF e
<1>5. f \in Connections /\ Woken(e, f) /\ f.panic = e.panic
      /\ f.state = e.state /\ f.tx_fin = e.tx_fin
  BY <1>4, SegmentFields, ClearRangeWaits
<1> HIDE DEF f
<1>6. w \in 0 .. WindowMax BY <1>1, SegmentFields DEF Least, Connections
<1> HIDE DEF w
<1>7. /\ r.wait = f.wait /\ r.panic = f.panic /\ r.state = f.state /\ r.tx_fin = f.tx_fin
  BY <1>2, <1>5, ZenonT(40) DEF Connections
<1>8. Woken(d, r) /\ Alive(d, r) BY <1>4, <1>5, <1>7 DEF Woken, Alive
<1> QED BY <1>3, <1>4, <1>5, <1>7, <1>8, SameWaits

\* The ACK of our FIN: the FIN mark is set, so that nobody still sends.
LEMMA OnFinAckedWaits ==
  ASSUME NEW c, ConnInv(c), WaitsOk(c), NEW seg \in SegmentMeta,
         NEW r, r = OnFinAcked(c, seg)
  PROVE  WaitsOk(r)
<1> DEFINE m == DebugMustHold(c, c.tx = <<>> /\ c.re_tx = <<>>, "fin_acked_early")
           s == [c.state EXCEPT !.tx_state = "Closed"]
<1>0. c \in Connections BY DEF ConnInv
<1>1. CASE c.state.kind = "Established" /\ c.state.tx_state = "Fin" /\ seg.ackn = c.next
  <2>1. /\ m \in Connections /\ m.wait = c.wait /\ Alive(c, m)
        /\ m.state = c.state /\ m.tx_fin = c.tx_fin
    <3>1. "fin_acked_early" \in Panics \ {"none"} BY DEF Panics
    <3> QED BY <1>0, <3>1, MustHoldWaits
  <2>2. WaitsOk(m) BY <2>1, SameWaits
  <2>3. r = SetState(m, s) BY <1>1 DEF OnFinAcked
  <2>4. /\ s \in ConnectionStates /\ s.kind = "Established" /\ s.tx_state = "Closed"
        /\ s.rx_state = c.state.rx_state
    BY <1>0, <1>1, StateFields DEF ConnectionStates, ChannelState
  <2> HIDE DEF s, m
  <2>5. m.panic = "none" => m.tx_fin
    BY <1>1, <2>1 DEF Alive, ConnInv, Consistent, fin_sent
  <2>6. m.panic = "none" /\ s.rx_state # "Open" => NobodyWaits(m, "Recv")
    BY <2>1, <2>2, <2>4 DEF WaitsOk
  <2> QED BY <2>1, <2>2, <2>3, <2>4, <2>5, <2>6, SetStateWaits
<1>2. CASE ~(c.state.kind = "Established" /\ c.state.tx_state = "Fin" /\ seg.ackn = c.next)
  BY <1>2 DEF OnFinAcked
<1> QED BY <1>1, <1>2

\* A valid ackn.
LEMMA OnAckWaits ==
  ASSUME NEW c, ConnInv(c), WaitsOk(c), c.panic = "none",
         c.state.kind \in {"TimeWait", "SynReceived", "Established"},
         NEW seg \in SegmentMeta, ack_valid(c, seg), NEW r, r = OnAck(c, seg)
  PROVE  WaitsOk(r)
<1> DEFINE d == IF c.state.kind = "SynReceived" THEN SetState(c, FULLY_OPEN) ELSE c
           e == IF c.unack # seg.ackn THEN OnNewAck(d, seg) ELSE d
<1>0. c \in Connections /\ Consistent(c) BY DEF ConnInv
<1>1. MayEnter(c, FULLY_OPEN) \/ c.state.kind # "SynReceived"
  BY KindOf, StatesType DEF MayEnter, Idle, fin_sent, FinAcked
<1>2. ~Reduces(FULLY_OPEN) /\ FULLY_OPEN \in ConnectionStates
      /\ FULLY_OPEN.kind = "Established" /\ FULLY_OPEN.rx_state = "Open"
  <2>1. ~Reduces(FULLY_OPEN) /\ FULLY_OPEN \in ConnectionStates BY KindOf, StatesType DEF Reduces
  <2> QED BY <2>1 DEF FULLY_OPEN, Established
<1>3. /\ ConnInv(d) /\ PanicKept(c, d) /\ d.unack = c.unack /\ d.next = c.next
      /\ d.state.kind = IF c.state.kind = "SynReceived" THEN "Established" ELSE c.state.kind
  <2>1. CASE c.state.kind = "SynReceived" BY <1>1, <1>2, <2>1, KindOf, SetStateUnack
  <2>2. CASE c.state.kind # "SynReceived" BY <2>2 DEF PanicKept
  <2> QED BY <2>1, <2>2
<1>4. WaitsOk(d)
  <2>1. CASE c.state.kind = "SynReceived"
    <3>1. d = SetState(c, FULLY_OPEN) BY <2>1
    <3> QED BY <1>0, <1>2, <3>1, SetStateWaits
  <2>2. CASE c.state.kind # "SynReceived" BY <2>2
  <2> QED BY <2>1, <2>2
<1>5. r = OnFinAcked(e, seg) BY DEF OnAck
<1> HIDE DEF d
<1>6. c.unack # seg.ackn => c.state.kind # "TimeWait" /\ c.unack # c.next
  BY <1>0 DEF ack_valid, in_range_inclusive, Consistent, FinAcked
<1>7. ConnInv(e) /\ WaitsOk(e)
  <2>1. CASE c.unack # seg.ackn
    <3>1. d.state.kind = "Established" /\ d.unack # d.next BY <1>3, <1>6, <2>1
    <3>2. e = OnNewAck(d, seg) /\ d \in Connections BY <1>3, <2>1 DEF ConnInv
    <3>3. ConnInv(e) BY <1>3, <3>1, <3>2, OnNewAckInv
    <3>4. WaitsOk(e) BY <1>4, <3>2, OnNewAckWaits
    <3> QED BY <3>3, <3>4
  <2>2. CASE c.unack = seg.ackn BY <1>3, <1>4, <2>2
  <2> QED BY <2>1, <2>2
<1> HIDE DEF e
<1> QED BY <1>5, <1>7, OnFinAckedWaits

\* The peer's FIN: the readers are woken before nothing more can come.
LEMMA OnFinWaits ==
  ASSUME NEW c, ConnInv(c), WaitsOk(c), NEW non_ordered, NEW r, r = OnFin(c, non_ordered)
  PROVE  WaitsOk(r)
<1> DEFINE w == Wake(c, Callers)
           v == [w EXCEPT !.timer_re_tx = FALSE, !.timer_timewait = TRUE]
           k == WakeKind(c, "Recv")
           s == IF c.state.kind = "SynReceived" THEN Established("Open", "Fin", FALSE, FALSE)
                ELSE [c.state EXCEPT !.rx_state = "Fin"]
<1>0. c \in Connections BY DEF ConnInv
<1>1. CASE c.state.kind = "TimeWait" /\ r = v
  <2>1. w \in Connections /\ Woken(c, w) /\ w.panic = c.panic
        /\ w.state = c.state /\ w.tx_fin = c.tx_fin
    BY <1>0, WakeWoken
  <2> HIDE DEF w
  <2>2. v.wait = w.wait /\ v.panic = w.panic /\ v.state = w.state /\ v.tx_fin = w.tx_fin
    BY <2>1 DEF Connections
  <2> HIDE DEF v
  <2>3. Woken(c, v) /\ Alive(c, v) BY <2>1, <2>2 DEF Woken, Alive
  <2> QED BY <1>1, <2>1, <2>2, <2>3, SameWaits
<1>2. CASE c.state.kind \in {"SynReceived", "Established"} /\ r = SetState(k, s)
  <2>1. /\ k \in Connections /\ Woken(c, k) /\ Alive(c, k)
        /\ k.state = c.state /\ k.tx_fin = c.tx_fin /\ NobodyWaits(k, "Recv")
    BY <1>0, WakeKindWoken DEF WaitKind
  <2> HIDE DEF k
  <2>2. WaitsOk(k) BY <2>1, SameWaits
  <2>3. s \in ConnectionStates /\ s.kind = "Established" /\ s.rx_state = "Fin"
    <3>1. CASE c.state.kind = "SynReceived"
      BY <3>1, EstablishedType DEF Established, ChannelState
    <3>2. CASE c.state.kind = "Established"
      BY <1>0, <3>2, StateFields DEF ConnectionStates, ChannelState
    <3> QED BY <1>2, <3>1, <3>2
  <2> HIDE DEF s
  <2>4. ~Reduces(s) BY <2>3 DEF Reduces
  <2> QED BY <1>2, <2>1, <2>2, <2>3, <2>4, SetStateWaits
<1>3. r = c \/ (c.state.kind = "TimeWait" /\ r = v)
      \/ (c.state.kind \in {"SynReceived", "Established"} /\ r = SetState(k, s))
  BY DEF OnFin
<1> QED BY <1>1, <1>2, <1>3

\* RxBuffer::write wakes nobody and leaves the state.
LEMMA RxWriteWaits ==
  ASSUME NEW c \in Connections, WaitsOk(c), NEW seg \in SegmentMeta,
         NEW r, r = RxWrite(c, seg)
  PROVE  WaitsOk(r)
<1> DEFINE fin == "FIN" \in seg.flags
           d == DebugMustHold(c, ~(fin /\ c.rx_fin), "duplicate_fin")
           ok == seg.data = <<>> \/ ~(fin \/ c.rx_fin)
           e == MustHold(d, ok, "write_after_fin")
<1>1. /\ d \in Connections /\ d.wait = c.wait /\ Alive(c, d)
      /\ d.state = c.state /\ d.tx_fin = c.tx_fin
  <2>1. "duplicate_fin" \in Panics \ {"none"} BY DEF Panics
  <2> QED BY <2>1, MustHoldWaits
<1>2. r = [e EXCEPT !.ackd = wrapping_add(@, seq_size(seg)), !.rx_fin = @ \/ fin,
                    !.rx = @ \o seg.data]
  BY DEF RxWrite
<1> HIDE DEF d
<1>3. /\ e \in Connections /\ e.wait = d.wait /\ Alive(d, e)
      /\ e.state = d.state /\ e.tx_fin = d.tx_fin
  <2>1. "write_after_fin" \in Panics \ {"none"} BY DEF Panics
  <2> QED BY <1>1, <2>1, MustHoldWaits
<1> HIDE DEF e, fin
<1>4. r.wait = e.wait /\ r.panic = e.panic /\ r.state = e.state /\ r.tx_fin = e.tx_fin
  BY <1>2, <1>3 DEF Connections
<1>5. Alive(c, r) BY <1>1, <1>3, <1>4 DEF Alive
<1> QED BY <1>1, <1>3, <1>4, <1>5, SameWaits

\* The end of on_segment.
LEMMA AfterAckWaits ==
  ASSUME NEW c, ConnInv(c), WaitsOk(c), NEW seg \in SegmentMeta, NEW non_ordered,
         NEW r, r = AfterAck(c, seg, non_ordered)
  PROVE  WaitsOk(r)
<1>1. r = c \/ r = OnFin(c, non_ordered) BY DEF AfterAck
<1> QED BY <1>1, OnFinWaits

\* Storing and answering a segment.
LEMMA OnPayloadWaits ==
  ASSUME NEW c, ConnInv(c), WaitsOk(c), NEW seg \in SegmentMeta, NEW non_ordered,
         NEW r, r = OnPayload(c, seg, non_ordered)
  PROVE  WaitsOk(r)
<1> DEFINE w == RxWrite(c, seg)
           a == SendAck(w)
           z == AfterAck(a, seg, non_ordered)
<1>0. c \in Connections BY DEF ConnInv
<1>1. ConnInv(w) /\ WaitsOk(w) BY <1>0, RxWriteInv, RxWriteWaits
<1>2. r = z \/ r = Send(c, AckSegment(c)) \/ r = c BY DEF OnPayload
<1> HIDE DEF w
<1>3. ConnInv(a) BY <1>1, SendAckContinues
<1>4. WaitsOk(a) BY <1>1, SendAckWaits
<1> HIDE DEF a
<1>5. WaitsOk(z) BY <1>3, <1>4, AfterAckWaits
<1> HIDE DEF z
<1>6. WaitsOk(Send(c, AckSegment(c))) BY <1>0, SendKeepsWaits, AckSegmentType
<1> QED BY <1>2, <1>5, <1>6

\* on_segment in SYN-RECEIVED, ESTABLISHED and TIME-WAIT
LEMMA OnSegmentOpenWaits ==
  ASSUME NEW c, ConnInv(c), WaitsOk(c), c.panic = "none",
         c.state.kind \in {"TimeWait", "SynReceived", "Established"},
         NEW seg \in SegmentMeta, NEW r, r = OnSegmentOpen(c, seg)
  PROVE  WaitsOk(r)
<1> DEFINE d == [c EXCEPT !.tx_window = Least(seg.window, c.congestation_window)]
           rst == Control({"RST"}, c.next, 0, curr_window(c))
           b == is_non_ordered_ack(c, seg.ackn)
           a == OnAck(d, seg)
           g == Send(d, rst)
<1>0. c \in Connections BY DEF ConnInv
<1>1. Least(seg.window, c.congestation_window) \in 0 .. WindowMax
  BY <1>0, SegmentFields DEF Least, Connections
<1>2. /\ d \in Connections /\ SameCore(c, d) /\ d.wait = c.wait /\ d.panic = c.panic
      /\ PanicKept(c, d)
  BY <1>0, <1>1 DEF Connections, SameCore, PanicKept
<1>3. rst \in SegmentMeta
  BY <1>0, WindowType, SeqNFacts, EmptySegmentType DEF SegmentFlags, Connections
<1>4. \/ r = OnUnacceptable(c, seg)
      \/ r = OnReset(d)
      \/ r = ToReset(g)
      \/ r = AfterAck(d, seg, FALSE)
      \/ r = d
      \/ ack_valid(c, seg) /\ r = OnPayload(a, seg, b)
  BY DEF OnSegmentOpen
<1> HIDE DEF d, rst, b
<1>5. ConnInv(d) BY <1>2, SameCoreInv DEF SenderKept
<1>6. WaitsOk(d) BY <1>2, SameCoreWaits
<1>7. CASE r = OnUnacceptable(c, seg)
  <2>1. r = c \/ r = Send(c, AckSegment(c)) BY <1>7 DEF OnUnacceptable
  <2> QED BY <1>0, <2>1, SendKeepsWaits, AckSegmentType
<1>8. CASE r = OnReset(d) BY <1>5, <1>6, <1>8, OnResetWaits
<1>9. CASE r = ToReset(g)
  <2>1. ConnInv(g) BY <1>3, <1>5, SendInv
  <2> HIDE DEF g
  <2> QED BY <1>9, <2>1, ToWaits DEF ToReset
<1>10. CASE r = AfterAck(d, seg, FALSE) BY <1>5, <1>6, <1>10, AfterAckWaits
<1>11. CASE ack_valid(c, seg) /\ r = OnPayload(a, seg, b)
  <2>1. d.panic = "none" /\ d.state = c.state /\ ack_valid(d, seg)
    BY <1>2, <1>11 DEF SameCore, ack_valid
  <2>2. ConnInv(a) BY <1>5, <2>1, OnAckInv
  <2>3. WaitsOk(a) BY <1>5, <1>6, <2>1, OnAckWaits
  <2> HIDE DEF a
  <2> QED BY <1>11, <2>2, <2>3, OnPayloadWaits
<1> QED BY <1>4, <1>6, <1>7, <1>8, <1>9, <1>10, <1>11

\* on_segment
LEMMA OnSegmentWaits ==
  ASSUME NEW c, ConnInv(c), WaitsOk(c), c.panic = "none", NEW seg \in SegmentMeta,
         NEW isn \in SeqN, NEW r, r = OnSegment(c, seg, isn)
  PROVE  WaitsOk(r)
<1>0. c \in Connections BY DEF ConnInv
<1>1. CASE c.state.kind \in {"Closed", "Reset"}
  <2>1. r = OnSegmentClosed(c, seg) BY <1>1 DEF OnSegment
  <2> QED BY <1>0, <2>1, OnSegmentClosedWaits
<1>2. CASE c.state.kind = "Listen"
  <2>1. r = OnSegmentListen(c, seg, isn) BY <1>2 DEF OnSegment
  <2> QED BY <1>0, <1>2, <2>1, OnSegmentListenWaits
<1>3. CASE c.state.kind = "SynSent"
  <2>1. r = OnSegmentSynSent(c, seg) BY <1>3 DEF OnSegment
  <2> QED BY <1>3, <2>1, OnSegmentSynSentWaits
<1>4. CASE c.state.kind \in {"TimeWait", "SynReceived", "Established"}
  <2>1. r = OnSegmentOpen(c, seg) BY <1>4 DEF OnSegment
  <2> QED BY <1>4, <2>1, OnSegmentOpenWaits
<1>5. c.state.kind \in StateKind BY <1>0, StateFields
<1> QED BY <1>1, <1>2, <1>3, <1>4, <1>5 DEF StateKind

\* on_time_tick
LEMMA OnTimeTickWaits ==
  ASSUME NEW c, ConnInv(c), WaitsOk(c), c.panic = "none", NEW expired, NEW r,
         r = OnTimeTick(c, expired)
  PROVE  WaitsOk(r)
<1> DEFINE d == IF "re_tx" \in expired /\ c.timer_re_tx THEN OnTimerReTx(c) ELSE c
<1>0. c \in Connections /\ Consistent(c) BY DEF ConnInv
<1>1. WaitsOk(d)
  <2>1. CASE "re_tx" \in expired /\ c.timer_re_tx
    <3> DEFINE e == [c EXCEPT !.timer_re_tx = FALSE]
               f == [e EXCEPT !.timer_re_tx = TRUE]
    <3>1. c.state.kind \in {"Listen", "SynSent", "SynReceived", "Established", "Reset"}
      BY <1>0, <2>1, StateFields DEF Consistent, StateKind
    <3>2. c.state.kind = "Reset" => c.re_tx = <<>> BY <1>0 DEF Consistent, Idle
    <3>3. \/ d = e /\ c.re_tx = <<>>
          \/ d = Send(f, Head(c.re_tx)) /\ c.re_tx # <<>>
      BY <2>1, <3>1, <3>2 DEF OnTimerReTx
    <3> HIDE DEF d
    <3>4. CASE d = e
      <4>1. e.state = c.state /\ e.tx_fin = c.tx_fin /\ e.panic = c.panic /\ e.wait = c.wait
        BY <1>0 DEF Connections
      <4> HIDE DEF e
      <4>2. Alive(c, e) BY <4>1 DEF Alive
      <4> QED BY <3>4, <4>1, <4>2, SameWaits
    <3>5. CASE d = Send(f, Head(c.re_tx)) /\ c.re_tx # <<>>
      <4>1. f = c BY <1>0, <2>1 DEF Connections
      <4>2. c.re_tx \in Seq(SegmentMeta) BY <1>0 DEF Connections
      <4>3. Head(c.re_tx) \in SegmentMeta BY <3>5, <4>2
      <4>4. d = Send(c, Head(c.re_tx)) BY <3>5, <4>1
      <4> QED BY <1>0, <4>3, <4>4, SendKeepsWaits
    <3> QED BY <3>3, <3>4, <3>5
  <2>2. CASE ~("re_tx" \in expired /\ c.timer_re_tx) BY <2>2
  <2> QED BY <2>1, <2>2
<1>2. r = d \/ \E e : r = Clear(e) BY DEF OnTimeTick, OnTimerTimewait
<1> QED BY <1>1, <1>2, ClearWaits

\* Nobody waits on a new connection.
LEMMA NewWaits == WaitsOk(New) /\ \A u \in Callers : New.wait[u] = NoWait
<1>1. New.wait = [u \in Callers |-> NoWait] /\ New.tx_fin = FALSE BY ONLY DEF New
<1> QED BY <1>1, NoWaitKind DEF WaitsOk, NobodyWaits
=============================================================================
