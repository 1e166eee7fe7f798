---------------------------- MODULE MethodProofs ----------------------------
(***************************************************************************)
(* ConnInv is kept by every method of a connection, whatever the segment,  *)
(* the call or the timer.  There is one lemma for each method, and they    *)
(* are composed as the methods call each other.  The relations SameCore,   *)
(* PanicKept, SenderKept, UnackKept and Continues say what a method leaves *)
(* to its caller.                                                          *)
(***************************************************************************)
EXTENDS ConnectionInvariant, ConnectionProofs

\* The fields the invariant reads.
SameCore(c, d) ==
  /\ d.state = c.state /\ d.tx = c.tx /\ d.tx_fin = c.tx_fin
  /\ d.re_tx = c.re_tx /\ d.next = c.next /\ d.unack = c.unack
  /\ d.timer_re_tx = c.timer_re_tx /\ d.timer_timewait = c.timer_timewait

\* A suspended sender stays suspended.
SenderKept(c, d) ==
  c.wait["writer"].kind = "Acknowledged" => d.wait["writer"].kind = "Acknowledged"

\* A failed assertion is not forgotten, and none of the timers' fails.
PanicKept(c, d) ==
  /\ d.panic = "none" => c.panic = "none"
  /\ c.panic \notin NeverInTimer => d.panic \notin NeverInTimer

\* A method that leaves the core and the suspended sender alone keeps the invariant.
LEMMA SameCoreInv ==
  ASSUME NEW c, NEW d \in Connections, ConnInv(c), PanicKept(c, d), SameCore(c, d),
         SenderKept(c, d)
  PROVE  ConnInv(d)
BY DEF ConnInv, Consistent, PanicKept, SameCore, SenderKept

\* An assertion touches nothing but the panic, and after it the condition holds.
LEMMA MustHoldKeeps ==
  ASSUME NEW c \in Connections, NEW holds \in BOOLEAN, NEW what \in Panics \ {"none"}
  PROVE  /\ MustHold(c, holds, what) \in Connections
         /\ SameCore(c, MustHold(c, holds, what))
         /\ MustHold(c, holds, what).wait = c.wait
         /\ MustHold(c, holds, what).panic = "none" => c.panic = "none" /\ holds
         /\ what \notin NeverInTimer => PanicKept(c, MustHold(c, holds, what))
<1>1. MustHold(c, holds, what) \in Connections BY MustHoldType
<1>2. CASE holds \/ c.panic # "none"
  <2>1. MustHold(c, holds, what) = c BY <1>2 DEF MustHold
  <2> QED BY <1>1, <1>2, <2>1 DEF SameCore, PanicKept
<1>3. CASE ~holds /\ c.panic = "none"
  <2>1. MustHold(c, holds, what) = [c EXCEPT !.panic = what] BY <1>3 DEF MustHold
  <2>2. /\ SameCore(c, MustHold(c, holds, what))
        /\ MustHold(c, holds, what).wait = c.wait
        /\ MustHold(c, holds, what).panic = what
    BY <2>1 DEF SameCore, Connections
  <2> QED BY <1>1, <2>2 DEF PanicKept
<1> QED BY <1>2, <1>3

\* The same for an assertion that only debug builds check.
LEMMA DebugMustHoldKeeps ==
  ASSUME NEW c \in Connections, NEW holds \in BOOLEAN, NEW what \in Panics \ {"none"},
     what \notin NeverInTimer
  PROVE  /\ DebugMustHold(c, holds, what) \in Connections
         /\ SameCore(c, DebugMustHold(c, holds, what))
         /\ DebugMustHold(c, holds, what).wait = c.wait
         /\ PanicKept(c, DebugMustHold(c, holds, what))
<1>1. (holds \/ ~DebugAssertions) \in BOOLEAN BY ConnectionAssumption
<1> QED BY <1>1, MustHoldKeeps DEF DebugMustHold

\* user_data.send touches nothing the invariant reads.
LEMMA SendKeeps ==
  ASSUME NEW c \in Connections, NEW seg \in SegmentMeta
  PROVE  /\ Send(c, seg) \in Connections
         /\ SameCore(c, Send(c, seg)) /\ Send(c, seg).wait = c.wait
         /\ PanicKept(c, Send(c, seg))
         /\ Send(c, seg).panic = c.panic
BY SendType DEF Send, Connections, SameCore, PanicKept

\* trigger_event touches only the suspended calls it wakes.
LEMMA WakeKeeps ==
  ASSUME NEW c \in Connections, NEW who
  PROVE  /\ Wake(c, who) \in Connections
         /\ SameCore(c, Wake(c, who)) /\ PanicKept(c, Wake(c, who))
         /\ Wake(c, who).panic = c.panic
         /\ "writer" \notin who => SenderKept(c, Wake(c, who))
<1>1. "writer" \in Callers BY DEF Callers
<1>2. Wake(c, who).wait = [u \in Callers |-> IF u \in who THEN NoWait ELSE c.wait[u]]
  BY DEF Wake, Connections
<1>3. /\ SameCore(c, Wake(c, who)) /\ PanicKept(c, Wake(c, who))
      /\ Wake(c, who).panic = c.panic
  BY DEF Wake, Connections, SameCore, PanicKept
<1>4. "writer" \notin who => SenderKept(c, Wake(c, who))
  BY <1>1, <1>2 DEF SenderKept
<1> QED BY <1>3, <1>4, WakeType

\* Waking the calls of another kind leaves a suspended sender alone.
LEMMA WakeKindKeeps ==
  ASSUME NEW c \in Connections, NEW kind, kind # "Acknowledged"
  PROVE  /\ WakeKind(c, kind) \in Connections
         /\ SameCore(c, WakeKind(c, kind)) /\ PanicKept(c, WakeKind(c, kind))
         /\ SenderKept(c, WakeKind(c, kind))
<1> DEFINE who == {u \in Callers : c.wait[u].kind = kind}
<1>1. c.wait["writer"].kind = "Acknowledged" => "writer" \notin who OBVIOUS
<1> HIDE DEF who
<1>2. /\ Wake(c, who) \in Connections
         /\ SameCore(c, Wake(c, who)) /\ PanicKept(c, Wake(c, who))
      /\ SenderKept(c, Wake(c, who))
    BY <1>1, WakeKeeps DEF SenderKept
<1> QED BY <1>2 DEF WakeKind, who

\* Suspending a call touches only that caller.
LEMMA SuspendKeeps ==
  ASSUME NEW c \in Connections, NEW u \in Callers, NEW kind \in WaitKind,
         NEW arg \in Nat
  PROVE  /\ Suspend(c, u, kind, arg) \in Connections
         /\ SameCore(c, Suspend(c, u, kind, arg))
         /\ PanicKept(c, Suspend(c, u, kind, arg))
         /\ u # "writer" => SenderKept(c, Suspend(c, u, kind, arg))
         /\ u = "writer" => Suspend(c, u, kind, arg).wait["writer"].kind = kind
<1>1. "writer" \in Callers BY DEF Callers
<1>2. c.wait \in [Callers -> WaitUntil] BY DEF Connections
<1>3. Suspend(c,u,kind,arg).wait = [c.wait EXCEPT ![u] = WaitFor(kind, arg)]
  BY DEF Suspend, Connections
<1>4. SameCore(c, Suspend(c, u, kind, arg)) /\ PanicKept(c, Suspend(c, u, kind, arg))
    BY DEF SameCore, PanicKept, Connections, Suspend
<1> QED BY <1>1, <1>2, <1>3, <1>4, SuspendType DEF SenderKept, WaitFor

\* clear establishes the invariant: nothing queued and no timer armed.
LEMMA ClearInv ==
  ASSUME NEW c, ConnInv(c)
  PROVE  /\ ConnInv(Clear(c)) /\ Clear(c).state = Closed /\ Clear(c).unack = 0
         /\ Clear(c).panic = c.panic
<1>1. c \in Connections BY DEF ConnInv
<1>2. Clear(c) \in Connections BY <1>1, ClearType
<1>3. /\ Clear(c).state = Closed /\ Clear(c).tx = <<>> /\ Clear(c).tx_fin = FALSE
      /\ Clear(c).re_tx = <<>> /\ Clear(c).timer_re_tx = FALSE
      /\ Clear(c).timer_timewait = FALSE /\ Clear(c).unack = 0
      /\ Clear(c).panic = c.panic
   BY DEF Clear, New
<1>4. Closed.kind = "Closed" BY DEF Closed, Finished
<1>5. Contiguous(<<>>, Clear(c).next) BY DEF Contiguous
<1>6. Consistent(Clear(c))
  BY <1>3, <1>4, <1>5 DEF Consistent, Idle, fin_sent, FinAcked
<1> QED BY <1>2, <1>3, <1>6 DEF ConnInv

\* Entering a state changes the state and wakes no sender.
LEMMA EnterStateKeeps ==
  ASSUME NEW c \in Connections, NEW s \in ConnectionStates
  PROVE  /\ EnterState(c, s) \in Connections
         /\ EnterState(c, s).state = s
         /\ SameCore([c EXCEPT !.state = s], EnterState(c, s))
         /\ PanicKept(c, EnterState(c, s)) /\ SenderKept(c, EnterState(c, s))
<1> DEFINE m == DebugMustHold(c, ValidTransition(c.state, s), "transition")
           d == [m EXCEPT !.state = s]
           who == {u \in Callers : c.wait[u].kind \in Reached(s)}
<1>1. m \in Connections /\ SameCore(c, m) /\ m.wait = c.wait /\ PanicKept(c, m)
  BY DebugMustHoldKeeps DEF ValidTransition, Panics, NeverInTimer
<1> HIDE DEF m
<1>2. /\ d \in Connections /\ SameCore([c EXCEPT !.state = s], d) /\ d.wait = c.wait
      /\ PanicKept(c, d) /\ d.state = s
  BY <1>1 DEF Connections, SameCore, PanicKept
<1> HIDE DEF d
<1>3. c.wait["writer"].kind = "Acknowledged" => "writer" \notin who BY DEF Reached
<1> HIDE DEF who
<1>4. /\ Wake(d, who) \in Connections /\ SameCore(d, Wake(d, who))
      /\ PanicKept(d, Wake(d, who))
      /\ "writer" \notin who => SenderKept(d, Wake(d, who))
  BY <1>2, WakeKeeps
<1>5. EnterState(c, s) = Wake(d, who) BY DEF EnterState, who, d, m
<1>6. SameCore([c EXCEPT !.state = s], Wake(d, who)) /\ Wake(d, who).state = s
  BY <1>2, <1>4 DEF SameCore
<1>7. PanicKept(c, Wake(d, who)) /\ SenderKept(c, Wake(d, who))
  BY <1>2, <1>3, <1>4 DEF PanicKept, SenderKept
<1> QED BY <1>4, <1>5, <1>6, <1>7

\* The same, field by field.
LEMMA EnterStateFields ==
  ASSUME NEW c \in Connections, NEW s \in ConnectionStates, NEW d, d = EnterState(c, s)
  PROVE  /\ d \in Connections
         /\ d.state = s /\ d.tx = c.tx /\ d.tx_fin = c.tx_fin
         /\ d.re_tx = c.re_tx /\ d.next = c.next /\ d.unack = c.unack
         /\ d.timer_re_tx = c.timer_re_tx /\ d.timer_timewait = c.timer_timewait
         /\ PanicKept(c, d) /\ SenderKept(c, d)
<1>1. /\ d \in Connections /\ SameCore([c EXCEPT !.state = s], d)
      /\ d.state = s /\ PanicKept(c, d) /\ SenderKept(c, d)
  BY EnterStateKeeps
<1> QED BY <1>1 DEF SameCore, Connections

\* What entering the state s asks of the connection for the invariant to hold.
MayEnter(c, s) ==
  /\ s \in ConnectionStates /\ s.kind \notin {"TimeWait", "Closed"}
  /\ c.panic = "none" =>
       /\ c.state.kind # "TimeWait"
       /\ fin_sent(s) => c.tx = <<>> /\ c.tx_fin
       /\ FinAcked(s) => c.unack = c.next
       /\ s.kind \in Idle => c.state.kind \in Idle
       /\ s.kind = "SynReceived" => c.tx = <<>>

\* set_state does not stop at s but goes on to TIME-WAIT or CLOSED.
Reduces(s) ==
  /\ s.kind = "Established" /\ s.close_called /\ s.tx_state = "Closed"
  /\ s.rx_state = "Closed"

\* set_state keeps the invariant if the state may be entered; it ends in the
\* state it was given unless that reduces to TIME-WAIT or CLOSED.
LEMMA SetStateInv ==
  ASSUME NEW c, ConnInv(c), NEW s, MayEnter(c, s), NEW r, r = SetState(c, s)
  PROVE  /\ ConnInv(r)
         /\ PanicKept(c, r)
         /\ ~Reduces(s) => r = EnterState(c, s)
         /\ Reduces(s) => r.state.kind \in {"TimeWait", "Closed"}
<1> DEFINE d == EnterState(c, s)
           e == EnterState(d, TimeWait)
           t == [e EXCEPT !.timer_re_tx = FALSE, !.timer_timewait = TRUE]
<1>1. c \in Connections /\ s \in ConnectionStates BY DEF ConnInv, MayEnter
<1>2. /\ d \in Connections
         /\ d.state = s /\ d.tx = c.tx /\ d.tx_fin = c.tx_fin
         /\ d.re_tx = c.re_tx /\ d.next = c.next /\ d.unack = c.unack
         /\ d.timer_re_tx = c.timer_re_tx /\ d.timer_timewait = c.timer_timewait
         /\ PanicKept(c, d)
  BY <1>1, EnterStateFields
<1> HIDE DEF d
<1>3. ConnInv(d)
  <2>1. d.panic \notin NeverInTimer BY <1>2 DEF PanicKept, ConnInv
  <2>2. ASSUME d.panic = "none" PROVE Consistent(d)
    <3>1. c.panic = "none" /\ Consistent(c) BY <1>2, <2>2 DEF PanicKept, ConnInv
    <3> QED BY <1>2, <3>1 DEF Consistent, MayEnter, Idle
  <2> QED BY <1>2, <2>1, <2>2 DEF ConnInv
<1>4. CASE ~Reduces(s)
  <2>1. r = d BY <1>4 DEF SetState, Reduces, d
  <2> QED BY <1>2, <1>3, <1>4, <2>1 DEF d
<1>5. CASE Reduces(s) /\ s.close_active
  <2>1. r = t BY <1>5 DEF SetState, Reduces, d
  <2>2. TimeWait \in ConnectionStates BY StatesType
  <2>3. /\ e \in Connections
         /\ e.state = TimeWait /\ e.tx = d.tx /\ e.tx_fin = d.tx_fin
         /\ e.re_tx = d.re_tx /\ e.next = d.next /\ e.unack = d.unack
         /\ PanicKept(d, e)
     BY <1>2, <2>2, EnterStateFields
  <2> HIDE DEF e
  <2>4. /\ t \in Connections
         /\ t.state = TimeWait /\ t.tx = d.tx /\ t.tx_fin = d.tx_fin
         /\ t.re_tx = d.re_tx /\ t.next = d.next /\ t.unack = d.unack
         /\ t.timer_re_tx = FALSE /\ t.timer_timewait = TRUE
         /\ PanicKept(d, t)
     BY <2>3 DEF Connections, PanicKept
  <2>5. TimeWait.kind = "TimeWait" BY DEF TimeWait, Finished
  <2> HIDE DEF t
  <2>6. ASSUME t.panic = "none" PROVE Consistent(t)
    <3>1. d.panic = "none" /\ Consistent(d)
      BY <1>3, <2>4, <2>6 DEF PanicKept, ConnInv
    <3>2. d.tx = <<>> /\ d.tx_fin /\ d.unack = d.next
      BY <3>1, <1>2, <1>5 DEF Consistent, Reduces, fin_sent, FinAcked
    <3> QED BY <3>1, <3>2, <2>4, <2>5 DEF Consistent, Idle
  <2>7. t.panic \notin NeverInTimer BY <1>3, <2>4 DEF PanicKept, ConnInv
  <2>8. PanicKept(c, t) BY <1>2, <2>4 DEF PanicKept
  <2> QED BY <1>5, <2>1, <2>4, <2>5, <2>6, <2>7, <2>8 DEF ConnInv
<1>6. CASE Reduces(s) /\ ~s.close_active
  <2>1. r = Clear(d) BY <1>6 DEF SetState, Reduces, d
  <2>2. ConnInv(Clear(d)) /\ Clear(d).state = Closed /\ Clear(d).panic = d.panic
    BY <1>3, ClearInv
  <2>3. Closed.kind = "Closed" BY DEF Closed, Finished
  <2> QED BY <1>2, <1>6, <2>1, <2>2, <2>3 DEF PanicKept
<1> QED BY <1>1, <1>4, <1>5, <1>6 DEF ConnectionStates

\* An empty segment does not move the sequence number.
LEMMA WrapZero == \A a \in SeqN : wrapping_add(a, 0) = a
BY SegmentAssumption DEF wrapping_add, SeqN

\* on_send keeps the queue contiguous if the segment starts where it ended.
LEMMA ContiguousAppend ==
  ASSUME NEW q \in Seq(SegmentMeta), NEW seg \in SegmentMeta, Contiguous(q, seg.seqn)
  PROVE  Contiguous(Append(q, seg), seqn_after(seg))
<1> DEFINE p == Append(q, seg)
<1>1. Len(p) = Len(q) + 1 /\ p[Len(q) + 1] = seg /\ \A i \in 1 .. Len(q) : p[i] = q[i]
  OBVIOUS
<1>2. Len(q) \in Nat OBVIOUS
<1>3. q # <<>> => Len(q) > 0 OBVIOUS
<1> HIDE DEF p
<1>4. ASSUME NEW i \in 1 .. Len(p) - 1 PROVE seqn_after(p[i]) = p[i+1].seqn
  <2>1. i \in 1 .. Len(q) BY <1>1, <1>2
  <2>2. CASE i = Len(q)
    <3>1. q # <<>> BY <2>1
    <3> QED BY <2>1, <2>2, <3>1, <1>1 DEF Contiguous
  <2>3. CASE i # Len(q)
    <3>1. i \in 1 .. Len(q) - 1 /\ i + 1 \in 1 .. Len(q) BY <2>1, <2>3, <1>2
    <3> QED BY <2>1, <3>1, <1>1 DEF Contiguous
  <2> QED BY <2>2, <2>3
<1>5. seqn_after(p[Len(p)]) = seqn_after(seg) BY <1>1
<1> QED BY <1>4, <1>5 DEF Contiguous, p

\* A suffix of a contiguous queue is contiguous.
LEMMA ContiguousSuffix ==
  ASSUME NEW q \in Seq(SegmentMeta), NEW k \in 1 .. Len(q), NEW next,
         Contiguous(q, next)
  PROVE  Contiguous(SubSeq(q, k, Len(q)), next)
<1> DEFINE p == SubSeq(q, k, Len(q))
<1>1. Len(p) = Len(q) - k + 1 /\ \A i \in 1 .. Len(p) : p[i] = q[k + i - 1] OBVIOUS
<1>2. Len(q) \in Nat /\ q # <<>> OBVIOUS
<1> HIDE DEF p
<1>4. ASSUME NEW i \in 1 .. Len(p) - 1 PROVE seqn_after(p[i]) = p[i+1].seqn
  <2>1. i \in 1 .. Len(p) /\ i + 1 \in 1 .. Len(p) /\ k + i - 1 \in 1 .. Len(q) - 1
       /\ k + (i + 1) - 1 = (k + i - 1) + 1
     BY <1>1, <1>2
  <2>3. p[i] = q[k+i-1] /\ p[i+1] = q[k+(i+1)-1] BY <1>1, <2>1
  <2>2. p[i] = q[k+i-1] /\ p[i+1] = q[(k+i-1)+1] BY <2>3, <2>1
  <2> QED BY <2>1, <2>2 DEF Contiguous
<1>5. seqn_after(p[Len(p)]) = next
  <2>1. Len(p) \in 1 .. Len(p) /\ k + Len(p) - 1 = Len(q) BY <1>1, <1>2
  <2> QED BY <1>1, <1>2, <2>1 DEF Contiguous
<1> QED BY <1>4, <1>5 DEF Contiguous, p

\* clear_re_tx_range keeps the queue contiguous.
LEMMA UnackedContiguous ==
  ASSUME NEW q \in Seq(SegmentMeta), NEW end \in SeqN, NEW next, Contiguous(q, next)
  PROVE  Contiguous(Unacked(q, end), next) /\ (q = <<>> => Unacked(q, end) = <<>>)
<1>1. CASE Unacked(q, end) = <<>> BY <1>1 DEF Contiguous
<1>2. CASE Unacked(q, end) # <<>>
  <2>1. PICK i \in 1 .. Len(q) : Unacked(q, end) = SubSeq(q, i, Len(q))
    BY <1>2, UnackedType
  <2>2. q # <<>> BY <2>1
  <2> QED BY <2>1, <2>2, ContiguousSuffix
<1> QED BY <1>1, <1>2

\* f is what remains of c when seg has been sent and kept for retransmission.
AfterSend(c, seg, f) ==
  /\ f.state = c.state /\ f.tx = c.tx /\ f.tx_fin = c.tx_fin
  /\ f.next = wrapping_add(c.next, seq_size(seg)) /\ f.unack = c.unack
  /\ f.re_tx = IF seq_size(seg) # 0 THEN Append(c.re_tx, seg) ELSE c.re_tx
  /\ f.timer_re_tx = (c.timer_re_tx \/ seq_size(seg) # 0)
  /\ f.timer_timewait = c.timer_timewait
  /\ f.wait = c.wait /\ f.panic = c.panic

\* Sending and queueing a segment keeps the invariant, unless it takes sequence
\* numbers in a state that may not send any more.
LEMMA AfterSendInv ==
  ASSUME NEW c, ConnInv(c), NEW seg \in SegmentMeta, seg.seqn = c.next,
         c.panic = "none" /\ seq_size(seg) # 0 =>
           c.state.kind \notin Idle /\ ~FinAcked(c.state),
         NEW f \in Connections, AfterSend(c, seg, f)
  PROVE  ConnInv(f)
<1>1. f.panic \notin NeverInTimer BY DEF ConnInv, AfterSend
<1>2. ASSUME f.panic = "none" PROVE Consistent(f)
  <2>1. c.panic = "none" /\ Consistent(c) /\ c \in Connections
    BY <1>2 DEF AfterSend, ConnInv
  <2>2. c.next \in SeqN /\ c.re_tx \in Seq(SegmentMeta) BY <2>1 DEF Connections
  <2>6. seq_size(seg) = 0 => f.next = c.next BY <2>2, WrapZero DEF AfterSend
  <2>3. Contiguous(f.re_tx, f.next)
    <3>1. CASE seq_size(seg) = 0 BY <3>1, <2>6, <2>1 DEF AfterSend, Consistent
    <3>2. CASE seq_size(seg) # 0
      BY <3>2, <2>1, <2>2, ContiguousAppend DEF AfterSend, Consistent, seqn_after
    <3> QED BY <3>1, <3>2
  <2>4. CASE seq_size(seg) = 0 BY <2>1, <2>3, <2>4, <2>6 DEF AfterSend, Consistent
  <2>5. CASE seq_size(seg) # 0
    BY <2>1, <2>3, <2>5 DEF AfterSend, Consistent, Idle, FinAcked
  <2> QED BY <2>4, <2>5
<1> QED BY <1>1, <1>2 DEF ConnInv

\* Only data, a SYN or a FIN takes sequence numbers.
LEMMA SeqSizeOf ==
  ASSUME NEW seg \in SegmentMeta
  PROVE  /\ seq_size(seg) # 0 =>
              seg.data # <<>> \/ "SYN" \in seg.flags \/ "FIN" \in seg.flags
         /\ "SYN" \in seg.flags => seq_size(seg) # 0
<1>1. seg.data \in Seq(Byte) /\ Len(seg.data) \in Nat BY SegmentFields
<1>2. seg.data = <<>> => Len(seg.data) = 0 BY <1>1
<1> DEFINE s == IF "SYN" \in seg.flags THEN 1 ELSE 0
           f == IF "FIN" \in seg.flags THEN 1 ELSE 0
<1>3. s \in 0 .. 1 /\ f \in 0 .. 1 OBVIOUS
<1>4. /\ "SYN" \in seg.flags <=> s = 1
      /\ "FIN" \in seg.flags <=> f = 1 OBVIOUS
<1>5. seq_size(seg) = Len(seg.data) + s + f BY DEF seq_size
<1> HIDE DEF s, f
<1> QED BY <1>1, <1>2, <1>3, <1>4, <1>5

\* send_ack keeps the invariant in every state: it sends data only while the
\* FIN has not been sent, and sends the FIN only after all data.
LEMMA SendAckInv ==
  ASSUME NEW c, ConnInv(c), NEW r, r = SendAck(c)
  PROVE  /\ ConnInv(r) /\ PanicKept(c, r)
         /\ r.unack = c.unack /\ r.tx_fin = c.tx_fin
         /\ c.tx = <<>> => r.tx = <<>>
         /\ r.panic = "none" => r.state.kind \in {c.state.kind, "Established"}
         /\ r.state.kind \in {c.state.kind, "Established"}
         /\ c.panic = "none" /\ c.state.kind \notin Synchronizing => r.state = c.state
<1> DEFINE limit == Least(MAX_SEGMENT_SIZE, space_available(c))
           n == Least(limit, Len(c.tx))
           data == SubSeq(c.tx, 1, n)
           read == [c EXCEPT !.tx = SubSeq(@, n + 1, Len(@))]
           woken == IF limit # 0 /\ data = <<>> /\ ~AnyAcknowledged(c)
                    THEN WakeKind(read, "TxQueueEmpty") ELSE read
           check1 == DebugMustHold(woken, c.state.kind # "Closed", "fin_sent_in_closed")
           checked == DebugMustHold(check1, fin_sent(c.state) => data = <<>>, "data_after_fin")
           fin == c.tx_fin /\ n < limit /\ ~fin_sent(c.state)
           s == Established("Fin", c.state.rx_state, c.state.close_called,
                            c.state.close_active)
           d == IF fin THEN SetState(checked, s) ELSE checked
           seg == [AckSegment(d) EXCEPT !.flags = IF fin THEN {"FIN", "ACK"} ELSE {"ACK"},
                                        !.data = data]
           sent == Send(OnSend(d, seg), seg)
           f == [sent EXCEPT !.timer_re_tx = @ \/ seq_size(seg) # 0]
<1>0. c \in Connections BY DEF ConnInv
<1>1. c.tx \in Seq(Byte) /\ Len(c.tx) \in Nat BY <1>0 DEF Connections
<1>2. n \in Nat /\ n <= Len(c.tx) /\ n <= MAX_SEGMENT_SIZE /\ (n < limit => n = Len(c.tx))
  <2>1. space_available(c) \in Nat BY <1>0, SpaceType, SeqNFacts
  <2>2. limit \in Nat /\ limit <= MAX_SEGMENT_SIZE
    BY <2>1, LeastType, ConnectionAssumption
  <2> HIDE DEF limit
  <2>3. n \in Nat /\ n <= limit /\ n <= Len(c.tx) BY <1>1, <2>2, LeastType
  <2>4. n < limit => n = Len(c.tx) BY <1>1, <2>2 DEF Least
  <2> HIDE DEF n
  <2> QED BY <1>1, <2>2, <2>3, <2>4, ConnectionAssumption
<1> HIDE DEF n
<1>3. /\ data \in Payload /\ SubSeq(c.tx, n + 1, Len(c.tx)) \in Seq(Byte)
      /\ n = Len(c.tx) => SubSeq(c.tx, n + 1, Len(c.tx)) = <<>>
      /\ Len(data) = n
  BY <1>1, <1>2, PrefixType
<1>4. /\ read \in Connections /\ read.tx = SubSeq(c.tx, n + 1, Len(c.tx))
      /\ read.state = c.state /\ read.tx_fin = c.tx_fin
      /\ read.re_tx = c.re_tx /\ read.next = c.next /\ read.unack = c.unack
      /\ read.timer_re_tx = c.timer_re_tx /\ read.timer_timewait = c.timer_timewait
      /\ read.wait = c.wait /\ read.panic = c.panic
  BY <1>0, <1>3 DEF Connections
<1>5. c.tx = <<>> => read.tx = <<>> /\ data = <<>>
  <2>1. ASSUME c.tx = <<>> PROVE n = 0 /\ Len(c.tx) = 0 BY <1>2, <2>1
  <2>2. ASSUME c.tx = <<>> PROVE data = <<>> BY <1>3, <2>1, <2>2 DEF Payload
  <2> QED BY <1>3, <1>4, <2>1, <2>2
<1>6. n < limit => read.tx = <<>> BY <1>2, <1>3, <1>4
<1> HIDE DEF read, data, limit
<1>7. ConnInv(read) BY <1>4, <1>5 DEF ConnInv, Consistent
<1>8. /\ woken \in Connections /\ SameCore(read, woken) /\ PanicKept(read, woken)
      /\ SenderKept(read, woken)
  <2>1. woken = read \/ woken = WakeKind(read, "TxQueueEmpty") OBVIOUS
  <2>2. SameCore(read, read) /\ PanicKept(read, read) /\ SenderKept(read, read)
    BY DEF SameCore, PanicKept, SenderKept
  <2> HIDE DEF woken
  <2> QED BY <1>4, <2>1, <2>2, WakeKindKeeps
<1> HIDE DEF woken
<1>9. /\ check1 \in Connections /\ SameCore(woken, check1) /\ PanicKept(woken, check1)
      /\ check1.wait = woken.wait
  BY <1>8, DebugMustHoldKeeps DEF Panics, NeverInTimer
<1> HIDE DEF check1
<1>10. /\ checked \in Connections /\ SameCore(check1, checked)
       /\ PanicKept(check1, checked)
       /\ checked.wait = check1.wait
  BY <1>9, DebugMustHoldKeeps DEF Panics, NeverInTimer
<1> HIDE DEF checked
<1>11. /\ SameCore(read, checked) /\ PanicKept(read, checked)
       /\ SenderKept(read, checked)
  BY <1>8, <1>9, <1>10 DEF SameCore, PanicKept, SenderKept
<1>12. ConnInv(checked) BY <1>7, <1>10, <1>11, SameCoreInv
<1>13. fin => MayEnter(checked, s)
  <2>1. s \in ConnectionStates
    BY <1>0, StateFields, EstablishedType DEF ChannelState
  <2>2. s.kind = "Established" /\ s.tx_state = "Fin" BY DEF Established
  <2>3. ASSUME fin, checked.panic = "none" PROVE checked.state.kind # "TimeWait"
    BY <2>3, <1>4, <1>11 DEF SameCore, fin_sent
  <2>4. ASSUME fin PROVE checked.tx = <<>> /\ checked.tx_fin
    BY <2>4, <1>4, <1>6, <1>11 DEF SameCore
  <2> HIDE DEF s, fin
  <2> QED BY <2>1, <2>2, <2>3, <2>4 DEF MayEnter, Idle, FinAcked
<1>14. ~Reduces(s) BY DEF Reduces, Established
<1>15. /\ ConnInv(d) /\ PanicKept(checked, d)
       /\ d.tx = checked.tx /\ d.tx_fin = checked.tx_fin /\ d.unack = checked.unack
       /\ d.state.kind \in {c.state.kind, "Established"}
       /\ ~fin => d.state = c.state
       /\ fin => d.state = s
  <2>1. CASE fin
    <3>1. d = EnterState(checked, s) /\ ConnInv(d)
      BY <2>1, <1>12, <1>13, <1>14, SetStateInv
    <3>2. s \in ConnectionStates BY <2>1, <1>13 DEF MayEnter
    <3>3. s.kind = "Established" BY DEF Established
    <3> HIDE DEF d, s
    <3> QED BY <2>1, <3>1, <3>2, <3>3, <1>10, EnterStateFields
  <2>2. CASE ~fin BY <2>2, <1>4, <1>11, <1>12 DEF SameCore, PanicKept
  <2> QED BY <2>1, <2>2
<1> HIDE DEF d
<1>16. d \in Connections BY <1>15 DEF ConnInv
<1>17. seg \in SegmentMeta /\ seg.seqn = d.next /\ seg.data = data
       /\ seg.flags = IF fin THEN {"FIN", "ACK"} ELSE {"ACK"}
  <2>1. AckSegment(d) \in SegmentMeta /\ AckSegment(d).seqn = d.next
    BY <1>16, AckSegmentType DEF AckSegment, Control
  <2> HIDE DEF fin
  <2> QED BY <2>1, <1>3 DEF SegmentMeta, SegmentFlags
<1>18. d.panic = "none" /\ seq_size(seg) # 0 =>
         d.state.kind \notin Idle /\ ~FinAcked(d.state)
  <2>1. ASSUME d.panic = "none", seq_size(seg) # 0, ~fin
        PROVE  d.state.kind \notin Idle /\ ~FinAcked(d.state)
    <3> HIDE DEF seg, fin
    <3>6. "SYN" \notin seg.flags /\ "FIN" \notin seg.flags BY <2>1, <1>17
    <3>1. data # <<>> BY <2>1, <3>6, <1>17, SeqSizeOf
    <3>2. c.tx # <<>> BY <3>1, <1>5
    <3>3. c.panic = "none" BY <2>1, <1>4, <1>11, <1>15 DEF PanicKept
    <3>4. Consistent(c) BY <3>3 DEF ConnInv
    <3>5. d.state = c.state BY <2>1, <1>15
    <3> QED BY <3>2, <3>4, <3>5 DEF Consistent, fin_sent, FinAcked
  <2>2. ASSUME fin PROVE d.state.kind = "Established" /\ d.state.tx_state = "Fin"
    BY <2>2, <1>15 DEF Established
  <2> QED BY <2>1, <2>2 DEF Idle, FinAcked
<1> HIDE DEF seg, fin
<1>19. OnSend(d, seg) \in Connections /\ sent \in Connections
  BY <1>16, <1>17, OnSendType, SendType
<1>20. f \in Connections /\ AfterSend(d, seg, f)
  <2>1. sent = OnSend(d, seg) \/ sent = [OnSend(d, seg) EXCEPT !.out = Append(@, seg)]
    BY DEF Send
  <2>2. f \in Connections BY <1>19 DEF Connections
  <2> HIDE DEF sent
  <2>3. /\ f.wait = d.wait /\ f.panic = d.panic /\ f.state = d.state /\ f.tx = d.tx
        /\ f.tx_fin = d.tx_fin
     /\ f.unack = d.unack /\ f.timer_timewait = d.timer_timewait
    BY <2>1, <1>16, <1>19, ZenonT(40) DEF OnSend, Connections
  <2>4. /\ f.next = wrapping_add(d.next, seq_size(seg))
        /\ f.timer_re_tx = (d.timer_re_tx \/ seq_size(seg) # 0)
        /\ f.re_tx = IF seq_size(seg) # 0 THEN Append(d.re_tx, seg) ELSE d.re_tx
    BY <2>1, <1>16, <1>19, ZenonT(40) DEF OnSend, Connections
  <2> QED BY <2>2, <2>3, <2>4 DEF AfterSend
<1> HIDE DEF f
<1>21. ConnInv(f) BY <1>15, <1>17, <1>18, <1>20, AfterSendInv
<1>22. r = d \/ r = f
  BY DEF SendAck, f, sent, seg, d, s, fin, checked, check1, woken, read, data, n, limit
<1>23. /\ r.state = d.state /\ r.tx = d.tx /\ r.tx_fin = d.tx_fin
       /\ r.unack = d.unack /\ r.panic = d.panic
  BY <1>20, <1>22 DEF AfterSend
<1>24. c.panic = "none" /\ c.state.kind \notin Synchronizing => ~fin
  BY <1>0, StateFields DEF ConnInv, Consistent, fin, Synchronizing, fin_sent, Idle,
     StateKind
<1>25. PanicKept(c, r) BY <1>4, <1>11, <1>15, <1>23 DEF PanicKept
<1>26. c.tx = <<>> => r.tx = <<>> BY <1>5, <1>11, <1>15, <1>23 DEF SameCore
<1>27. r.unack = c.unack /\ r.tx_fin = c.tx_fin
  BY <1>4, <1>11, <1>15, <1>23 DEF SameCore
<1> QED BY <1>15, <1>21, <1>22, <1>23, <1>24, <1>25, <1>26, <1>27

\* What a method that only sends leaves alone.
UnackKept(c, r) ==
  /\ r.panic = "none" /\ c.state.kind \in Synchronizing
  /\ r.state.kind \in Synchronizing
  => r.unack = c.unack

\* Suspending a call other than a send keeps the invariant.
LEMMA SuspendInv ==
  ASSUME NEW c, ConnInv(c), NEW u \in Callers \ {"writer"}, NEW kind \in WaitKind,
         NEW arg \in Nat,
         NEW r, r = Suspend(c, u, kind, arg)
  PROVE  ConnInv(r) /\ PanicKept(c, r) /\ SameCore(c, r)
<1>1. c \in Connections BY DEF ConnInv
<1>2. r \in Connections /\ PanicKept(c, r) /\ SameCore(c, r) /\ SenderKept(c, r)
  BY <1>1, SuspendKeeps
<1> QED BY <1>2, SameCoreInv

\* A SYN takes a sequence number.
LEMMA ControlFields ==
  ASSUME NEW flags \in SUBSET SegmentFlags, NEW seqn \in SeqN, NEW ackn \in SeqN,
         NEW window \in 0 .. WindowMax, "SYN" \in flags, NEW seg,
         seg = Control(flags, seqn, ackn, window)
  PROVE  seg \in SegmentMeta /\ seg.seqn = seqn /\ seq_size(seg) # 0
<1>1. seg \in SegmentMeta /\ seg.seqn = seqn /\ seg.flags = flags
  BY EmptySegmentType DEF Control
<1> QED BY <1>1, SeqSizeOf

\* The kinds of the constant states.
LEMMA KindOf ==
  /\ SynSent.kind = "SynSent" /\ SynReceived.kind = "SynReceived"
  /\ Listen.kind = "Listen" /\ Reset.kind = "Reset" /\ Closed.kind = "Closed"
  /\ FULLY_OPEN.kind = "Established" /\ FULLY_OPEN.tx_state = "Open"
  /\ FULLY_OPEN.rx_state = "Open"
BY DEF SynSent, SynReceived, Listen, Reset, Closed, FULLY_OPEN, Handshake,
   Finished, Established

\* call_connect keeps the invariant.
LEMMA CallConnectInv ==
  ASSUME NEW c, ConnInv(c), c.panic = "none", CanConnect(c), NEW isn \in SeqN,
         NEW r, r = CallConnect(c, isn)
  PROVE  ConnInv(r) /\ UnackKept(c, r)
<1> DEFINE b == SetState(c, SynSent)
           d == [b EXCEPT !.init_seqn = isn, !.unack = isn, !.next = isn]
           syn == Control({"SYN"}, isn, 0, curr_window(d))
           e == [OnSend(Send(d, syn), syn) EXCEPT !.timer_re_tx = TRUE]
<1>0. /\ c \in Connections /\ Consistent(c) /\ c.state.kind \in Idle
      /\ c.state.kind # "TimeWait"
       /\ c.re_tx = <<>> /\ c.tx = <<>>
  BY DEF ConnInv, CanConnect, Consistent, Idle
<1>1. MayEnter(c, SynSent) /\ ~Reduces(SynSent)
  BY <1>0, KindOf, StatesType DEF MayEnter, Reduces, Idle, fin_sent, FinAcked
<1>2. ConnInv(b) /\ b = EnterState(c, SynSent) BY <1>1, SetStateInv
<1> HIDE DEF b
<1>13. SynSent \in ConnectionStates BY StatesType
<1>3. b \in Connections /\ b.re_tx = <<>> /\ b.state = SynSent
  BY <1>0, <1>2, <1>13, EnterStateFields
<1>4. d \in Connections /\ d.next = isn /\ d.state = SynSent /\ d.re_tx = <<>>
     /\ d.tx = b.tx /\ d.tx_fin = b.tx_fin /\ d.timer_re_tx = b.timer_re_tx
     /\ d.timer_timewait = b.timer_timewait
     /\ d.panic = b.panic
  BY <1>3 DEF Connections
<1> HIDE DEF d
<1>5. Contiguous(d.re_tx, d.next) BY <1>4 DEF Contiguous
<1>6. ConnInv(d) BY <1>2, <1>3, <1>4, <1>5, KindOf DEF ConnInv, Consistent, FinAcked
<1>7. syn \in SegmentMeta /\ syn.seqn = isn /\ seq_size(syn) # 0
  <2>1. curr_window(d) \in 0 .. WindowMax BY <1>4, WindowType
  <2>2. {"SYN"} \in SUBSET SegmentFlags /\ 0 \in SeqN
    BY SeqNFacts DEF SegmentFlags
  <2> QED BY <2>1, <2>2, ControlFields
<1> HIDE DEF syn
<1>8. Send(d, syn) \in Connections /\ OnSend(Send(d, syn), syn) \in Connections
  BY <1>4, <1>7, SendType, OnSendType
<1>9. e \in Connections /\ AfterSend(d, syn, e)
  <2> DEFINE g == Send(d, syn)
  <2>1. g \in Connections /\ SameCore(d, g) /\ g.wait = d.wait /\ g.panic = d.panic
    BY <1>4, <1>7, SendKeeps
  <2> HIDE DEF g
  <2>2. OnSend(g, syn) \in Connections BY <2>1, <1>7, OnSendType
  <2>3. [OnSend(g, syn) EXCEPT !.timer_re_tx = TRUE] \in Connections
    BY <2>2 DEF Connections
  <2>4. AfterSend(g, syn, [OnSend(g, syn) EXCEPT !.timer_re_tx = TRUE])
    BY <2>1, <2>2, <1>7, ZenonT(40) DEF AfterSend, OnSend, Connections
  <2>5. e = [OnSend(g, syn) EXCEPT !.timer_re_tx = TRUE] BY DEF g
  <2> HIDE DEF e
  <2>6. e \in Connections BY <2>3, <2>5
  <2>7. AfterSend(g, syn, e) BY <2>4, <2>5
  <2>8. AfterSend(d, syn, e) BY <2>1, <2>7 DEF AfterSend, SameCore
  <2> QED BY <2>6, <2>8
<1> HIDE DEF e
<1>10. ConnInv(e) BY <1>4, <1>6, <1>7, <1>9, KindOf, AfterSendInv DEF Idle, FinAcked
<1>11. ConnInv(Suspend(e, "opener", "Established", 0))
  BY <1>10, SuspendInv DEF Callers, WaitKind
<1>12. r = Suspend(e, "opener", "Established", 0) BY DEF CallConnect, e, syn, d, b
<1> QED BY <1>0, <1>11, <1>12 DEF UnackKept, Synchronizing, Idle

\* call_send keeps the invariant: in the handshake the sender is suspended until
\* its data is acknowledged, after shutdown it panics.
LEMMA CallSendInv ==
  ASSUME NEW c, ConnInv(c), c.panic = "none", CanSend(c), NEW data \in Payload,
         NEW r, r = CallSend(c, data)
  PROVE  ConnInv(r) /\ UnackKept(c, r)
<1> DEFINE open == DebugMustHold(c, c.state.tx_state = "Open", "send_after_fin")
           m == MustHold(open, ~c.tx_fin, "send_after_fin")
           d == [m EXCEPT !.tx = @ \o data]
           arg == wrapping_add(c.next, Len(data))
<1>0. c \in Connections /\ Consistent(c) BY DEF ConnInv
<1>1. /\ open \in Connections /\ SameCore(c, open) /\ open.wait = c.wait
      /\ PanicKept(c, open)
  BY <1>0, DebugMustHoldKeeps DEF Panics, NeverInTimer
<1> HIDE DEF open
<1>2. /\ m \in Connections /\ SameCore(open, m) /\ m.wait = open.wait
      /\ PanicKept(open, m)
      /\ m.panic = "none" => ~c.tx_fin
  BY <1>1, MustHoldKeeps DEF Panics, NeverInTimer
<1> HIDE DEF m
<1>3. SameCore(c, m) /\ m.wait = c.wait /\ PanicKept(c, m)
  BY <1>1, <1>2 DEF SameCore, PanicKept
<1>4. m.tx \o data \in Seq(Byte) BY <1>2 DEF Connections, Payload
<1>5. /\ d \in Connections /\ d.wait = m.wait /\ d.panic = m.panic
      /\ d.state = m.state /\ d.tx_fin = m.tx_fin /\ d.re_tx = m.re_tx
      /\ d.next = m.next
      /\ d.unack = m.unack /\ d.timer_re_tx = m.timer_re_tx
      /\ d.timer_timewait = m.timer_timewait
  BY <1>2, <1>4 DEF Connections
<1> HIDE DEF d
<1>6. d.panic \notin NeverInTimer /\ d.unack = c.unack /\ d.state = c.state
  BY <1>3, <1>5 DEF PanicKept, ConnInv, SameCore
<1>7. ASSUME d.panic = "none",
             c.state.kind = "SynReceived" => d.wait["writer"].kind = "Acknowledged"
      PROVE Consistent(d)
  <2>1. ~c.tx_fin BY <1>2, <1>5, <1>7
  <2>2. ~fin_sent(c.state) BY <2>1, <1>0 DEF Consistent
  <2>3. c.state.kind \notin Idle BY DEF CanSend, Idle
  <2> QED BY <1>0, <1>3, <1>5, <1>7, <2>2, <2>3 DEF Consistent, SameCore
<1>8. CASE c.state.kind # "Established"
  <2>1. arg \in Nat
    <3>1. Len(data) \in Nat /\ Len(data) + 2 < SeqSpace BY DEF Payload
    <3>2. Len(data) \in SeqN BY <3>1, SegmentAssumption DEF SeqN
    <3> QED BY <1>0, <3>2, WrapType, SeqNFacts DEF Connections
  <2> HIDE DEF arg
  <2> DEFINE z == Suspend(d, "writer", "Acknowledged", arg)
  <2>2. /\ z \in Connections /\ SameCore(d, z) /\ PanicKept(d, z)
        /\ z.wait["writer"].kind = "Acknowledged"
    BY <2>1, <1>5, SuspendKeeps DEF Callers, WaitKind
  <2>3. r = z BY <1>8 DEF CallSend, d, m, open, arg
  <2> HIDE DEF z
  <2>4. z.panic \notin NeverInTimer /\ z.unack = c.unack
    BY <1>6, <2>2 DEF PanicKept, SameCore
  <2>5. ASSUME z.panic = "none" PROVE Consistent(z)
    <3>1. d.panic = "none" BY <2>2, <2>5 DEF PanicKept
    <3>2. ~c.tx_fin BY <1>2, <1>5, <3>1
    <3>3. ~fin_sent(c.state) BY <3>2, <1>0 DEF Consistent
    <3>4. c.state.kind \notin Idle BY DEF CanSend, Idle
    <3>5. /\ z.state = c.state /\ z.tx_fin = c.tx_fin /\ z.re_tx = c.re_tx
          /\ z.next = c.next
          /\ z.timer_re_tx = c.timer_re_tx /\ z.timer_timewait = c.timer_timewait
      BY <1>3, <1>5, <2>2 DEF SameCore
    <3>6. ~FinAcked(c.state) BY <1>8 DEF CanSend, FinAcked
    <3> QED BY <1>0, <2>2, <3>3, <3>4, <3>5, <3>6 DEF Consistent
  <2> QED BY <2>2, <2>3, <2>4, <2>5 DEF ConnInv, UnackKept
<1>9. CASE c.state.kind = "Established"
  <2>1. ConnInv(d) BY <1>5, <1>6, <1>7, <1>9 DEF ConnInv
  <2>2. r = d \/ r = SendAck(d) BY <1>9 DEF CallSend, d, m, open
  <2>3. ConnInv(SendAck(d)) /\ SendAck(d).unack = d.unack BY <2>1, SendAckInv
  <2> QED BY <1>6, <2>1, <2>2, <2>3 DEF UnackKept
<1> QED BY <1>8, <1>9

\* call_recv keeps the invariant.
LEMMA CallRecvInv ==
  ASSUME NEW c, ConnInv(c), c.panic = "none", CanRecv(c), NEW n \in Nat,
         NEW r, r = CallRecv(c, n)
  PROVE  ConnInv(r) /\ UnackKept(c, r)
<1> DEFINE short == Len(c.rx) < n
           m == MustHold(c, ~c.done, "read_after_done")
           read == [m EXCEPT !.rx = SubSeq(@, Least(n, Len(@)) + 1, Len(@)),
                             !.done = short /\ c.rx_fin]
           checked == MustHold(read, c.rx_fin, "short_read")
           s == [c.state EXCEPT !.rx_state = "Closed"]
<1>0. c \in Connections /\ Consistent(c) BY DEF ConnInv
<1>1. m \in Connections /\ SameCore(c, m) /\ m.wait = c.wait /\ PanicKept(c, m)
  BY <1>0, MustHoldKeeps, ZenonT(40) DEF Panics, NeverInTimer, Connections
<1> HIDE DEF m
<1>2. SubSeq(m.rx, Least(n, Len(m.rx)) + 1, Len(m.rx)) \in Seq(Byte)
  <2>1. m.rx \in Seq(Byte) /\ Len(m.rx) \in Nat BY <1>1 DEF Connections
  <2>2. Least(n, Len(m.rx)) \in Nat BY <2>1, LeastType
  <2> QED BY <2>1, <2>2
<1>3. (short /\ c.rx_fin) \in BOOLEAN OBVIOUS
<1>4. /\ read \in Connections /\ read.wait = m.wait /\ read.panic = m.panic
      /\ SameCore(m, read)
  BY <1>1, <1>2, <1>3 DEF Connections, SameCore
<1> HIDE DEF read
<1>5. /\ SameCore(c, read) /\ PanicKept(c, read) /\ SenderKept(c, read)
  BY <1>1, <1>4 DEF SameCore, PanicKept, SenderKept
<1>6. ConnInv(read) BY <1>4, <1>5, SameCoreInv
<1>7. /\ checked \in Connections /\ SameCore(read, checked) /\ PanicKept(read, checked)
      /\ checked.wait = read.wait
  <2>1. c.rx_fin \in BOOLEAN BY <1>0 DEF Connections
  <2> QED BY <1>4, <2>1, MustHoldKeeps DEF Panics, NeverInTimer
<1> HIDE DEF checked
<1>8. ConnInv(checked) /\ SameCore(c, checked)
  BY <1>5, <1>6, <1>7, SameCoreInv DEF SenderKept, SameCore
<1>9. /\ s \in ConnectionStates /\ s.kind = c.state.kind
      /\ s.tx_state = c.state.tx_state
  BY <1>0, StateFields DEF ConnectionStates, ChannelState
<1> HIDE DEF s
<1>10. c.state.kind = "Established" => MayEnter(checked, s)
  BY <1>0, <1>8, <1>9 DEF MayEnter, SameCore, Consistent, fin_sent, Idle, FinAcked
<1>11. ASSUME c.state.kind = "Established"
       PROVE  ConnInv(SetState(checked, s)) /\ UnackKept(c, SetState(checked, s))
  <2>1. MayEnter(checked, s) BY <1>10, <1>11
  <2>2. /\ ConnInv(SetState(checked, s))
        /\ ~Reduces(s) => SetState(checked, s) = EnterState(checked, s)
        /\ Reduces(s) => SetState(checked, s).state.kind \in {"TimeWait", "Closed"}
    BY <2>1, <1>8, SetStateInv
  <2>3. EnterState(checked, s).unack = checked.unack BY <1>7, <1>9, EnterStateFields
  <2> QED BY <1>8, <2>2, <2>3 DEF UnackKept, Synchronizing, SameCore
<1>12. /\ ConnInv(Suspend(c, "reader", "Established", 0))
       /\ SameCore(c, Suspend(c, "reader", "Established", 0))
       /\ ConnInv(Suspend(c, "reader", "Recv", n))
       /\ SameCore(c, Suspend(c, "reader", "Recv", n))
  BY SuspendInv DEF Callers, WaitKind
<1>13. \/ r = Suspend(c, "reader", "Established", 0)
       \/ r = Suspend(c, "reader", "Recv", n)
       \/ r = read
       \/ c.state.kind = "Established" /\ r = SetState(checked, s)
  BY DEF CallRecv, checked, s, read, m
<1> QED BY <1>5, <1>6, <1>11, <1>12, <1>13 DEF UnackKept, SameCore

\* What set_state leaves of the fields its callers go on with.
LEMMA SetStateUnack ==
  ASSUME NEW c, ConnInv(c), NEW s, MayEnter(c, s), NEW r, r = SetState(c, s)
  PROVE  /\ ConnInv(r) /\ PanicKept(c, r)
         /\ r.state.kind \in Synchronizing => r.unack = c.unack
         /\ ~Reduces(s) => /\ r.state = s /\ r.unack = c.unack
                           /\ r.next = c.next /\ r.re_tx = c.re_tx
                           /\ r.tx = c.tx /\ r.tx_fin = c.tx_fin
         /\ r.state.kind \in {s.kind, "TimeWait", "Closed"}
<1>1. c \in Connections /\ s \in ConnectionStates BY DEF ConnInv, MayEnter
<1>2. /\ ConnInv(r) /\ PanicKept(c, r)
      /\ ~Reduces(s) => r = EnterState(c, s)
      /\ Reduces(s) => r.state.kind \in {"TimeWait", "Closed"}
  BY SetStateInv
<1>3. CASE ~Reduces(s)
  <2>1. r = EnterState(c, s) BY <1>2, <1>3
  <2>2. /\ r.state = s /\ r.unack = c.unack /\ r.next = c.next /\ r.re_tx = c.re_tx
        /\ r.tx = c.tx /\ r.tx_fin = c.tx_fin
    BY <1>1, <2>1, EnterStateFields
  <2> QED BY <1>2, <1>3, <2>2
<1>4. CASE Reduces(s) BY <1>2, <1>4 DEF Synchronizing
<1> QED BY <1>3, <1>4

\* mark_fin keeps the invariant outside the idle states.
LEMMA FinQueuedInv ==
  ASSUME NEW c, ConnInv(c), c.panic = "none" => c.state.kind \notin Idle,
         NEW r, r = [c EXCEPT !.tx_fin = TRUE]
  PROVE  /\ ConnInv(r) /\ r.tx_fin = TRUE /\ r.tx = c.tx /\ r.state = c.state
         /\ r.unack = c.unack /\ r.panic = c.panic
<1>1. c \in Connections BY DEF ConnInv
<1>2. r \in Connections BY <1>1, FinQueuedType
<1>3. /\ r.tx_fin = TRUE /\ r.state = c.state /\ r.tx = c.tx /\ r.re_tx = c.re_tx
      /\ r.next = c.next
      /\ r.timer_re_tx = c.timer_re_tx /\ r.timer_timewait = c.timer_timewait
      /\ r.wait = c.wait /\ r.panic = c.panic /\ r.unack = c.unack
  BY <1>1 DEF Connections
<1> QED BY <1>2, <1>3 DEF ConnInv, Consistent

\* Closing the sending side in SYN-RECEIVED keeps the invariant, also when the
\* window is closed and send_ack could not send the FIN.
LEMMA HalfCloseInv ==
  ASSUME NEW c, ConnInv(c), c.panic = "none", c.state.kind = "SynReceived", c.tx = <<>>,
         NEW called \in BOOLEAN,
         NEW r, r = SetState(SendAck([c EXCEPT !.tx_fin = TRUE]),
                             Established("Fin", "Open", called, TRUE))
  PROVE  ConnInv(r) /\ UnackKept(c, r) /\ PanicKept(c, r)
<1> DEFINE g == [c EXCEPT !.tx_fin = TRUE]
           h == SendAck(g)
           s == Established("Fin", "Open", called, TRUE)
<1>1. /\ ConnInv(g) /\ g.tx_fin = TRUE /\ g.tx = <<>> /\ g.state = c.state
      /\ g.unack = c.unack /\ g.panic = c.panic
  BY FinQueuedInv DEF Idle
<1> HIDE DEF g
<1>2. /\ ConnInv(h) /\ PanicKept(g, h) /\ h.unack = g.unack /\ h.tx_fin = TRUE
      /\ h.tx = <<>>
      /\ h.state.kind \in {"SynReceived", "Established"}
  BY <1>1, SendAckInv
<1> HIDE DEF h
<1>3. s \in ConnectionStates /\ s.kind = "Established" /\ s.tx_state = "Fin"
  BY EstablishedType DEF Established, ChannelState
<1>5. r = SetState(h, s) BY DEF g, h
<1> HIDE DEF s
<1>4. MayEnter(h, s) /\ ~Reduces(s)
  BY <1>2, <1>3 DEF MayEnter, Reduces, Idle, FinAcked
<1>7. /\ ConnInv(SetState(h, s)) /\ SetState(h, s).unack = h.unack
      /\ PanicKept(h, SetState(h, s))
  BY <1>2, <1>4, SetStateUnack
<1>6. ConnInv(r) /\ r.unack = h.unack /\ PanicKept(h, r) BY <1>5, <1>7
<1> QED BY <1>1, <1>2, <1>6 DEF UnackKept, PanicKept

\* call_shutdown keeps the invariant.
LEMMA CallShutdownInv ==
  ASSUME NEW c, ConnInv(c), c.panic = "none", CanShutdown(c), NEW r, r = CallShutdown(c)
  PROVE  ConnInv(r) /\ UnackKept(c, r)
<1> DEFINE s == [c.state EXCEPT !.close_active = TRUE]
           active == IF c.state.rx_state = "Open" THEN SetState(c, s) ELSE c
           wait == Suspend(c, "closer", "TxQueueEmpty", 0)
           half == SetState(SendAck([c EXCEPT !.tx_fin = TRUE]),
                            Established("Fin", "Open", FALSE, TRUE))
           full == SendAck([active EXCEPT !.tx_fin = TRUE])
<1>0. c \in Connections /\ Consistent(c) BY DEF ConnInv
<1>1. ConnInv(wait) /\ SameCore(c, wait) BY SuspendInv DEF Callers, WaitKind
<1>2. ConnInv(Clear(c)) /\ Clear(c).state.kind = "Closed" BY ClearInv, KindOf
<1>3. CASE c.state.kind \in {"Listen", "SynSent"}
  <2>1. r = Clear(c) BY <1>3 DEF CallShutdown
  <2> QED BY <1>2, <2>1 DEF UnackKept, Synchronizing
<1>4. CASE c.state.kind = "SynReceived"
  <2>1. CASE AnyAcknowledged(c)
    <3>1. r = wait BY <1>4, <2>1 DEF CallShutdown
    <3> QED BY <1>1, <3>1 DEF UnackKept, SameCore
  <2>2. CASE ~AnyAcknowledged(c)
    <3>1. r = half BY <1>4, <2>2 DEF CallShutdown
    <3>2. c.tx = <<>> BY <1>0, <1>4, <2>2 DEF Consistent, AnyAcknowledged, Callers
    <3> QED BY <1>4, <3>1, <3>2, HalfCloseInv
  <2> QED BY <2>1, <2>2
<1>5. CASE c.state.kind = "Established" /\ c.state.tx_state = "Open"
  <2>1. CASE SendersQueued(c)
    <3>1. r = wait BY <1>5, <2>1 DEF CallShutdown
    <3> QED BY <1>1, <3>1 DEF UnackKept, SameCore
  <2>2. CASE ~SendersQueued(c)
    <3>1. r = full BY <1>5, <2>2 DEF CallShutdown
    <3>2. s \in ConnectionStates /\ s.kind = "Established" /\ s.tx_state = "Open"
      BY <1>0, <1>5, StateFields DEF ConnectionStates
    <3> HIDE DEF s
    <3>3. MayEnter(c, s) /\ ~Reduces(s)
      BY <1>5, <3>2 DEF MayEnter, Reduces, Idle, fin_sent, FinAcked
    <3>4. /\ ConnInv(SetState(c, s)) /\ SetState(c, s).unack = c.unack
          /\ SetState(c, s).state = s
      BY <3>3, SetStateUnack
    <3>5. ConnInv(active) /\ active.unack = c.unack /\ active.state.kind = "Established"
      BY <1>5, <3>2, <3>4
    <3> HIDE DEF active
    <3>6. /\ ConnInv([active EXCEPT !.tx_fin = TRUE])
          /\ [active EXCEPT !.tx_fin = TRUE].unack = active.unack
      BY <3>5, FinQueuedInv DEF Idle
    <3>7. ConnInv(full) /\ full.unack = c.unack BY <3>5, <3>6, SendAckInv, ZenonT(40)
    <3> HIDE DEF full
    <3> QED BY <3>1, <3>7 DEF UnackKept
  <2> QED BY <2>1, <2>2
<1> QED BY <1>3, <1>4, <1>5 DEF CanShutdown

\* call_close keeps the invariant.
LEMMA CallCloseInv ==
  ASSUME NEW c, ConnInv(c), c.panic = "none", CanClose(c), NEW r, r = CallClose(c)
  PROVE  ConnInv(r) /\ UnackKept(c, r)
<1> DEFINE fin == SendAck([c EXCEPT !.tx_fin = TRUE])
           opened == c.state.tx_state = "Open"
           d == IF opened THEN fin ELSE c
           s == [d.state EXCEPT
                   !.close_called = TRUE,
                   !.close_active = c.state.close_active \/ c.state.rx_state = "Open"]
           e == SetState(d, s)
           half == SetState(fin, Established("Fin", "Open", TRUE, TRUE))
           wait == Suspend(c, "closer", "TxQueueEmpty", 0)
<1>0. c \in Connections /\ Consistent(c) BY DEF ConnInv
<1>1. ConnInv(wait) /\ SameCore(c, wait) BY SuspendInv DEF Callers, WaitKind
<1>2. ConnInv(Clear(c)) /\ Clear(c).state.kind = "Closed" BY ClearInv, KindOf
<1>3. CASE c.state.kind \in {"Listen", "SynSent"}
  <2>1. r = Clear(c) BY <1>3 DEF CallClose
  <2> QED BY <1>2, <2>1 DEF UnackKept, Synchronizing
<1>4. CASE c.state.kind = "SynReceived"
  <2>1. CASE SendersQueued(c)
    <3>1. r = wait BY <1>4, <2>1 DEF CallClose
    <3> QED BY <1>1, <3>1 DEF UnackKept, SameCore
  <2>2. CASE ~SendersQueued(c)
    <3>1. r = Suspend(half, "closer", "BothClosed", 0) BY <1>4, <2>2 DEF CallClose
    <3>2. c.tx = <<>> BY <2>2 DEF SendersQueued
    <3>3. ConnInv(half) /\ UnackKept(c, half) BY <1>4, <3>2, HalfCloseInv
    <3> HIDE DEF half
    <3>4. ConnInv(r) /\ SameCore(half, r) /\ PanicKept(half, r)
      BY <3>1, <3>3, SuspendInv DEF Callers, WaitKind
    <3> QED BY <3>3, <3>4 DEF UnackKept, SameCore, PanicKept
  <2> QED BY <2>1, <2>2
<1>5. CASE c.state.kind = "Established"
  <2>1. /\ ConnInv([c EXCEPT !.tx_fin = TRUE])
        /\ [c EXCEPT !.tx_fin = TRUE].unack = c.unack
        /\ [c EXCEPT !.tx_fin = TRUE].state = c.state
    BY <1>5, FinQueuedInv DEF Idle
  <2>2. ConnInv(fin) /\ fin.unack = c.unack /\ fin.state.kind = "Established"
    BY <1>5, <2>1, SendAckInv, ZenonT(40)
  <2>3. r = wait \/ r = e \/ r = Suspend(e, "closer", "BothClosed", 0)
    BY <1>5 DEF CallClose
  <2> HIDE DEF fin
  <2>4. ConnInv(d) /\ d.unack = c.unack /\ d.state.kind = "Established"
    BY <1>5, <2>2
  <2> HIDE DEF d
  <2>5. d \in Connections BY <2>4 DEF ConnInv
  <2>6. /\ s \in ConnectionStates /\ s.kind = "Established"
        /\ s.tx_state = d.state.tx_state
    BY <2>4, <2>5, StateFields DEF ConnectionStates
  <2> HIDE DEF s
  <2>7. MayEnter(d, s)
    BY <2>4, <2>6 DEF MayEnter, Idle, ConnInv, Consistent, fin_sent, FinAcked
  <2>8. ConnInv(e) /\ (e.state.kind \in Synchronizing => e.unack = c.unack)
    BY <2>4, <2>7, SetStateUnack
  <2> HIDE DEF e
  <2>9. /\ ConnInv(Suspend(e, "closer", "BothClosed", 0))
        /\ SameCore(e, Suspend(e, "closer", "BothClosed", 0))
    BY <2>8, SuspendInv DEF Callers, WaitKind
  <2> HIDE DEF wait
  <2> QED BY <1>1, <2>3, <2>8, <2>9 DEF UnackKept, SameCore
<1> QED BY <1>3, <1>4, <1>5 DEF CanClose

\* call_abort keeps the invariant.
LEMMA CallAbortInv ==
  ASSUME NEW c, ConnInv(c), NEW r, r = CallAbort(c)
  PROVE  ConnInv(r) /\ UnackKept(c, r)
<1> DEFINE rst == Control({"RST"}, c.next, 0, curr_window(c))
<1>0. c \in Connections BY DEF ConnInv
<1>1. rst \in SegmentMeta
  BY <1>0, WindowType, SeqNFacts, EmptySegmentType DEF SegmentFlags, Connections
<1>2. ConnInv(Send(c, rst)) BY <1>0, <1>1, SendKeeps, SameCoreInv DEF SenderKept
<1> HIDE DEF rst
<1>3. r = Clear(c) \/ r = Clear(Send(c, rst)) BY DEF CallAbort, rst
<1>4. ConnInv(r) /\ r.state.kind = "Closed" BY <1>2, <1>3, ClearInv, KindOf
<1> QED BY <1>4 DEF UnackKept, Synchronizing

\* The connection that r is, is still the one that c was.
Continues(c, r) ==
  /\ PanicKept(c, r)
  /\ r.panic = "none" /\ r.state.kind \in Synchronizing =>
       c.state.kind \in Synchronizing /\ r.unack = c.unack

\* A method that leaves the core alone goes on with the connection.
LEMMA SameCoreContinues ==
  ASSUME NEW c, NEW d, SameCore(c, d), PanicKept(c, d)
  PROVE  Continues(c, d)
BY DEF Continues, SameCore

\* Continues is transitive.
LEMMA ContinuesTrans ==
  ASSUME NEW c, NEW d, NEW e, Continues(c, d), Continues(d, e)
  PROVE  Continues(c, e)
BY DEF Continues, PanicKept

\* user_data.send keeps the invariant.
LEMMA SendInv ==
  ASSUME NEW c, ConnInv(c), NEW seg \in SegmentMeta, NEW r, r = Send(c, seg)
  PROVE  ConnInv(r) /\ SameCore(c, r) /\ PanicKept(c, r) /\ Continues(c, r)
<1>1. c \in Connections BY DEF ConnInv
<1>2. r \in Connections /\ SameCore(c, r) /\ PanicKept(c, r) /\ SenderKept(c, r)
  BY <1>1, SendKeeps DEF SenderKept
<1> QED BY <1>2, SameCoreInv, SameCoreContinues

\* on_segment in CLOSED and RESET keeps the invariant.
LEMMA OnSegmentClosedInv ==
  ASSUME NEW c, ConnInv(c), NEW seg \in SegmentMeta, NEW r, r = OnSegmentClosed(c, seg)
  PROVE  ConnInv(r) /\ Continues(c, r)
<1>1. wrapping_add(seg.seqn, Len(seg.data)) \in SeqN BY SegmentFields, WrapType
<1>2. 0 \in 0 .. WindowMax BY SegmentAssumption
<1>3. response_to_closed(seg) \in SegmentMeta
  BY <1>1, <1>2, SegmentFields, SeqNFacts, EmptySegmentType
     DEF response_to_closed, SegmentFlags
<1>4. SameCore(c, c) /\ PanicKept(c, c) BY DEF SameCore, PanicKept
<1>5. r = c \/ r = Send(c, response_to_closed(seg)) BY DEF OnSegmentClosed
<1> QED BY <1>3, <1>4, <1>5, SendInv, SameCoreContinues

\* on_segment in LISTEN keeps the invariant.
LEMMA OnSegmentListenInv ==
  ASSUME NEW c, ConnInv(c), c.panic = "none" => c.state.kind = "Listen",
         NEW seg \in SegmentMeta, NEW isn \in SeqN, NEW r,
         r = OnSegmentListen(c, seg, isn)
  PROVE  ConnInv(r)
<1> DEFINE m == MustHold(c, seg.data = <<>>, "syn_with_data")
           d == [m EXCEPT !.ackd = wrapping_add(seg.seqn, 1), !.init_seqn = isn,
                          !.unack = isn, !.next = isn, !.tx_window = seg.window]
           syn_ack == Control({"SYN", "ACK"}, isn, d.ackd, curr_window(d))
           rst == Control({"RST"}, seg.ackn, 0, 0)
           b == SetState(d, SynReceived)
           e == OnSend(b, syn_ack)
           f == [e EXCEPT !.timer_re_tx = TRUE]
<1>0. c \in Connections BY DEF ConnInv
<1>1. m \in Connections /\ SameCore(c, m) /\ m.wait = c.wait /\ PanicKept(c, m)
  BY <1>0, MustHoldKeeps DEF Panics, NeverInTimer
<1> HIDE DEF m
<1>2. /\ d \in Connections /\ d.next = isn /\ d.unack = isn /\ d.state = m.state
      /\ d.tx = m.tx
      /\ d.tx_fin = m.tx_fin /\ d.re_tx = m.re_tx /\ d.timer_re_tx = m.timer_re_tx
      /\ d.timer_timewait = m.timer_timewait /\ d.wait = m.wait /\ d.panic = m.panic
  BY <1>1, SegmentFields DEF Connections
<1> HIDE DEF d
<1>3. ConnInv(d) /\ MayEnter(d, SynReceived) /\ ~Reduces(SynReceived)
  <2>1. d.panic \notin NeverInTimer BY <1>1, <1>2 DEF PanicKept, ConnInv
  <2>2. ASSUME d.panic = "none"
        PROVE  Consistent(d) /\ d.state.kind = "Listen" /\ d.tx = <<>>
    <3>1. c.panic = "none" /\ Consistent(c) /\ c.state.kind = "Listen"
      BY <2>2, <1>1, <1>2 DEF PanicKept, ConnInv
    <3>2. c.re_tx = <<>> /\ c.tx = <<>> BY <3>1 DEF Consistent, Idle
    <3>3. /\ d.state = c.state /\ d.tx = c.tx /\ d.tx_fin = c.tx_fin
          /\ d.re_tx = c.re_tx
          /\ d.timer_re_tx = c.timer_re_tx /\ d.timer_timewait = c.timer_timewait
      BY <1>1, <1>2 DEF SameCore
    <3>4. Contiguous(d.re_tx, d.next) BY <3>2, <3>3 DEF Contiguous
    <3> QED BY <3>1, <3>2, <3>3, <3>4, <1>2 DEF Consistent
  <2>3. MayEnter(d, SynReceived) /\ ~Reduces(SynReceived)
    BY <2>2, KindOf, StatesType DEF MayEnter, Reduces, Idle, fin_sent, FinAcked
  <2> QED BY <1>2, <2>1, <2>2, <2>3 DEF ConnInv
<1>4. ConnInv(b) /\ b.state = SynReceived /\ b.next = isn
  BY <1>2, <1>3, SetStateUnack
<1> HIDE DEF b
<1>5. syn_ack \in SegmentMeta /\ syn_ack.seqn = isn /\ seq_size(syn_ack) # 0
  <2>1. d.ackd \in SeqN BY <1>2 DEF Connections
  <2> QED BY <1>2, <2>1, WindowType, ControlFields DEF SegmentFlags
<1> HIDE DEF syn_ack
<1>6. b \in Connections BY <1>4 DEF ConnInv
<1>7. e \in Connections BY <1>5, <1>6, OnSendType
<1>8. f \in Connections /\ AfterSend(b, syn_ack, f)
  <2>1. f \in Connections BY <1>7 DEF Connections
  <2>2. AfterSend(b, syn_ack, f)
    BY <1>5, <1>6, <1>7 DEF AfterSend, OnSend, Connections
  <2> QED BY <2>1, <2>2
<1> HIDE DEF f, e
<1>9. ConnInv(f) BY <1>4, <1>5, <1>8, KindOf, AfterSendInv DEF Idle, FinAcked
<1>10. ConnInv(Send(f, syn_ack)) BY <1>5, <1>9, SendInv
<1>11. rst \in SegmentMeta
  <2>1. 0 \in 0 .. WindowMax BY SegmentAssumption
  <2> QED BY <2>1, SegmentFields, SeqNFacts, EmptySegmentType DEF SegmentFlags
<1>12. ConnInv(Send(c, rst)) BY <1>11, SendInv
<1>13. r \in {c, Send(c, rst), Send(f, syn_ack)}
  BY DEF OnSegmentListen, f, e, b, syn_ack, d, m
<1> QED BY <1>10, <1>12, <1>13

\* clear_re_tx_range keeps the invariant; it may wake senders, which only
\* SYN-RECEIVED could not stand.
LEMMA ClearRangeInv ==
  ASSUME NEW c, ConnInv(c), NEW end \in SeqN,
         c.panic = "none" => c.state.kind # "SynReceived",
         NEW r, r = clear_re_tx_range(c, end)
  PROVE  /\ ConnInv(r) /\ r.panic = c.panic
         /\ r.state = c.state /\ r.tx = c.tx /\ r.tx_fin = c.tx_fin
         /\ r.next = c.next /\ r.unack = c.unack
         /\ r.timer_re_tx = c.timer_re_tx /\ r.timer_timewait = c.timer_timewait
         /\ r.re_tx = Unacked(c.re_tx, end)
<1> DEFINE d == Wake(c, {u \in Callers : /\ c.wait[u].kind = "Acknowledged"
                                         /\ lte(c.wait[u].arg, end)})
<1>0. c \in Connections BY DEF ConnInv
<1>1. d \in Connections /\ SameCore(c, d) /\ d.panic = c.panic BY <1>0, WakeKeeps
<1>5. r = [d EXCEPT !.re_tx = Unacked(@, end)] BY DEF clear_re_tx_range
<1> HIDE DEF d
<1>2. r \in Connections BY <1>0, ClearRangeType
<1>3. /\ r.panic = c.panic
      /\ r.state = c.state /\ r.tx = c.tx /\ r.tx_fin = c.tx_fin
      /\ r.next = c.next /\ r.unack = c.unack
      /\ r.timer_re_tx = c.timer_re_tx /\ r.timer_timewait = c.timer_timewait
      /\ r.re_tx = Unacked(c.re_tx, end)
  BY <1>1, <1>5 DEF Connections, SameCore
<1>4. ASSUME c.panic = "none" PROVE Consistent(r)
  <2>1. Consistent(c) /\ c.re_tx \in Seq(SegmentMeta)
    BY <1>0, <1>4 DEF ConnInv, Connections
  <2>2. Contiguous(r.re_tx, r.next) /\ (c.re_tx = <<>> => r.re_tx = <<>>)
    BY <1>3, <2>1, UnackedContiguous DEF Consistent
  <2> QED BY <1>3, <1>4, <2>1, <2>2 DEF Consistent
<1> QED BY <1>2, <1>3, <1>4 DEF ConnInv

\* A RST in answer or in anger: clear, then RESET or LISTEN.
LEMMA ToInv ==
  ASSUME NEW c, ConnInv(c), NEW s \in {Reset, Listen}, NEW r, r = SetState(Clear(c), s)
  PROVE  ConnInv(r) /\ Continues(c, r) /\ r.state = s
<1>1. ConnInv(Clear(c)) /\ Clear(c).state.kind = "Closed" /\ Clear(c).panic = c.panic
  BY ClearInv, KindOf
<1>2. s.kind \in {"Reset", "Listen"} /\ s \in ConnectionStates BY KindOf, StatesType
<1>3. MayEnter(Clear(c), s) /\ ~Reduces(s)
  BY <1>1, <1>2 DEF MayEnter, Reduces, Idle, fin_sent, FinAcked
<1>4. ConnInv(r) /\ r.state = s /\ PanicKept(Clear(c), r)
  BY <1>1, <1>3, SetStateUnack
<1> QED BY <1>1, <1>2, <1>4 DEF Continues, Synchronizing, PanicKept

\* The step acknowledges nothing but what was sent: AckNeverRetreats for one method.
AckStep(c, r) ==
  r.panic = "none" /\ c.state.kind \in Synchronizing /\ r.state.kind \in Synchronizing =>
    in_range_inclusive(r.unack, c.unack, c.next)

\* in_range_inclusive accepts the start of its range, also when the range wraps.
LEMMA RangeStart == \A a, b \in SeqN : in_range_inclusive(a, a, b)
<1> SUFFICES ASSUME NEW a \in Nat, NEW b \in Nat PROVE in_range_inclusive(a, a, b)
  BY SeqNFacts
<1> QED BY DEF in_range_inclusive

\* Going on with the connection acknowledges nothing.
LEMMA ContinuesStep ==
  ASSUME NEW c \in Connections, NEW r, Continues(c, r) \/ UnackKept(c, r)
  PROVE  AckStep(c, r)
<1>1. c.unack \in SeqN /\ c.next \in SeqN BY DEF Connections
<1>2. in_range_inclusive(c.unack, c.unack, c.next) BY <1>1, RangeStart
<1> QED BY <1>2 DEF Continues, UnackKept, AckStep

\* What the step takes as acknowledged is what the segment says.
AckTaken(c, r, seg) ==
  r.panic = "none" /\ r.state.kind \in Synchronizing /\ c.state.kind # "Listen" =>
    /\ c.state.kind \in Synchronizing
    /\ r.unack = c.unack \/ ("ACK" \in seg.flags /\ r.unack = seg.ackn)

\* Going on with the connection acknowledges nothing.
LEMMA ContinuesTaken ==
  ASSUME NEW c, NEW r, Continues(c, r), NEW seg
  PROVE  AckTaken(c, r, seg)
BY DEF Continues, AckTaken

\* on_segment in SYN-SENT keeps the invariant and takes only a valid ackn.
LEMMA OnSegmentSynSentInv ==
  ASSUME NEW c, ConnInv(c), c.panic = "none", c.state.kind = "SynSent",
         NEW seg \in SegmentMeta, NEW r, r = OnSegmentSynSent(c, seg)
  PROVE  ConnInv(r) /\ AckStep(c, r) /\ AckTaken(c, r, seg)
<1> DEFINE k == clear_re_tx_range(c, seg.ackn)
           d == [k EXCEPT !.ackd = wrapping_add(seg.seqn, 1), !.unack = seg.ackn,
                          !.tx_window = seg.window]
           rst == Control({"RST"}, seg.ackn, 0, curr_window(c))
           g == SetState(d, FULLY_OPEN)
<1>0. c \in Connections BY DEF ConnInv
<1>1. ConnInv(k) /\ k.state = c.state /\ k.panic = "none"
  BY SegmentFields, ClearRangeInv
<1> HIDE DEF k
<1>2. k \in Connections BY <1>1 DEF ConnInv
<1>3. /\ d \in Connections /\ d.unack = seg.ackn /\ d.state = k.state /\ d.tx = k.tx
      /\ d.tx_fin = k.tx_fin
      /\ d.re_tx = k.re_tx /\ d.next = k.next /\ d.timer_re_tx = k.timer_re_tx
      /\ d.timer_timewait = k.timer_timewait /\ d.wait = k.wait /\ d.panic = k.panic
  BY <1>2, SegmentFields DEF Connections
<1> HIDE DEF d
<1>4. ConnInv(d) /\ d.state.kind = "SynSent"
  BY <1>1, <1>3 DEF ConnInv, Consistent, FinAcked
<1>5. MayEnter(d, FULLY_OPEN) /\ ~Reduces(FULLY_OPEN)
  BY <1>4, KindOf, StatesType DEF MayEnter, Reduces, Idle, fin_sent, FinAcked
<1>6. ConnInv(g) /\ g.unack = seg.ackn BY <1>3, <1>4, <1>5, SetStateUnack
<1> HIDE DEF g
<1>7. ConnInv(SendAck(g)) /\ SendAck(g).unack = seg.ackn BY <1>6, SendAckInv
<1>8. rst \in SegmentMeta
  BY <1>0, SegmentFields, SeqNFacts, WindowType, EmptySegmentType DEF SegmentFlags
<1>9. ConnInv(Send(c, rst)) /\ Continues(c, Send(c, rst)) BY <1>8, SendInv
<1>10. ConnInv(ToReset(c)) /\ Continues(c, ToReset(c)) BY ToInv DEF ToReset
<1>11. Continues(c, c) BY DEF Continues, PanicKept
<1>12. \/ r \in {c, Send(c, rst), ToReset(c)}
       \/ /\ in_range_inclusive(seg.ackn, c.unack, c.next) /\ "ACK" \in seg.flags
          /\ r = d \/ r = SendAck(g)
  BY DEF OnSegmentSynSent, d, k, g
<1>13. CASE r \in {c, Send(c, rst), ToReset(c)}
  BY <1>0, <1>9, <1>10, <1>11, <1>13, ContinuesStep, ContinuesTaken
<1>14. CASE /\ in_range_inclusive(seg.ackn, c.unack, c.next) /\ "ACK" \in seg.flags
            /\ r = d \/ r = SendAck(g)
  BY <1>3, <1>4, <1>7, <1>14 DEF AckStep, AckTaken, Synchronizing
<1> QED BY <1>12, <1>13, <1>14

\* An acceptable RST keeps the invariant.
LEMMA OnResetInv ==
  ASSUME NEW c, ConnInv(c), NEW r, r = OnReset(c)
  PROVE  ConnInv(r) /\ Continues(c, r)
<1>0. c \in Connections BY DEF ConnInv
<1> DEFINE m == MustHold(c, FALSE, "rst_unreachable")
<1>1. /\ m \in Connections /\ SameCore(c, m) /\ m.wait = c.wait /\ PanicKept(c, m)
  BY <1>0, MustHoldKeeps DEF Panics, NeverInTimer
<1>2. ConnInv(m) /\ Continues(c, m)
  BY <1>1, SameCoreInv, SameCoreContinues DEF SenderKept
<1>3. r = SetState(Clear(c), Listen) \/ r = SetState(Clear(c), Reset) \/ r = m
  BY DEF OnReset, ToReset
<1> QED BY <1>2, <1>3, ToInv

\* The congestion window is not read by the invariant.
LEMMA UpdateCongestionKeeps ==
  ASSUME NEW c \in Connections, NEW len \in Nat, NEW r, r = UpdateCongestion(c, len)
  PROVE  r \in Connections /\ SameCore(c, r) /\ PanicKept(c, r) /\ r.wait = c.wait
<1> DEFINE grown == IF c.dup_ack_count > 0 THEN SLOW_START_TRESHOLD
                    ELSE IF c.congestation_window <= SLOW_START_TRESHOLD
                         THEN 2 * c.congestation_window
                    ELSE c.congestation_window + len
           fits == grown <= WindowMax
           m == DebugMustHold(c, fits, "congestion_overflow")
<1>1. fits \in BOOLEAN OBVIOUS
<1> HIDE DEF fits
<1>2. m \in Connections /\ SameCore(c, m) /\ m.wait = c.wait /\ PanicKept(c, m)
  BY <1>1, DebugMustHoldKeeps DEF Panics, NeverInTimer
<1> HIDE DEF m, grown
<1>3. r = [m EXCEPT !.congestation_window = grown % (WindowMax + 1)]
  BY DEF UpdateCongestion, m, fits, grown
<1> QED BY <1>2, <1>3, UpdateCongestionType, ZenonT(40) DEF SameCore, PanicKept, Connections

\* A new ACK keeps the invariant: the timer runs on while segments remain.
LEMMA OnNewAckInv ==
  ASSUME NEW c, ConnInv(c),
         c.panic = "none" => c.state.kind = "Established" /\ c.unack # c.next,
         NEW seg \in SegmentMeta, NEW r, r = OnNewAck(c, seg)
  PROVE  /\ ConnInv(r) /\ PanicKept(c, r)
         /\ r.unack = seg.ackn /\ r.state = c.state
<1> DEFINE d == UpdateCongestion(c, Len(seg.data))
           who == {u \in Callers : c.wait[u].kind = "Recv" /\ c.wait[u].arg <= Len(c.rx)}
           e == Wake(d, who)
           f == clear_re_tx_range(e, seg.ackn)
           w == Least(seg.window, d.congestation_window)
<1>0. c \in Connections BY DEF ConnInv
<1>1. d \in Connections /\ SameCore(c, d) /\ PanicKept(c, d) /\ d.wait = c.wait
  BY <1>0, SegmentFields, UpdateCongestionKeeps
<1>2. r = [f EXCEPT !.tx_window = w, !.unack = seg.ackn, !.timer_re_tx = f.re_tx # <<>>]
  BY DEF OnNewAck
<1>3. c.wait["writer"].kind = "Acknowledged" => "writer" \notin who OBVIOUS
<1> HIDE DEF d, who
<1>4. /\ e \in Connections /\ SameCore(d, e) /\ PanicKept(d, e)
      /\ ("writer" \notin who => SenderKept(d, e))
  BY <1>1, WakeKeeps
<1> HIDE DEF e
<1>5. SameCore(c, e) /\ PanicKept(c, e) /\ SenderKept(c, e)
  BY <1>1, <1>3, <1>4 DEF SameCore, PanicKept, SenderKept
<1>6. ConnInv(e) BY <1>4, <1>5, SameCoreInv
<1>7. e.panic = "none" => e.state.kind = "Established" /\ e.unack # e.next
  BY <1>5 DEF SameCore, PanicKept
<1>8. /\ ConnInv(f) /\ f.panic = e.panic /\ f.state = e.state /\ f.next = e.next
      /\ f.unack = e.unack
  BY <1>6, <1>7, SegmentFields, ClearRangeInv
<1> HIDE DEF f
<1>9. f \in Connections BY <1>8 DEF ConnInv
<1>10. w \in 0 .. WindowMax BY <1>1, SegmentFields DEF Least, Connections
<1> HIDE DEF w
<1>11. /\ r \in Connections /\ r.unack = seg.ackn /\ r.timer_re_tx = (f.re_tx # <<>>)
       /\ r.state = f.state /\ r.tx = f.tx /\ r.tx_fin = f.tx_fin
       /\ r.re_tx = f.re_tx /\ r.next = f.next
       /\ r.timer_timewait = f.timer_timewait /\ r.wait = f.wait /\ r.panic = f.panic
  BY <1>2, <1>9, <1>10, SegmentFields, ZenonT(40) DEF Connections
<1>12. ASSUME r.panic = "none" PROVE Consistent(r)
  <2>1. Consistent(f) /\ f.state.kind = "Established" /\ f.unack # f.next
    BY <1>7, <1>8, <1>11, <1>12 DEF ConnInv
  <2>2. ~FinAcked(f.state) BY <2>1 DEF Consistent
  <2> QED BY <1>11, <2>1, <2>2 DEF Consistent
<1>13. r.panic \notin NeverInTimer BY <1>8, <1>11 DEF ConnInv
<1> QED BY <1>5, <1>8, <1>11, <1>12, <1>13 DEF ConnInv, SameCore, PanicKept

\* The ACK of our FIN keeps the invariant: all was sent and acknowledged.
LEMMA OnFinAckedInv ==
  ASSUME NEW c, ConnInv(c), NEW seg \in SegmentMeta, c.unack = seg.ackn,
         NEW r, r = OnFinAcked(c, seg)
  PROVE  ConnInv(r) /\ Continues(c, r)
<1> DEFINE m == DebugMustHold(c, c.tx = <<>> /\ c.re_tx = <<>>, "fin_acked_early")
           s == [c.state EXCEPT !.tx_state = "Closed"]
<1>0. c \in Connections BY DEF ConnInv
<1>1. CASE c.state.kind = "Established" /\ c.state.tx_state = "Fin" /\ seg.ackn = c.next
  <2>1. /\ m \in Connections /\ SameCore(c, m) /\ m.wait = c.wait /\ PanicKept(c, m)
    BY <1>0, DebugMustHoldKeeps DEF Panics, NeverInTimer
  <2>2. ConnInv(m) /\ Continues(c, m)
    BY <2>1, SameCoreInv, SameCoreContinues DEF SenderKept
  <2>3. r = SetState(m, s) BY <1>1 DEF OnFinAcked
  <2>4. s \in ConnectionStates /\ s.kind = "Established" /\ s.tx_state = "Closed"
    BY <1>0, <1>1, StateFields DEF ConnectionStates, ChannelState
  <2> HIDE DEF s, m
  <2>5. MayEnter(m, s)
    <3>1. m.panic = "none" => m.tx = <<>> /\ m.tx_fin
      BY <1>1, <2>1, <2>2 DEF SameCore, ConnInv, Consistent, fin_sent
    <3>2. m.unack = m.next /\ m.state.kind = "Established"
      BY <1>1, <2>1 DEF SameCore
    <3> QED BY <2>4, <3>1, <3>2 DEF MayEnter, Idle
  <2>6. ConnInv(SetState(m, s)) /\ PanicKept(m, SetState(m, s))
        /\ (SetState(m, s).state.kind \in Synchronizing => SetState(m, s).unack = m.unack)
    BY <2>2, <2>5, SetStateUnack
  <2>7. m.state.kind \in Synchronizing BY <1>1, <2>1 DEF SameCore, Synchronizing
  <2>8. ConnInv(r) /\ Continues(m, r) BY <2>3, <2>6, <2>7 DEF Continues
  <2> QED BY <2>2, <2>8, ContinuesTrans
<1>2. CASE ~(c.state.kind = "Established" /\ c.state.tx_state = "Fin" /\ seg.ackn = c.next)
  BY <1>2 DEF OnFinAcked, Continues, PanicKept
<1> QED BY <1>1, <1>2

\* Handling a valid ackn keeps the invariant and moves unack to it.  In
\* TIME-WAIT no ackn is new, so no timer is armed there.
LEMMA OnAckInv ==
  ASSUME NEW c, ConnInv(c), c.panic = "none",
         c.state.kind \in {"TimeWait", "SynReceived", "Established"},
         NEW seg \in SegmentMeta, ack_valid(c, seg), NEW r, r = OnAck(c, seg)
  PROVE  /\ ConnInv(r)
         /\ r.panic = "none" /\ r.state.kind \in Synchronizing =>
             c.state.kind \in Synchronizing /\ r.unack = seg.ackn
<1> DEFINE d == IF c.state.kind = "SynReceived" THEN SetState(c, FULLY_OPEN) ELSE c
           e == IF c.unack # seg.ackn THEN OnNewAck(d, seg) ELSE d
<1>0. c \in Connections /\ Consistent(c) BY DEF ConnInv
<1>1. MayEnter(c, FULLY_OPEN) \/ c.state.kind # "SynReceived"
  BY KindOf, StatesType DEF MayEnter, Idle, fin_sent, FinAcked
<1>2. ~Reduces(FULLY_OPEN) BY KindOf DEF Reduces
<1>3. /\ ConnInv(d) /\ PanicKept(c, d) /\ d.unack = c.unack /\ d.next = c.next
      /\ d.state.kind = IF c.state.kind = "SynReceived" THEN "Established" ELSE c.state.kind
  <2>1. CASE c.state.kind = "SynReceived" BY <1>1, <1>2, <2>1, KindOf, SetStateUnack
  <2>2. CASE c.state.kind # "SynReceived" BY <2>2 DEF PanicKept
  <2> QED BY <2>1, <2>2
<1>9. r = OnFinAcked(e, seg) BY DEF OnAck
<1> HIDE DEF d
<1>4. c.unack # seg.ackn => c.state.kind # "TimeWait" /\ c.unack # c.next
  BY <1>0 DEF ack_valid, in_range_inclusive, Consistent, FinAcked
<1>5. /\ ConnInv(e) /\ PanicKept(d, e) /\ e.unack = seg.ackn /\ e.state = d.state
  <2>1. CASE c.unack # seg.ackn
    <3>1. d.state.kind = "Established" /\ d.unack # d.next BY <1>3, <1>4, <2>1
    <3> QED BY <1>3, <2>1, <3>1, OnNewAckInv
  <2>2. CASE c.unack = seg.ackn BY <1>3, <2>2 DEF PanicKept
  <2> QED BY <2>1, <2>2
<1> HIDE DEF e
<1>6. ConnInv(r) /\ Continues(e, r) BY <1>5, <1>9, OnFinAckedInv
<1> QED BY <1>3, <1>5, <1>6 DEF Continues, Synchronizing

\* The peer's FIN keeps the invariant.
LEMMA OnFinInv ==
  ASSUME NEW c, ConnInv(c), NEW non_ordered, NEW r, r = OnFin(c, non_ordered)
  PROVE  ConnInv(r) /\ Continues(c, r)
<1> DEFINE w == Wake(c, Callers)
           v == [w EXCEPT !.timer_re_tx = FALSE, !.timer_timewait = TRUE]
           k == WakeKind(c, "Recv")
           s == IF c.state.kind = "SynReceived" THEN Established("Open", "Fin", FALSE, FALSE)
                ELSE [c.state EXCEPT !.rx_state = "Fin"]
<1>0. c \in Connections BY DEF ConnInv
<1>1. CASE r = c BY <1>1 DEF Continues, PanicKept
<1>2. CASE c.state.kind = "TimeWait" /\ r = v
  <2>1. w \in Connections /\ SameCore(c, w) /\ w.panic = c.panic BY <1>0, WakeKeeps
  <2> HIDE DEF w
  <2>2. /\ v \in Connections /\ v.state = c.state /\ v.tx = c.tx /\ v.tx_fin = c.tx_fin
        /\ v.next = c.next /\ v.unack = c.unack /\ v.re_tx = c.re_tx
        /\ v.panic = c.panic
        /\ v.timer_re_tx = FALSE /\ v.timer_timewait = TRUE
    BY <2>1 DEF Connections, SameCore
  <2> HIDE DEF v
  <2> QED BY <1>2, <2>2 DEF ConnInv, Consistent, Continues, PanicKept
<1>3. CASE c.state.kind \in {"SynReceived", "Established"} /\ r = SetState(k, s)
  <2>1. k \in Connections /\ SameCore(c, k) /\ PanicKept(c, k) /\ SenderKept(c, k)
    BY <1>0, WakeKindKeeps
  <2> HIDE DEF k
  <2>2. ConnInv(k) /\ Continues(c, k) BY <2>1, SameCoreInv, SameCoreContinues
  <2>3. /\ s \in ConnectionStates /\ s.kind = "Established" /\ s.rx_state = "Fin"
        /\ c.state.kind = "Established" => s.tx_state = c.state.tx_state
        /\ c.state.kind = "SynReceived" => s.tx_state = "Open"
    <3>1. CASE c.state.kind = "SynReceived"
      BY <3>1, EstablishedType DEF Established, ChannelState
    <3>2. CASE c.state.kind = "Established"
      BY <1>0, <3>2, StateFields DEF ConnectionStates, ChannelState
    <3> QED BY <1>3, <3>1, <3>2
  <2> HIDE DEF s
  <2>4. MayEnter(k, s) /\ ~Reduces(s)
    BY <1>3, <2>1, <2>2, <2>3 DEF MayEnter, Reduces, Idle, fin_sent, FinAcked,
       SameCore, ConnInv, Consistent
  <2>5. ConnInv(r) /\ PanicKept(k, r) /\ r.unack = k.unack
    BY <1>3, <2>2, <2>4, SetStateUnack
  <2>6. k.state.kind \in Synchronizing BY <1>3, <2>1 DEF SameCore, Synchronizing
  <2>7. Continues(k, r) BY <2>5, <2>6 DEF Continues
  <2> QED BY <2>2, <2>5, <2>7, ContinuesTrans
<1>4. r = c \/ (c.state.kind = "TimeWait" /\ r = v)
      \/ (c.state.kind \in {"SynReceived", "Established"} /\ r = SetState(k, s))
  BY DEF OnFin
<1> QED BY <1>1, <1>2, <1>3, <1>4

\* RxBuffer::write keeps the invariant.
LEMMA RxWriteInv ==
  ASSUME NEW c, ConnInv(c), NEW seg \in SegmentMeta, NEW r, r = RxWrite(c, seg)
  PROVE  ConnInv(r) /\ Continues(c, r)
<1> DEFINE fin == "FIN" \in seg.flags
           d == DebugMustHold(c, ~(fin /\ c.rx_fin), "duplicate_fin")
           ok == seg.data = <<>> \/ ~(fin \/ c.rx_fin)
           e == MustHold(d, ok, "write_after_fin")
<1>0. c \in Connections BY DEF ConnInv
<1>1. d \in Connections /\ SameCore(c, d) /\ d.wait = c.wait /\ PanicKept(c, d)
  BY <1>0, DebugMustHoldKeeps DEF Panics, NeverInTimer
<1>2. r = [e EXCEPT !.ackd = wrapping_add(@, seq_size(seg)), !.rx_fin = @ \/ fin,
                    !.rx = @ \o seg.data]
  BY DEF RxWrite
<1> HIDE DEF d
<1>3. e \in Connections /\ SameCore(d, e) /\ e.wait = d.wait /\ PanicKept(d, e)
  BY <1>1, MustHoldKeeps DEF Panics, NeverInTimer
<1> HIDE DEF e
<1>4. r \in Connections BY <1>0, RxWriteType
<1>5. SameCore(e, r) /\ r.wait = e.wait /\ PanicKept(e, r)
  BY <1>2, <1>3 DEF SameCore, PanicKept, Connections
<1>6. SameCore(c, r) /\ SenderKept(c, r) /\ PanicKept(c, r)
  BY <1>1, <1>3, <1>5 DEF SameCore, PanicKept, SenderKept
<1> QED BY <1>4, <1>6, SameCoreInv, SameCoreContinues

\* send_ack goes on with the same connection.
LEMMA SendAckContinues ==
  ASSUME NEW c, ConnInv(c), NEW r, r = SendAck(c)
  PROVE  ConnInv(r) /\ Continues(c, r)
<1>1. /\ ConnInv(r) /\ PanicKept(c, r) /\ r.unack = c.unack
      /\ c.panic = "none" /\ c.state.kind \notin Synchronizing => r.state = c.state
  BY SendAckInv
<1> QED BY <1>1 DEF Continues, PanicKept

\* The end of on_segment keeps the invariant.
LEMMA AfterAckInv ==
  ASSUME NEW c, ConnInv(c), NEW seg \in SegmentMeta, NEW non_ordered,
         NEW r, r = AfterAck(c, seg, non_ordered)
  PROVE  ConnInv(r) /\ Continues(c, r)
<1>1. r = c \/ r = OnFin(c, non_ordered) BY DEF AfterAck
<1>2. Continues(c, c) BY DEF Continues, PanicKept
<1> QED BY <1>1, <1>2, OnFinInv

\* Storing and answering a segment keeps the invariant.
LEMMA OnPayloadInv ==
  ASSUME NEW c, ConnInv(c), NEW seg \in SegmentMeta, NEW non_ordered,
         NEW r, r = OnPayload(c, seg, non_ordered)
  PROVE  ConnInv(r) /\ Continues(c, r)
<1> DEFINE w == RxWrite(c, seg)
           a == SendAck(w)
           z == AfterAck(a, seg, non_ordered)
<1>0. c \in Connections BY DEF ConnInv
<1>1. ConnInv(w) /\ Continues(c, w) BY RxWriteInv
<1>2. ConnInv(a) /\ Continues(w, a) BY <1>1, SendAckContinues
<1>3. ConnInv(z) /\ Continues(a, z) BY <1>2, AfterAckInv
<1>7. r = z \/ r = Send(c, AckSegment(c)) \/ r = c BY DEF OnPayload
<1> HIDE DEF w, a, z
<1>4. Continues(c, z) BY <1>1, <1>2, <1>3, ContinuesTrans
<1>5. ConnInv(Send(c, AckSegment(c))) /\ Continues(c, Send(c, AckSegment(c)))
  BY <1>0, SendInv, AckSegmentType
<1>6. Continues(c, c) BY DEF Continues, PanicKept
<1> QED BY <1>3, <1>4, <1>5, <1>6, <1>7

\* on_segment in SYN-RECEIVED, ESTABLISHED and TIME-WAIT keeps the invariant and
\* takes only a valid ackn.
LEMMA OnSegmentOpenInv ==
  ASSUME NEW c, ConnInv(c), c.panic = "none",
         c.state.kind \in {"TimeWait", "SynReceived", "Established"},
         NEW seg \in SegmentMeta, NEW r, r = OnSegmentOpen(c, seg)
  PROVE  ConnInv(r) /\ AckStep(c, r) /\ AckTaken(c, r, seg)
<1> DEFINE d == [c EXCEPT !.tx_window = Least(seg.window, c.congestation_window)]
           rst == Control({"RST"}, c.next, 0, curr_window(c))
           b == is_non_ordered_ack(c, seg.ackn)
           a == OnAck(d, seg)
<1>0. c \in Connections BY DEF ConnInv
<1>1. Least(seg.window, c.congestation_window) \in 0 .. WindowMax
  BY <1>0, SegmentFields DEF Least, Connections
<1>2. /\ d \in Connections /\ SameCore(c, d) /\ d.wait = c.wait /\ d.panic = c.panic
      /\ PanicKept(c, d)
  BY <1>0, <1>1 DEF Connections, SameCore, PanicKept
<1>3. rst \in SegmentMeta
  BY <1>0, WindowType, SeqNFacts, EmptySegmentType DEF SegmentFlags, Connections
<1>4. \/ r = OnUnacceptable(c, seg)
      \/ r = OnReset(d)
      \/ r = ToReset(Send(d, rst))
      \/ r = AfterAck(d, seg, FALSE)
      \/ r = d
      \/ ack_valid(c, seg) /\ "ACK" \in seg.flags /\ r = OnPayload(a, seg, b)
  BY DEF OnSegmentOpen
<1> HIDE DEF d, rst, b
<1>5. ConnInv(d) /\ Continues(c, d)
  BY <1>2, SameCoreInv, SameCoreContinues DEF SenderKept
<1>6. CASE r = OnUnacceptable(c, seg)
  <2>1. r = c \/ r = Send(c, AckSegment(c)) BY <1>6 DEF OnUnacceptable
  <2>2. Continues(c, c) BY DEF Continues, PanicKept
  <2>3. ConnInv(r) /\ Continues(c, r) BY <1>0, <2>1, <2>2, SendInv, AckSegmentType
  <2> QED BY <1>0, <2>3, ContinuesStep, ContinuesTaken
<1>7. CASE r = OnReset(d)
  <2>1. ConnInv(r) /\ Continues(d, r) BY <1>5, <1>7, OnResetInv
  <2> QED BY <1>0, <1>5, <2>1, ContinuesTrans, ContinuesStep, ContinuesTaken
<1>8. CASE r = ToReset(Send(d, rst))
  <2>1. ConnInv(Send(d, rst)) /\ Continues(d, Send(d, rst)) BY <1>3, <1>5, SendInv
  <2>2. ConnInv(r) /\ Continues(Send(d, rst), r) BY <1>8, <2>1, ToInv DEF ToReset
  <2>3. Continues(c, r) BY <1>5, <2>1, <2>2, ContinuesTrans
  <2> QED BY <1>0, <2>2, <2>3, ContinuesStep, ContinuesTaken
<1>9. CASE r = AfterAck(d, seg, FALSE)
  <2>1. ConnInv(r) /\ Continues(d, r) BY <1>5, <1>9, AfterAckInv
  <2> QED BY <1>0, <1>5, <2>1, ContinuesTrans, ContinuesStep, ContinuesTaken
<1>10. CASE r = d BY <1>0, <1>5, <1>10, ContinuesStep, ContinuesTaken
<1>11. CASE ack_valid(c, seg) /\ "ACK" \in seg.flags /\ r = OnPayload(a, seg, b)
  <2>1. d.panic = "none" /\ d.state = c.state /\ ack_valid(d, seg)
    BY <1>2, <1>11 DEF SameCore, ack_valid
  <2>2. /\ ConnInv(a)
        /\ a.panic = "none" /\ a.state.kind \in Synchronizing =>
             c.state.kind \in Synchronizing /\ a.unack = seg.ackn
    BY <1>5, <2>1, OnAckInv
  <2> HIDE DEF a
  <2>3. ConnInv(r) /\ Continues(a, r) BY <1>11, <2>2, OnPayloadInv
  <2> QED BY <1>11, <2>2, <2>3 DEF Continues, PanicKept, AckStep, AckTaken, ack_valid
<1> QED BY <1>4, <1>6, <1>7, <1>8, <1>9, <1>10, <1>11

\* on_segment keeps the invariant and takes only a valid ackn.
LEMMA OnSegmentInv ==
  ASSUME NEW c, ConnInv(c), c.panic = "none", NEW seg \in SegmentMeta, NEW isn \in SeqN,
         NEW r, r = OnSegment(c, seg, isn)
  PROVE  ConnInv(r) /\ AckStep(c, r) /\ AckTaken(c, r, seg)
<1>0. c \in Connections BY DEF ConnInv
<1>1. CASE c.state.kind \in {"Closed", "Reset"}
  <2>1. r = OnSegmentClosed(c, seg) BY <1>1 DEF OnSegment
  <2> QED BY <1>0, <2>1, OnSegmentClosedInv, ContinuesStep, ContinuesTaken
<1>2. CASE c.state.kind = "Listen"
  <2>1. r = OnSegmentListen(c, seg, isn) BY <1>2 DEF OnSegment
  <2>2. ConnInv(r) BY <1>2, <2>1, OnSegmentListenInv
  <2> QED BY <1>2, <2>2 DEF AckStep, AckTaken, Synchronizing
<1>3. CASE c.state.kind = "SynSent"
  <2>1. r = OnSegmentSynSent(c, seg) BY <1>3 DEF OnSegment
  <2> QED BY <1>3, <2>1, OnSegmentSynSentInv
<1>4. CASE c.state.kind \in {"TimeWait", "SynReceived", "Established"}
  <2>1. r = OnSegmentOpen(c, seg) BY <1>4 DEF OnSegment
  <2> QED BY <1>4, <2>1, OnSegmentOpenInv
<1>5. c.state.kind \in StateKind BY <1>0, StateFields
<1> QED BY <1>1, <1>2, <1>3, <1>4, <1>5 DEF StateKind

\* on_time_tick keeps the invariant: the unreachable!() arms are unreachable.
LEMMA OnTimeTickInv ==
  ASSUME NEW c, ConnInv(c), c.panic = "none", NEW expired, NEW r,
         r = OnTimeTick(c, expired)
  PROVE  ConnInv(r) /\ AckStep(c, r) /\ Continues(c, r)
<1> DEFINE d == IF "re_tx" \in expired /\ c.timer_re_tx THEN OnTimerReTx(c) ELSE c
<1>0. c \in Connections /\ Consistent(c) BY DEF ConnInv
<1>1. ConnInv(d) /\ Continues(c, d) /\ d.panic = "none"
  <2>1. CASE "re_tx" \in expired /\ c.timer_re_tx
    <3> DEFINE e == [c EXCEPT !.timer_re_tx = FALSE]
               f == [e EXCEPT !.timer_re_tx = TRUE]
    <3>1. c.state.kind \in {"Listen", "SynSent", "SynReceived", "Established", "Reset"}
      BY <1>0, <2>1, StateFields DEF Consistent, StateKind
    <3>2. c.state.kind = "Reset" => c.re_tx = <<>> BY <1>0 DEF Consistent, Idle
    <3>3. \/ d = e /\ c.re_tx = <<>>
          \/ d = Send(f, Head(c.re_tx)) /\ c.re_tx # <<>>
      BY <2>1, <3>1, <3>2 DEF OnTimerReTx
    <3>4. e \in Connections /\ e.timer_re_tx = FALSE
          /\ e.state = c.state /\ e.tx = c.tx /\ e.tx_fin = c.tx_fin
          /\ e.next = c.next /\ e.unack = c.unack /\ e.re_tx = c.re_tx
          /\ e.panic = c.panic
          /\ e.timer_timewait = c.timer_timewait /\ e.wait = c.wait
      BY <1>0 DEF Connections
    <3> HIDE DEF d
    <3>5. CASE d = e /\ c.re_tx = <<>>
      <4> HIDE DEF e
      <4> QED BY <1>0, <3>4, <3>5 DEF ConnInv, Consistent, Continues, PanicKept
    <3>6. CASE d = Send(f, Head(c.re_tx)) /\ c.re_tx # <<>>
      <4>1. f = c BY <1>0, <2>1 DEF Connections
      <4>2. c.re_tx \in Seq(SegmentMeta) BY <1>0 DEF Connections
      <4>3. Head(c.re_tx) \in SegmentMeta BY <3>6, <4>2
      <4>4. d = Send(c, Head(c.re_tx)) BY <3>6, <4>1
      <4>5. d.panic = c.panic BY <1>0, <4>3, <4>4, SendKeeps
      <4> QED BY <4>3, <4>4, <4>5, SendInv
    <3> QED BY <3>3, <3>5, <3>6
  <2>2. CASE ~("re_tx" \in expired /\ c.timer_re_tx)
    BY <2>2 DEF Continues, PanicKept
  <2> QED BY <2>1, <2>2
<1>2. r = d \/ (d.timer_timewait /\ r = OnTimerTimewait(d)) BY DEF OnTimeTick
<1> HIDE DEF d
<1>3. CASE r = d BY <1>0, <1>1, <1>3, ContinuesStep
<1>4. CASE d.timer_timewait /\ r = OnTimerTimewait(d)
  <2>1. d.state.kind = "TimeWait" BY <1>1, <1>4 DEF ConnInv, Consistent
  <2>2. r = Clear(d) BY <1>4, <2>1 DEF OnTimerTimewait, MustHold
  <2>3. ConnInv(r) /\ r.state.kind = "Closed" /\ r.panic = d.panic
    BY <1>1, <2>2, ClearInv, KindOf
  <2> QED BY <1>1, <2>3 DEF AckStep, Continues, PanicKept, Synchronizing
<1> QED BY <1>2, <1>3, <1>4

\* A new connection satisfies the invariant.
LEMMA NewInv == ConnInv(New)
<1>1. New.panic = "none" /\ New.state = Closed /\ New.tx = <<>> /\ New.tx_fin = FALSE
      /\ New.re_tx = <<>> /\ New.timer_re_tx = FALSE /\ New.timer_timewait = FALSE
  BY DEF New
<1>2. Contiguous(<<>>, New.next) BY DEF Contiguous
<1> QED
  BY <1>1, <1>2, NewType, KindOf DEF ConnInv, Consistent, NeverInTimer, fin_sent,
     FinAcked
=============================================================================
