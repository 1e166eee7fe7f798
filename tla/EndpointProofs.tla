--------------------------- MODULE EndpointProofs ---------------------------
(***************************************************************************)
(* MethodInvariant is inductive, because every method keeps ConnInv        *)
(* (MethodProofs) and WaitsOk (WaitProofs), and the properties of Endpoint *)
(* follow from it.                                                         *)
(***************************************************************************)
EXTENDS Endpoint, WaitProofs

\* Dropping what was handed to the network keeps the invariant.
LEMMA FreshInv ==
  ASSUME ConnInv(conn)
  PROVE  ConnInv(Fresh) /\ SameCore(conn, Fresh) /\ Fresh.panic = conn.panic
         /\ Fresh.wait = conn.wait
<1>1. conn \in Connections BY DEF ConnInv
<1>2. <<>> \in Seq(SegmentMeta) OBVIOUS
<1>3. Fresh \in Connections /\ SameCore(conn, Fresh) /\ Fresh.panic = conn.panic
      /\ Fresh.wait = conn.wait
  BY <1>1, <1>2 DEF Fresh, Connections, SameCore
<1> QED BY <1>3, SameCoreInv DEF PanicKept, SenderKept

\* Every step of an endpoint keeps the invariant and takes only a valid ackn.
LEMMA NextInv ==
  ASSUME ConnInv(conn), [Next]_conn
  PROVE  ConnInv(conn') /\ AckStep(conn, conn')
<1>0. conn \in Connections BY DEF ConnInv
<1>1. /\ ConnInv(Fresh) /\ SameCore(conn, Fresh) /\ Fresh.panic = conn.panic
      /\ Fresh.wait = conn.wait
  BY FreshInv
<1> SUFFICES ASSUME [Next]_conn
             PROVE  /\ ConnInv(conn')
                    /\ (AckStep(Fresh, conn') \/ AckStep(conn, conn'))
  BY <1>1 DEF AckStep, SameCore
<1>13. Fresh \in Connections BY <1>1 DEF ConnInv
<1>14. Fresh.state = conn.state BY <1>1 DEF SameCore
<1>2. CASE Connect
  <2>1. PICK isn \in SeqN : conn' = CallConnect(Fresh, isn)
    BY <1>2, EndpointAssumption DEF Connect
  <2>2. Fresh.panic = "none" /\ CanConnect(Fresh)
    BY <1>1, <1>2, <1>14 DEF Connect, Enabled, CanConnect
  <2>3. ConnInv(conn') /\ UnackKept(Fresh, conn')
    BY <1>1, <2>1, <2>2, CallConnectInv
  <2> QED BY <1>13, <2>3, ContinuesStep
<1>3. CASE Accept
  <2>1. PICK isn \in SeqN, syn \in SegmentMeta : conn' = AcceptSyn(isn, syn)
    BY <1>3, EndpointAssumption DEF Accept
  <2>2. conn = New BY <1>3 DEF Accept, Enabled
  <2>3. Clear(conn) = New /\ New.state = Closed BY <2>2 DEF Clear, New
  <2>4. ConnInv(SetState(New, Listen)) /\ SetState(New, Listen).state = Listen
    BY <2>3, ToInv
  <2>5. ConnInv(conn') BY <2>1, <2>4, KindOf, OnSegmentListenInv DEF AcceptSyn
  <2>6. conn.state.kind = "Closed" BY <2>2, <2>3, KindOf
  <2> QED BY <2>5, <2>6 DEF AckStep, Synchronizing
<1>4. CASE Write
  <2>1. PICK data \in Payload : conn' = CallSend(Fresh, data)
    BY <1>4, EndpointAssumption DEF Write
  <2>2. Fresh.panic = "none" /\ CanSend(Fresh)
    BY <1>1, <1>4, <1>14 DEF Write, Enabled, CanSend
  <2>3. ConnInv(conn') /\ UnackKept(Fresh, conn') BY <1>1, <2>1, <2>2, CallSendInv
  <2> QED BY <1>13, <2>3, ContinuesStep
<1>5. CASE Read
  <2>1. PICK n \in Nat : conn' = CallRecv(Fresh, n)
    BY <1>5, EndpointAssumption DEF Read
  <2>2. Fresh.panic = "none" /\ CanRecv(Fresh)
    BY <1>1, <1>5, <1>14 DEF Read, Enabled, CanRecv
  <2>3. ConnInv(conn') /\ UnackKept(Fresh, conn') BY <1>1, <2>1, <2>2, CallRecvInv
  <2> QED BY <1>13, <2>3, ContinuesStep
<1>6. CASE Shutdown
  <2>2. Fresh.panic = "none" /\ CanShutdown(Fresh)
    BY <1>1, <1>6, <1>14 DEF Shutdown, Enabled, CanShutdown
  <2>3. ConnInv(conn') /\ UnackKept(Fresh, conn')
    BY <1>1, <1>6, <2>2, CallShutdownInv DEF Shutdown
  <2> QED BY <1>13, <2>3, ContinuesStep
<1>7. CASE Close
  <2>2. Fresh.panic = "none" /\ CanClose(Fresh)
    BY <1>1, <1>7, <1>14 DEF Close, Enabled, CanClose
  <2>3. ConnInv(conn') /\ UnackKept(Fresh, conn')
    BY <1>1, <1>7, <2>2, CallCloseInv DEF Close
  <2> QED BY <1>13, <2>3, ContinuesStep
<1>8. CASE Abort
  <2>3. ConnInv(conn') /\ UnackKept(Fresh, conn')
    BY <1>1, <1>8, CallAbortInv DEF Abort
  <2> QED BY <1>13, <2>3, ContinuesStep
<1>9. CASE Receive
  <2>1. PICK seg \in SegmentMeta, isn \in SeqN : conn' = OnSegment(Fresh, seg, isn)
    BY <1>9, EndpointAssumption DEF Receive
  <2>2. Fresh.panic = "none" BY <1>1, <1>9 DEF Receive, Enabled
  <2> QED BY <1>1, <2>1, <2>2, OnSegmentInv
<1>10. CASE Tick
  <2>1. PICK expired : conn' = OnTimeTick(Fresh, expired) BY <1>10 DEF Tick
  <2>2. Fresh.panic = "none" BY <1>1, <1>10 DEF Tick, Enabled
  <2> QED BY <1>1, <2>1, <2>2, OnTimeTickInv
<1>11. CASE UNCHANGED conn
  <2>1. Continues(conn, conn') BY <1>11 DEF Continues, PanicKept
  <2> QED BY <1>0, <1>11, <2>1, ContinuesStep
<1> QED BY <1>2, <1>3, <1>4, <1>5, <1>6, <1>7, <1>8, <1>9, <1>10, <1>11 DEF Next

\* Every step of an endpoint wakes whoever would wait in vain after it.
LEMMA NextWaits ==
  ASSUME ConnInv(conn), WaitsOk(conn), [Next]_conn
  PROVE  WaitsOk(conn')
<1>1. /\ ConnInv(Fresh) /\ SameCore(conn, Fresh) /\ Fresh.panic = conn.panic
      /\ Fresh.wait = conn.wait
  BY FreshInv
<1>2. WaitsOk(Fresh) /\ Fresh.state = conn.state
  <2>1. PanicKept(conn, Fresh) BY <1>1 DEF PanicKept
  <2> QED BY <1>1, <2>1, SameCoreWaits DEF SameCore
<1>3. CASE Connect
  <2>1. PICK isn \in SeqN : conn' = CallConnect(Fresh, isn)
    BY <1>3, EndpointAssumption DEF Connect
  <2>2. CanConnect(Fresh) BY <1>2, <1>3 DEF Connect, Enabled, CanConnect
  <2> QED BY <1>1, <1>2, <2>1, <2>2, CallConnectWaits
<1>4. CASE Accept
  <2>1. PICK isn \in SeqN, syn \in SegmentMeta : conn' = AcceptSyn(isn, syn)
    BY <1>4, EndpointAssumption DEF Accept
  <2>2. conn = New BY <1>4 DEF Accept, Enabled
  <2>3. Clear(conn) = New BY <2>2 DEF Clear, New
  <2> DEFINE d == SetState(New, Listen)
  <2>4. d.state = Listen /\ d \in Connections BY <2>3, ToInv DEF ConnInv
  <2>5. WaitsOk(d) BY <2>3, ToWaits
  <2>6. conn' = OnSegmentListen(d, syn, isn) BY <2>1 DEF AcceptSyn
  <2> HIDE DEF d
  <2> QED BY <2>1, <2>4, <2>5, <2>6, KindOf, OnSegmentListenWaits
<1>5. CASE Write
  <2>1. PICK data \in Payload : conn' = CallSend(Fresh, data)
    BY <1>5, EndpointAssumption DEF Write
  <2>2. Fresh.panic = "none" /\ CanSend(Fresh)
    BY <1>1, <1>2, <1>5 DEF Write, Enabled, CanSend
  <2> QED BY <1>1, <1>2, <2>1, <2>2, CallSendWaits
<1>6. CASE Read
  <2>1. PICK n \in Nat : conn' = CallRecv(Fresh, n) BY <1>6, EndpointAssumption DEF Read
  <2>2. Fresh.panic = "none" /\ CanRecv(Fresh)
    BY <1>1, <1>2, <1>6 DEF Read, Enabled, CanRecv
  <2> QED BY <1>1, <1>2, <2>1, <2>2, CallRecvWaits
<1>7. CASE Shutdown
  <2>1. Fresh.panic = "none" /\ CanShutdown(Fresh)
    BY <1>1, <1>2, <1>7 DEF Shutdown, Enabled, CanShutdown
  <2> QED BY <1>1, <1>2, <1>7, <2>1, CallShutdownWaits DEF Shutdown
<1>8. CASE Close
  <2>1. Fresh.panic = "none" /\ CanClose(Fresh)
    BY <1>1, <1>2, <1>8 DEF Close, Enabled, CanClose
  <2> QED BY <1>1, <1>2, <1>8, <2>1, CallCloseWaits DEF Close
<1>9. CASE Abort BY <1>9, CallAbortWaits DEF Abort
<1>10. CASE Receive
  <2>1. PICK seg \in SegmentMeta, isn \in SeqN : conn' = OnSegment(Fresh, seg, isn)
    BY <1>10, EndpointAssumption DEF Receive
  <2>2. Fresh.panic = "none" BY <1>1, <1>10 DEF Receive, Enabled
  <2> QED BY <1>1, <1>2, <2>1, <2>2, OnSegmentWaits
<1>11. CASE Tick
  <2>1. PICK expired : conn' = OnTimeTick(Fresh, expired) BY <1>11 DEF Tick
  <2>2. Fresh.panic = "none" BY <1>1, <1>11 DEF Tick, Enabled
  <2> QED BY <1>1, <1>2, <2>1, <2>2, OnTimeTickWaits
<1>12. CASE UNCHANGED conn BY <1>12
<1> QED BY <1>3, <1>4, <1>5, <1>6, <1>7, <1>8, <1>9, <1>10, <1>11, <1>12 DEF Next

-----------------------------------------------------------------------------
(* What holds of every connection, whatever its peer, network and user do.  *)

\* Every method of connection.rs and timers.rs finds and leaves a connection
\* that satisfies MethodInvariant.
THEOREM Invariance == Spec => []MethodInvariant
<1>1. Init => MethodInvariant
  BY NewInv, NewWaits DEF Init, MethodInvariant
<1>2. MethodInvariant /\ [Next]_conn => MethodInvariant'
  BY NextInv, NextWaits DEF MethodInvariant
<1> QED BY <1>1, <1>2, PTL DEF Spec

\* Every field keeps its type: sequence numbers and windows stay in their width.
THEOREM TypeCorrect == Spec => []TypeOK
<1>1. MethodInvariant => TypeOK
  BY DEF MethodInvariant, ConnInv, TypeOK
<1> QED BY <1>1, Invariance, PTL

\* The unreachable!() and the assert!() of the timer handlers cannot fail.
THEOREM TimersCorrect == Spec => []TimersReachable
<1>1. MethodInvariant => TimersReachable
  BY DEF MethodInvariant, ConnInv, Consistent, TimersReachable, Live
<1> QED BY <1>1, Invariance, PTL

\* "Invariant: ordered" of TxBuffer::re_tx holds, and the queue has no gap.
THEOREM QueueContiguous == Spec => []ReTxOrdered
<1>1. MethodInvariant => ReTxOrdered
  BY DEF MethodInvariant, ConnInv, Consistent, ReTxOrdered, Live
<1> QED BY <1>1, Invariance, PTL

\* No method leaves an unacknowledged segment without a running timer.
THEOREM NothingForgotten == Spec => []RetransmitArmed
<1>1. MethodInvariant => RetransmitArmed
  BY DEF MethodInvariant, ConnInv, Consistent, RetransmitArmed, Live
<1> QED BY <1>1, Invariance, PTL

\* A connection that is over (clear, set_state) has left nobody suspended.
THEOREM WaitersReleased == Spec => []NoOrphanWaiters
<1>1. MethodInvariant => NoOrphanWaiters
  BY DEF MethodInvariant, WaitsOk, NoOrphanWaiters, Live
<1> QED BY <1>1, Invariance, PTL

\* No segment makes on_segment take back an acknowledgement or accept one of
\* what was not sent.
THEOREM AckMonotone == Spec => AckNeverRetreats
<1> DEFINE Both == conn.state.kind \in Synchronizing /\ conn'.state.kind \in Synchronizing
           A == Live' /\ Both => in_range_inclusive(conn'.unack, conn.unack, conn.next)
<1>1. MethodInvariant /\ [Next]_conn => [A]_conn
  BY NextInv DEF MethodInvariant, AckStep, Live
<1> QED BY <1>1, Invariance, PTL DEF Spec, AckNeverRetreats
=============================================================================
