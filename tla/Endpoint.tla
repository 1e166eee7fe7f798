----------------------------- MODULE Endpoint -----------------------------
(***************************************************************************)
(* One connection in an arbitrary environment: the network delivers any    *)
(* segment of Segments at any time, the application makes any call, timers *)
(* expire whenever they are armed.  What holds here holds of a connection  *)
(* whatever its peer, the network and its user do.                         *)
(***************************************************************************)
EXTENDS ConnectionInvariant

CONSTANTS
  Segments,    \* the segments the network may deliver
  Isns,        \* what user_data.new_seqn() may return
  Writes,      \* the payloads of call_send
  Reads,       \* the buffer sizes of call_recv
  MaxQueued    \* bound: bytes and segments queued when call_send is made

ASSUME EndpointAssumption ==
  /\ Segments \subseteq SegmentMeta
  /\ Isns \subseteq SeqN
  /\ Writes \subseteq Payload \ {<<>>}
  /\ Reads \subseteq Nat \ {0}
  /\ MaxQueued \in Nat

VARIABLE conn

Init == conn = New

\* A connection that panicked is gone.  Each method starts with nothing sent.
Enabled(can) == conn.panic = "none" /\ can
Fresh == [conn EXCEPT !.out = <<>>]

\* A suspended caller makes no other call.
Free(caller) == conn.wait[caller] = NoWait

Connect ==
  /\ Enabled(CanConnect(conn)) /\ Free("opener")
  /\ \E isn \in Isns : conn' = CallConnect(Fresh, isn)

\* ListenSocket::call_accept makes the connection and feeds it the queued SYN.
AcceptSyn(isn, syn) == OnSegmentListen(SetState(New, Listen), syn, isn)
Accept ==
  /\ Enabled(conn = New)
  /\ \E isn \in Isns, syn \in Segments :
       /\ "SYN" \in syn.flags /\ syn.flags \cap {"RST", "ACK"} = {}
       /\ conn' = AcceptSyn(isn, syn)

Write ==
  /\ Enabled(CanSend(conn)) /\ Free("writer")
  /\ Len(conn.tx) + Len(conn.re_tx) <= MaxQueued
  /\ \E data \in Writes : conn' = CallSend(Fresh, data)

Read ==
  /\ Enabled(CanRecv(conn)) /\ Free("reader")
  /\ \E n \in Reads : conn' = CallRecv(Fresh, n)

Shutdown ==
  /\ Enabled(CanShutdown(conn)) /\ Free("closer")
  /\ conn' = CallShutdown(Fresh)

Close ==
  /\ Enabled(CanClose(conn)) /\ Free("closer")
  /\ conn' = CallClose(Fresh)

Abort ==
  /\ Enabled(CanAbort(conn))
  /\ conn' = CallAbort(Fresh)

Receive ==
  /\ Enabled(TRUE)
  /\ \E seg \in Segments, isn \in Isns : conn' = OnSegment(Fresh, seg, isn)

Tick ==
  /\ Enabled(conn.timer_re_tx \/ conn.timer_timewait)
  /\ \E expired \in SUBSET {"re_tx", "timewait"} : conn' = OnTimeTick(Fresh, expired)

Next == \/ Connect \/ Accept \/ Write \/ Read \/ Shutdown \/ Close \/ Abort
        \/ Receive \/ Tick

Spec == Init /\ [][Next]_conn

-----------------------------------------------------------------------------
Live == conn.panic = "none"

\* Every field of Connection, TxBuffer, RxBuffer and Timers keeps its type:
\* sequence numbers stay below 2^32 and windows fit a u16.
TypeOK == conn \in Connections

\* tx.rs: what is kept for retransmission (on_send, clear_re_tx_range) is an
\* unbroken piece of the stream up to the next sequence number, so that sending
\* the head again and again fills every gap the peer can have.
ReTxOrdered == Live => Contiguous(conn.re_tx, conn.next)

\* timers.rs, connection.rs: while something is unacknowledged the
\* retransmission timer runs.  TIME-WAIT retransmits nothing.
RetransmitArmed ==
  Live /\ conn.re_tx # <<>> /\ conn.state.kind # "TimeWait" => conn.timer_re_tx

\* connection.rs on_timer_re_tx, on_timer_timewait: a timer never expires in a
\* state whose handler declares that unreachable.
TimersReachable ==
  /\ conn.panic \notin NeverInTimer
  /\ Live /\ conn.timer_re_tx => conn.state.kind \notin {"TimeWait", "Closed"}
  /\ Live /\ conn.timer_timewait => conn.state.kind = "TimeWait"

\* connection.rs, clear and set_state: nobody stays suspended on a connection
\* that is over.
NoOrphanWaiters ==
  Live /\ conn.state.kind \in {"TimeWait", "Reset", "Closed"} =>
    \A u \in Callers : conn.wait[u] = NoWait

\* connection.rs, on_segment: while a connection lives, what its peer has acknowledged only grows, and
\* never beyond what was sent, whatever ackn the segments carry.
AckNeverRetreats ==
  [][Live' /\ conn.state.kind \in Synchronizing /\ conn'.state.kind \in Synchronizing =>
       in_range_inclusive(conn'.unack, conn.unack, conn.next)]_conn

\* connection.rs call_send, tx.rs: a sender suspended in the handshake is woken only
\* when all its bytes are acknowledged, or by the end of the connection.
SenderWokenByAck ==
  [][/\ Live' /\ conn'.state.kind \in Synchronizing
     /\ conn.wait["writer"].kind = "Acknowledged" /\ conn'.wait["writer"] = NoWait
     => /\ conn'.tx = <<>>
        /\ \A i \in 1 .. Len(conn'.re_tx) : conn'.re_tx[i].data = <<>>]_conn

\* Our FIN counts as sent and not acknowledged; the FIN is there to be sent again.
FinUnacked(c) == c.state.kind = "Established" /\ c.state.tx_state = "Fin"
FinQueued(c) == c.re_tx # <<>> /\ "FIN" \in c.re_tx[Len(c.re_tx)].flags

\* state.rs fin_sent, connection.rs send_ack: a channel enters Fin only by sending
\* the FIN, and the FIN is kept until it is acknowledged.  The exception is a call
\* of call_close or call_shutdown in SYN-RECEIVED against a closed window.
FinKept ==
  [][Live' /\ FinUnacked(conn') /\ ~FinQueued(conn') =>
       \/ FinUnacked(conn) /\ ~FinQueued(conn)
       \/ conn.state.kind = "SynReceived" /\ space_available(conn) = 0]_conn

-----------------------------------------------------------------------------
\* connection.rs: what every method may rely on and restores.  Before the FIN
\* is marked as sent nothing may be left in the output buffer: otherwise a late
\* send_ack puts data after the FIN and arms a timer in TIME-WAIT or CLOSED.  And
\* whoever is suspended waits for something that can still happen.
MethodInvariant == ConnInv(conn) /\ WaitsOk(conn)
=============================================================================
