------------------------ MODULE ConnectionInvariant ------------------------
(***************************************************************************)
(* What every method of a connection finds and restores, as a predicate on *)
(* the connection it runs on.  The specifications that drive connections   *)
(* (Endpoint, Tcp) have it as an invariant.                                *)
(***************************************************************************)
EXTENDS Connection

\* The states in which sequence numbers are being acknowledged.
Synchronizing == {"SynSent", "SynReceived", "Established"}

\* The panics of the timer handlers.
NeverInTimer == {"re_tx_unreachable", "timewait_elsewhere"}

\* A retransmission queue without gaps that ends where the next segment starts.
Contiguous(q, next) ==
  /\ \A i \in 1 .. Len(q) - 1 : seqn_after(q[i]) = q[i + 1].seqn
  /\ q # <<>> => seqn_after(q[Len(q)]) = next

\* States without a transmission, whose buffers are those of New.
Idle == {"Closed", "Reset", "Listen"}

\* The states in which our FIN has been acknowledged.
FinAcked(s) ==
  \/ s.kind = "TimeWait"
  \/ s.kind = "Established" /\ s.tx_state = "Closed"

Consistent(c) ==
  /\ c.timer_re_tx => c.state.kind \notin {"TimeWait", "Closed"}
  /\ c.timer_timewait => c.state.kind = "TimeWait"
  /\ c.state.kind \in Idle => c.tx = <<>> /\ ~c.tx_fin /\ c.re_tx = <<>>
  /\ fin_sent(c.state) => c.tx = <<>> /\ c.tx_fin
  /\ c.state.kind = "SynReceived" /\ c.tx # <<>> =>
       c.wait["writer"].kind = "Acknowledged"
  /\ c.re_tx # <<>> /\ c.state.kind # "TimeWait" => c.timer_re_tx
  /\ Contiguous(c.re_tx, c.next)
  /\ FinAcked(c.state) => c.unack = c.next

ConnInv(c) ==
  /\ c \in Connections
  /\ c.panic \notin NeverInTimer
  /\ c.panic = "none" => Consistent(c)

\* Nobody waits for kind.
NobodyWaits(c, kind) == \A u \in Callers : c.wait[u].kind # kind

\* A suspended call waits for something that can still happen: nobody waits on a
\* connection that is over, for data that cannot come, or for the acknowledgement of
\* data after the FIN mark, which would have to be sent after the FIN.
WaitsOk(c) ==
  c.panic = "none" =>
    /\ \A u \in Callers : c.wait[u].kind = "None" => c.wait[u] = NoWait
    /\ c.state.kind \in {"TimeWait", "Reset", "Closed"} =>
         \A u \in Callers : c.wait[u] = NoWait
    /\ ~(c.state.kind = "Established" /\ c.state.rx_state = "Open") => NobodyWaits(c, "Recv")
    /\ c.tx_fin => NobodyWaits(c, "Acknowledged")
============================================================================
