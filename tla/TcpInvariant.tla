---------------------------- MODULE TcpInvariant ----------------------------
(***************************************************************************)
(* The inductive invariant behind StreamIntegrity, EofSound, AckSound and  *)
(* the byte streams of Tcp.                                                *)
(*                                                                         *)
(* A peer numbers its stream from its initial sequence number: the SYN has *)
(* offset 0, byte k offset k, the FIN the offset after the last byte.  The *)
(* invariant says what the numbers and bytes of either end, and of every   *)
(* segment that exists anywhere, have to do with this numbering.           *)
(***************************************************************************)
EXTENDS Tcp, ConnectionInvariant

\* The stream, its SYN and its FIN are shorter than the sequence space.  In a
\* longer one an old segment could pass for a new one: nothing in the code
\* bounds the age of a segment.
ASSUME ShortStreams == \A p \in Peers : MaxWritten[p] + 2 < SeqSpace

Offset(isn, seqn) == wrapping_sub(seqn, isn)

\* The segments of the stream that starts with isn, of which w bytes have been
\* written and which has been ended if e.
OfStream(isn, w, e) ==
  {seg \in SegmentMeta :
     LET k == Offset(isn, seg.seqn)
     IN /\ "SYN" \in seg.flags => seg.seqn = isn
        /\ seg.data # <<>> =>
             /\ 1 <= k /\ k + Len(seg.data) <= w + 1
             /\ \A i \in 1 .. Len(seg.data) : seg.data[i] = k - 1 + i
        /\ "FIN" \in seg.flags => "ACK" \in seg.flags /\ e /\ k + Len(seg.data) = w + 1}

\* The segments that acknowledge nothing, nothing but a, and that reset nothing.
NoAck == {seg \in SegmentMeta : "ACK" \notin seg.flags}
NoReset == {seg \in SegmentMeta : "RST" \notin seg.flags}
AckOf(a) == {seg \in SegmentMeta :
               "ACK" \in seg.flags => seg.ackn = a /\ "RST" \notin seg.flags}

\* The segments of the stream that starts with isn that end at offset m or before,
\* and the segments that acknowledge no more than m of it.
UpTo(isn, m) ==
  {seg \in SegmentMeta : seq_size(seg) # 0 => Offset(isn, seg.seqn) + seq_size(seg) <= m}
AckUpTo(isn, m) ==
  {seg \in SegmentMeta : "ACK" \in seg.flags => Offset(isn, seg.ackn) <= m}

\* The connection has a stream of its own; it has one of its peer, of which ackd counts.
Live(c) == c.panic = "none" /\ c.state.kind \notin Idle
Acking == {"SynReceived", "Established", "TimeWait"}

\* The sending side: the output buffer is the end of what was written, the next
\* sequence number is that of its first byte or comes after the FIN.
TxOk(c, isn, w, e) ==
  Live(c) =>
    /\ Len(c.tx) <= w
    /\ \A i \in 1 .. Len(c.tx) : c.tx[i] = w - Len(c.tx) + i
    /\ \/ Offset(isn, c.next) = w - Len(c.tx) + 1
       \/ Offset(isn, c.next) = w + 2 /\ fin_sent(c.state)
    /\ c.re_tx \in Seq(OfStream(isn, w, e))

\* The receiving side: n bytes have been delivered of a stream of w bytes.
RxOk(c, isn, n, w, e) ==
  LET received == n + Len(c.rx)
  IN /\ \A i \in 1 .. Len(c.rx) : c.rx[i] = n + i
     /\ received <= w
     /\ c.rx_fin => e /\ received = w
     /\ c.state.kind \in {"Listen", "SynSent", "SynReceived"} => received = 0 /\ ~c.rx_fin
     /\ c.state.kind \in Acking =>
          Offset(isn, c.ackd) = received + 1 + (IF c.rx_fin THEN 1 ELSE 0)
     /\ c.state.kind = "Established" /\ c.state.rx_state # "Open" => c.rx_fin

\* The end of the stream has been marked: that is never undone, but for the end
\* of the connection.
EndKept(c) ==
  /\ c.state.kind \notin {"Listen", "SynSent", "SynReceived"}
  /\ c.panic = "none" /\ c.state.kind = "Established" => c.tx_fin

\* The peer has let go of its connection and will not open another.
Over(p) ==
  /\ conn[p].state.kind \in {"Closed", "Reset"}
  /\ p = "client" => connected

\* The stream of p.  Nothing is said of segments to a peer that is over: the
\* server may answer a late SYN of such a client with a second connection, which
\* goes on writing where the first one broke off.
StreamOk(p) ==
  LET q == Other(p)
  IN /\ RxOk(conn[q], Isn[p], Len(delivered[q]), written[p], finished[p])
     /\ \A i \in 1 .. Len(delivered[q]) : delivered[q][i] = i
     /\ conn[p].tx_fin => finished[p]
     /\ finished[p] => EndKept(conn[p])
     /\ written[p] <= MaxWritten[p]
     /\ ~Over(q) =>
          /\ TxOk(conn[p], Isn[p], written[p], finished[p])
          /\ net[q] \in Seq(OfStream(Isn[p], written[p], finished[p]))
          /\ Live(conn[p]) =>
               LET sent == UpTo(Isn[p], Offset(Isn[p], conn[p].next))
               IN net[q] \in Seq(sent) /\ conn[p].re_tx \in Seq(sent)
          /\ conn[p].state.kind = "Listen" => written[p] = 0

\* What has been received of the stream of p was sent, and no acknowledgement of it,
\* in flight, kept for retransmission or taken by p, says more than was received.
AckOk(p) ==
  LET q == Other(p)
      sent == Offset(Isn[p], conn[p].next)
      got == Offset(Isn[p], conn[q].ackd)
  IN /\ Live(conn[p]) /\ Running(q) /\ conn[q].state.kind \in Acking =>
          /\ got <= sent
          /\ net[p] \in Seq(AckUpTo(Isn[p], got)) /\ conn[q].re_tx \in Seq(AckUpTo(Isn[p], got))
          /\ conn[p].state.kind \in Synchronizing => Offset(Isn[p], conn[p].unack) <= got
     /\ Live(conn[p]) /\ Running(q) /\ conn[q].state.kind = "SynSent" =>
          (conn[p].state.kind \in Synchronizing => conn[p].unack = Isn[p])
     /\ conn[p].state.kind = "Listen" /\ Running(q) /\ ~Over(q) =>
          conn[q].state.kind \notin Acking /\ net[q] = <<>>

\* Before call_connect nothing has happened but that the server may have stopped.
NotConnected ==
  /\ conn["client"] = New /\ conn["server"].state.kind \in Idle
  /\ net["client"] = <<>> /\ net["server"] = <<>>
  /\ written["client"] = 0 /\ ~finished["client"] /\ delivered["client"] = <<>>

\* A client in SYN-SENT has sent nothing but SYNs, and got no ACK of anything else.
HandshakeOk ==
  LET first == wrapping_add(Isn["client"], 1)
  IN /\ conn["client"].init_seqn = Isn["client"] /\ conn["client"].unack = Isn["client"]
     /\ conn["client"].next = first
     /\ conn["client"].re_tx \in Seq(NoAck) /\ net["server"] \in Seq(NoAck)
     /\ net["client"] \in Seq(AckOf(first))
     /\ conn["server"].state.kind \in Acking =>
          conn["server"].ackd = first /\ conn["server"].re_tx \in Seq(AckOf(first))

\* connection.rs, tx.rs, rx.rs: the two ends and every segment, in flight or kept for
\* retransmission, agree on the numbering of the two streams, through losses, copies,
\* resets and a second connection of the server.
StreamInvariant ==
  /\ TypeOK
  /\ \A p \in Peers : ConnInv(conn[p]) /\ conn[p].out = <<>> /\ StreamOk(p) /\ AckOk(p)
  /\ conn["client"].state.kind \notin {"Listen", "SynReceived"}
  /\ conn["server"].state.kind # "SynSent"
  /\ ~connected => NotConnected
  /\ Running("client") /\ conn["client"].state.kind = "SynSent" => HandshakeOk
  /\ Running("client") => conn["client"].re_tx \in Seq(NoReset)
  /\ ~Over("client") => net["server"] \in Seq(NoReset)

=============================================================================
