----------------------------- MODULE TcpProofs -----------------------------
(***************************************************************************)
(* StreamInvariant is an invariant of Tcp: whatever the network, the       *)
(* timers and the applications do, the two ends agree on the numbering of  *)
(* the two byte streams.  The properties of the streams follow.            *)
(***************************************************************************)
EXTENDS StreamProofs

\* What is in flight after a segment has been taken out was in flight before.
LEMMA KeptTail ==
  ASSUME NEW S, NEW s \in Seq(S), s # <<>>
  PROVE  KeptIn(s, Tail(s)) /\ \A G : s \in Seq(G) => s[1] \in G
<1>1. ASSUME NEW G, s \in Seq(G) PROVE Tail(s) \in Seq(G) /\ s[1] \in G BY <1>1
<1> QED BY <1>1 DEF KeptIn

\* The same for a segment further back.
LEMMA KeptRemove ==
  ASSUME NEW S, NEW s \in Seq(S), NEW i \in 2 .. Len(s)
  PROVE  KeptIn(s, RemoveAt(s, i)) /\ \A G : s \in Seq(G) => s[i] \in G
<1>1. ASSUME NEW G, s \in Seq(G) PROVE RemoveAt(s, i) \in Seq(G) /\ s[i] \in G
  <2>1. Len(s) \in Nat /\ i \in Nat /\ i \in 1 .. Len(s) BY <1>1
  <2>2. SubSeq(s, 1, i - 1) \in Seq(G)
    <3>1. \A j \in 1 .. i - 1 : s[j] \in G BY <1>1, <2>1
    <3> QED BY <1>1, <2>1, <3>1
  <2>3. SubSeq(s, i + 1, Len(s)) \in Seq(G)
    <3>1. \A j \in i + 1 .. Len(s) : s[j] \in G BY <1>1, <2>1
    <3> QED BY <1>1, <2>1, <3>1
  <2>4. SubSeq(s, 1, i - 1) \o SubSeq(s, i + 1, Len(s)) \in Seq(G) BY <2>2, <2>3
  <2> QED BY <1>1, <2>1, <2>4 DEF RemoveAt
<1> QED BY <1>1 DEF KeptIn

\* The other peer.
LEMMA OtherPeer ==
  ASSUME NEW p \in Peers, NEW q, q = Other(p)
  PROVE  /\ q \in Peers /\ q # p /\ Other(q) = p /\ Peers = {p, q}
         /\ p = "client" => q = "server"
         /\ p = "server" => q = "client"
BY DEF Peers, Other

\* Handing over what a method sent changes nothing else of the connection.
LEMMA HandOver ==
  ASSUME NEW r, ConnInv(r), NEW d, d = [r EXCEPT !.out = <<>>]
  PROVE  /\ ConnInv(d) /\ d.out = <<>> /\ d.state = r.state /\ d.tx_fin = r.tx_fin
         /\ d.re_tx = r.re_tx /\ d.panic = r.panic /\ d.init_seqn = r.init_seqn
         /\ d.unack = r.unack /\ d.next = r.next /\ d.ackd = r.ackd
         /\ d.rx = r.rx /\ d.rx_fin = r.rx_fin /\ d.tx = r.tx
<1>1. r \in Connections BY DEF ConnInv
<1>2. <<>> \in Seq(SegmentMeta) OBVIOUS
<1>3. /\ d \in Connections /\ SameCore(r, d) /\ PanicKept(r, d) /\ SenderKept(r, d)
      /\ d.panic = r.panic /\ d.init_seqn = r.init_seqn /\ d.ackd = r.ackd
      /\ d.rx = r.rx /\ d.rx_fin = r.rx_fin /\ d.out = <<>>
  BY <1>1, <1>2 DEF Connections, SameCore, PanicKept, SenderKept
<1> QED BY <1>3, SameCoreInv DEF SameCore

\* More may be written to the stream that one receives.
LEMMA RxGrows ==
  ASSUME NEW c \in Connections, NEW isn, NEW n \in Nat, NEW w \in Nat, NEW v \in Nat,
         NEW e \in BOOLEAN, NEW f \in BOOLEAN, w <= v, e => f /\ w = v,
         RxOk(c, isn, n, w, e)
  PROVE  RxOk(c, isn, n, v, f)
<1>1. Len(c.rx) \in Nat BY DEF Connections
<1>2. n + Len(c.rx) <= v BY <1>1 DEF RxOk, Acking
<1>3. c.rx_fin => f /\ n + Len(c.rx) = v BY DEF RxOk, Acking
<1> QED BY <1>2, <1>3 DEF RxOk, Acking

\* What the invariant asks of the step of one peer.
Keeps(p, r) ==
  /\ ConnInv(r) /\ Moved(conn[p], r) /\ Resets(conn[p], r) /\ Repeats(conn[p], r)
  /\ /\ p = "server" /\ net["server"] \in Seq(NoAck)
     /\ Answers(conn[p], wrapping_add(Isn["client"], 1))
     => Answers(r, wrapping_add(Isn["client"], 1))

\* The variables after the step of a peer.
Framed(p, q, r, n) ==
  /\ conn'[p] = [r EXCEPT !.out = <<>>] /\ conn'[q] = conn[q]
  /\ net'[p] = n /\ net'[q] = net[q] \o r.out
  /\ finished'[p] = (finished[p] \/ r.tx_fin) /\ finished'[q] = finished[q]
  /\ conn' \in [Peers -> Connections] /\ net' \in [Peers -> Seq(SegmentMeta)]
  /\ finished' \in [Peers -> BOOLEAN]

\* They are what BecomesAfter says, peer by peer.
LEMMA Frame ==
  ASSUME TypeOK, NEW p \in Peers, NEW q, q = Other(p), NEW r, ConnInv(r), NEW n,
         BecomesAfter(p, r, n), KeptIn(net[p], n)
  PROVE  Framed(p, q, r, n)
<1>1. q \in Peers /\ q # p /\ Peers = {p, q} BY OtherPeer
<1>2. /\ conn \in [Peers -> Connections] /\ net \in [Peers -> Seq(SegmentMeta)]
      /\ finished \in [Peers -> BOOLEAN]
  BY DEF TypeOK
<1>3. /\ conn'[p] = [r EXCEPT !.out = <<>>] /\ conn'[q] = conn[q]
      /\ net'[p] = n /\ net'[q] = net[q] \o r.out
      /\ finished'[p] = (finished[p] \/ r.tx_fin) /\ finished'[q] = finished[q]
  <2>1. conn' = [conn EXCEPT ![p] = [r EXCEPT !.out = <<>>]] BY DEF BecomesAfter
  <2>2. net' = [net EXCEPT ![p] = n, ![q] = @ \o r.out] BY DEF BecomesAfter
  <2>3. finished' = [finished EXCEPT ![p] = @ \/ r.tx_fin] BY DEF BecomesAfter
  <2>4. conn'[p] = [r EXCEPT !.out = <<>>] /\ conn'[q] = conn[q] BY <1>1, <1>2, <2>1
  <2>5. net'[p] = n /\ net'[q] = net[q] \o r.out BY <1>1, <1>2, <2>2
  <2>6. finished'[p] = (finished[p] \/ r.tx_fin) /\ finished'[q] = finished[q]
    BY <1>1, <1>2, <2>3, Zenon
  <2> QED BY <2>4, <2>5, <2>6
<1>4. conn' \in [Peers -> Connections]
  <2>1. [r EXCEPT !.out = <<>>] \in Connections BY HandOver DEF ConnInv
  <2> QED BY <1>2, <2>1 DEF BecomesAfter
<1>5. net' \in [Peers -> Seq(SegmentMeta)]
  <2>1. n \in Seq(SegmentMeta) BY <1>2 DEF KeptIn
  <2>2. r.out \in Seq(SegmentMeta) BY DEF ConnInv, Connections
  <2>3. net[q] \o r.out \in Seq(SegmentMeta) BY <1>1, <1>2, <2>2
  <2>4. net' = [net EXCEPT ![p] = n, ![q] = @ \o r.out] BY DEF BecomesAfter
  <2> QED BY <1>1, <1>2, <2>1, <2>3, <2>4
<1>6. finished' \in [Peers -> BOOLEAN]
  <2>1. (finished[p] \/ r.tx_fin) \in BOOLEAN OBVIOUS
  <2> QED BY <1>2, <2>1, Zenon DEF BecomesAfter
<1> QED BY <1>3, <1>4, <1>5, <1>6 DEF Framed

\* How far the stream of p has been sent, once it has begun.
Sent(p) == IF conn[p].state.kind \in Idle THEN 1 ELSE Offset(Isn[p], conn[p].next)

\* The stream the peer sends.
LEMMA SentStream ==
  ASSUME StreamInvariant, NEW p \in Peers, NEW q, q = Other(p), NEW r, ConnInv(r),
         Moved(conn[p], r), NEW n, BecomesAfter(p, r, n), KeptIn(net[p], n),
         connected' = connected, delivered'[q] = delivered[q],
         written'[p] \in Nat, written[p] <= written'[p], written'[p] <= MaxWritten[p],
         finished[p] => written'[p] = written[p],
         ~Over(q) => /\ SendOk(r, Isn[p], written'[p], finished'[p], Sent(p))
                     /\ r.state.kind = "Listen" => written'[p] = 0
  PROVE  StreamOk(p)'
<1> DEFINE c == conn[p]
           d == conn'[p]
           w == written'[p]
           e == finished'[p]
<1>0. TypeOK /\ StreamOk(p) /\ q \in Peers /\ Other(q) = p
  BY OtherPeer DEF StreamInvariant
<1>1. /\ d = [r EXCEPT !.out = <<>>] /\ conn'[q] = conn[q]
      /\ net'[q] = net[q] \o r.out /\ e = (finished[p] \/ r.tx_fin)
      /\ finished' \in [Peers -> BOOLEAN]
  <2>1. Framed(p, q, r, n) BY <1>0, Frame
  <2> QED BY ONLY <2>1 DEF Framed
<1>2. /\ d.state = r.state /\ d.tx_fin = r.tx_fin /\ d.panic = r.panic /\ d.tx = r.tx
      /\ d.next = r.next /\ d.re_tx = r.re_tx
  BY <1>1, HandOver
<1>3. /\ written[p] \in Nat /\ finished[p] \in BOOLEAN /\ e \in BOOLEAN /\ Isn[p] \in SeqN
      /\ conn[q] \in Connections /\ Len(delivered[q]) \in Nat
  BY <1>0, <1>1, TcpAssumption DEF TypeOK
<1>4. finished[p] => e BY <1>1, <1>3
<1> HIDE DEF d, w, e
<1>5. RxOk(conn[q], Isn[p], Len(delivered[q]), written[p], finished[p])
  BY <1>0 DEF StreamOk
<1>6. w \in Nat /\ written[p] <= w /\ w <= MaxWritten[p] /\ (finished[p] => w = written[p])
  BY DEF w
<1>7. RxOk(conn[q], Isn[p], Len(delivered[q]), w, e) BY <1>3, <1>4, <1>5, <1>6, RxGrows
<1>8. d.tx_fin => e BY <1>1, <1>2, <1>3
<1>9. e => EndKept(d)
  <2>1. e => EndKept(r)
    <3>1. finished[p] => EndKept(c) BY <1>0 DEF StreamOk
    <3>2. r.tx_fin => finished[p] \/ EndKept(r) BY <1>0 DEF Moved, StreamOk
    <3> QED BY <1>1, <3>1, <3>2 DEF Moved
  <2> QED BY <1>2, <2>1 DEF EndKept
<1>10. ASSUME ~Over(q)
       PROVE  /\ TxOk(d, Isn[p], w, e) /\ net'[q] \in Seq(OfStream(Isn[p], w, e))
              /\ d.state.kind = "Listen" => w = 0
  <2>1. SendOk(r, Isn[p], w, e, Sent(p)) /\ (r.state.kind = "Listen" => w = 0) BY <1>10 DEF w, e
  <2>2. TxOk(d, Isn[p], w, e) BY <1>2, <2>1 DEF SendOk, TxOk, Live
  <2>3. net[q] \in Seq(OfStream(Isn[p], written[p], finished[p]))
    BY <1>0, <1>10 DEF StreamOk
  <2>4. OfStream(Isn[p], written[p], finished[p]) \subseteq OfStream(Isn[p], w, e)
    BY <1>3, <1>4, <1>6, OfStreamGrows
  <2>5. net[q] \in Seq(OfStream(Isn[p], w, e)) BY <2>3, <2>4, SeqMono
  <2>6. r.out \in Seq(OfStream(Isn[p], w, e)) BY <2>1 DEF SendOk
  <2>7. net[q] \o r.out \in Seq(OfStream(Isn[p], w, e)) BY <2>5, <2>6
  <2> QED BY <1>1, <1>2, <2>1, <2>2, <2>7
<1>11. Over(q)' <=> Over(q) BY <1>1 DEF Over
<1>12. \A i \in 1 .. Len(delivered[q]) : delivered[q][i] = i BY <1>0 DEF StreamOk
<1>13. ASSUME ~Over(q), Live(d)
       PROVE  /\ net'[q] \in Seq(UpTo(Isn[p], Offset(Isn[p], d.next)))
              /\ d.re_tx \in Seq(UpTo(Isn[p], Offset(Isn[p], d.next)))
  <2> DEFINE m == Offset(Isn[p], r.next)
  <2>1. Live(r) BY <1>2, <1>13 DEF Live
  <2>2. /\ Sent(p) \in Nat /\ Sent(p) <= m
        /\ r.out \in Seq(UpTo(Isn[p], m)) /\ r.re_tx \in Seq(UpTo(Isn[p], m))
    BY <1>13, <2>1 DEF SendOk, OutOk
  <2>3. m \in Nat
    <3>1. r.next \in SeqN BY DEF ConnInv, Connections
    <3> QED BY <1>3, <3>1, OffsetType
  <2> HIDE DEF m
  <2>4. net[q] \in Seq(UpTo(Isn[p], Sent(p)))
    <3>1. /\ net[q] \in Seq(OfStream(Isn[p], written[p], finished[p]))
          /\ Live(c) => net[q] \in Seq(UpTo(Isn[p], Offset(Isn[p], c.next)))
          /\ c.state.kind = "Listen" => written[p] = 0
          /\ finished[p] => EndKept(c)
      BY <1>0, <1>13 DEF StreamOk
    <3>2. c.panic = "none" /\ c.state.kind \notin Ended BY <2>1 DEF Moved, Live, Idle, Ended
    <3>3. CASE c.state.kind \in Idle
      <4>1. c.state.kind = "Listen" BY <3>2, <3>3 DEF Idle, Ended
      <4>2. written[p] = 0 /\ finished[p] = FALSE BY <1>3, <3>1, <4>1 DEF EndKept
      <4>3. net[q] \in Seq(OfStream(Isn[p], 0, FALSE)) BY <3>1, <4>2
      <4>4. net[q] \in Seq(UpTo(Isn[p], 1)) BY <1>3, <4>3, SynUpTo, SeqMono
      <4> QED BY <3>3, <4>4 DEF Sent
    <3>4. CASE c.state.kind \notin Idle BY <3>1, <3>2, <3>4 DEF Sent, Live
    <3> QED BY <3>3, <3>4
  <2>5. net[q] \in Seq(UpTo(Isn[p], m)) BY <1>3, <2>2, <2>3, <2>4, UpToGrows, SeqMono
  <2>6. net[q] \o r.out \in Seq(UpTo(Isn[p], m)) BY <2>2, <2>5
  <2> QED BY <1>1, <1>2, <2>2, <2>6 DEF m
<1> QED BY <1>1, <1>6, <1>7, <1>8, <1>9, <1>10, <1>11, <1>12, <1>13 DEF StreamOk, d, w, e

\* The stream it receives.
LEMMA ReceivedStream ==
  ASSUME StreamInvariant, NEW p \in Peers, NEW q, q = Other(p), NEW r, ConnInv(r),
         Moved(conn[p], r), NEW n, BecomesAfter(p, r, n), KeptIn(net[p], n),
         connected' = connected, written'[q] = written[q], After(0, delivered'[p]),
         RxOk(r, Isn[q], Len(delivered'[p]), written[q], finished[q])
  PROVE  StreamOk(q)'
<1> DEFINE d == conn'[p]
           l == Len(delivered'[p])
<1>0. TypeOK /\ StreamOk(q) /\ q \in Peers /\ Other(q) = p
  BY OtherPeer DEF StreamInvariant
<1>1. /\ d = [r EXCEPT !.out = <<>>] /\ conn'[q] = conn[q] /\ net'[p] = n
      /\ finished'[q] = finished[q]
  <2>1. Framed(p, q, r, n) BY <1>0, Frame
  <2> QED BY ONLY <2>1 DEF Framed
<1>2. d.state = r.state /\ d.ackd = r.ackd /\ d.rx = r.rx /\ d.rx_fin = r.rx_fin
  BY <1>1, HandOver
<1> HIDE DEF d
<1>3. RxOk(d, Isn[q], l, written[q], finished[q]) BY <1>2 DEF RxOk, Acking
<1>4. \A i \in 1 .. l : delivered'[p][i] = i
  <2>1. \A i \in 1 .. l : delivered'[p][i] = 0 + i BY DEF After
  <2>2. \A i \in 1 .. l : i \in Nat /\ 0 + i = i OBVIOUS
  <2> QED BY <2>1, <2>2
<1>5. ~Over(p)' => ~Over(p) BY <1>1, <1>2 DEF Over, Moved, Ended, d
<1>6. KeptIn(net[p], n) OBVIOUS
<1>7. ~Over(p) => net[p] \in Seq(OfStream(Isn[q], written[q], finished[q]))
  BY <1>0 DEF StreamOk
<1>8. ~Over(p) => n \in Seq(OfStream(Isn[q], written[q], finished[q]))
  BY <1>6, <1>7 DEF KeptIn
<1>9. ~Over(p) /\ Live(conn[q]) =>
        /\ n \in Seq(UpTo(Isn[q], Offset(Isn[q], conn[q].next)))
        /\ conn[q].re_tx \in Seq(UpTo(Isn[q], Offset(Isn[q], conn[q].next)))
  BY <1>0, <1>6 DEF StreamOk, KeptIn
<1> HIDE DEF l
<1> QED BY <1>0, <1>1, <1>3, <1>4, <1>5, <1>8, <1>9 DEF StreamOk, d, l

\* The handshake, by the step of the client.
LEMMA ClientHandshake ==
  ASSUME StreamInvariant, NEW r, ConnInv(r), Moved(conn["client"], r),
         Repeats(conn["client"], r), NEW n, BecomesAfter("client", r, n),
         KeptIn(net["client"], n), r.panic = "none", r.state.kind = "SynSent"
  PROVE  HandshakeOk'
<1> DEFINE c == conn["client"]
           d == conn'["client"]
           first == wrapping_add(Isn["client"], 1)
<1>0. TypeOK /\ "client" \in Peers /\ "server" = Other("client") /\ c.out = <<>>
  BY DEF StreamInvariant, Peers, Other
<1>1. /\ d = [r EXCEPT !.out = <<>>] /\ conn'["server"] = conn["server"]
      /\ net'["client"] = n /\ net'["server"] = net["server"] \o r.out
  <2>1. Framed("client", "server", r, n) BY <1>0, Frame
  <2> QED BY ONLY <2>1 DEF Framed
<1>2. d.re_tx = r.re_tx /\ d.init_seqn = r.init_seqn /\ d.unack = r.unack /\ d.next = r.next
  BY <1>1, HandOver
<1>3. c.panic = "none" /\ c.state.kind = "SynSent" BY DEF Moved
<1>4. HandshakeOk BY <1>3 DEF StreamInvariant, Running
<1>5. /\ r.init_seqn = c.init_seqn /\ r.unack = c.unack /\ r.next = c.next
      /\ KeptIn(c.re_tx, r.re_tx)
      /\ \A G : c.out \in Seq(G) /\ c.re_tx \in Seq(G) => r.out \in Seq(G)
  BY <1>3 DEF Repeats
<1>6. c.re_tx \in Seq(NoAck) /\ net["server"] \in Seq(NoAck) /\ net["client"] \in Seq(AckOf(first))
  BY <1>4 DEF HandshakeOk
<1>7. r.re_tx \in Seq(NoAck) /\ r.out \in Seq(NoAck) BY <1>0, <1>5, <1>6 DEF KeptIn
<1>8. net["server"] \o r.out \in Seq(NoAck) BY <1>6, <1>7
<1>9. n \in Seq(AckOf(first)) BY <1>6 DEF KeptIn
<1>10. /\ c.init_seqn = Isn["client"] /\ c.unack = Isn["client"] /\ c.next = first
       /\ conn["server"].state.kind \in Acking =>
            conn["server"].ackd = first /\ conn["server"].re_tx \in Seq(AckOf(first))
  BY <1>4 DEF HandshakeOk
<1> HIDE DEF c, d
<1> QED BY <1>1, <1>2, <1>5, <1>7, <1>8, <1>9, <1>10 DEF HandshakeOk, d

\* The handshake, by the step of the server.
LEMMA ServerHandshake ==
  ASSUME StreamInvariant, NEW r, Keeps("server", r), NEW n, BecomesAfter("server", r, n),
         KeptIn(net["server"], n), HandshakeOk
  PROVE  HandshakeOk'
<1> DEFINE c == conn["server"]
           d == conn'["server"]
           first == wrapping_add(Isn["client"], 1)
<1>0. /\ TypeOK /\ "server" \in Peers /\ "client" = Other("server") /\ c.out = <<>>
      /\ ConnInv(r)
  BY DEF StreamInvariant, Peers, Other, Keeps
<1>1. /\ d = [r EXCEPT !.out = <<>>] /\ conn'["client"] = conn["client"]
      /\ net'["server"] = n /\ net'["client"] = net["client"] \o r.out
  <2>1. Framed("server", "client", r, n) BY <1>0, Frame
  <2> QED BY ONLY <2>1 DEF Framed
<1>2. d.state = r.state /\ d.re_tx = r.re_tx /\ d.ackd = r.ackd BY <1>0, <1>1, HandOver
<1>3. Answers(c, first) BY <1>0 DEF HandshakeOk, Answers, Acking
<1>4. Answers(r, first) BY <1>3 DEF Keeps, HandshakeOk
<1>5. net["client"] \in Seq(AckOf(first)) /\ r.out \in Seq(AckOf(first))
  BY <1>4 DEF Answers, HandshakeOk
<1>6. net["client"] \o r.out \in Seq(AckOf(first)) BY <1>5
<1>7. n \in Seq(NoAck) BY DEF HandshakeOk, KeptIn
<1>8. d.state.kind \in Acking => d.ackd = first /\ d.re_tx \in Seq(AckOf(first))
  BY <1>2, <1>4 DEF Answers, Acking
<1> HIDE DEF d
<1> QED BY <1>1, <1>6, <1>7, <1>8 DEF HandshakeOk, d

\* A connection takes as acknowledged what a segment to it says, one of those in s.
Takes(c, r, s) ==
  r.panic = "none" /\ r.state.kind \in Synchronizing /\ c.state.kind # "Listen" =>
    /\ c.state.kind \in Synchronizing
    /\ \/ r.unack = c.unack
       \/ \A G : s \in Seq(G) => \E seg \in G : "ACK" \in seg.flags /\ r.unack = seg.ackn

\* It acknowledges what it has received of the stream that starts with isn, and never less.
Says(c, r, isn) ==
  c.state.kind \in {"SynSent"} \cup Acking /\ r.state.kind \notin Idle =>
    /\ Emits(c, r, r.ackd)
    /\ c.state.kind \in Acking => Offset(isn, c.ackd) <= Offset(isn, r.ackd)

\* A listener sends its answer to a SYN, and resets only what acknowledges something.
Listens(c, r, s, new) ==
  c.state.kind = "Listen" =>
    \/ r.state.kind \in Ended
    \/ r.state.kind = "Listen" /\ (s \in Seq(NoAck) => r.out = <<>>)
    \/ /\ r.state.kind = "SynReceived" /\ r.unack = new
       /\ \E syn : Opened(c, r, new, syn) /\ syn.ackn = r.ackd

\* What AckOk asks of the step of p.
AckKeeps(p, q, r) ==
  /\ Takes(conn[p], r, net[p]) /\ Says(conn[p], r, Isn[q])
  /\ Listens(conn[p], r, net[p], Isn[p])
  /\ r.state.kind \in Acking /\ Live(conn[q]) =>
       Offset(Isn[q], r.ackd) <= Offset(Isn[q], conn[q].next)
  /\ r.state.kind = "Listen" /\ ~Over(q) => conn[p].state.kind = "Listen"
  /\ conn[p].state.kind = "SynSent" /\ r.state.kind \in Acking => net[p] # <<>>

\* A client that is neither over nor established has sent no acknowledgement.
LEMMA NothingAcked ==
  ASSUME StreamInvariant, Running("client"), ~Over("client"),
         conn["client"].state.kind \notin Acking
  PROVE  net["server"] \in Seq(NoAck)
<1>1. "client" \in Peers BY DEF Peers
<1>2. conn["client"].state.kind \in StateKind
  <2>1. conn["client"] \in Connections BY <1>1 DEF StreamInvariant, ConnInv
  <2> QED BY <2>1, StateFields
<1>3. conn["client"].state.kind # "Listen" BY DEF StreamInvariant
<1>4. CASE conn["client"].state.kind = "SynSent"
  <2>1. HandshakeOk BY <1>4 DEF StreamInvariant
  <2> QED BY <2>1 DEF HandshakeOk
<1>5. CASE conn["client"].state.kind \in {"Closed", "Reset"}
  <2>1. NotConnected BY <1>5 DEF StreamInvariant, Over
  <2>2. net["server"] = <<>> BY <2>1 DEF NotConnected
  <2> QED BY <2>2
<1> QED BY <1>2, <1>3, <1>4, <1>5 DEF StateKind, Acking

\* The acknowledgements of the stream that the peer sends.
LEMMA SenderAcks ==
  ASSUME StreamInvariant, NEW p \in Peers, NEW q, q = Other(p), NEW r, ConnInv(r),
         Moved(conn[p], r), NEW n, BecomesAfter(p, r, n), KeptIn(net[p], n), Running(p),
         connected' = connected, AckKeeps(p, q, r), ~Over(q) => OutOk(r, Isn[p], Sent(p))
  PROVE  AckOk(p)'
<1> DEFINE c == conn[p]
           d == conn'[p]
           e == conn[q]
           got == Offset(Isn[p], e.ackd)
           sent == Offset(Isn[p], c.next)
<1>0. /\ TypeOK /\ AckOk(p) /\ q \in Peers /\ Other(q) = p /\ Peers = {p, q}
      /\ p = "client" => q = "server"
      /\ p = "server" => q = "client"
  BY OtherPeer DEF StreamInvariant
<1>1. /\ d = [r EXCEPT !.out = <<>>] /\ conn'[q] = conn[q]
      /\ net'[p] = n /\ net'[q] = net[q] \o r.out
  <2>1. Framed(p, q, r, n) BY <1>0, Frame
  <2> QED BY ONLY <2>1 DEF Framed
<1>2. d.state = r.state /\ d.panic = r.panic /\ d.next = r.next /\ d.unack = r.unack
  BY <1>1, HandOver
<1>3. (Over(q)' <=> Over(q)) /\ (Running(q)' <=> Running(q)) BY <1>1 DEF Over, Running
<1>4. /\ c \in Connections /\ e \in Connections /\ r \in Connections /\ c.panic = "none"
      /\ Isn[p] \in SeqN
  BY <1>0, TcpAssumption DEF TypeOK, ConnInv, Running
<1>5. /\ sent \in Nat /\ got \in Nat /\ Offset(Isn[p], r.next) \in Nat
      /\ Offset(Isn[p], c.unack) \in Nat
  <2>1. c.next \in SeqN /\ c.unack \in SeqN BY <1>4 DEF Connections
  <2>2. e.ackd \in SeqN BY <1>4 DEF Connections
  <2>3. r.next \in SeqN BY <1>4 DEF Connections
  <2> QED BY <1>4, <2>1, <2>2, <2>3, OffsetType
<1>6. Takes(c, r, net[p]) /\ Listens(c, r, net[p], Isn[p]) BY DEF AckKeeps
<1> HIDE DEF c, d, e, sent, got
<1>7. Live(d) => Live(r) /\ c.state.kind \notin Ended
  BY <1>2 DEF Live, Moved, Idle, Ended, c
<1>8. ASSUME Live(d), Running(q), e.state.kind \in Acking
      PROVE  /\ got <= Offset(Isn[p], d.next)
             /\ n \in Seq(AckUpTo(Isn[p], got)) /\ e.re_tx \in Seq(AckUpTo(Isn[p], got))
             /\ d.state.kind \in Synchronizing => Offset(Isn[p], d.unack) <= got
  <2>1. ~Over(q) BY <1>8 DEF Over, Acking, e
  <2>2. c.state.kind # "Listen" BY <1>0, <1>8, <2>1 DEF AckOk, c, e
  <2>3. Live(c) BY <1>4, <1>7, <1>8, <2>2 DEF Live, Idle, Ended
  <2>4. /\ got <= sent /\ net[p] \in Seq(AckUpTo(Isn[p], got))
        /\ e.re_tx \in Seq(AckUpTo(Isn[p], got))
        /\ c.state.kind \in Synchronizing => Offset(Isn[p], c.unack) <= got
    BY <1>0, <1>8, <2>3 DEF AckOk, c, e, got, sent
  <2>5. sent <= Offset(Isn[p], r.next)
    <3>1. Sent(p) = sent BY <2>3 DEF Sent, sent, Live, c
    <3> QED BY <1>7, <1>8, <2>1, <3>1 DEF OutOk
  <2>6. got <= Offset(Isn[p], r.next) BY <1>5, <2>4, <2>5
  <2>7. n \in Seq(AckUpTo(Isn[p], got)) BY <2>4 DEF KeptIn
  <2>8. ASSUME r.state.kind \in Synchronizing PROVE Offset(Isn[p], r.unack) <= got
    <3>1. r.panic = "none" BY <1>7, <1>8 DEF Live
    <3>2. c.state.kind \in Synchronizing BY <1>6, <2>2, <2>8, <3>1 DEF Takes
    <3>3. CASE r.unack = c.unack BY <2>4, <3>2, <3>3
    <3>4. CASE r.unack # c.unack
      <4>1. \E seg \in AckUpTo(Isn[p], got) : "ACK" \in seg.flags /\ r.unack = seg.ackn
        BY <1>6, <2>2, <2>4, <2>8, <3>1, <3>4 DEF Takes
      <4> QED BY <4>1 DEF AckUpTo
    <3> QED BY <3>3, <3>4
  <2> QED BY <1>2, <2>4, <2>6, <2>7, <2>8
<1>9. ASSUME Live(d), Running(q), e.state.kind = "SynSent", d.state.kind \in Synchronizing
      PROVE  d.unack = Isn[p]
  <2>1. q = "client" BY <1>0, <1>9 DEF StreamInvariant, Peers, e
  <2>2. p = "server" BY <1>0, <2>1 DEF Peers
  <2>3. HandshakeOk BY <1>9, <2>1 DEF StreamInvariant, e
  <2>4. net[p] \in Seq(NoAck) BY <2>2, <2>3 DEF HandshakeOk
  <2>5. CASE c.state.kind = "Listen"
    <3>1. r.state.kind \notin Ended \cup {"Listen"} BY <1>7, <1>9 DEF Live, Idle, Ended
    <3> QED BY <1>2, <1>6, <2>5, <3>1 DEF Listens
  <2>6. CASE c.state.kind # "Listen"
    <3>1. Live(c) BY <1>4, <1>7, <1>9, <2>6 DEF Live, Idle, Ended
    <3>2. c.state.kind \in Synchronizing => c.unack = Isn[p]
      BY <1>0, <1>9, <3>1 DEF AckOk, c, e
    <3>3. r.panic = "none" /\ r.state.kind \in Synchronizing
      BY <1>2, <1>7, <1>9 DEF Live
    <3>4. c.state.kind \in Synchronizing BY <1>6, <2>6, <3>3 DEF Takes
    <3>5. r.unack = c.unack
      <4>1. ~ \E seg \in NoAck : "ACK" \in seg.flags /\ r.unack = seg.ackn BY DEF NoAck
      <4> QED BY <1>6, <2>4, <2>6, <3>3, <4>1 DEF Takes
    <3> QED BY <1>2, <3>2, <3>4, <3>5
  <2> QED BY <2>5, <2>6
<1>10. ASSUME d.state.kind = "Listen", Running(q), ~Over(q)
       PROVE  e.state.kind \notin Acking /\ net'[q] = <<>>
  <2>1. r.state.kind = "Listen" /\ c.state.kind = "Listen"
    BY <1>2, <1>10 DEF AckKeeps, c
  <2>2. e.state.kind \notin Acking /\ net[q] = <<>> BY <1>0, <1>10, <2>1 DEF AckOk, c, e
  <2>3. p = "server" BY <2>1 DEF StreamInvariant, Peers, c
  <2>4. q = "client" BY <1>0, <2>3
  <2>5. net[p] \in Seq(NoAck) BY <1>10, <2>2, <2>3, <2>4, NothingAcked DEF e
  <2>6. r.out = <<>> BY <1>6, <2>1, <2>5 DEF Listens, Ended
  <2>7. net[q] \o r.out = <<>> BY <2>2, <2>6
  <2> QED BY <1>1, <2>2, <2>7
<1> QED BY <1>1, <1>3, <1>8, <1>9, <1>10 DEF AckOk, d, e, got

\* The acknowledgements of the stream that it receives.
LEMMA ReceiverAcks ==
  ASSUME StreamInvariant, NEW p \in Peers, NEW q, q = Other(p), NEW r, ConnInv(r),
         Moved(conn[p], r), NEW n, BecomesAfter(p, r, n), KeptIn(net[p], n), Running(p),
         connected' = connected, AckKeeps(p, q, r)
  PROVE  AckOk(q)'
<1> DEFINE c == conn[p]
           d == conn'[p]
           e == conn[q]
           got == Offset(Isn[q], r.ackd)
           G == AckUpTo(Isn[q], got)
<1>0. /\ TypeOK /\ AckOk(p) /\ AckOk(q) /\ q \in Peers /\ Other(q) = p /\ Peers = {p, q}
      /\ p = "client" => q = "server"
      /\ p = "server" => q = "client"
  BY OtherPeer DEF StreamInvariant
<1>1. /\ d = [r EXCEPT !.out = <<>>] /\ conn'[q] = conn[q]
      /\ net'[p] = n /\ net'[q] = net[q] \o r.out
  <2>1. Framed(p, q, r, n) BY <1>0, Frame
  <2> QED BY ONLY <2>1 DEF Framed
<1>2. d.state = r.state /\ d.panic = r.panic /\ d.ackd = r.ackd /\ d.re_tx = r.re_tx
  BY <1>1, HandOver
<1>3. /\ c \in Connections /\ e \in Connections /\ r \in Connections /\ c.panic = "none"
      /\ Isn[q] \in SeqN /\ c.out = <<>> /\ c.state.kind \in StateKind
      /\ e.state.kind \in StateKind
  BY <1>0, TcpAssumption, StateFields DEF TypeOK, ConnInv, Running, StreamInvariant
<1>4. got \in Nat /\ Offset(Isn[q], c.ackd) \in Nat /\ Offset(Isn[q], e.unack) \in Nat
  <2>1. c.ackd \in SeqN BY <1>3 DEF Connections
  <2>2. e.unack \in SeqN BY <1>3 DEF Connections
  <2>3. r.ackd \in SeqN BY <1>3 DEF Connections
  <2> QED BY <1>3, <2>1, <2>2, <2>3, OffsetType
<1>5. Says(c, r, Isn[q]) /\ Listens(c, r, net[p], Isn[p]) BY DEF AckKeeps
<1>6. /\ Acks(r.ackd) \subseteq G /\ NoAck \subseteq G
      /\ \A seg \in SegmentMeta : seg.ackn = r.ackd => seg \in G
  BY <1>4 DEF Acks, NoAck, AckUpTo
<1> HIDE DEF c, d, e, got, G
<1>7. ASSUME Live(e), r.panic = "none", r.state.kind \in Acking
      PROVE  /\ got <= Offset(Isn[q], e.next)
             /\ net'[q] \in Seq(G) /\ d.re_tx \in Seq(G)
             /\ e.state.kind \in Synchronizing => Offset(Isn[q], e.unack) <= got
  <2>1. got <= Offset(Isn[q], e.next) BY <1>7 DEF AckKeeps, e, got
  <2>2. r.state.kind \notin Idle BY <1>7 DEF Acking, Idle
  <2>3. ASSUME net[q] \in Seq(G), r.out \in Seq(G) PROVE net'[q] \in Seq(G)
    <3>1. net[q] \o r.out \in Seq(G) BY <2>3
    <3> QED BY <1>1, <3>1
  <2>4. CASE c.state.kind \in Acking
    <3> DEFINE had == Offset(Isn[q], c.ackd)
    <3>1. /\ net[q] \in Seq(AckUpTo(Isn[q], had)) /\ c.re_tx \in Seq(AckUpTo(Isn[q], had))
          /\ e.state.kind \in Synchronizing => Offset(Isn[q], e.unack) <= had
      BY <1>0, <1>7, <2>4 DEF AckOk, c, e
    <3>2. Emits(c, r, r.ackd) /\ had <= got BY <1>5, <2>2, <2>4 DEF Says, got
    <3>3. had \in Nat BY <1>4
    <3> HIDE DEF had
    <3>4. AckUpTo(Isn[q], had) \subseteq G BY <1>3, <1>4, <3>2, <3>3, AckUpToGrows DEF G
    <3>5. net[q] \in Seq(G) /\ c.re_tx \in Seq(G) BY <3>1, <3>4, SeqMono
    <3>6. c.out \in Seq(G) BY <1>3
    <3>7. r.out \in Seq(G) /\ r.re_tx \in Seq(G) BY <1>6, <3>2, <3>5, <3>6 DEF Emits
    <3>8. e.state.kind \in Synchronizing => Offset(Isn[q], e.unack) <= got
      BY <1>4, <3>1, <3>2, <3>3
    <3> QED BY <1>2, <2>1, <2>3, <3>5, <3>7, <3>8
  <2>5. CASE c.state.kind = "SynSent"
    <3>1. p = "client" BY <2>5 DEF StreamInvariant, Peers, c
    <3>2. q = "server" BY <1>0, <3>1
    <3>3. HandshakeOk BY <2>5, <3>1 DEF StreamInvariant, c
    <3>4. net[q] \in Seq(NoAck) /\ c.re_tx \in Seq(NoAck)
      BY <3>1, <3>2, <3>3 DEF HandshakeOk, c
    <3>5. net[q] \in Seq(G) /\ c.re_tx \in Seq(G) BY <1>6, <3>4, SeqMono
    <3>6. c.out \in Seq(G) BY <1>3
    <3>7. Emits(c, r, r.ackd) BY <1>5, <2>2, <2>5 DEF Says
    <3>8. r.out \in Seq(G) /\ r.re_tx \in Seq(G) BY <1>6, <3>5, <3>6, <3>7 DEF Emits
    <3>9. e.state.kind \in Synchronizing => e.unack = Isn[q]
      BY <1>0, <1>7, <2>5 DEF AckOk, c, e
    <3>10. e.state.kind \in Synchronizing => Offset(Isn[q], e.unack) <= got
      BY <1>3, <1>4, <3>9, OffsetStart
    <3> QED BY <1>2, <2>1, <2>3, <3>5, <3>8, <3>10
  <2>6. CASE c.state.kind = "Listen"
    <3>1. Running(q) /\ ~Over(q) BY <1>7 DEF Live, Running, Over, Idle, e
    <3>2. e.state.kind \notin Acking /\ net[q] = <<>> BY <1>0, <2>6, <3>1 DEF AckOk, c, e
    <3>3. e.state.kind = "SynSent"
      BY <1>3, <1>7, <3>2 DEF StateKind, Acking, Live, Idle
    <3>4. q = "client" BY <1>0, <3>3 DEF StreamInvariant, Peers, e
    <3>5. HandshakeOk BY <3>1, <3>3, <3>4 DEF StreamInvariant, e
    <3>6. e.unack = Isn[q] BY <3>4, <3>5 DEF HandshakeOk, e
    <3>7. Offset(Isn[q], e.unack) <= got BY <1>3, <1>4, <3>6, OffsetStart
    <3>8. PICK syn : Opened(c, r, Isn[p], syn) /\ syn.ackn = r.ackd
      BY <1>5, <2>2, <2>6 DEF Listens, Idle, Ended
    <3>9. syn \in G BY <1>6, <3>8 DEF Opened
    <3>10. r.re_tx = <<syn>> /\ (r.out = c.out \/ r.out = Append(c.out, syn))
      BY <3>8 DEF Opened
    <3>11. <<syn>> \in Seq(G) /\ Append(<<>>, syn) \in Seq(G) /\ <<>> \in Seq(G) BY <3>9
    <3>12. r.re_tx \in Seq(G) /\ r.out \in Seq(G) /\ net[q] \in Seq(G)
      BY <1>3, <3>2, <3>10, <3>11
    <3> QED BY <1>2, <2>1, <2>3, <3>7, <3>12
  <2>7. c.state.kind \notin Ended BY <2>2 DEF Moved, Ended, Idle, c
  <2> QED BY <1>3, <2>4, <2>5, <2>6, <2>7 DEF StateKind, Acking, Ended
<1>8. ASSUME Live(e), r.panic = "none", r.state.kind = "SynSent", e.state.kind \in Synchronizing
      PROVE  e.unack = Isn[q]
  <2>1. c.state.kind = "SynSent" BY <1>8 DEF Moved, c
  <2> QED BY <1>0, <1>8, <2>1 DEF AckOk, c, e
<1>9. ASSUME e.state.kind = "Listen", r.panic = "none", ~Over(p)'
      PROVE  r.state.kind \notin Acking /\ n = <<>>
  <2>1. ~Over(p) BY <1>1, <1>2, <1>9 DEF Over, Moved, Ended, c, d
  <2>2. c.state.kind \notin Acking /\ net[p] = <<>> BY <1>0, <1>9, <2>1 DEF AckOk, c, e
  <2>3. n = <<>>
    <3>1. net[p] \in Seq({}) BY <2>2
    <3>2. n \in Seq({}) BY <3>1 DEF KeptIn
    <3> QED BY <3>2
  <2>4. q = "server" BY <1>0, <1>9 DEF StreamInvariant, Peers, e
  <2>5. p = "client" BY <1>0, <2>4 DEF Peers
  <2>6. c.state.kind # "Listen" BY <2>5 DEF StreamInvariant, c
  <2>7. c.state.kind = "SynSent" => r.state.kind \notin Acking
    BY <2>2 DEF AckKeeps, c
  <2>8. c.state.kind \in Ended => r.state.kind \notin Acking
    BY DEF Moved, Ended, Acking, c
  <2> QED BY <1>3, <2>2, <2>3, <2>6, <2>7, <2>8 DEF StateKind, Acking, Ended
<1>10. Running(p)' => r.panic = "none" BY <1>1, <1>2 DEF Running, d
<1>11. got = Offset(Isn[q], d.ackd) BY <1>2 DEF got
<1> QED BY <1>0, <1>1, <1>2, <1>7, <1>8, <1>9, <1>10, <1>11 DEF AckOk, d, e, G

\* The step of one peer keeps the invariant.
LEMMA StepInv ==
  ASSUME StreamInvariant, NEW p \in Peers, NEW q, q = Other(p), NEW r, Keeps(p, r), NEW n,
         BecomesAfter(p, r, n), KeptIn(net[p], n), Running(p),
         connected' = connected, faults' \in 0 .. MaxFaults,
         StreamOk(p)', StreamOk(q)', AckOk(p)', AckOk(q)',
         written' \in [Peers -> Nat], delivered' \in [Peers -> Seq(Byte)],
         ~connected => NotConnected'
  PROVE  StreamInvariant'
<1> DEFINE c == conn[p]
           d == conn'[p]
<1>0. /\ TypeOK /\ q \in Peers /\ Peers = {p, q} /\ ConnInv(r) /\ Moved(c, r)
      /\ c.out = <<>> /\ conn[q].out = <<>> /\ ConnInv(conn[q])
  BY OtherPeer DEF StreamInvariant, Keeps
<1>1. Framed(p, q, r, n) BY <1>0, Frame
<1>2. /\ d = [r EXCEPT !.out = <<>>] /\ conn'[q] = conn[q]
      /\ net'[p] = n /\ net'[q] = net[q] \o r.out
      /\ conn' \in [Peers -> Connections] /\ net' \in [Peers -> Seq(SegmentMeta)]
      /\ finished' \in [Peers -> BOOLEAN]
  BY ONLY <1>1 DEF Framed
<1>3. /\ ConnInv(d) /\ d.out = <<>> /\ d.state = r.state /\ d.re_tx = r.re_tx
      /\ d.panic = r.panic
  BY <1>0, <1>2, HandOver
<1>4. TypeOK' BY <1>0, <1>2 DEF TypeOK
<1>5. \A x \in Peers : ConnInv(conn'[x]) /\ conn'[x].out = <<>> /\ StreamOk(x)' /\ AckOk(x)'
  BY <1>0, <1>2, <1>3
<1>6. CASE p = "client"
  <2>1. q = "server" BY <1>6, OtherPeer
  <2>2. conn'["client"].state.kind \notin {"Listen", "SynReceived"}
    BY <1>0, <1>3, <1>6 DEF StreamInvariant, Moved
  <2>3. conn'["server"].state.kind # "SynSent" BY <1>2, <2>1 DEF StreamInvariant
  <2>4. ASSUME conn'["client"].panic = "none", conn'["client"].state.kind = "SynSent"
        PROVE  HandshakeOk'
    BY <1>0, <1>3, <1>6, <2>4, ClientHandshake DEF Keeps
  <2>5. c.re_tx \in Seq(NoReset) /\ c.state.kind \notin {"Listen", "SynReceived"}
    <3>1. Running("client") BY <1>6
    <3>2. /\ conn["client"].re_tx \in Seq(NoReset)
          /\ conn["client"].state.kind \notin {"Listen", "SynReceived"}
      BY <3>1 DEF StreamInvariant
    <3> QED BY <1>6, <3>2
  <2>6. r.re_tx \in Seq(NoReset) /\ (r.out \in Seq(NoReset) \/ r.state.kind \in Ended)
    <3>1. c.out \in Seq(NoReset) BY <1>0
    <3> QED BY <2>5, <3>1 DEF Keeps, Resets
  <2>7. conn'["client"].re_tx \in Seq(NoReset) BY <1>3, <1>6, <2>6
  <2>8. ASSUME ~Over("client")', connected PROVE net'["server"] \in Seq(NoReset)
    <3>1. r.state.kind \notin Ended BY <1>3, <1>6, <2>8 DEF Over, Ended
    <3>2. ~Over("client") BY <1>0, <1>6, <3>1 DEF Over, Moved, Ended
    <3>3. net["server"] \in Seq(NoReset) BY <3>2 DEF StreamInvariant
    <3>4. net["server"] \o r.out \in Seq(NoReset) BY <2>6, <3>1, <3>3
    <3> QED BY <1>2, <2>1, <3>4
  <2>9. ASSUME ~connected PROVE net'["server"] \in Seq(NoReset)
    <3>1. NotConnected' BY <2>9
    <3>2. net'["server"] = <<>> BY <3>1 DEF NotConnected
    <3> QED BY <3>2
  <2> QED BY <1>4, <1>5, <2>2, <2>3, <2>4, <2>7, <2>8, <2>9 DEF StreamInvariant, Running
<1>7. CASE p = "server"
  <2>1. q = "client" BY <1>7, OtherPeer
  <2>2. conn'["client"].state.kind \notin {"Listen", "SynReceived"}
    BY <1>2, <2>1 DEF StreamInvariant
  <2>3. conn'["server"].state.kind # "SynSent" BY <1>0, <1>3, <1>7 DEF StreamInvariant, Moved
  <2>4. ASSUME conn'["client"].panic = "none", conn'["client"].state.kind = "SynSent"
        PROVE  HandshakeOk'
    <3>1. HandshakeOk BY <1>2, <2>1, <2>4 DEF StreamInvariant, Running
    <3> QED BY <1>7, <3>1, ServerHandshake
  <2>7. conn'["client"].panic = "none" => conn'["client"].re_tx \in Seq(NoReset)
    BY <1>2, <2>1 DEF StreamInvariant, Running
  <2>8. ASSUME ~Over("client")' PROVE net'["server"] \in Seq(NoReset)
    <3>1. ~Over("client") BY <1>2, <2>1, <2>8 DEF Over
    <3>2. net["server"] \in Seq(NoReset) BY <3>1 DEF StreamInvariant
    <3> QED BY <1>2, <1>7, <3>2 DEF KeptIn
  <2> QED BY <1>4, <1>5, <2>2, <2>3, <2>4, <2>7, <2>8 DEF StreamInvariant, Running
<1> QED BY <1>6, <1>7 DEF Peers

\* A call or a timer takes nothing as acknowledged.
SameUnack(c, r) ==
  r.panic = "none" /\ r.state.kind \in Synchronizing =>
    c.state.kind \in Synchronizing /\ r.unack = c.unack

\* So it keeps the acknowledgements in order.
LEMMA LocalAcks ==
  ASSUME StreamInvariant, NEW p \in Peers, NEW q, q = Other(p), NEW r, Running(p),
         Local(conn[p], r), SameUnack(conn[p], r)
  PROVE  AckKeeps(p, q, r)
<1> DEFINE c == conn[p]
<1>0. AckOk(q) /\ Other(q) = p /\ q \in Peers /\ c \in Connections /\ Isn[q] \in SeqN
      /\ c.out = <<>>
  BY OtherPeer, TcpAssumption DEF StreamInvariant, ConnInv
<1>1. c.ackd \in SeqN BY <1>0 DEF Connections
<1>2. Offset(Isn[q], c.ackd) \in Nat BY <1>0, <1>1, OffsetType
<1> HIDE DEF c
<1>3. /\ Later(c.state.kind, r.state.kind) /\ Opening(c, r)
      /\ r.state.kind \notin Ended => r.ackd = c.ackd /\ Emits(c, r, c.ackd)
  BY DEF Local, KindStep, c
<1>4. Takes(c, r, net[p]) BY DEF SameUnack, Takes, c
<1>5. Says(c, r, Isn[q]) BY <1>2, <1>3 DEF Says, Idle, Ended
<1>6. Listens(c, r, net[p], Isn[p])
  BY <1>0, <1>3 DEF Listens, Opening, Idle
<1>7. ASSUME r.state.kind \in Acking
      PROVE  c.state.kind \in Acking /\ r.ackd = c.ackd
  BY <1>3, <1>7 DEF Later, Opening, Acking, Ended
<1>8. r.state.kind \in Acking /\ Live(conn[q]) =>
        Offset(Isn[q], r.ackd) <= Offset(Isn[q], conn[q].next)
  BY <1>0, <1>7 DEF AckOk, c
<1>9. r.state.kind = "Listen" => c.state.kind = "Listen" BY <1>3 DEF Later, Ended
<1>10. c.state.kind = "SynSent" => r.state.kind \notin Acking BY <1>7 DEF Acking
<1> QED BY <1>4, <1>5, <1>6, <1>8, <1>9, <1>10 DEF AckKeeps, c

\* A call or a timer keeps the invariant.
LEMMA LocalInv ==
  ASSUME StreamInvariant, NEW p \in Peers, NEW q, q = Other(p), NEW r, Becomes(p, r),
         Running(p), ConnInv(r), Local(conn[p], r), SameUnack(conn[p], r),
         connected' = connected, faults' \in 0 .. MaxFaults,
         written' \in [Peers -> Nat], written'[q] = written[q],
         written[p] <= written'[p], written'[p] <= MaxWritten[p],
         finished[p] \/ conn[p].state.kind = "Listen" => written'[p] = written[p],
         delivered' \in [Peers -> Seq(Byte)], delivered'[q] = delivered[q],
         After(0, delivered'[p]),
         RxOk(r, Isn[q], Len(delivered'[p]), written[q], finished[q]),
         ~Over(q) => SendOk(r, Isn[p], written'[p], finished[p] \/ r.tx_fin, Sent(p)),
         conn[p] = New => r = New /\ written'[p] = written[p] /\ delivered'[p] = delivered[p]
  PROVE  StreamInvariant'
<1> DEFINE c == conn[p]
<1>0. /\ TypeOK /\ q \in Peers /\ Other(q) = p /\ Peers = {p, q} /\ ConnInv(c)
      /\ c.out = <<>> /\ c.panic = "none" /\ StreamOk(p)
  BY OtherPeer DEF StreamInvariant, Running
<1>1. c.tx_fin => EndKept(c) BY <1>0 DEF StreamOk
<1>2. /\ Moved(c, r) /\ Resets(c, r) /\ Repeats(c, r)
      /\ \A first : c.state.kind # "SynSent" /\ Answers(c, first) => Answers(r, first)
  BY <1>0, <1>1, LocalMoves
<1>3. p = "server" => c.state.kind # "SynSent" BY DEF StreamInvariant
<1>4. Keeps(p, r) BY <1>2, <1>3 DEF Keeps
<1>5. BecomesAfter(p, r, net[p]) /\ KeptIn(net[p], net[p]) BY DEF Becomes, KeptIn
<1>6. Framed(p, q, r, net[p]) BY <1>0, <1>5, Frame
<1>7. finished'[p] = (finished[p] \/ r.tx_fin) /\ conn'[p] = [r EXCEPT !.out = <<>>]
      /\ net'[p] = net[p] /\ net'[q] = net[q] \o r.out /\ conn'[q] = conn[q]
      /\ finished'[q] = finished[q]
  BY ONLY <1>6 DEF Framed
<1>8. ASSUME ~Over(q), r.state.kind = "Listen" PROVE written'[p] = 0
  <2>1. c.state.kind = "Listen" BY <1>8 DEF Local, KindStep, Later, Ended
  <2>2. written[p] = 0 BY <1>0, <1>8, <2>1 DEF StreamOk
  <2> QED BY <2>1, <2>2
<1>9. StreamOk(p)'
  <2>1. ~Over(q) => /\ SendOk(r, Isn[p], written'[p], finished'[p], Sent(p))
                    /\ r.state.kind = "Listen" => written'[p] = 0
    BY <1>7, <1>8
  <2>2. written'[p] \in Nat BY <1>0
  <2> QED BY <1>2, <1>5, <2>1, <2>2, SentStream
<1>10. StreamOk(q)' BY <1>2, <1>5, ReceivedStream
<1>11. ASSUME ~connected PROVE NotConnected'
  <2>1. NotConnected BY <1>11 DEF StreamInvariant
  <2>2. CASE p = "client"
    <3>1. q = "server" BY <2>2, OtherPeer
    <3>2. r = New /\ written'[p] = 0 /\ delivered'[p] = <<>>
      BY <2>1, <2>2 DEF NotConnected
    <3>3. [New EXCEPT !.out = <<>>] = New /\ New.tx_fin = FALSE /\ New.out = <<>>
      <4>1. New \in Connections BY NewType
      <4>2. New.tx_fin = FALSE /\ New.out = <<>> BY ONLY DEF New
      <4>3. [New EXCEPT !.out = <<>>] = New BY ONLY <4>1, <4>2 DEF Connections
      <4> QED BY <4>2, <4>3
    <3>4. ~finished[p] /\ net[p] = <<>> /\ net[q] = <<>> BY <2>1, <2>2, <3>1 DEF NotConnected
    <3>5. net[q] \o r.out = <<>> BY <3>2, <3>3, <3>4
    <3>6. finished'[p] = FALSE BY <1>7, <3>2, <3>3, <3>4
    <3>7. net'[p] = <<>> /\ net'[q] = <<>> BY <1>7, <3>4, <3>5
    <3>8. [r EXCEPT !.out = <<>>] = [New EXCEPT !.out = <<>>] BY ONLY <3>2
    <3>9. conn'[p] = New BY ONLY <1>7, <3>3, <3>8
    <3> QED BY <1>7, <2>1, <2>2, <3>1, <3>2, <3>6, <3>7, <3>9 DEF NotConnected
  <2>3. CASE p = "server"
    <3>1. q = "client" BY <2>3, OtherPeer
    <3>2. c.state.kind \in Idle BY <2>1, <2>3 DEF NotConnected
    <3>3. r.state.kind \in Idle /\ r.out = <<>>
      BY <1>0, <3>2 DEF Local, Opening, KindStep, Later, Idle, Ended
    <3>4. net[p] = <<>> /\ net[q] = <<>> BY <2>1, <2>3, <3>1 DEF NotConnected
    <3>5. net[q] \o r.out = <<>> BY <3>3, <3>4
    <3>6. conn'[p].state = r.state BY <1>7, HandOver
    <3>7. conn'["server"].state.kind \in Idle BY <2>3, <3>3, <3>6
    <3> QED BY <1>7, <2>1, <2>3, <3>1, <3>4, <3>5, <3>7 DEF NotConnected
  <2> QED BY <2>2, <2>3 DEF Peers
<1>12. AckOk(p)' /\ AckOk(q)'
  <2>1. AckKeeps(p, q, r) BY LocalAcks
  <2>2. ~Over(q) => OutOk(r, Isn[p], Sent(p)) BY DEF SendOk
  <2>3. AckOk(p)' BY <1>2, <1>5, <2>1, <2>2, SenderAcks
  <2>4. AckOk(q)' BY <1>2, <1>5, <2>1, ReceiverAcks
  <2> QED BY <2>3, <2>4
<1> QED BY <1>4, <1>5, <1>9, <1>10, <1>11, <1>12, StepInv

\* What the invariant says of a peer, in the words of the lemmas on the methods.
LEMMA PeerFacts ==
  ASSUME StreamInvariant, NEW p \in Peers, NEW q, q = Other(p)
  PROVE  /\ conn[p] \in Connections /\ ConnInv(conn[p]) /\ conn[p].out = <<>>
         /\ conn[p].tx_fin => finished[p] /\ EndKept(conn[p])
         /\ Short(Isn[p], written[p], finished[p]) /\ written[p] <= MaxWritten[p]
         /\ MaxWritten[p] \in Nat /\ MaxWritten[p] + 2 < SeqSpace
         /\ delivered[p] \in Seq(Byte) /\ After(0, delivered[p])
         /\ RxOk(conn[p], Isn[q], Len(delivered[p]), written[q], finished[q])
         /\ ~Over(q) => SendOk(conn[p], Isn[p], written[p], finished[p], Sent(p))
<1>0. q \in Peers /\ Other(q) = p /\ TypeOK /\ StreamOk(p) /\ StreamOk(q)
  BY OtherPeer DEF StreamInvariant
<1>1. ConnInv(conn[p]) /\ conn[p].out = <<>> BY DEF StreamInvariant
<1>2. conn[p].tx_fin => finished[p] /\ EndKept(conn[p]) BY <1>0 DEF StreamOk
<1>3. /\ written[p] \in Nat /\ finished[p] \in BOOLEAN /\ MaxWritten[p] \in Nat
      /\ Isn[p] \in SeqN /\ written[p] <= MaxWritten[p] /\ delivered[p] \in Seq(Byte)
      /\ conn[p] \in Connections
  BY <1>0, TcpAssumption DEF TypeOK, StreamOk
<1>4. MaxWritten[p] + 2 < SeqSpace BY ShortStreams
<1>5. SeqSpace \in Nat BY SegmentAssumption
<1>6. written[p] + 2 < SeqSpace BY <1>3, <1>4, <1>5
<1>7. Short(Isn[p], written[p], finished[p]) BY <1>3, <1>6 DEF Short
<1>8. After(0, delivered[p])
  <2>1. \A i \in 1 .. Len(delivered[p]) : delivered[p][i] = i BY <1>0 DEF StreamOk
  <2>2. \A i \in 1 .. Len(delivered[p]) : i \in Nat /\ 0 + i = i OBVIOUS
  <2> QED BY <2>1, <2>2 DEF After
<1>9. RxOk(conn[p], Isn[q], Len(delivered[p]), written[q], finished[q])
  BY <1>0 DEF StreamOk
<1>10. ~Over(q) => SendOk(conn[p], Isn[p], written[p], finished[p], Sent(p))
  <2>1. conn[p].out \in Seq(OfStream(Isn[p], written[p], finished[p])) BY <1>1
  <2>2. Offset(Isn[p], conn[p].next) \in Nat
    <3>1. conn[p].next \in SeqN BY <1>3 DEF Connections
    <3> QED BY <1>3, <3>1, OffsetType
  <2>3. Sent(p) \in Nat /\ (Live(conn[p]) => Sent(p) = Offset(Isn[p], conn[p].next))
    BY <2>2 DEF Sent, Live
  <2>4. ~Over(q) => OutOk(conn[p], Isn[p], Sent(p))
    <3>1. conn[p].out \in Seq(UpTo(Isn[p], Offset(Isn[p], conn[p].next))) BY <1>1
    <3> QED BY <1>0, <2>2, <2>3, <3>1 DEF StreamOk, OutOk
  <2>5. ~Over(q) => TxOk(conn[p], Isn[p], written[p], finished[p]) BY <1>0 DEF StreamOk
  <2> QED BY <1>2, <2>1, <2>3, <2>4, <2>5 DEF SendOk
<1> QED BY <1>1, <1>2, <1>3, <1>4, <1>7, <1>8, <1>9, <1>10

\* A call or a timer that moves no bytes across the interface.
LEMMA PlainInv ==
  ASSUME StreamInvariant, NEW p \in Peers, NEW r, Becomes(p, r), Running(p), ConnInv(r),
         Local(conn[p], r), SameUnack(conn[p], r), RxKept(conn[p], r), Sends(conn[p], r),
         conn[p] = New => r = New,
         UNCHANGED <<connected, written, delivered, faults>>
  PROVE  StreamInvariant'
<1> DEFINE q == Other(p)
<1>0. q \in Peers /\ TypeOK BY OtherPeer DEF StreamInvariant
<1>1. /\ conn[p] \in Connections
      /\ Short(Isn[p], written[p], finished[p]) /\ written[p] <= MaxWritten[p]
      /\ delivered[p] \in Seq(Byte) /\ After(0, delivered[p])
      /\ RxOk(conn[p], Isn[q], Len(delivered[p]), written[q], finished[q])
      /\ ~Over(q) => SendOk(conn[p], Isn[p], written[p], finished[p], Sent(p))
  BY PeerFacts
<1>2. /\ written \in [Peers -> Nat] /\ delivered \in [Peers -> Seq(Byte)]
      /\ faults \in 0 .. MaxFaults
  BY <1>0 DEF TypeOK
<1>3. RxOk(r, Isn[q], Len(delivered[p]), written[q], finished[q])
  <2>1. Later(conn[p].state.kind, r.state.kind) BY DEF Local, KindStep
  <2>2. conn[p].state.kind = "SynSent" => r.state.kind \notin {"Established", "TimeWait"}
    BY DEF Local, Opening, Ended
  <2>3. Len(delivered[p]) \in Nat /\ written[q] \in Nat BY <1>0, <1>1, <1>2
  <2> QED BY <1>1, <2>1, <2>2, <2>3, RxKeptOk
<1>4. ~Over(q) => SendOk(r, Isn[p], written[p], finished[p] \/ r.tx_fin, Sent(p))
  BY <1>1 DEF Sends
<1>5. written[p] \in Nat BY <1>2
<1>6. /\ connected' = connected /\ written' = written /\ delivered' = delivered
      /\ faults' = faults
  OBVIOUS
<1>7. /\ written' \in [Peers -> Nat] /\ written'[q] = written[q] /\ written'[p] = written[p]
      /\ written[p] <= written'[p] /\ written'[p] <= MaxWritten[p]
      /\ delivered' \in [Peers -> Seq(Byte)] /\ delivered'[q] = delivered[q]
      /\ delivered'[p] = delivered[p] /\ faults' \in 0 .. MaxFaults
  BY <1>1, <1>2, <1>5, <1>6
<1>8. /\ After(0, delivered'[p])
      /\ RxOk(r, Isn[q], Len(delivered'[p]), written[q], finished[q])
      /\ ~Over(q) => SendOk(r, Isn[p], written'[p], finished[p] \/ r.tx_fin, Sent(p))
  BY <1>1, <1>3, <1>4, <1>6
<1>9. q = Other(p) OBVIOUS
<1> HIDE DEF q
<1> QED BY <1>6, <1>7, <1>8, <1>9, LocalInv

\* A call that goes on with the connection takes nothing as acknowledged.
LEMMA CallUnack ==
  ASSUME NEW c, NEW r, UnackKept(c, r), Local(c, r), c.state.kind # "TimeWait"
  PROVE  SameUnack(c, r)
<1>1. Later(c.state.kind, r.state.kind) BY DEF Local, KindStep
<1>2. r.state.kind \in Synchronizing => c.state.kind \in Synchronizing
  BY <1>1 DEF Later, Synchronizing, Ended
<1> QED BY <1>2 DEF SameUnack, UnackKept

\* call_shutdown, call_close and call_abort keep the invariant.
LEMMA CallsInv ==
  ASSUME StreamInvariant, NEW p \in Peers, Shutdown(p) \/ Close(p) \/ Abort(p)
  PROVE  StreamInvariant'
<1> DEFINE c == conn[p]
<1>0. ConnInv(c) /\ c.panic = "none" /\ Running(p)
  BY DEF StreamInvariant, Shutdown, MayShutdown, Close, MayClose, Abort, Calling, Running
<1>1. UNCHANGED <<connected, written, delivered, faults>> BY DEF Shutdown, Close, Abort
<1>2. ASSUME c.state.kind \notin Ended PROVE c # New
  <2>1. New.state.kind = "Closed" BY ONLY DEF New, Closed, Finished
  <2> QED BY <1>2, <2>1 DEF Ended
<1>3. CASE Shutdown(p)
  <2> DEFINE r == CallShutdown(c)
  <2>1. CanShutdown(c) /\ Becomes(p, r) BY <1>3 DEF Shutdown, MayShutdown
  <2>2. c.state.kind \notin Ended /\ c.state.kind # "TimeWait" BY <2>1 DEF CanShutdown, Ended
  <2>3. ConnInv(r) /\ UnackKept(c, r) BY <1>0, <2>1, CallShutdownInv
  <2>4. Step(c, r, c.ackd) /\ Sends(c, r) BY <1>0, <2>1, CallShutdownStep
  <2>5. Local(c, r) BY <1>0, <2>1, <2>2, CallLocal
  <2> HIDE DEF r
  <2>6. SameUnack(c, r) BY <2>2, <2>3, <2>5, CallUnack
  <2> QED BY <1>0, <1>1, <1>2, <2>1, <2>2, <2>3, <2>4, <2>5, <2>6, PlainInv DEF Step
<1>4. CASE Close(p)
  <2> DEFINE r == CallClose(c)
  <2>1. CanClose(c) /\ Becomes(p, r) BY <1>4 DEF Close, MayClose
  <2>2. c.state.kind \notin Ended /\ c.state.kind # "TimeWait" BY <2>1 DEF CanClose, Ended
  <2>3. ConnInv(r) /\ UnackKept(c, r) BY <1>0, <2>1, CallCloseInv
  <2>4. Step(c, r, c.ackd) /\ Sends(c, r) BY <1>0, <2>1, CallCloseStep
  <2>5. Local(c, r) BY <1>0, <2>1, <2>2, CallLocal
  <2> HIDE DEF r
  <2>6. SameUnack(c, r) BY <2>2, <2>3, <2>5, CallUnack
  <2> QED BY <1>0, <1>1, <1>2, <2>1, <2>2, <2>3, <2>4, <2>5, <2>6, PlainInv DEF Step
<1>5. CASE Abort(p)
  <2> DEFINE r == CallAbort(c)
  <2>1. CanAbort(c) /\ Becomes(p, r) BY <1>5 DEF Abort
  <2>2. c.state.kind \notin Ended BY <2>1 DEF CanAbort, Ended
  <2>3. ConnInv(r) BY <1>0, CallAbortInv
  <2>4. Gone(r) /\ Sends(c, r) BY <1>0, CallAbortStep
  <2>5. Local(c, r) BY <1>0, <2>2, CallLocal
  <2>6. RxKept(c, r) /\ SameUnack(c, r)
    BY <2>4 DEF RxKept, SameUnack, Gone, Ended, Synchronizing
  <2> HIDE DEF r
  <2> QED BY <1>0, <1>1, <1>2, <2>1, <2>2, <2>3, <2>4, <2>5, <2>6, PlainInv
<1> QED BY <1>3, <1>4, <1>5

\* A timer keeps it.
LEMMA TickInv ==
  ASSUME StreamInvariant, NEW p \in Peers, NEW expired, Tick(p, expired)
  PROVE  StreamInvariant'
<1> DEFINE c == conn[p]
           r == OnTimeTick(c, expired)
<1>0. ConnInv(c) /\ c.panic = "none" /\ Running(p)
  BY DEF StreamInvariant, Tick, MayTick, Running
<1>1. Becomes(p, r) /\ UNCHANGED <<connected, written, delivered, faults>> BY DEF Tick
<1>2. ConnInv(r) /\ SameUnack(c, r) BY <1>0, OnTimeTickInv DEF SameUnack, Continues
<1>3. Step(c, r, c.ackd) /\ Sends(c, r) /\ Opening(c, r) BY <1>0, OnTimeTickStep
<1>4. Local(c, r) BY <1>3, StepLocal
<1>5. c = New => r = New
  <2>1. ASSUME NEW x, x.timer_re_tx = FALSE, x.timer_timewait = FALSE
        PROVE  OnTimeTick(x, expired) = x
    BY <2>1 DEF OnTimeTick
  <2>2. New.timer_re_tx = FALSE /\ New.timer_timewait = FALSE BY ONLY DEF New
  <2>3. OnTimeTick(New, expired) = New BY ONLY <2>1, <2>2
  <2> QED BY <2>3
<1> HIDE DEF r
<1> QED BY <1>0, <1>1, <1>2, <1>3, <1>4, <1>5, PlainInv DEF Step

\* call_send keeps it.
LEMMA WriteInv ==
  ASSUME StreamInvariant, NEW p \in Peers, Write(p)
  PROVE  StreamInvariant'
<1> DEFINE c == conn[p]
           q == Other(p)
           v == written[p]
<1>0. /\ ConnInv(c) /\ c.panic = "none" /\ Running(p) /\ TypeOK /\ q \in Peers /\ q # p
      /\ CanSend(c) /\ c.state.tx_state = "Open" /\ ~c.tx_fin
  BY OtherPeer DEF StreamInvariant, Write, MayWrite, Calling, Running
<1>1. PICK k \in Writes :
         /\ v + k <= MaxWritten[p]
         /\ Becomes(p, CallSend(c, [i \in 1 .. k |-> v + i]))
         /\ written' = [written EXCEPT ![p] = @ + k]
  BY DEF Write
<1>2. connected' = connected /\ delivered' = delivered /\ faults' = faults BY DEF Write
<1> DEFINE data == [i \in 1 .. k |-> v + i]
           r == CallSend(c, data)
<1>3. /\ c \in Connections /\ MaxWritten[p] \in Nat /\ MaxWritten[p] + 2 < SeqSpace
      /\ Short(Isn[p], v, finished[p])
      /\ delivered[p] \in Seq(Byte) /\ After(0, delivered[p])
      /\ RxOk(c, Isn[q], Len(delivered[p]), written[q], finished[q])
      /\ ~Over(q) => SendOk(c, Isn[p], v, finished[p], Sent(p))
  BY PeerFacts
<1>4. k \in Nat /\ v \in Nat /\ Isn[p] \in SeqN BY <1>3, TcpAssumption DEF Short
<1>5. k + 2 < SeqSpace /\ v + k \in Nat /\ v <= v + k /\ v + k + 2 < SeqSpace
  BY <1>1, <1>3, <1>4, SegmentAssumption
<1>6. ConnInv(r) /\ UnackKept(c, r)
  <2>1. \A i \in 1 .. k : v + i \in Byte BY <1>4 DEF Byte
  <2>2. data \in Payload BY <1>4, <1>5, <2>1, SegmentAssumption DEF Payload
  <2> HIDE DEF data
  <2> QED BY <1>0, <2>2, CallSendInv
<1>7. /\ Step(c, r, c.ackd) /\ ~r.tx_fin
      /\ \A isn, lo : /\ Short(isn, v + k, FALSE) /\ SendOk(c, isn, v, FALSE, lo)
                      => SendOk(r, isn, v + k, FALSE, lo)
  BY <1>0, <1>4, <1>5, CallSendStep
<1>8. c.state.kind \notin Ended /\ c.state.kind # "Listen" BY <1>0 DEF CanSend, Ended
<1>9. Local(c, r)
  <2>1. \E j, u \in Nat : /\ CanSend(c) /\ c.state.tx_state = "Open" /\ ~c.tx_fin
                          /\ j + 2 < SeqSpace
                          /\ r = CallSend(c, [i \in 1 .. j |-> u + i])
    BY <1>0, <1>4, <1>5
  <2> QED BY <1>0, <1>8, <2>1, CallLocal
<1>10. ~finished[p]
  <2>1. finished[p] => EndKept(c) BY DEF StreamInvariant, StreamOk
  <2> QED BY <1>0, <2>1 DEF EndKept, CanSend
<1> HIDE DEF r
<1>11. ~Over(q) => SendOk(r, Isn[p], v + k, finished[p] \/ r.tx_fin, Sent(p))
  <2>1. finished[p] = FALSE /\ (finished[p] \/ r.tx_fin) = FALSE
    BY <1>3, <1>7, <1>10 DEF Short
  <2>2. Short(Isn[p], v + k, FALSE) BY <1>4, <1>5 DEF Short
  <2> QED BY <1>3, <1>7, <2>1, <2>2
<1>12. /\ written \in [Peers -> Nat] /\ delivered \in [Peers -> Seq(Byte)]
       /\ faults \in 0 .. MaxFaults
  BY <1>0 DEF TypeOK
<1>13. RxOk(r, Isn[q], Len(delivered[p]), written[q], finished[q])
  <2>1. Later(c.state.kind, r.state.kind) BY <1>9 DEF Local, KindStep
  <2>2. c.state.kind = "SynSent" => r.state.kind \notin {"Established", "TimeWait"}
    BY <1>9 DEF Local, Opening, Ended
  <2>3. Len(delivered[p]) \in Nat /\ written[q] \in Nat BY <1>0, <1>3, <1>12
  <2> QED BY <1>3, <1>7, <2>1, <2>2, <2>3, RxKeptOk DEF Step
<1>14. written' \in [Peers -> Nat] /\ written'[p] = v + k /\ written'[q] = written[q]
  BY <1>0, <1>1, <1>5, <1>12
<1>15. c # New
  <2>1. New.state.kind = "Closed" BY ONLY DEF New, Closed, Finished
  <2> QED BY <1>8, <2>1 DEF Ended
<1>16. Becomes(p, r) BY <1>1 DEF r
<1> HIDE DEF q, c, v
<1>17. /\ written[p] <= written'[p] /\ written'[p] <= MaxWritten[p]
       /\ ~Over(q) => SendOk(r, Isn[p], written'[p], finished[p] \/ r.tx_fin, Sent(p))
  BY <1>1, <1>5, <1>11, <1>14 DEF v
<1>18. /\ delivered' \in [Peers -> Seq(Byte)] /\ delivered'[q] = delivered[q]
       /\ After(0, delivered'[p])
       /\ RxOk(r, Isn[q], Len(delivered'[p]), written[q], finished[q])
  BY <1>2, <1>3, <1>12, <1>13
<1>19. faults' \in 0 .. MaxFaults BY <1>2, <1>12
<1>20. SameUnack(c, r)
  <2>1. c.state.kind # "TimeWait" BY <1>0 DEF CanSend
  <2> QED BY <1>6, <1>9, <2>1, CallUnack
<1> QED BY <1>0, <1>2, <1>6, <1>8, <1>9, <1>10, <1>14, <1>15, <1>16, <1>17, <1>18, <1>19,
          <1>20, LocalInv DEF q, c

\* What a reader gets continues what it has got.
LEMMA AfterConcat ==
  ASSUME NEW s \in Seq(Byte), NEW t \in Seq(Byte), After(0, s), After(Len(s), t)
  PROVE  s \o t \in Seq(Byte) /\ Len(s \o t) = Len(s) + Len(t) /\ After(0, s \o t)
<1> DEFINE l == Len(s)
           m == Len(t)
           u == s \o t
<1>1. /\ u \in Seq(Byte) /\ Len(u) = l + m
      /\ \A i \in 1 .. l : u[i] = s[i]
      /\ \A i \in l + 1 .. l + m : u[i] = t[i - l]
  BY ConcatFields
<1>2. l \in Nat /\ m \in Nat OBVIOUS
<1>3. (\A i \in 1 .. l : s[i] = 0 + i) /\ \A i \in 1 .. m : t[i] = l + i BY DEF After
<1> HIDE DEF l, m, u
<1>4. ASSUME NEW i \in 1 .. l + m PROVE u[i] = 0 + i
  <2>1. CASE i <= l BY <1>1, <1>2, <1>3, <2>1
  <2>2. CASE i > l
    <3>1. i \in l + 1 .. l + m /\ i - l \in 1 .. m /\ l + (i - l) = i BY <1>2, <2>2
    <3> QED BY <1>1, <1>3, <3>1
  <2> QED BY <1>2, <2>1, <2>2
<1> QED BY <1>1, <1>4 DEF After, u, l, m

\* call_recv keeps it.
LEMMA ReadInv ==
  ASSUME StreamInvariant, NEW p \in Peers, Read(p)
  PROVE  StreamInvariant'
<1> DEFINE c == conn[p]
           q == Other(p)
<1>0. /\ ConnInv(c) /\ c.panic = "none" /\ Running(p) /\ TypeOK /\ q \in Peers /\ q # p
      /\ CanRecv(c)
  BY OtherPeer DEF StreamInvariant, Read, MayRead, Calling, Running
<1>1. PICK k \in Reads :
         /\ Becomes(p, CallRecv(c, k))
         /\ delivered' = [delivered EXCEPT ![p] = @ \o RecvData(c, k)]
  BY DEF Read
<1>2. connected' = connected /\ written' = written /\ faults' = faults BY DEF Read
<1> DEFINE data == RecvData(c, k)
           r == CallRecv(c, k)
           n == Len(delivered[p])
<1>3. /\ c \in Connections /\ written[p] <= MaxWritten[p]
      /\ Short(Isn[p], written[p], finished[p])
      /\ delivered[p] \in Seq(Byte) /\ After(0, delivered[p])
      /\ RxOk(c, Isn[q], n, written[q], finished[q])
      /\ ~Over(q) => SendOk(c, Isn[p], written[p], finished[p], Sent(p))
  BY PeerFacts
<1>4. k \in Nat BY TcpAssumption
<1>5. ConnInv(r) /\ UnackKept(c, r) BY <1>0, <1>4, CallRecvInv
<1>6. /\ Sends(c, r) /\ data \in Seq(Byte)
      /\ \A isn, e : \A m, w \in Nat :
           RxOk(c, isn, m, w, e) => /\ RxOk(r, isn, m + Len(data), w, e)
                                    /\ After(m, data)
  BY <1>0, <1>4, CallRecvStep
<1>7. c.state.kind \notin Ended BY <1>0 DEF CanRecv, Ended
<1>8. Local(c, r) BY <1>0, <1>4, <1>7, CallLocal
<1>9. c # New
  <2>1. New.state.kind = "Closed" BY ONLY DEF New, Closed, Finished
  <2> QED BY <1>7, <2>1 DEF Ended
<1>10. Becomes(p, r) BY <1>1
<1>11. delivered' = [delivered EXCEPT ![p] = @ \o data] BY <1>1
<1> HIDE DEF r, data
<1>12. /\ written \in [Peers -> Nat] /\ delivered \in [Peers -> Seq(Byte)]
       /\ faults \in 0 .. MaxFaults
  BY <1>0 DEF TypeOK
<1>13. n \in Nat /\ written[q] \in Nat /\ written[p] \in Nat BY <1>0, <1>3, <1>12
<1>14. RxOk(r, Isn[q], n + Len(data), written[q], finished[q]) /\ After(n, data)
  BY <1>3, <1>6, <1>13
<1> DEFINE all == delivered[p] \o data
<1>15. all \in Seq(Byte) /\ Len(all) = n + Len(data) /\ After(0, all)
  BY <1>3, <1>6, <1>14, AfterConcat
<1>16. delivered'[p] = all /\ delivered'[q] = delivered[q] BY <1>0, <1>11, <1>12
<1> HIDE DEF all
<1>17. delivered' \in [Peers -> Seq(Byte)] BY <1>11, <1>12, <1>15 DEF all
<1>18. After(0, delivered'[p]) /\ RxOk(r, Isn[q], Len(delivered'[p]), written[q], finished[q])
  BY <1>14, <1>15, <1>16
<1>19. ~Over(q) => SendOk(r, Isn[p], written[p], finished[p] \/ r.tx_fin, Sent(p))
  BY <1>3, <1>6 DEF Sends
<1> HIDE DEF q, c, n
<1>20. /\ written' \in [Peers -> Nat] /\ written'[q] = written[q] /\ written'[p] = written[p]
       /\ written[p] <= written'[p] /\ written'[p] <= MaxWritten[p]
       /\ ~Over(q) => SendOk(r, Isn[p], written'[p], finished[p] \/ r.tx_fin, Sent(p))
  BY <1>2, <1>3, <1>12, <1>13, <1>19
<1>21. faults' \in 0 .. MaxFaults BY <1>2, <1>12
<1>22. SameUnack(c, r)
  <2>1. c.state.kind # "TimeWait" BY <1>0 DEF CanRecv
  <2> QED BY <1>5, <1>8, <2>1, CallUnack
<1> QED BY <1>0, <1>2, <1>5, <1>8, <1>9, <1>10, <1>16, <1>17, <1>18, <1>20, <1>21, <1>22,
          LocalInv DEF q, c

\* on_segment keeps it, for a segment that is in flight.
LEMMA ArrivesInv ==
  ASSUME StreamInvariant, NEW p \in Peers, Running(p), NEW seg, NEW n,
         net[p] # <<>>, \A G : net[p] \in Seq(G) => seg \in G, KeptIn(net[p], n),
         BecomesAfter(p, OnSegment(conn[p], seg, Isn[p]), n),
         UNCHANGED <<connected, written, delivered>>, faults' \in 0 .. MaxFaults
  PROVE  StreamInvariant'
<1> DEFINE c == conn[p]
           q == Other(p)
           r == OnSegment(c, seg, Isn[p])
           first == wrapping_add(Isn["client"], 1)
           m == Len(delivered[p])
<1>0. /\ TypeOK /\ q \in Peers /\ q # p /\ Other(q) = p /\ StreamOk(p) /\ StreamOk(q)
      /\ p = "client" => q = "server"
      /\ p = "server" => q = "client"
  BY OtherPeer DEF StreamInvariant
<1>1. /\ ConnInv(c) /\ c \in Connections /\ c.panic = "none" /\ c.out = <<>>
      /\ c.tx_fin => EndKept(c)
      /\ Short(Isn[p], written[p], finished[p]) /\ written[p] <= MaxWritten[p]
      /\ delivered[p] \in Seq(Byte) /\ After(0, delivered[p])
      /\ RxOk(c, Isn[q], m, written[q], finished[q])
      /\ ~Over(q) => SendOk(c, Isn[p], written[p], finished[p], Sent(p))
  BY PeerFacts DEF Running
<1>2. Short(Isn[q], written[q], finished[q]) BY <1>0, PeerFacts
<1>3. seg \in SegmentMeta /\ m \in Nat /\ Isn[p] \in SeqN /\ Isn[q] \in SeqN
  <2>1. net[p] \in Seq(SegmentMeta) BY <1>0 DEF TypeOK
  <2> QED BY <1>0, <1>1, <2>1, TcpAssumption
<1>4. ASSUME c.state.kind \notin Ended PROVE seg \in OfStream(Isn[q], written[q], finished[q])
  <2>1. ~Over(p) BY <1>4 DEF Over, Ended
  <2>2. net[p] \in Seq(OfStream(Isn[q], written[q], finished[q])) BY <1>0, <2>1 DEF StreamOk
  <2> QED BY <2>2
<1>5. ASSUME c.state.kind = "SynSent"
      PROVE  Awaits(c, Isn[p]) /\ seg \in AckOf(wrapping_add(Isn[p], 1))
  <2>1. p = "client" BY <1>5 DEF StreamInvariant, Peers
  <2>2. HandshakeOk BY <1>5, <2>1 DEF StreamInvariant
  <2>3. net[p] \in Seq(AckOf(first)) BY <2>1, <2>2 DEF HandshakeOk
  <2>4. Awaits(c, Isn[p]) BY <2>1, <2>2 DEF HandshakeOk, Awaits
  <2>5. seg \in AckOf(first) BY <2>3
  <2> QED BY <2>1, <2>4, <2>5
<1>6. /\ Moved(c, r) /\ Resets(c, r) /\ Repeats(c, r)
      /\ RxOk(r, Isn[q], m, written[q], finished[q]) /\ Answered(c, r, seg, Isn[p])
      /\ /\ c.state.kind # "SynSent" /\ seg \in NoAck
         /\ Answers(c, wrapping_add(Isn[q], 1))
         => Answers(r, wrapping_add(Isn[q], 1))
      /\ r.state.kind = "Listen" => c.state.kind = "Listen" \/ "RST" \in seg.flags
      /\ \A v, f, lo : /\ Short(Isn[p], v, f) /\ SendOk(c, Isn[p], v, f, lo)
                       /\ c.state.kind = "Listen" => Unsent(c, v, lo)
                       => SendOk(r, Isn[p], v, f, lo)
  BY <1>1, <1>2, <1>3, <1>4, <1>5, OnSegmentMoves
<1>7. ConnInv(r) /\ AckTaken(c, r, seg) BY <1>1, <1>3, OnSegmentInv
<1>8. BecomesAfter(p, r, n) /\ r = OnSegment(c, seg, Isn[p]) OBVIOUS
<1> HIDE DEF r
<1>9. Framed(p, q, r, n) BY <1>0, <1>7, <1>8, Frame
<1>10. finished'[p] = (finished[p] \/ r.tx_fin) BY ONLY <1>9 DEF Framed
<1>11. Keeps(p, r)
  <2>1. ASSUME p = "server", net["server"] \in Seq(NoAck), Answers(c, first)
        PROVE  Answers(r, first)
    <3>1. seg \in NoAck BY <2>1
    <3>2. c.state.kind # "SynSent" BY <2>1 DEF StreamInvariant
    <3>3. q = "client" BY <1>0, <2>1
    <3> QED BY <1>6, <2>1, <3>1, <3>2, <3>3
  <2> QED BY <1>6, <1>7, <2>1 DEF Keeps
<1>12. ASSUME ~Over(q), r.state.kind = "Listen" PROVE c.state.kind = "Listen"
  <2> SUFFICES ASSUME c.state.kind # "Listen" PROVE FALSE OBVIOUS
  <2>1. c.state.kind = "SynReceived" BY <1>6, <1>12 DEF Moved
  <2>2. p = "server" BY <2>1 DEF StreamInvariant, Peers
  <2>3. q = "client" BY <1>0, <2>2
  <2>4. net[p] \in Seq(NoReset) BY <1>12, <2>2, <2>3 DEF StreamInvariant
  <2>5. seg \in NoReset BY <2>4
  <2> QED BY <1>6, <1>12, <2>5 DEF NoReset
<1>13. ASSUME ~Over(q)
       PROVE  /\ SendOk(r, Isn[p], written[p], finished'[p], Sent(p))
              /\ r.state.kind = "Listen" => written[p] = 0
  <2>1. SendOk(c, Isn[p], written[p], finished[p], Sent(p)) BY <1>1, <1>13
  <2>2. c.state.kind = "Listen" => written[p] = 0 BY <1>0, <1>13 DEF StreamOk
  <2>3. SendOk(r, Isn[p], written[p], finished[p], Sent(p))
    <3>1. c.state.kind = "Listen" => Unsent(c, written[p], Sent(p))
      BY <1>1, <2>2 DEF Unsent, Sent, Idle
    <3> QED BY <1>1, <1>6, <2>1, <3>1
  <2>4. r.tx_fin => finished[p] BY <2>3 DEF SendOk
  <2>5. finished'[p] = finished[p] BY <1>1, <1>10, <2>4 DEF Short
  <2> QED BY <1>12, <1>13, <2>2, <2>3, <2>5
<1>14. StreamOk(p)'
  <2>1. written'[p] = written[p] /\ delivered'[q] = delivered[q] OBVIOUS
  <2>2. written[p] \in Nat /\ written[p] <= written[p] BY <1>1 DEF Short
  <2> HIDE DEF q
  <2> QED BY <1>1, <1>6, <1>7, <1>8, <1>13, <2>1, <2>2, SentStream DEF q
<1>15. StreamOk(q)'
  <2>1. written'[q] = written[q] /\ delivered'[p] = delivered[p] OBVIOUS
  <2> HIDE DEF q, m
  <2> QED BY <1>1, <1>6, <1>7, <1>8, <2>1, ReceivedStream DEF q, m
<1>16. written' \in [Peers -> Nat] /\ delivered' \in [Peers -> Seq(Byte)]
  BY <1>0 DEF TypeOK
<1>17. connected
  <2>1. ~connected => NotConnected BY DEF StreamInvariant
  <2> QED BY <2>1 DEF NotConnected, Peers
<1>18. AckKeeps(p, q, r)
  <2>1. Takes(c, r, net[p]) BY <1>7 DEF Takes, AckTaken
  <2>2. /\ r \in Connections /\ r.state.kind \in StateKind
        /\ c.rx \in Seq(Byte) /\ c.rx_fin \in BOOLEAN
    BY <1>1, <1>7, StateFields DEF ConnInv, Connections
  <2>3. r.rx \in Seq(Byte) /\ r.rx_fin \in BOOLEAN BY <2>2 DEF Connections
  <2>4. Len(c.rx) \in Nat /\ Len(r.rx) \in Nat BY <2>2, <2>3
  <2>5. ASSUME c.state.kind \in {"SynSent"} \cup Acking, r.state.kind \notin Idle
        PROVE  /\ Emits(c, r, r.ackd)
               /\ c.state.kind \in Acking => Offset(Isn[q], c.ackd) <= Offset(Isn[q], r.ackd)
    <3>1. /\ Emits(c, r, r.ackd)
          /\ Len(c.rx) <= Len(r.rx) /\ (c.rx_fin => r.rx_fin)
      BY <1>6, <2>5 DEF Answered, Acked, Idle, Ended
    <3>2. ASSUME c.state.kind \in Acking PROVE Offset(Isn[q], c.ackd) <= Offset(Isn[q], r.ackd)
      <4>1. r.state.kind \in Acking
        BY <1>6, <2>2, <2>5, <3>2 DEF Moved, Acking, Idle, StateKind
      <4>2. Offset(Isn[q], c.ackd) = m + Len(c.rx) + 1 + (IF c.rx_fin THEN 1 ELSE 0)
        BY <1>1, <3>2 DEF RxOk
      <4>3. Offset(Isn[q], r.ackd) = m + Len(r.rx) + 1 + (IF r.rx_fin THEN 1 ELSE 0)
        BY <1>6, <4>1 DEF RxOk
      <4>4. \A i, j, k \in Nat, a, b \in BOOLEAN :
              j <= k /\ (a => b) =>
                i + j + 1 + (IF a THEN 1 ELSE 0) <= i + k + 1 + (IF b THEN 1 ELSE 0)
        OBVIOUS
      <4> QED BY ONLY <1>3, <2>2, <2>3, <2>4, <3>1, <4>2, <4>3, <4>4
    <3> QED BY <3>1, <3>2
  <2>6. Says(c, r, Isn[q]) BY <2>5 DEF Says
  <2>7. Listens(c, r, net[p], Isn[p]) BY <1>1, <1>6 DEF Listens, Answered
  <2>8. ASSUME r.state.kind \in Acking, Live(conn[q])
        PROVE  Offset(Isn[q], r.ackd) <= Offset(Isn[q], conn[q].next)
    <3> DEFINE x == conn[q]
               w == written[q]
               e == finished[q]
               sent == Offset(Isn[q], x.next)
    <3>1. c.state.kind \notin Ended BY <1>6, <2>8 DEF Moved, Ended, Acking
    <3>2. ~Over(p) BY <3>1 DEF Over, Ended
    <3>3. /\ Len(x.tx) <= w
          /\ sent = w - Len(x.tx) + 1 \/ sent = w + 2
      BY <1>0, <2>8, <3>2 DEF StreamOk, TxOk
    <3>4. net[p] \in Seq(UpTo(Isn[q], sent)) BY <1>0, <2>8, <3>2 DEF StreamOk
    <3>5. seg \in UpTo(Isn[q], sent) /\ seg \in OfStream(Isn[q], w, e) BY <1>4, <3>1, <3>4
    <3>6. c.state.kind \in Acking => Offset(Isn[q], c.ackd) <= sent
      <4>1. AckOk(q) BY <1>0 DEF StreamInvariant
      <4> QED BY <1>0, <2>8, <4>1 DEF AckOk
    <3>7. x \in Connections BY <1>0 DEF TypeOK
    <3>8. x.tx \in Seq(Byte) /\ x.next \in SeqN BY <3>7 DEF Connections
    <3>9. Len(x.tx) \in Nat /\ sent \in Nat /\ w \in Nat
      BY <1>2, <1>3, <3>8, OffsetType DEF Short
    <3> HIDE DEF sent, x, w, e
    <3>10. 1 <= sent /\ (sent <= w + 1 \/ sent = w + 2) BY ONLY <3>3, <3>9
    <3>11. Short(Isn[q], w, e) /\ RxOk(c, Isn[q], m, w, e) BY <1>1, <1>2 DEF w, e
    <3> HIDE DEF c, m, q
    <3>12. Offset(Isn[q], r.ackd) <= sent
      BY <1>1, <1>3, <1>5, <1>7, <1>8, <2>8, <3>1, <3>5, <3>6, <3>9, <3>10, <3>11, ReceivedSent
    <3> QED BY <3>12 DEF sent, x
  <2> QED BY <1>12, <2>1, <2>6, <2>7, <2>8 DEF AckKeeps
<1>19. AckOk(p)' /\ AckOk(q)'
  <2>1. ~Over(q) => OutOk(r, Isn[p], Sent(p)) BY <1>13 DEF SendOk
  <2>2. q = Other(p) /\ connected' = connected OBVIOUS
  <2> HIDE DEF q
  <2>3. AckOk(p)' BY <1>6, <1>7, <1>8, <1>18, <2>1, <2>2, SenderAcks
  <2>4. AckOk(q)' BY <1>6, <1>7, <1>8, <1>18, <2>2, ReceiverAcks
  <2> QED BY <2>3, <2>4
<1> HIDE DEF q
<1> QED BY <1>8, <1>11, <1>14, <1>15, <1>16, <1>17, <1>19, StepInv DEF q

\* A segment arrives, in order, early, or not for the last time.
LEMMA DeliverInv ==
  ASSUME StreamInvariant, NEW p \in Peers, Deliver(p) \/ Overtake(p) \/ Copy(p)
  PROVE  StreamInvariant'
<1>0. net[p] \in Seq(SegmentMeta) /\ faults \in 0 .. MaxFaults /\ MaxFaults \in Nat
  BY TcpAssumption DEF StreamInvariant, TypeOK
<1>1. CASE Deliver(p)
  <2>1. /\ net[p] # <<>> /\ Arrives(p, 1, Tail(net[p])) /\ faults' = faults
    BY <1>1 DEF Deliver
  <2>2. KeptIn(net[p], Tail(net[p])) /\ \A G : net[p] \in Seq(G) => net[p][1] \in G
    BY <1>0, <2>1, KeptTail
  <2>3. /\ Running(p) /\ BecomesAfter(p, OnSegment(conn[p], net[p][1], Isn[p]), Tail(net[p]))
        /\ UNCHANGED <<connected, written, delivered>>
    BY <2>1 DEF Arrives
  <2>4. faults' \in 0 .. MaxFaults BY <1>0, <2>1
  <2> QED BY <2>1, <2>2, <2>3, <2>4, ArrivesInv
<1>2. CASE Overtake(p)
  <2>1. PICK i \in 2 .. Len(net[p]) : Arrives(p, i, RemoveAt(net[p], i)) BY <1>2 DEF Overtake
  <2>2. KeptIn(net[p], RemoveAt(net[p], i)) /\ \A G : net[p] \in Seq(G) => net[p][i] \in G
    BY <1>0, KeptRemove
  <2>3. /\ Running(p)
        /\ BecomesAfter(p, OnSegment(conn[p], net[p][i], Isn[p]), RemoveAt(net[p], i))
        /\ UNCHANGED <<connected, written, delivered>>
    BY <2>1 DEF Arrives
  <2>4. faults' \in 0 .. MaxFaults BY <1>0, <1>2 DEF Overtake, Fault
  <2>5. net[p] # <<>> BY <1>0
  <2> QED BY <2>2, <2>3, <2>4, <2>5, ArrivesInv
<1>3. CASE Copy(p)
  <2>1. net[p] # <<>> /\ Arrives(p, 1, net[p]) BY <1>3 DEF Copy
  <2>2. KeptIn(net[p], net[p]) BY DEF KeptIn
  <2>3. \A G : net[p] \in Seq(G) => net[p][1] \in G BY <1>0, <2>1, KeptTail
  <2>4. /\ Running(p) /\ BecomesAfter(p, OnSegment(conn[p], net[p][1], Isn[p]), net[p])
        /\ UNCHANGED <<connected, written, delivered>>
    BY <2>1 DEF Arrives
  <2>5. faults' \in 0 .. MaxFaults BY <1>0, <1>3 DEF Copy, Fault
  <2> QED BY <2>1, <2>2, <2>3, <2>4, <2>5, ArrivesInv
<1> QED BY <1>1, <1>2, <1>3

\* A lost segment.
LEMMA LoseInv ==
  ASSUME StreamInvariant, NEW p \in Peers, Lose(p)
  PROVE  StreamInvariant'
<1> DEFINE t == Tail(net[p])
<1>0. /\ TypeOK /\ net \in [Peers -> Seq(SegmentMeta)] /\ faults \in 0 .. MaxFaults
      /\ MaxFaults \in Nat /\ net[p] # <<>> /\ net' = [net EXCEPT ![p] = t]
      /\ conn' = conn /\ connected' = connected /\ written' = written
      /\ finished' = finished /\ delivered' = delivered /\ faults' \in 0 .. MaxFaults
  BY TcpAssumption DEF StreamInvariant, TypeOK, Lose, Fault
<1>1. KeptIn(net[p], t) BY <1>0, KeptTail
<1> HIDE DEF t
<1>2. net' \in [Peers -> Seq(SegmentMeta)] BY <1>0, <1>1 DEF KeptIn
<1>3. ASSUME NEW x \in Peers, NEW G, net[x] \in Seq(G) PROVE net'[x] \in Seq(G)
  <2>1. CASE x = p
    <3>1. net'[x] = t BY <1>0, <2>1
    <3> QED BY <1>1, <1>3, <2>1, <3>1 DEF KeptIn
  <2>2. CASE x # p
    <3>1. net'[x] = net[x] BY <1>0, <2>2
    <3> QED BY <1>3, <3>1
  <2> QED BY <2>1, <2>2
<1>4. TypeOK' BY <1>0, <1>2 DEF TypeOK
<1>5. ASSUME NEW x \in Peers PROVE StreamOk(x)'
  <2>1. StreamOk(x) /\ Other(x) \in Peers BY OtherPeer DEF StreamInvariant
  <2>2. Over(Other(x))' <=> Over(Other(x)) BY <1>0 DEF Over
  <2>3. ~Over(Other(x)) =>
          net'[Other(x)] \in Seq(OfStream(Isn[x], written[x], finished[x]))
    BY <1>3, <2>1 DEF StreamOk
  <2>4. ~Over(Other(x)) /\ Live(conn[x]) =>
          net'[Other(x)] \in Seq(UpTo(Isn[x], Offset(Isn[x], conn[x].next)))
    BY <1>3, <2>1 DEF StreamOk
  <2> QED BY <1>0, <2>1, <2>2, <2>3, <2>4 DEF StreamOk
<1>6. connected
  <2>1. ~connected => NotConnected BY DEF StreamInvariant
  <2> QED BY <1>0, <2>1 DEF NotConnected, Peers
<1>7. "client" \in Peers /\ "server" \in Peers BY DEF Peers
<1>8. ASSUME HandshakeOk PROVE HandshakeOk'
  <2>1. /\ net'["server"] \in Seq(NoAck)
        /\ net'["client"] \in Seq(AckOf(wrapping_add(Isn["client"], 1)))
    BY <1>3, <1>7, <1>8 DEF HandshakeOk
  <2> QED BY <1>0, <1>8, <2>1 DEF HandshakeOk
<1>9. ASSUME ~Over("client")' PROVE net'["server"] \in Seq(NoReset)
  <2>1. ~Over("client") BY <1>0, <1>9 DEF Over
  <2> QED BY <1>3, <1>7, <2>1 DEF StreamInvariant
<1>10. \A x \in Peers : ConnInv(conn'[x]) /\ conn'[x].out = <<>> BY <1>0 DEF StreamInvariant
<1>11. ASSUME NEW x \in Peers PROVE AckOk(x)'
  <2> DEFINE y == Other(x)
             got == Offset(Isn[x], conn[y].ackd)
  <2>1. AckOk(x) /\ y \in Peers BY OtherPeer DEF StreamInvariant
  <2>2. (Over(y)' <=> Over(y)) /\ (Running(y)' <=> Running(y)) BY <1>0 DEF Over, Running
  <2>3. Live(conn[x]) /\ Running(y) /\ conn[y].state.kind \in Acking =>
          net'[x] \in Seq(AckUpTo(Isn[x], got))
    BY <1>3, <2>1 DEF AckOk
  <2>4. ASSUME net[y] = <<>> PROVE net'[y] = <<>>
    <3>1. net[y] \in Seq({}) BY <2>4
    <3>2. net'[y] \in Seq({}) BY <1>3, <2>1, <3>1
    <3> QED BY <3>2
  <2> HIDE DEF got
  <2> QED BY <1>0, <2>1, <2>2, <2>3, <2>4 DEF AckOk, got
<1>12. /\ conn'["client"].state.kind \notin {"Listen", "SynReceived"}
       /\ conn'["server"].state.kind # "SynSent"
       /\ Running("client")' /\ conn'["client"].state.kind = "SynSent" => HandshakeOk
       /\ Running("client")' => conn'["client"].re_tx \in Seq(NoReset)
  BY <1>0 DEF StreamInvariant, Running
<1> QED BY <1>0, <1>4, <1>5, <1>6, <1>8, <1>9, <1>10, <1>11, <1>12 DEF StreamInvariant

\* What is known of a connection without a connection.
LEMMA NewFields ==
  /\ New \in Connections /\ ConnInv(New) /\ New.state = Closed /\ New.state.kind = "Closed"
  /\ New.panic = "none" /\ New.out = <<>> /\ New.rx = <<>> /\ New.rx_fin = FALSE
  /\ New.tx_fin = FALSE /\ New.re_tx = <<>>
<1>1. /\ New.state = Closed /\ New.panic = "none" /\ New.out = <<>> /\ New.rx = <<>>
      /\ New.rx_fin = FALSE /\ New.tx_fin = FALSE /\ New.re_tx = <<>>
  BY ONLY DEF New
<1>2. Closed.kind = "Closed" BY ONLY DEF Closed, Finished
<1> QED BY <1>1, <1>2, NewType, NewInv

\* The client opens its connection.
LEMMA ConnectInv ==
  ASSUME StreamInvariant, Connect
  PROVE  StreamInvariant'
<1> DEFINE p == "client"
           q == "server"
           isn == Isn["client"]
           r == CallConnect(New, isn)
           first == wrapping_add(isn, 1)
<1>0. /\ TypeOK /\ NotConnected /\ conn[p] = New /\ net[p] = <<>> /\ net[q] = <<>>
      /\ p \in Peers /\ q \in Peers /\ q = Other(p) /\ Other(q) = p /\ Peers = {p, q} /\ p # q
      /\ conn[q].state.kind \in Idle /\ written[p] = 0 /\ finished[p] = FALSE
      /\ delivered[p] = <<>> /\ connected = FALSE /\ isn \in SeqN
  <2>1. ~connected /\ NotConnected /\ TypeOK BY DEF Connect, StreamInvariant
  <2> QED BY <2>1, TcpAssumption DEF NotConnected, TypeOK, Peers, Other
<1>1. /\ Becomes(p, CallConnect(conn[p], isn)) /\ connected' = TRUE
      /\ written' = written /\ delivered' = delivered /\ faults' = faults
  BY DEF Connect
<1>2. BecomesAfter(p, r, net[p]) /\ KeptIn(net[p], net[p])
  BY <1>0, <1>1, Zenon DEF Becomes, KeptIn
<1>3. ConnInv(r)
  <2>1. CanConnect(New) BY NewFields DEF CanConnect
  <2> QED BY <1>0, <2>1, NewFields, CallConnectInv
<1>4. /\ r.state.kind = "SynSent" /\ r.init_seqn = isn /\ r.unack = isn
      /\ \E syn : Opened(New, r, isn, syn) /\ syn.flags = {"SYN"}
  BY <1>0, CallConnectStep
<1> HIDE DEF r
<1>5. PICK syn : Opened(New, r, isn, syn) /\ syn.flags = {"SYN"} BY <1>4
<1>6. /\ syn \in SegmentMeta /\ r.tx_fin = FALSE /\ r.re_tx = <<syn>> /\ r.next = first
      /\ r.rx = <<>> /\ r.rx_fin = FALSE /\ r.out \in {<<>>, <<syn>>}
  <2>1. r.out = <<>> \/ r.out = Append(<<>>, syn) BY <1>5, NewFields DEF Opened
  <2>2. Append(<<>>, syn) = <<syn>> OBVIOUS
  <2>3. r.tx_fin \in BOOLEAN BY <1>3 DEF ConnInv, Connections
  <2> QED BY <1>5, <2>1, <2>2, <2>3, NewFields DEF Opened
<1>7. Framed(p, q, r, net[p]) BY <1>0, <1>2, <1>3, Frame
<1> DEFINE d == conn'[p]
<1>8. /\ d = [r EXCEPT !.out = <<>>] /\ conn'[q] = conn[q]
      /\ net'[p] = net[p] /\ net'[q] = net[q] \o r.out
      /\ finished'[p] = (finished[p] \/ r.tx_fin) /\ finished'[q] = finished[q]
      /\ conn' \in [Peers -> Connections] /\ net' \in [Peers -> Seq(SegmentMeta)]
      /\ finished' \in [Peers -> BOOLEAN]
  BY ONLY <1>7 DEF Framed
<1>9. /\ ConnInv(d) /\ d.out = <<>> /\ d.state = r.state /\ d.tx_fin = r.tx_fin
      /\ d.re_tx = r.re_tx /\ d.panic = r.panic /\ d.init_seqn = r.init_seqn
      /\ d.unack = r.unack /\ d.next = r.next /\ d.ackd = r.ackd
      /\ d.rx = r.rx /\ d.rx_fin = r.rx_fin /\ d.tx = r.tx
  BY <1>3, <1>8, HandOver
<1> HIDE DEF d
<1>10. net'[q] = r.out /\ net'[p] = <<>> /\ finished'[p] = FALSE
  <2>1. <<>> \o r.out = r.out BY <1>3 DEF ConnInv, Connections
  <2> QED BY <1>0, <1>6, <1>8, <2>1
<1>11. TypeOK' BY <1>0, <1>1, <1>8 DEF TypeOK
<1>12. /\ \A G : syn \in G => r.re_tx \in Seq(G) /\ r.out \in Seq(G)
       /\ syn \in NoAck /\ syn \in NoReset
  <2>1. ASSUME NEW G, syn \in G PROVE r.re_tx \in Seq(G) /\ r.out \in Seq(G)
    <3>1. <<syn>> \in Seq(G) /\ <<>> \in Seq(G) BY <2>1
    <3> QED BY <1>6, <3>1
  <2>2. "ACK" \notin syn.flags /\ "RST" \notin syn.flags BY <1>5
  <2> QED BY <1>6, <2>1, <2>2 DEF NoAck, NoReset
<1>13. StreamOk(p)'
  <2>1. StreamOk(p) /\ (~Over(q) => SendOk(New, isn, 0, FALSE, 1))
    <3>1. Sent(p) = 1 BY <1>0, NewFields DEF Sent, Idle
    <3> QED BY <1>0, <3>1, PeerFacts DEF StreamInvariant
  <2>2. Over(q)' <=> Over(q) BY <1>8 DEF Over
  <2>3. ASSUME ~Over(q)
        PROVE  /\ TxOk(d, isn, 0, FALSE) /\ net'[q] \in Seq(OfStream(isn, 0, FALSE))
               /\ Live(d) => /\ net'[q] \in Seq(UpTo(isn, Offset(isn, d.next)))
                             /\ d.re_tx \in Seq(UpTo(isn, Offset(isn, d.next)))
    <3>1. Unsent(New, 0, 1) BY NewFields DEF Unsent
    <3>2. SendOk(r, isn, 0, FALSE, 1) BY <1>0, <1>5, <2>1, <2>3, <3>1, OpenedSends
    <3>3. TxOk(d, isn, 0, FALSE) BY <1>9, <3>2 DEF SendOk, TxOk, Live
    <3>4. OutOk(r, isn, 1) /\ r.out \in Seq(OfStream(isn, 0, FALSE)) BY <3>2 DEF SendOk
    <3> QED BY <1>9, <1>10, <3>3, <3>4 DEF OutOk, Live
  <2>4. /\ RxOk(conn[q], isn, Len(delivered[q]), 0, FALSE) /\ 0 <= MaxWritten[p]
        /\ \A i \in 1 .. Len(delivered[q]) : delivered[q][i] = i
    BY <1>0, <2>1 DEF StreamOk
  <2>5. d.tx_fin = FALSE /\ d.state.kind # "Listen" BY <1>4, <1>6, <1>9
  <2> QED BY <1>0, <1>1, <1>8, <1>10, <2>2, <2>3, <2>4, <2>5 DEF StreamOk, d
<1>14. StreamOk(q)'
  <2>1. StreamOk(q) /\ ~Over(p) /\ ~Over(p)' BY <1>0, <1>4, <1>9 DEF StreamInvariant, Over, d
  <2>2. RxOk(d, Isn[q], 0, written[q], finished[q])
    <3>1. written[q] \in Nat BY <1>0 DEF TypeOK
    <3>2. Len(d.rx) = 0 /\ d.rx_fin = FALSE /\ d.state.kind = "SynSent" BY <1>4, <1>6, <1>9
    <3> QED BY <3>1, <3>2 DEF RxOk, Acking
  <2>3. Len(delivered[p]) = 0 BY <1>0
  <2>4. /\ conn[q].tx_fin => finished[q]
        /\ finished[q] => EndKept(conn[q])
        /\ written[q] <= MaxWritten[q]
        /\ TxOk(conn[q], Isn[q], written[q], finished[q])
        /\ conn[q].state.kind = "Listen" => written[q] = 0
    BY <1>0, <2>1 DEF StreamOk
  <2>5. <<>> \in Seq(OfStream(Isn[q], written[q], finished[q])) /\ ~Live(conn[q])
    BY <1>0 DEF Live
  <2>6. \A i \in 1 .. Len(delivered[p]) : delivered[p][i] = i BY <2>3
  <2> QED BY <1>0, <1>1, <1>8, <1>10, <2>1, <2>2, <2>3, <2>4, <2>5, <2>6 DEF StreamOk, d
<1>15. HandshakeOk'
  <2>1. d.init_seqn = isn /\ d.unack = isn /\ d.next = first /\ d.re_tx \in Seq(NoAck)
    BY <1>4, <1>6, <1>9, <1>12
  <2>2. net'[q] \in Seq(NoAck) /\ net'[p] \in Seq(AckOf(first)) BY <1>10, <1>12
  <2>3. conn'[q].state.kind \notin Acking BY <1>0, <1>8 DEF Idle, Acking
  <2> QED BY <2>1, <2>2, <2>3 DEF HandshakeOk, d
<1>16. \A x \in Peers :
         ConnInv(conn'[x]) /\ conn'[x].out = <<>> /\ StreamOk(x)' /\ AckOk(x)'
  <2>1. ConnInv(conn'[q]) /\ conn'[q].out = <<>> BY <1>0, <1>8 DEF StreamInvariant
  <2>2. AckOk(p)'
    <3>1. conn'[q].state.kind \notin Acking \cup {"SynSent"} /\ d.state.kind # "Listen"
      BY <1>0, <1>4, <1>8, <1>9 DEF Acking, Idle
    <3> QED BY <1>0, <3>1 DEF AckOk, d
  <2>3. AckOk(q)'
    <3>1. ~Live(conn[q])' /\ d.state.kind \notin Acking /\ net'[p] = <<>>
      BY <1>0, <1>4, <1>8, <1>9, <1>10 DEF Live, Acking
    <3> QED BY <1>0, <3>1 DEF AckOk, d
  <2> QED BY <1>0, <1>9, <1>13, <1>14, <2>1, <2>2, <2>3 DEF d
<1>17. d.state.kind = "SynSent" /\ d.re_tx \in Seq(NoReset) /\ net'[q] \in Seq(NoReset)
  BY <1>4, <1>9, <1>10, <1>12
<1>18. conn'[q].state.kind # "SynSent" BY <1>0, <1>8 DEF Idle
<1> QED BY <1>1, <1>11, <1>15, <1>16, <1>17, <1>18 DEF StreamInvariant, d

\* The server's connection, as call_accept makes it.
LEMMA ListenNew ==
  ASSUME NEW l, l = SetState(New, Listen)
  PROVE  /\ ConnInv(l) /\ l.state = Listen /\ l.out = <<>> /\ l.rx = <<>> /\ ~l.rx_fin
         /\ ~l.tx_fin /\ l.state.kind = "Listen" /\ l \in Connections
<1>1. Clear(New) = New
  <2>1. New.out = <<>> /\ New.panic = "none" /\ New \in Connections BY NewFields
  <2>2. Clear(New) = [New EXCEPT !.out = New.out, !.panic = New.panic] BY ONLY DEF Clear
  <2> QED BY ONLY <2>1, <2>2 DEF Connections
<1>2. /\ ConnInv(l) /\ l.state = Listen /\ l.out = <<>> /\ l.rx = <<>> /\ ~l.rx_fin
      /\ ~l.tx_fin
  <2>1. l = SetState(Clear(New), Listen) BY <1>1
  <2>2. ConnInv(l) BY <2>1, NewFields, ToInv
  <2>3. Dropped(New, l) /\ l.state = Listen /\ l.out = New.out BY <2>1, NewFields, DropTo
  <2> QED BY <2>2, <2>3, NewFields DEF Dropped
<1>3. l.state.kind = "Listen" /\ l \in Connections BY <1>2 DEF Listen, Finished, ConnInv
<1> QED BY <1>2, <1>3

\* The first state.
LEMMA InitStream == Init => StreamInvariant
<1> SUFFICES ASSUME Init PROVE StreamInvariant OBVIOUS
<1> DEFINE l == SetState(New, Listen)
<1>2. /\ ConnInv(l) /\ l.state = Listen /\ l.out = <<>> /\ l.rx = <<>> /\ ~l.rx_fin
      /\ ~l.tx_fin
  BY ListenNew
<1>3. l.state.kind = "Listen" /\ l \in Connections BY ListenNew
<1> HIDE DEF l
<1>4. /\ conn = [x \in Peers |-> IF x = "client" THEN New ELSE l]
      /\ net = [x \in Peers |-> <<>>] /\ connected = FALSE /\ written = [x \in Peers |-> 0]
      /\ finished = [x \in Peers |-> FALSE] /\ delivered = [x \in Peers |-> <<>>]
      /\ faults = 0
  BY DEF Init, l
<1>5. "client" \in Peers /\ "server" \in Peers /\ Peers = {"client", "server"} BY DEF Peers
<1>6. conn["client"] = New /\ conn["server"] = l BY <1>4, <1>5
<1>7. TypeOK
  <2>1. conn \in [Peers -> Connections] BY <1>3, <1>4, NewFields
  <2>2. 0 \in 0 .. MaxFaults BY TcpAssumption
  <2>3. <<>> \in Seq(SegmentMeta) /\ <<>> \in Seq(Byte) OBVIOUS
  <2> QED BY <1>4, <2>1, <2>2, <2>3 DEF TypeOK
<1>8. NotConnected BY <1>3, <1>4, <1>5, <1>6 DEF NotConnected, Idle
<1>9. ASSUME NEW p \in Peers PROVE StreamOk(p) /\ AckOk(p)
  <2> DEFINE q == Other(p)
             c == conn[p]
             d == conn[q]
  <2>1. q \in Peers BY OtherPeer
  <2>2. /\ net[q] = <<>> /\ written[p] = 0 /\ finished[p] = FALSE /\ delivered[q] = <<>>
        /\ 0 <= MaxWritten[p]
    BY <1>4, <2>1, TcpAssumption
  <2>3. \A x \in Peers : /\ conn[x].state.kind \in {"Closed", "Listen"} /\ ~conn[x].tx_fin
                         /\ conn[x].rx = <<>> /\ ~conn[x].rx_fin
    BY <1>2, <1>3, <1>5, <1>6, NewFields
  <2>4. RxOk(d, Isn[p], 0, 0, FALSE)
    <3>1. Len(d.rx) = 0 /\ ~d.rx_fin /\ d.state.kind \in {"Closed", "Listen"} BY <2>1, <2>3
    <3> QED BY <3>1 DEF RxOk, Acking
  <2>5. TxOk(c, Isn[p], 0, FALSE) BY <2>3 DEF TxOk, Live, Idle
  <2>6. Len(delivered[q]) = 0 /\ net[q] \in Seq(OfStream(Isn[p], 0, FALSE)) BY <2>2
  <2>7. /\ RxOk(d, Isn[p], Len(delivered[q]), written[p], finished[p])
        /\ TxOk(c, Isn[p], written[p], finished[p])
        /\ net[q] \in Seq(OfStream(Isn[p], written[p], finished[p]))
    BY ONLY <2>2, <2>4, <2>5, <2>6
  <2>8. \A i \in 1 .. Len(delivered[q]) : delivered[q][i] = i BY <2>6
  <2>9. ~c.tx_fin /\ ~finished[p] BY <2>2, <2>3
  <2>10. ~Live(c) BY <2>3 DEF Live, Idle
  <2>11. StreamOk(p) BY <2>2, <2>7, <2>8, <2>9, <2>10 DEF StreamOk
  <2>12. d.state.kind \notin Acking BY <2>1, <2>3 DEF Acking
  <2>13. AckOk(p) BY <2>2, <2>10, <2>12 DEF AckOk
  <2> QED BY <2>11, <2>13
<1>10. \A x \in Peers : ConnInv(conn[x]) /\ conn[x].out = <<>>
  BY <1>2, <1>5, <1>6, NewFields
<1>11. New.re_tx \in Seq(NoReset) /\ net["server"] \in Seq(NoReset)
  BY <1>4, <1>5, NewFields
<1> QED BY <1>3, <1>6, <1>7, <1>8, <1>9, <1>10, <1>11, NewFields DEF StreamInvariant

-----------------------------------------------------------------------------
\* Tcp.tla Next: every step of a peer, of the network and of a timer keeps
\* StreamInvariant, and so does a step that changes nothing.
LEMMA NextInv == StreamInvariant /\ [Next]_vars => StreamInvariant'
<1> SUFFICES ASSUME StreamInvariant, [Next]_vars PROVE StreamInvariant' OBVIOUS
<1>1. CASE Connect BY <1>1, ConnectInv
<1>2. ASSUME NEW p \in Peers, Write(p) PROVE StreamInvariant' BY <1>2, WriteInv
<1>3. ASSUME NEW p \in Peers, Read(p) PROVE StreamInvariant' BY <1>3, ReadInv
<1>4. ASSUME NEW p \in Peers, Shutdown(p) \/ Close(p) \/ Abort(p) PROVE StreamInvariant'
  BY <1>4, CallsInv
<1>5. ASSUME NEW p \in Peers, Deliver(p) \/ Overtake(p) \/ Copy(p) PROVE StreamInvariant'
  BY <1>5, DeliverInv
<1>6. ASSUME NEW p \in Peers, Lose(p) PROVE StreamInvariant' BY <1>6, LoseInv
<1>7. ASSUME NEW p \in Peers, NEW expired, Tick(p, expired) PROVE StreamInvariant'
  BY <1>7, TickInv
<1>8. CASE UNCHANGED vars
  <2>1. /\ conn' = conn /\ net' = net /\ connected' = connected /\ written' = written
        /\ finished' = finished /\ delivered' = delivered /\ faults' = faults
    BY <1>8 DEF vars
  <2> QED BY <2>1 DEF StreamInvariant, TypeOK, StreamOk, AckOk, Live, Over, NotConnected,
    HandshakeOk, Running
<1> QED BY <1>1, <1>2, <1>3, <1>4, <1>5, <1>6, <1>7, <1>8 DEF Next

\* connection.rs, tx.rs, rx.rs: through losses, copies, reordering, retransmissions, resets
\* and the second connection of a server, the two ends and all segments that exist agree
\* on the numbering of the two byte streams.
THEOREM StreamInvariance == Spec => []StreamInvariant
<1>1. Init => StreamInvariant BY InitStream
<1>2. StreamInvariant /\ [Next]_vars => StreamInvariant' BY NextInv
<1> QED BY <1>1, <1>2, PTL DEF Spec

\* What is received of a stream is the beginning of what was written.
LEMMA ReceivedFields ==
  ASSUME StreamInvariant, NEW p \in Peers, NEW q, q = Other(p)
  PROVE  /\ Received(p) \in Seq(Byte) /\ After(0, Received(p))
         /\ Len(Received(p)) = Len(delivered[p]) + Len(conn[p].rx)
<1>1. /\ conn[p] \in Connections /\ delivered[p] \in Seq(Byte) /\ After(0, delivered[p])
      /\ RxOk(conn[p], Isn[q], Len(delivered[p]), written[q], finished[q])
  BY PeerFacts
<1>2. conn[p].rx \in Seq(Byte) BY <1>1 DEF Connections
<1>3. After(Len(delivered[p]), conn[p].rx) BY <1>1 DEF RxOk, Acking, After
<1> QED BY <1>1, <1>2, <1>3, AfterConcat DEF Received

\* rx.rs write, connection.rs on_segment and call_recv: bytes reach either application in
\* order, once each, and only those its peer has written.
THEOREM StreamCorrect == Spec => []StreamIntegrity
<1>1. StreamInvariant => StreamIntegrity
  <2> SUFFICES ASSUME StreamInvariant, NEW p \in Peers
               PROVE  /\ Len(Received(p)) <= written[Other(p)]
                      /\ \A i \in 1 .. Len(Received(p)) : Received(p)[i] = i
    BY DEF StreamIntegrity
  <2> DEFINE q == Other(p)
  <2>1. /\ After(0, Received(p)) /\ Received(p) \in Seq(Byte)
        /\ Len(Received(p)) = Len(delivered[p]) + Len(conn[p].rx)
    BY ReceivedFields
  <2>2. RxOk(conn[p], Isn[q], Len(delivered[p]), written[q], finished[q]) BY PeerFacts
  <2>3. Len(Received(p)) <= written[q] BY <2>1, <2>2 DEF RxOk, Acking
  <2>4. \A i \in 1 .. Len(Received(p)) : Received(p)[i] = 0 + i BY <2>1 DEF After
  <2>5. \A i \in 1 .. Len(Received(p)) : 0 + i = i OBVIOUS
  <2> QED BY <2>3, <2>4, <2>5
<1> QED BY <1>1, StreamInvariance, PTL

\* connection.rs on_segment: a receive channel that has met a FIN has met all that the peer
\* wrote, so a lost tail, an early FIN or a RST is never taken for the end of the stream.
THEOREM EndOfStreamSound == Spec => []EofSound
<1>1. StreamInvariant => EofSound
  <2> SUFFICES ASSUME StreamInvariant, NEW p \in Peers, conn[p].state.kind = "Established",
                      conn[p].state.rx_state # "Open"
               PROVE  Len(Received(p)) = written[Other(p)]
    BY DEF EofSound
  <2> DEFINE q == Other(p)
  <2>1. Len(Received(p)) = Len(delivered[p]) + Len(conn[p].rx) BY ReceivedFields
  <2>2. RxOk(conn[p], Isn[q], Len(delivered[p]), written[q], finished[q]) BY PeerFacts
  <2> QED BY <2>1, <2>2 DEF RxOk, Acking
<1> QED BY <1>1, StreamInvariance, PTL

\* Sequence numbers in the order of their offsets are in range.
LEMMA OffsetRange ==
  ASSUME NEW isn \in SeqN, NEW a \in SeqN, NEW x \in SeqN, NEW b \in SeqN,
         Offset(isn, a) <= Offset(isn, x), Offset(isn, x) <= Offset(isn, b)
  PROVE  in_range_inclusive(x, a, b)
<1>1. /\ isn \in Nat /\ a \in Nat /\ x \in Nat /\ b \in Nat /\ SeqSpace \in Nat
      /\ isn < SeqSpace /\ a < SeqSpace /\ x < SeqSpace /\ b < SeqSpace
  BY SegmentAssumption DEF SeqN
<1>2. /\ (IF isn <= a THEN a - isn ELSE a + SeqSpace - isn)
           <= (IF isn <= x THEN x - isn ELSE x + SeqSpace - isn)
      /\ (IF isn <= x THEN x - isn ELSE x + SeqSpace - isn)
           <= (IF isn <= b THEN b - isn ELSE b + SeqSpace - isn)
  BY DEF Offset, wrapping_sub
<1> QED BY ONLY <1>1, <1>2 DEF in_range_inclusive

\* connection.rs on_segment, send_ack: between two established ends, whatever was lost,
\* copied or overtaken, the sender has taken as acknowledged no more than the receiver has
\* acknowledged, and that one no more than was sent: unack <= ackd <= next.
THEOREM AckSoundness == Spec => []AckSound
<1>1. StreamInvariant => AckSound
  <2> SUFFICES ASSUME StreamInvariant, InSync, NEW p \in Peers
               PROVE  in_range_inclusive(conn[Other(p)].ackd, conn[p].unack, conn[p].next)
    BY DEF AckSound
  <2> DEFINE q == Other(p)
  <2>1. q \in Peers /\ AckOk(p) /\ TypeOK /\ Isn[p] \in SeqN
    BY OtherPeer, TcpAssumption DEF StreamInvariant
  <2>2. /\ Live(conn[p]) /\ conn[p].state.kind \in Synchronizing
        /\ Running(q) /\ conn[q].state.kind \in Acking
    BY <2>1 DEF InSync, Running, Live, Idle, Synchronizing, Acking
  <2>3. /\ Offset(Isn[p], conn[p].unack) <= Offset(Isn[p], conn[q].ackd)
        /\ Offset(Isn[p], conn[q].ackd) <= Offset(Isn[p], conn[p].next)
    BY <2>1, <2>2 DEF AckOk
  <2>4. conn[p] \in Connections /\ conn[q] \in Connections BY <2>1 DEF TypeOK
  <2>5. conn[p].unack \in SeqN /\ conn[p].next \in SeqN BY <2>4 DEF Connections
  <2>6. conn[q].ackd \in SeqN BY <2>4 DEF Connections
  <2> QED BY <2>1, <2>3, <2>5, <2>6, OffsetRange
<1> QED BY <1>1, StreamInvariance, PTL

\* connection.rs: the connections, the network and the history of a run keep their types.
THEOREM TcpTypeCorrect == Spec => []TypeOK
<1>1. StreamInvariant => TypeOK BY DEF StreamInvariant
<1> QED BY <1>1, StreamInvariance, PTL

-----------------------------------------------------------------------------
(* The refinement: each direction of the connection is a ByteStream.         *)

\* The stream that p writes and q reads takes a step of ByteStream, or none.
Streams(p, q) ==
  \/ /\ written'[p] = written[p] /\ finished'[p] = finished[p]
     /\ delivered'[q] = delivered[q] /\ Phase(q)' = Phase(q)
  \/ /\ ~finished[p] /\ written'[p] \in Nat /\ written'[p] > written[p]
     /\ finished'[p] = finished[p] /\ delivered'[q] = delivered[q] /\ Phase(q)' = Phase(q)
  \/ /\ finished'[p] = TRUE
     /\ written'[p] = written[p] /\ delivered'[q] = delivered[q] /\ Phase(q)' = Phase(q)
  \/ /\ Phase(q) = "open"
     /\ Len(delivered'[q]) \in Len(delivered[q]) .. written[p]
     /\ delivered'[q] = [i \in 1 .. Len(delivered'[q]) |-> i]
     /\ Phase(q)' \in {"open", "ended", "gone"}
     /\ Phase(q)' = "ended" => finished[p] /\ Len(delivered'[q]) = written[p]
     /\ written'[p] = written[p] /\ finished'[p] = finished[p]
  \/ /\ Phase(q)' = "gone"
     /\ written'[p] = written[p] /\ finished'[p] = finished[p]
     /\ delivered'[q] = delivered[q]

\* The sender takes a step.
LEMMA SenderStreams ==
  ASSUME NEW p, NEW q, NEW r, NEW n, Framed(p, q, r, n), finished[p] \in BOOLEAN,
         delivered'[q] = delivered[q], connected' = connected \/ q = "server",
         \/ written'[p] = written[p]
         \/ /\ ~finished[p] /\ ~r.tx_fin
            /\ written'[p] \in Nat /\ written'[p] > written[p]
  PROVE  Streams(p, q)
<1>1. conn'[q] = conn[q] /\ finished'[p] = (finished[p] \/ r.tx_fin)
  BY ONLY Framed(p, q, r, n) DEF Framed
<1>2. Phase(q)' = Phase(q) BY <1>1 DEF Phase
<1>3. CASE written'[p] = written[p]
  <2>1. finished'[p] = finished[p] \/ finished'[p] = TRUE BY <1>1, Zenon
  <2> QED BY <1>2, <1>3, <2>1 DEF Streams
<1>4. CASE ~finished[p] /\ ~r.tx_fin /\ written'[p] \in Nat /\ written'[p] > written[p]
  <2>1. finished'[p] = finished[p] BY <1>1, <1>4
  <2> QED BY <1>2, <1>4, <2>1 DEF Streams
<1> QED BY <1>3, <1>4

\* The receiver takes a step, other than call_recv.
LEMMA ReceiverStreams ==
  ASSUME NEW p, NEW q, NEW r, ConnInv(r), NEW n, Framed(p, q, r, n), Stays(conn[p], r),
         connected' = connected, written'[q] = written[q], delivered'[p] = delivered[p],
         connected \/ p # "client" \/ r.state = conn[p].state
  PROVE  Streams(q, p)
<1>1. conn'[p] = [r EXCEPT !.out = <<>>] /\ finished'[q] = finished[q]
  BY ONLY Framed(p, q, r, n) DEF Framed
<1>2. conn'[p].state = r.state BY <1>1, HandOver
<1>3. CASE r.state = conn[p].state
  <2>1. Phase(p)' = Phase(p) BY <1>2, <1>3 DEF Phase
  <2> QED BY <1>1, <2>1 DEF Streams
<1>4. CASE connected \/ p # "client"
  <2>1. Phase(p) = IF AtEnd(conn[p].state) THEN "ended"
                   ELSE IF Parted(conn[p]) THEN "gone" ELSE "open"
    <3> DEFINE s == conn[p].state
    <3>1. Parted(conn[p]) <=> \/ s.kind \in {"TimeWait", "Reset"}
                              \/ s.kind = "Closed" /\ (p = "client" => connected)
      BY <1>4 DEF Parted
    <3>2. Phase(p) = IF s.kind = "Established" /\ s.rx_state = "Closed" THEN "ended"
                     ELSE IF \/ s.kind \in {"TimeWait", "Reset"}
                             \/ s.kind = "Closed" /\ (p = "client" => connected)
                     THEN "gone" ELSE "open"
      BY ONLY DEF Phase
    <3> QED BY <3>1, <3>2 DEF AtEnd
  <2>2. Phase(p)' = IF AtEnd(r.state) THEN "ended" ELSE IF Parted(r) THEN "gone" ELSE "open"
    <3> DEFINE s == conn'[p].state
    <3>1. Parted(r) <=> \/ s.kind \in {"TimeWait", "Reset"}
                        \/ s.kind = "Closed" /\ (p = "client" => connected')
      BY <1>2, <1>4 DEF Parted
    <3>2. Phase(p)' = IF s.kind = "Established" /\ s.rx_state = "Closed" THEN "ended"
                      ELSE IF \/ s.kind \in {"TimeWait", "Reset"}
                              \/ s.kind = "Closed" /\ (p = "client" => connected')
                      THEN "gone" ELSE "open"
      BY ONLY DEF Phase
    <3> QED BY <1>2, <3>1, <3>2 DEF AtEnd
  <2>3. Phase(p)' = Phase(p) \/ Phase(p)' = "gone"
    <3>1. ~(AtEnd(r.state) /\ Parted(r)) BY DEF AtEnd, Parted
    <3>2. ~(AtEnd(conn[p].state) /\ Parted(conn[p])) BY DEF AtEnd, Parted
    <3> HIDE DEF AtEnd, Parted
    <3> QED BY <2>1, <2>2, <3>1, <3>2 DEF Stays
  <2> QED BY <1>1, <2>3 DEF Streams
<1> QED BY <1>3, <1>4

\* A step that moves no bytes across the interface, for both streams.
LEMMA PlainStreams ==
  ASSUME StreamInvariant, NEW p \in Peers, NEW r, ConnInv(r), NEW n,
         BecomesAfter(p, r, n), KeptIn(net[p], n), Stays(conn[p], r),
         UNCHANGED <<connected, written, delivered>>,
         connected \/ p # "client" \/ r.state = conn[p].state
  PROVE  \A x \in Peers : Streams(x, Other(x))
<1> DEFINE q == Other(p)
<1>1. q \in Peers /\ Other(q) = p /\ Peers = {p, q} /\ TypeOK
  BY OtherPeer DEF StreamInvariant
<1>2. Framed(p, q, r, n) BY <1>1, Frame
<1>3. finished[p] \in BOOLEAN BY DEF StreamInvariant, TypeOK
<1> HIDE DEF q
<1>4. Streams(p, q) BY <1>2, <1>3, SenderStreams
<1>5. Streams(q, p) BY <1>2, ReceiverStreams
<1> QED BY <1>1, <1>4, <1>5 DEF q

\* What call_recv returns.
LEMMA ReadStreams ==
  ASSUME StreamInvariant, StreamInvariant', NEW p \in Peers, Read(p)
  PROVE  \A x \in Peers : Streams(x, Other(x))
<1> DEFINE c == conn[p]
           q == Other(p)
<1>0. /\ ConnInv(c) /\ c.panic = "none" /\ TypeOK /\ q \in Peers /\ q # p /\ CanRecv(c)
      /\ Other(q) = p /\ Peers = {p, q} /\ finished[p] \in BOOLEAN
      /\ delivered \in [Peers -> Seq(Byte)] /\ written[q] \in Nat
  BY OtherPeer DEF StreamInvariant, Read, MayRead, Calling, Running, TypeOK
<1>1. PICK k \in Reads :
         /\ Becomes(p, CallRecv(c, k))
         /\ delivered' = [delivered EXCEPT ![p] = @ \o RecvData(c, k)]
  BY DEF Read
<1>2. connected' = connected /\ written' = written BY DEF Read
<1> DEFINE data == RecvData(c, k)
           r == CallRecv(c, k)
<1>3. k \in Nat BY TcpAssumption
<1>4. ConnInv(r) /\ data \in Seq(Byte) BY <1>0, <1>3, CallRecvInv, CallRecvStep
<1>5. ~Parted(c) /\ ~AtEnd(c.state) /\ (AtEnd(r.state) => r.rx = <<>>)
  BY <1>0, <1>3, CallRecvEnd
<1>6. Framed(p, q, r, net[p])
  <2>1. BecomesAfter(p, r, net[p]) /\ KeptIn(net[p], net[p]) BY <1>1 DEF Becomes, KeptIn
  <2> QED BY <1>0, <1>4, <2>1, Frame
<1>7. delivered'[q] = delivered[q] /\ delivered'[p] = delivered[p] \o data
  BY <1>0, <1>1
<1> HIDE DEF data, r
<1>8. Streams(p, q)
  <2> HIDE DEF q
  <2> QED BY <1>0, <1>2, <1>6, <1>7, SenderStreams
<1>9. Streams(q, p)
  <2> DEFINE new == delivered'[p]
  <2>1. conn'[p] = [r EXCEPT !.out = <<>>] /\ finished'[q] = finished[q]
    BY ONLY <1>6 DEF Framed
  <2>2. conn'[p].state = r.state /\ conn'[p].rx = r.rx BY <1>4, <2>1, HandOver
  <2>3. new \in Seq(Byte) /\ Len(new) = Len(delivered[p]) + Len(data)
    BY <1>0, <1>4, <1>7, ConcatFields
  <2>4. /\ RxOk(conn'[p], Isn[q], Len(new), written[q], finished[q])
        /\ \A i \in 1 .. Len(new) : new[i] = i
    <3>1. StreamOk(q)' BY <1>0 DEF StreamInvariant
    <3> QED BY <1>0, <1>2, <2>1, <3>1 DEF StreamOk
  <2>5. Phase(p) = "open" BY <1>5 DEF Phase, Parted, AtEnd
  <2>6. Phase(p)' \in {"open", "ended", "gone"} BY DEF Phase
  <2>7. r.rx \in Seq(Byte) /\ delivered[p] \in Seq(Byte)
    BY <1>0, <1>4 DEF ConnInv, Connections
  <2> HIDE DEF new
  <2>8. Len(new) \in Len(delivered[p]) .. written[q]
    <3> DEFINE a == Len(r.rx)
               b == Len(delivered[p])
               d == Len(data)
               m == Len(new)
    <3>1. a \in Nat /\ b \in Nat /\ d \in Nat BY ONLY <1>4, <2>7
    <3>2. m = b + d BY ONLY <2>3
    <3>3. m + a <= written[q] BY ONLY <2>2, <2>4 DEF RxOk, Acking
    <3>4. written[q] \in Nat BY <1>0
    <3> HIDE DEF a, b, d, m
    <3>5. m \in b .. written[q] BY ONLY <3>1, <3>2, <3>3, <3>4
    <3> QED BY ONLY <3>5 DEF m, b
  <2>9. new = [i \in 1 .. Len(new) |-> i]
    <3>1. new = [i \in 1 .. Len(new) |-> new[i]] BY ONLY <2>3
    <3> QED BY ONLY <2>4, <3>1
  <2>10. ASSUME Phase(p)' = "ended" PROVE finished[q] /\ Len(new) = written[q]
    <3>1. AtEnd(r.state) BY <2>2, <2>10 DEF Phase, AtEnd
    <3>2. r.rx = <<>> BY <1>5, <3>1
    <3>3. Len(new) + 0 = Len(new) BY <2>3
    <3> QED BY <2>2, <2>4, <3>1, <3>2, <3>3 DEF RxOk, Acking, AtEnd
  <2> QED BY <1>2, <2>1, <2>5, <2>6, <2>8, <2>9, <2>10 DEF Streams, new
<1> QED BY <1>0, <1>8, <1>9

\* What call_send takes.
LEMMA WriteStreams ==
  ASSUME StreamInvariant, NEW p \in Peers, Write(p)
  PROVE  \A x \in Peers : Streams(x, Other(x))
<1> DEFINE c == conn[p]
           q == Other(p)
           v == written[p]
<1>0. /\ ConnInv(c) /\ c.panic = "none" /\ TypeOK /\ q \in Peers /\ q # p
      /\ Other(q) = p /\ Peers = {p, q} /\ finished[p] \in BOOLEAN
      /\ CanSend(c) /\ c.state.tx_state = "Open" /\ ~c.tx_fin
  BY OtherPeer DEF StreamInvariant, Write, MayWrite, Calling, Running, TypeOK
<1>1. PICK k \in Writes :
         /\ v + k <= MaxWritten[p]
         /\ Becomes(p, CallSend(c, [i \in 1 .. k |-> v + i]))
         /\ written' = [written EXCEPT ![p] = @ + k]
  BY DEF Write
<1>2. connected' = connected /\ delivered' = delivered BY DEF Write
<1> DEFINE data == [i \in 1 .. k |-> v + i]
           r == CallSend(c, data)
<1>3. MaxWritten[p] \in Nat /\ MaxWritten[p] + 2 < SeqSpace /\ v \in Nat
  BY PeerFacts DEF Short
<1>4. k \in Nat /\ k > 0 BY TcpAssumption
<1>5. k + 2 < SeqSpace /\ v + k \in Nat /\ v + k > v BY <1>1, <1>3, <1>4, SegmentAssumption
<1>6. data \in Payload /\ data \in Seq(Byte)
  <2>1. \A i \in 1 .. k : v + i \in Byte BY <1>3, <1>4 DEF Byte
  <2> QED BY <1>4, <1>5, <2>1, SegmentAssumption DEF Payload
<1>7. ~r.tx_fin BY <1>0, <1>3, <1>4, <1>5, CallSendStep
<1> HIDE DEF data
<1>8. ConnInv(r) /\ Stays(c, r) BY <1>0, <1>6, CallSendInv, CallSendStays
<1>9. Becomes(p, r) BY <1>1 DEF data
<1> HIDE DEF r
<1>10. Framed(p, q, r, net[p])
  <2>1. BecomesAfter(p, r, net[p]) /\ KeptIn(net[p], net[p]) BY <1>9 DEF Becomes, KeptIn
  <2> QED BY <1>0, <1>8, <2>1, Frame
<1>11. written'[p] = v + k /\ written'[q] = written[q] BY <1>0, <1>1 DEF TypeOK
<1>12. ~finished[p]
  <2>1. finished[p] => EndKept(c) BY DEF StreamInvariant, StreamOk
  <2> QED BY <1>0, <2>1 DEF EndKept, CanSend
<1>13. connected \/ p # "client"
  <2>1. ~connected => NotConnected BY DEF StreamInvariant
  <2>2. conn["client"] = New => conn["client"].state.kind = "Closed" BY NewFields
  <2> QED BY <1>0, <2>1, <2>2 DEF NotConnected, CanSend
<1> HIDE DEF q, c, v
<1>14. written'[p] \in Nat /\ written'[p] > written[p] BY <1>5, <1>11 DEF v
<1>15. Streams(p, q) BY <1>0, <1>2, <1>7, <1>10, <1>12, <1>14, SenderStreams
<1>16. Streams(q, p) BY <1>2, <1>8, <1>10, <1>11, <1>13, ReceiverStreams DEF c
<1> QED BY <1>0, <1>15, <1>16 DEF q

\* Before call_connect the client has no connection.
LEMMA ClientIsNew ==
  ASSUME StreamInvariant, NEW p \in Peers, conn[p].state.kind # "Closed"
  PROVE  connected \/ p # "client"
<1>1. ~connected => conn["client"] = New BY DEF StreamInvariant, NotConnected
<1> QED BY <1>1, NewFields

\* call_shutdown, call_close and call_abort, for both streams.
LEMMA CallsStreams ==
  ASSUME StreamInvariant, NEW p \in Peers, Shutdown(p) \/ Close(p) \/ Abort(p)
  PROVE  \A x \in Peers : Streams(x, Other(x))
<1> DEFINE c == conn[p]
<1>0. ConnInv(c) /\ c.panic = "none"
  BY DEF StreamInvariant, Shutdown, MayShutdown, Close, MayClose, Abort, Calling, Running
<1>1. UNCHANGED <<connected, written, delivered>> BY DEF Shutdown, Close, Abort
<1>2. KeptIn(net[p], net[p]) BY DEF KeptIn
<1>3. CASE Shutdown(p)
  <2> DEFINE r == CallShutdown(c)
  <2>1. CanShutdown(c) /\ BecomesAfter(p, r, net[p]) BY <1>3 DEF Shutdown, MayShutdown, Becomes
  <2>2. connected \/ p # "client" BY <2>1, ClientIsNew DEF CanShutdown
  <2>3. ConnInv(r) /\ Stays(c, r) BY <1>0, <2>1, CallShutdownInv, CallShutdownStays
  <2> HIDE DEF r
  <2> QED BY <1>1, <1>2, <2>1, <2>2, <2>3, PlainStreams
<1>4. CASE Close(p)
  <2> DEFINE r == CallClose(c)
  <2>1. CanClose(c) /\ BecomesAfter(p, r, net[p]) BY <1>4 DEF Close, MayClose, Becomes
  <2>2. connected \/ p # "client" BY <2>1, ClientIsNew DEF CanClose
  <2>3. ConnInv(r) /\ Stays(c, r) BY <1>0, <2>1, CallCloseInv, CallCloseStays
  <2> HIDE DEF r
  <2> QED BY <1>1, <1>2, <2>1, <2>2, <2>3, PlainStreams
<1>5. CASE Abort(p)
  <2> DEFINE r == CallAbort(c)
  <2>1. CanAbort(c) /\ BecomesAfter(p, r, net[p]) BY <1>5 DEF Abort, Becomes
  <2>2. connected \/ p # "client" BY <2>1, ClientIsNew DEF CanAbort
  <2>3. ConnInv(r) /\ Stays(c, r) BY <1>0, CallAbortInv, CallAbortStays
  <2> HIDE DEF r
  <2> QED BY <1>1, <1>2, <2>1, <2>2, <2>3, PlainStreams
<1> QED BY <1>3, <1>4, <1>5

\* The timers.
LEMMA TickStreams ==
  ASSUME StreamInvariant, NEW p \in Peers, NEW expired, Tick(p, expired)
  PROVE  \A x \in Peers : Streams(x, Other(x))
<1> DEFINE c == conn[p]
           r == OnTimeTick(c, expired)
<1>0. ConnInv(c) /\ c.panic = "none" BY DEF StreamInvariant, Tick, MayTick, Running
<1>1. BecomesAfter(p, r, net[p]) /\ UNCHANGED <<connected, written, delivered>>
  BY DEF Tick, Becomes
<1>2. KeptIn(net[p], net[p]) BY DEF KeptIn
<1>3. ConnInv(r) /\ Stays(c, r) BY <1>0, OnTimeTickInv, OnTimeTickStays
<1>4. connected \/ p # "client" \/ r.state = c.state
  <2>1. ASSUME NEW x, x.timer_re_tx = FALSE, x.timer_timewait = FALSE
        PROVE  OnTimeTick(x, expired) = x
    BY <2>1 DEF OnTimeTick
  <2>2. New.timer_re_tx = FALSE /\ New.timer_timewait = FALSE BY ONLY DEF New
  <2>3. OnTimeTick(New, expired) = New BY ONLY <2>1, <2>2
  <2>4. ~connected => conn["client"] = New BY DEF StreamInvariant, NotConnected
  <2> QED BY <2>3, <2>4
<1> HIDE DEF r
<1> QED BY <1>1, <1>2, <1>3, <1>4, PlainStreams

\* on_segment, for a segment that is in flight.
LEMMA ArrivesStreams ==
  ASSUME StreamInvariant, NEW p \in Peers, Running(p), NEW seg, NEW n,
         net[p] # <<>>, \A G : net[p] \in Seq(G) => seg \in G, KeptIn(net[p], n),
         BecomesAfter(p, OnSegment(conn[p], seg, Isn[p]), n),
         UNCHANGED <<connected, written, delivered>>
  PROVE  \A x \in Peers : Streams(x, Other(x))
<1> DEFINE c == conn[p]
           q == Other(p)
           r == OnSegment(c, seg, Isn[p])
<1>0. TypeOK /\ q \in Peers /\ Other(q) = p /\ StreamOk(q) BY OtherPeer DEF StreamInvariant
<1>1. /\ ConnInv(c) /\ c.panic = "none"
      /\ RxOk(c, Isn[q], Len(delivered[p]), written[q], finished[q])
  BY PeerFacts DEF Running
<1>2. seg \in SegmentMeta /\ Isn[p] \in SeqN
  <2>1. net[p] \in Seq(SegmentMeta) BY <1>0 DEF TypeOK
  <2> QED BY <2>1, TcpAssumption
<1>3. c.state.kind \notin Ended => seg \in OfStream(Isn[q], written[q], finished[q])
  <2> SUFFICES ASSUME c.state.kind \notin Ended
               PROVE  seg \in OfStream(Isn[q], written[q], finished[q])
    OBVIOUS
  <2>1. ~Over(p) BY DEF Over, Ended
  <2>2. net[p] \in Seq(OfStream(Isn[q], written[q], finished[q])) BY <1>0, <2>1 DEF StreamOk
  <2> QED BY <2>2
<1>4. ConnInv(r) BY <1>1, <1>2, OnSegmentInv
<1>5. Stays(c, r) BY <1>1, <1>2, <1>3, OnSegmentStays
<1>6. connected
  <2>1. ~connected => NotConnected BY DEF StreamInvariant
  <2> QED BY <2>1 DEF NotConnected, Peers
<1>7. BecomesAfter(p, r, n) OBVIOUS
<1> HIDE DEF r
<1> QED BY <1>4, <1>5, <1>6, <1>7, PlainStreams

\* A segment arrives, in order, early, or not for the last time.
LEMMA DeliverStreams ==
  ASSUME StreamInvariant, NEW p \in Peers, Deliver(p) \/ Overtake(p) \/ Copy(p)
  PROVE  \A x \in Peers : Streams(x, Other(x))
<1>0. net[p] \in Seq(SegmentMeta) BY DEF StreamInvariant, TypeOK
<1>1. CASE Deliver(p)
  <2>1. net[p] # <<>> /\ Arrives(p, 1, Tail(net[p])) BY <1>1 DEF Deliver
  <2>2. KeptIn(net[p], Tail(net[p])) /\ \A G : net[p] \in Seq(G) => net[p][1] \in G
    BY <1>0, <2>1, KeptTail
  <2>3. /\ Running(p) /\ BecomesAfter(p, OnSegment(conn[p], net[p][1], Isn[p]), Tail(net[p]))
        /\ UNCHANGED <<connected, written, delivered>>
    BY <2>1 DEF Arrives
  <2> QED BY <2>1, <2>2, <2>3, ArrivesStreams
<1>2. CASE Overtake(p)
  <2>1. PICK i \in 2 .. Len(net[p]) : Arrives(p, i, RemoveAt(net[p], i)) BY <1>2 DEF Overtake
  <2>2. KeptIn(net[p], RemoveAt(net[p], i)) /\ \A G : net[p] \in Seq(G) => net[p][i] \in G
    BY <1>0, KeptRemove
  <2>3. /\ Running(p)
        /\ BecomesAfter(p, OnSegment(conn[p], net[p][i], Isn[p]), RemoveAt(net[p], i))
        /\ UNCHANGED <<connected, written, delivered>>
    BY <2>1 DEF Arrives
  <2>4. net[p] # <<>> BY <1>0
  <2> QED BY <2>2, <2>3, <2>4, ArrivesStreams
<1>3. CASE Copy(p)
  <2>1. net[p] # <<>> /\ Arrives(p, 1, net[p]) BY <1>3 DEF Copy
  <2>2. KeptIn(net[p], net[p]) BY DEF KeptIn
  <2>3. \A G : net[p] \in Seq(G) => net[p][1] \in G BY <1>0, <2>1, KeptTail
  <2>4. /\ Running(p) /\ BecomesAfter(p, OnSegment(conn[p], net[p][1], Isn[p]), net[p])
        /\ UNCHANGED <<connected, written, delivered>>
    BY <2>1 DEF Arrives
  <2> QED BY <2>1, <2>2, <2>3, <2>4, ArrivesStreams
<1> QED BY <1>1, <1>2, <1>3

\* call_connect: the client has no stream to read before it and none that is over after it.
LEMMA ConnectStreams ==
  ASSUME StreamInvariant, Connect
  PROVE  \A x \in Peers : Streams(x, Other(x))
<1> DEFINE p == "client"
           q == "server"
           isn == Isn["client"]
           r == CallConnect(conn[p], isn)
<1>0. /\ TypeOK /\ conn[p] = New /\ ~connected /\ isn \in SeqN
      /\ p \in Peers /\ q \in Peers /\ q = Other(p) /\ p = Other(q) /\ Peers = {p, q}
      /\ finished[p] \in BOOLEAN
  <2>1. ~connected /\ NotConnected /\ TypeOK BY DEF Connect, StreamInvariant
  <2> QED BY <2>1, TcpAssumption DEF NotConnected, TypeOK, Peers, Other
<1>1. /\ BecomesAfter(p, r, net[p]) /\ connected' = TRUE
      /\ written' = written /\ delivered' = delivered
  BY DEF Connect, Becomes
<1>2. KeptIn(net[p], net[p]) BY DEF KeptIn
<1>3. CanConnect(conn[p]) BY DEF Connect
<1>4. ConnInv(conn[p]) /\ conn[p].panic = "none" BY <1>0, NewFields
<1>5. ConnInv(r) BY <1>0, <1>3, <1>4, CallConnectInv
<1>6. r.state.kind = "SynSent"
  <2>1. CallConnect(New, isn).state.kind = "SynSent" BY <1>0, CallConnectStep
  <2>2. conn[p] = New BY <1>0
  <2>3. r = CallConnect(New, isn) BY ONLY <2>2
  <2> QED BY ONLY <2>1, <2>3
<1> HIDE DEF r
<1>7. Framed(p, q, r, net[p]) BY <1>0, <1>1, <1>2, <1>5, Frame
<1>8. Streams(p, q) BY <1>0, <1>1, <1>7, SenderStreams
<1>9. Streams(q, p)
  <2>1. conn'[p] = [r EXCEPT !.out = <<>>] /\ finished'[q] = finished[q]
    BY ONLY <1>7 DEF Framed
  <2>2. conn'[p].state = r.state BY <1>5, <2>1, HandOver
  <2>3. Phase(p)' = "open" BY <1>6, <2>2 DEF Phase
  <2>4. Phase(p) = "open" BY <1>0, NewFields DEF Phase
  <2> QED BY <1>1, <2>1, <2>3, <2>4 DEF Streams
<1> QED BY <1>0, <1>8, <1>9

\* Every step of the two peers and of the network is, for either stream, one of ByteStream.
LEMMA NextStreams ==
  ASSUME StreamInvariant, StreamInvariant', [Next]_vars
  PROVE  \A x \in Peers : Streams(x, Other(x))
<1> DEFINE Both == \A x \in Peers : Streams(x, Other(x))
<1>1. CASE Connect BY <1>1, ConnectStreams
<1>2. ASSUME NEW p \in Peers, Write(p) PROVE Both BY <1>2, WriteStreams
<1>3. ASSUME NEW p \in Peers, Read(p) PROVE Both BY <1>3, ReadStreams
<1>4. ASSUME NEW p \in Peers, Shutdown(p) \/ Close(p) \/ Abort(p) PROVE Both
  BY <1>4, CallsStreams
<1>5. ASSUME NEW p \in Peers, Deliver(p) \/ Overtake(p) \/ Copy(p) PROVE Both
  BY <1>5, DeliverStreams
<1>6. ASSUME NEW p \in Peers, NEW expired, Tick(p, expired) PROVE Both BY <1>6, TickStreams
<1>7. ASSUME conn' = conn /\ connected' = connected /\ written' = written
             /\ finished' = finished /\ delivered' = delivered
      PROVE  Both
  BY <1>7 DEF Streams, Phase
<1>8. ASSUME NEW p \in Peers, Lose(p) PROVE Both BY <1>7, <1>8 DEF Lose
<1>9. CASE UNCHANGED vars BY <1>7, <1>9 DEF vars
<1> HIDE DEF Both
<1>10. Both BY <1>1, <1>2, <1>3, <1>4, <1>5, <1>6, <1>8, <1>9 DEF Next, Both
<1> QED BY <1>10 DEF Both

\* The mapping, for the stream the client writes: ByteStream's first states and steps.
LEMMA ToServerStep ==
  /\ Init => ClientStream!Init
  /\ Streams("client", "server") => [ClientStream!Next]_(ClientStream!vars)
<1>1. ASSUME Init PROVE ClientStream!Init
  <2>1. /\ conn = [p \in Peers |-> IF p = "client" THEN New ELSE SetState(New, Listen)]
        /\ written = [p \in Peers |-> 0] /\ finished = [p \in Peers |-> FALSE]
        /\ delivered = [p \in Peers |-> <<>>]
    BY ONLY <1>1 DEF Init
  <2>2. "client" \in Peers /\ "server" \in Peers BY DEF Peers
  <2>3. conn["server"] = SetState(New, Listen) BY ONLY <2>1, <2>2
  <2>4. conn["server"].state.kind = "Listen"
    <3>1. SetState(New, Listen).state.kind = "Listen" BY ListenNew
    <3> QED BY ONLY <2>3, <3>1
  <2>5. Phase("server") = "open" BY <2>4 DEF Phase
  <2>6. written["client"] = 0 /\ finished["client"] = FALSE /\ delivered["server"] = <<>>
    BY ONLY <2>1, <2>2
  <2> QED BY <2>5, <2>6 DEF ClientStream!Init
<1>2. ASSUME Streams("client", "server") PROVE [ClientStream!Next]_(ClientStream!vars)
  BY <1>2 DEF Streams, ClientStream!Next, ClientStream!vars, ClientStream!Write,
              ClientStream!Finish, ClientStream!Receive, ClientStream!Break
<1> QED BY <1>1, <1>2

\* The same for the stream the server writes.
LEMMA ToClientStep ==
  /\ Init => ServerStream!Init
  /\ Streams("server", "client") => [ServerStream!Next]_(ServerStream!vars)
<1>1. ASSUME Init PROVE ServerStream!Init
  <2>1. /\ conn = [p \in Peers |-> IF p = "client" THEN New ELSE SetState(New, Listen)]
        /\ written = [p \in Peers |-> 0] /\ finished = [p \in Peers |-> FALSE]
        /\ delivered = [p \in Peers |-> <<>>] /\ connected = FALSE
    BY ONLY <1>1 DEF Init
  <2>2. "client" \in Peers /\ "server" \in Peers BY DEF Peers
  <2>3. conn["client"] = New BY ONLY <2>1, <2>2
  <2>4. Phase("client") = "open" BY <2>1, <2>3, NewFields DEF Phase
  <2>5. written["server"] = 0 /\ finished["server"] = FALSE /\ delivered["client"] = <<>>
    BY ONLY <2>1, <2>2
  <2> QED BY <2>4, <2>5 DEF ServerStream!Init
<1>2. ASSUME Streams("server", "client") PROVE [ServerStream!Next]_(ServerStream!vars)
  BY <1>2 DEF Streams, ServerStream!Next, ServerStream!vars, ServerStream!Write,
              ServerStream!Finish, ServerStream!Receive, ServerStream!Break
<1> QED BY <1>1, <1>2

\* call_send, on_segment, call_recv: for any bounds on losses, copies and reordering, what
\* the client writes reaches the server as a byte stream.
THEOREM ToServerRefines == Spec => ToServer
<1>1. Init => ClientStream!Init BY ToServerStep
<1>2. StreamInvariant /\ StreamInvariant' /\ [Next]_vars
        => [ClientStream!Next]_(ClientStream!vars)
  <2>1. "client" \in Peers /\ Other("client") = "server" BY DEF Peers, Other
  <2> QED BY <2>1, NextStreams, ToServerStep
<1> QED BY <1>1, <1>2, StreamInvariance, PTL DEF Spec, ToServer, ClientStream!Spec

\* call_send, on_segment, call_recv: the same for what the server writes.
THEOREM ToClientRefines == Spec => ToClient
<1>1. Init => ServerStream!Init BY ToClientStep
<1>2. StreamInvariant /\ StreamInvariant' /\ [Next]_vars
        => [ServerStream!Next]_(ServerStream!vars)
  <2>1. "server" \in Peers /\ Other("server") = "client" BY DEF Peers, Other
  <2> QED BY <2>1, NextStreams, ToClientStep
<1> QED BY <1>1, <1>2, StreamInvariance, PTL DEF Spec, ToClient, ServerStream!Spec
=============================================================================
