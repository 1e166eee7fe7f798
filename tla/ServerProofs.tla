---------------------------- MODULE ServerProofs ----------------------------
(***************************************************************************)
(* The server with its clients, for every number of clients and accepting  *)
(* threads, every backlog and every choice of sequence numbers.            *)
(*                                                                         *)
(* Every socket satisfies what MethodProofs and WaitProofs show of a       *)
(* connection, and the network carries well-formed segments; so whatever a *)
(* client sends is a step that Listener has already, and the listening     *)
(* socket implements ListenSpec.                                           *)
(***************************************************************************)
EXTENDS Server, ListenerProofs, WaitProofs

\* The recursion of Segs.
Filters(f, out, c, m) ==
  /\ f \in [0 .. m -> Seq(SegmentMeta)]
  /\ f[0] = <<>>
  /\ \A n \in 1 .. m : f[n] = IF out[n].addr = c THEN Append(f[n - 1], out[n].seg)
                              ELSE f[n - 1]

\* It has a solution.
LEMMA FilterExists ==
  ASSUME NEW out \in Seq(Addressed), NEW c, NEW m \in 0 .. Len(out)
  PROVE  \E f : Filters(f, out, c, m)
<1> DEFINE I == {k \in 0 .. Len(out) : ~\E f : Filters(f, out, c, k)}
<1> SUFFICES ASSUME I # {} PROVE FALSE OBVIOUS
<1>1. Len(out) \in Nat /\ I \in SUBSET Nat OBVIOUS
<1>2. PICK k \in I : \A j \in I : k <= j
  <2> HIDE DEF I
  <2> QED BY <1>1, HasLeast
<1>3. k \in 0 .. Len(out) /\ ~\E f : Filters(f, out, c, k) OBVIOUS
<1>4. CASE k = 0
  <2> DEFINE f == [n \in 0 .. 0 |-> <<>>]
  <2>1. <<>> \in Seq(SegmentMeta) OBVIOUS
  <2>2. Filters(f, out, c, 0) BY <2>1 DEF Filters
  <2> QED BY <1>3, <1>4, <2>2
<1>5. CASE k # 0
  <2>1. k - 1 \in 0 .. Len(out) /\ k - 1 \notin I BY <1>1, <1>2, <1>3, <1>5
  <2>2. PICK f : Filters(f, out, c, k - 1) BY <2>1
  <2> DEFINE last == IF out[k].addr = c THEN Append(f[k - 1], out[k].seg) ELSE f[k - 1]
             g == [n \in 0 .. k |-> IF n = k THEN last ELSE f[n]]
  <2>3. out[k] \in Addressed /\ k \in Nat BY <1>1, <1>3, <1>5
  <2>4. out[k].seg \in SegmentMeta BY <2>3 DEF Addressed
  <2>5. \A n \in 0 .. k - 1 : f[n] \in Seq(SegmentMeta) BY <2>2 DEF Filters
  <2>6. last \in Seq(SegmentMeta) BY <2>3, <2>4, <2>5, <1>5
  <2> HIDE DEF last
  <2>7. g \in [0 .. k -> Seq(SegmentMeta)] BY <2>3, <2>5, <2>6
  <2>8. g[0] = <<>> BY <1>5, <2>2, <2>3 DEF Filters
  <2>9. ASSUME NEW n \in 1 .. k
        PROVE  g[n] = IF out[n].addr = c THEN Append(g[n - 1], out[n].seg) ELSE g[n - 1]
    <3>1. n \in 0 .. k /\ n - 1 \in 0 .. k - 1 /\ n - 1 \in 0 .. k /\ n - 1 # k BY <2>3
    <3>2. g[n - 1] = f[n - 1] BY <3>1
    <3>3. CASE n = k BY <3>1, <3>2, <3>3 DEF last
    <3>4. CASE n # k
      <4>1. n \in 1 .. k - 1 /\ g[n] = f[n] BY <2>3, <3>1, <3>4
      <4> QED BY <2>2, <3>2, <4>1 DEF Filters
    <3> QED BY <3>3, <3>4
  <2> HIDE DEF g
  <2>10. Filters(g, out, c, k) BY <2>7, <2>8, <2>9 DEF Filters
  <2> QED BY <1>3, <2>10
<1> QED BY <1>4, <1>5

\* What goes to one client is segments.
LEMMA SegsType ==
  ASSUME NEW out \in Seq(Addressed), NEW c
  PROVE  Segs(out, c) \in Seq(SegmentMeta)
<1> DEFINE L == Len(out)
           Def(f) == [n \in 0 .. L |-> IF n = 0 THEN <<>>
                                       ELSE IF out[n].addr = c THEN Append(f[n - 1], out[n].seg)
                                       ELSE f[n - 1]]
           first == CHOOSE f : f = Def(f)
<1>1. L \in Nat OBVIOUS
<1>2. PICK g : Filters(g, out, c, L)
  <2>1. L \in 0 .. Len(out) BY <1>1
  <2> HIDE DEF L
  <2> QED BY <2>1, FilterExists
<1>3. g = Def(g)
  <2> HIDE DEF L
  <2>1. g \in [0 .. L -> Seq(SegmentMeta)] /\ g[0] = <<>> BY <1>2 DEF Filters
  <2>2. ASSUME NEW n \in 0 .. L PROVE g[n] = Def(g)[n]
    <3>1. CASE n = 0 BY <2>1, <3>1
    <3>2. CASE n # 0
      <4>1. n \in 1 .. L BY <1>1, <3>2
      <4> QED BY <1>2, <3>2, <4>1 DEF Filters
    <3> QED BY <3>1, <3>2
  <2>3. g = [n \in 0 .. L |-> g[n]] BY <2>1
  <2>4. Def(g) = [n \in 0 .. L |-> Def(g)[n]] OBVIOUS
  <2> HIDE DEF Def
  <2> QED BY <2>2, <2>3, <2>4
<1>4. first = Def(first)
  <2> HIDE DEF Def
  <2> QED BY <1>3
<1>5. Segs(out, c) = first[L] BY DEF Segs
<1> HIDE DEF first
<1> DEFINE I == {k \in 0 .. L : first[k] \notin Seq(SegmentMeta)}
<1>6. CASE I = {} BY <1>1, <1>5, <1>6
<1>7. CASE I # {}
  <2>1. I \in SUBSET Nat BY <1>1
  <2>2. PICK k \in I : \A j \in I : k <= j
    <3> HIDE DEF I
    <3> QED BY <1>7, <2>1, HasLeast
  <2>3. k \in 0 .. L /\ first[k] \notin Seq(SegmentMeta) /\ k \in Nat BY <1>1
  <2>4. first[k] = IF k = 0 THEN <<>>
                   ELSE IF out[k].addr = c THEN Append(first[k - 1], out[k].seg)
                   ELSE first[k - 1]
    <3>1. Def(first)[k] = IF k = 0 THEN <<>>
                   ELSE IF out[k].addr = c THEN Append(first[k - 1], out[k].seg)
                   ELSE first[k - 1]
      BY <2>3
    <3> QED BY <1>4, <3>1
  <2>5. k # 0 BY <2>3, <2>4
  <2>6. k - 1 \in 0 .. L /\ k - 1 \notin I BY <1>1, <2>2, <2>3, <2>5
  <2>7. first[k - 1] \in Seq(SegmentMeta) BY <2>6
  <2>8. out[k] \in Addressed BY <2>3, <2>5
  <2>9. out[k].seg \in SegmentMeta BY <2>8 DEF Addressed
  <2> QED BY <2>3, <2>4, <2>5, <2>7, <2>9
<1> QED BY <1>6, <1>7

-----------------------------------------------------------------------------
(* The invariant.                                                            *)

\* A socket of a client or of an accepted connection between two methods.
SoundSocket(s) ==
  \/ s = SocketNew
  \/ s.inner = "Connection" /\ s = OfConnection(s.conn) /\ ConnInv(s.conn) /\ WaitsOk(s.conn)

\* What a method leaves of it.
LeftBy(s) ==
  \/ s.inner = "Closed" /\ s.out \in Seq(Addressed)
  \/ \E c : s = OfConnection(c) /\ ConnInv(c) /\ WaitsOk(c)

SoundSockets(f) == DOMAIN f = Clients /\ \A c \in Clients : SoundSocket(f[c])

SoundHands(h) ==
  /\ DOMAIN h = Acceptors
  /\ \A a \in Acceptors : h[a] = Nobody \/ (h[a].addr \in Clients /\ SoundSocket(h[a].socket))

Links == [Clients -> Seq(SegmentMeta)]

\* The connections, and what is in flight.
SoundParts ==
  /\ SoundSockets(client) /\ SoundSockets(accepted) /\ SoundHands(hand)
  /\ clock \in 1 .. Len(ServerIsns)
  /\ connects \in [Clients -> Nat]
  /\ to_server \in Links /\ to_client \in Links

ServerInv == ListenInv /\ SoundParts

\* A connection is what a socket holds.
LEMMA OfConnectionFields ==
  ASSUME NEW c
  PROVE  OfConnection(c).inner = "Connection" /\ OfConnection(c).conn = c
BY DEF OfConnection

\* The callers of a method take what it sent, and leave a sound socket.
LEMMA LeftSound ==
  ASSUME NEW s, LeftBy(s), NEW addr \in Clients
  PROVE  SoundSocket(Quiet(s)) /\ Sent(s, addr) \in Seq(Addressed)
<1>1. CASE s.inner = "Closed" /\ s.out \in Seq(Addressed)
  <2>1. Quiet(s) = SocketNew BY <1>1 DEF Quiet
  <2>2. Sent(s, addr) = s.out BY <1>1 DEF Sent
  <2> QED BY <1>1, <2>1, <2>2 DEF SoundSocket
<1>2. CASE \E c : s = OfConnection(c) /\ ConnInv(c) /\ WaitsOk(c)
  <2>1. PICK c : s = OfConnection(c) /\ ConnInv(c) /\ WaitsOk(c) BY <1>2
  <2>2. s.inner = "Connection" /\ s.conn = c BY <2>1, OfConnectionFields
  <2>3. c \in Connections BY <2>1 DEF ConnInv
  <2>4. <<>> \in Seq(SegmentMeta) /\ c.out \in Seq(SegmentMeta) BY <2>3 DEF Connections
  <2> DEFINE d == [c EXCEPT !.out = <<>>]
  <2>5. d \in Connections /\ SameCore(c, d) /\ d.panic = c.panic /\ d.wait = c.wait
    BY <2>3, <2>4 DEF Connections, SameCore
  <2> HIDE DEF d
  <2>6. PanicKept(c, d) /\ SenderKept(c, d) BY <2>5 DEF PanicKept, SenderKept
  <2>7. ConnInv(d) BY <2>1, <2>5, <2>6, SameCoreInv
  <2>8. WaitsOk(d) BY <2>1, <2>5, <2>6, SameCoreWaits
  <2>9. Quiet(s) = OfConnection(d) BY <2>2 DEF Quiet, d
  <2>10. SoundSocket(Quiet(s)) BY <2>7, <2>8, <2>9, OfConnectionFields DEF SoundSocket
  <2>11. Sent(s, addr) = [i \in 1 .. Len(c.out) |-> To(addr, c.out[i])] BY <2>2 DEF Sent
  <2>12. \A i \in 1 .. Len(c.out) : To(addr, c.out[i]) \in Addressed
    BY <2>4 DEF To, Addressed
  <2>13. Len(c.out) \in Nat BY <2>4
  <2>14. Sent(s, addr) \in Seq(Addressed) BY <2>11, <2>12, <2>13
  <2> QED BY <2>10, <2>14
<1> QED BY <1>1, <1>2 DEF LeftBy

\* call_connect
LEMMA ConnectLeaves ==
  ASSUME NEW isn \in SeqN, NEW s, NEW r, r = SocketConnect(s, isn)
  PROVE  LeftBy(r)
<1> DEFINE c == CallConnect(New, isn)
<1>1. New.panic = "none" /\ New.state = Closed BY DEF New
<1>2. CanConnect(New) BY <1>1, KindOf DEF CanConnect
<1>3. ConnInv(c) /\ WaitsOk(c)
  BY <1>1, <1>2, NewInv, NewWaits, CallConnectInv, CallConnectWaits
<1>4. r = OfConnection(c) BY DEF SocketConnect
<1> HIDE DEF c
<1> QED BY <1>3, <1>4 DEF LeftBy

\* The calls on a connection.
LEMMA CallLeaves ==
  ASSUME NEW s, SoundSocket(s), NEW call \in CallNames, MayCall(s, call),
         NEW r, r = SocketCall(s, call, << 1 >>, 1)
  PROVE  LeftBy(r)
<1> DEFINE c == s.conn
<1>1. s.inner = "Connection" /\ c.panic = "none" BY DEF MayCall, Running
<1>2. ConnInv(c) /\ WaitsOk(c) BY <1>1 DEF SoundSocket, SocketNew
<1>3. << 1 >> \in Payload
  <2>1. << 1 >> \in Seq(Byte) /\ Len(<< 1 >>) = 1 BY DEF Byte
  <2> QED BY <2>1, SegmentAssumption DEF Payload
<1> HIDE DEF c
<1> SUFFICES \E d : r = OfConnection(d) /\ ConnInv(d) /\ WaitsOk(d) BY DEF LeftBy
<1>4. CASE call = "send"
  <2>1. CanSend(c) BY <1>1, <1>4 DEF MayCall, CanCall, c
  <2>2. r = OfConnection(CallSend(c, << 1 >>)) BY <1>1, <1>4 DEF SocketCall, c
  <2>3. ConnInv(CallSend(c, << 1 >>)) /\ WaitsOk(CallSend(c, << 1 >>))
    BY <1>1, <1>2, <1>3, <2>1, CallSendInv, CallSendWaits
  <2> QED BY <2>2, <2>3
<1>5. CASE call = "recv"
  <2>1. CanRecv(c) BY <1>1, <1>5 DEF MayCall, CanCall, c
  <2>2. r = OfConnection(CallRecv(c, 1)) BY <1>1, <1>5 DEF SocketCall, c
  <2>3. ConnInv(CallRecv(c, 1)) /\ WaitsOk(CallRecv(c, 1))
    BY <1>1, <1>2, <2>1, CallRecvInv, CallRecvWaits
  <2> QED BY <2>2, <2>3
<1>6. CASE call = "shutdown"
  <2>1. CanShutdown(c) BY <1>1, <1>6 DEF MayCall, CanCall, c
  <2>2. r = OfConnection(CallShutdown(c)) BY <1>1, <1>6 DEF SocketCall, c
  <2>3. ConnInv(CallShutdown(c)) /\ WaitsOk(CallShutdown(c))
    BY <1>1, <1>2, <2>1, CallShutdownInv, CallShutdownWaits
  <2> QED BY <2>2, <2>3
<1>7. CASE call = "close"
  <2>1. CanClose(c) BY <1>1, <1>7 DEF MayCall, CanCall, c
  <2>2. r = OfConnection(CallClose(c)) BY <1>1, <1>7 DEF SocketCall, c
  <2>3. ConnInv(CallClose(c)) /\ WaitsOk(CallClose(c))
    BY <1>1, <1>2, <2>1, CallCloseInv, CallCloseWaits
  <2> QED BY <2>2, <2>3
<1>8. CASE call = "abort"
  <2>1. r = OfConnection(CallAbort(c)) BY <1>1, <1>8 DEF SocketCall, c
  <2>2. ConnInv(CallAbort(c)) /\ WaitsOk(CallAbort(c))
    BY <1>2, CallAbortInv, CallAbortWaits
  <2> QED BY <2>1, <2>2
<1> QED BY <1>4, <1>5, <1>6, <1>7, <1>8 DEF CallNames

\* on_segment
LEMMA SegmentLeaves ==
  ASSUME NEW s, SoundSocket(s), Running(s), NEW src \in Clients, NEW seg \in SegmentMeta,
         NEW isn \in SeqN, NEW a, NEW r, r = SocketOnSegment(s, src, seg, isn, a)
  PROVE  LeftBy(r)
<1>1. CASE s = SocketNew
  <2>1. s.inner = "Closed" /\ s.out = <<>> BY <1>1 DEF SocketNew
  <2>2. response_to_closed(seg) \in SegmentMeta
    <3>1. wrapping_add(seg.seqn, Len(seg.data)) \in SeqN BY SegmentFields, WrapType
    <3>2. 0 \in 0 .. WindowMax BY SegmentAssumption
    <3> QED BY <3>1, <3>2, SegmentFields, SeqNFacts, EmptySegmentType
            DEF response_to_closed, SegmentFlags
  <2> DEFINE x == To(src, response_to_closed(seg))
  <2>3. x \in Addressed BY <2>2 DEF To, Addressed
  <2>4. r = s \/ r = [s EXCEPT !.out = Append(@, x)] BY <2>1 DEF SocketOnSegment
  <2> HIDE DEF x
  <2>5. r.inner = "Closed" /\ (r.out = <<>> \/ r.out = Append(<<>>, x))
    BY <1>1, <2>1, <2>4 DEF SocketNew
  <2>6. r.out \in Seq(Addressed)
    <3>1. <<>> \in Seq(Addressed) OBVIOUS
    <3>2. Append(<<>>, x) \in Seq(Addressed) BY ONLY <2>3, <3>1
    <3> QED BY ONLY <2>5, <3>1, <3>2
  <2> QED BY <2>5, <2>6 DEF LeftBy
<1>2. CASE s.inner = "Connection" /\ ConnInv(s.conn) /\ WaitsOk(s.conn)
  <2> DEFINE c == s.conn
             d == OnSegment(c, seg, isn)
  <2>1. c.panic = "none" /\ ConnInv(c) /\ WaitsOk(c) BY <1>2 DEF Running
  <2>3. r = OfConnection(d) BY <1>2 DEF SocketOnSegment
  <2> HIDE DEF c
  <2>2. ConnInv(d) /\ WaitsOk(d) BY <2>1, OnSegmentInv, OnSegmentWaits
  <2> HIDE DEF d
  <2> QED BY <2>2, <2>3 DEF LeftBy
<1> QED BY <1>1, <1>2 DEF SoundSocket

\* on_time_tick
LEMMA TickLeaves ==
  ASSUME NEW s, SoundSocket(s), s.inner = "Connection", Running(s), NEW expired,
         NEW r, r = SocketOnTimeTick(s, expired)
  PROVE  LeftBy(r)
<1> DEFINE d == OnTimeTick(s.conn, expired)
<1>1. ConnInv(s.conn) /\ WaitsOk(s.conn) /\ s.conn.panic = "none"
  BY DEF SoundSocket, SocketNew, Running
<1>2. ConnInv(d) /\ WaitsOk(d) BY <1>1, OnTimeTickInv, OnTimeTickWaits
<1>3. r = OfConnection(d) BY DEF SocketOnTimeTick
<1> HIDE DEF d
<1> QED BY <1>2, <1>3 DEF LeftBy

\* The connection that call_accept makes for a segment of the queue.
LEMMA AcceptLeaves ==
  ASSUME NEW l, RecordInv(l), CanAccept(l), NEW isn \in SeqN,
         NEW r, r = OfConnection(AcceptedConnection(l, isn))
  PROVE  LeftBy(r) /\ Head(l.queue).addr \in Clients
<1> DEFINE d == SetState(New, Listen)
           seg == Head(l.queue).seg
           c == OnSegmentListen(d, seg, isn)
<1>1. Head(l.queue) \in Addressed
  BY DEF RecordInv, ListenSockets, CanAccept
<1>2. seg \in SegmentMeta /\ Head(l.queue).addr \in Clients BY <1>1 DEF Addressed
<1>3. Clear(New) = New BY DEF Clear, New
<1>4. ConnInv(d) /\ d.state = Listen BY <1>3, NewInv, ToInv
<1>5. WaitsOk(d) BY <1>3, NewInv, ToWaits
<1>6. d \in Connections BY <1>4 DEF ConnInv
<1> HIDE DEF d, seg
<1>7. ConnInv(c) /\ WaitsOk(c)
  BY <1>2, <1>4, <1>5, <1>6, KindOf, OnSegmentListenInv, OnSegmentListenWaits
<1>8. AcceptedConnection(l, isn) = c
  BY <1>4, KindOf DEF AcceptedConnection, OnSegment, d, seg
<1> HIDE DEF c
<1> QED BY <1>2, <1>7, <1>8 DEF LeftBy

-----------------------------------------------------------------------------
(* What the listening socket sends.                                          *)

\* call_close refuses what is in the queue.
LEMMA ClosingSends ==
  ASSUME NEW l, RecordInv(l)
  PROVE  ListenClose(l).out \in Seq(Addressed)
<1> DEFINE refusals == [i \in 1 .. Len(l.queue) |-> Refusal(l.queue[i])]
<1>1. l \in ListenSockets BY DEF RecordInv
<1>2. l.queue \in Seq(Addressed) /\ l.out \in Seq(Addressed) /\ Len(l.queue) \in Nat
  BY <1>1 DEF ListenSockets
<1>3. \A i \in 1 .. Len(l.queue) : Refusal(l.queue[i]) \in Addressed BY <1>2, RefusalType
<1>4. refusals \in Seq(Addressed) BY <1>2, <1>3
<1>5. ListenClose(l).out = l.out \o refusals BY <1>1 DEF ListenClose, ListenSockets
<1> HIDE DEF refusals
<1> QED BY <1>2, <1>4, <1>5

\* on_segment of the listening socket.
LEMMA ArrivalSends ==
  ASSUME NEW l, RecordInv(l), NEW addr \in Clients, NEW seg \in SegmentMeta, NEW a
  PROVE  ListenOnSegment(l, addr, seg, a).out \in Seq(Addressed)
<1> DEFINE s == ListenOnSegment(l, addr, seg, a)
           x == Refusal(To(addr, seg))
           y == To(addr, Control({"RST", "ACK"}, wrapping_add(seg.ackn, 1), 0, 0))
<1>1. l \in ListenSockets BY DEF RecordInv
<1>2. l.out \in Seq(Addressed) BY <1>1 DEF ListenSockets
<1>3. To(addr, seg) \in Addressed /\ To(addr, seg).addr = addr /\ To(addr, seg).seg = seg
  BY DEF To, Addressed
<1>4. x \in Addressed /\ y \in Addressed BY <1>3, RefusalType
<1>5. \/ s = l
      \/ s = [l EXCEPT !.out = Append(@, x)]
      \/ s = [l EXCEPT !.out = Append(@, y)]
      \/ s = Admit(l, To(addr, seg), a)
  BY DEF ListenOnSegment
<1> HIDE DEF s, x, y
<1>6. s.out \in {l.out, Append(l.out, x), Append(l.out, y)}
  BY <1>1, <1>5 DEF Admit, ListenSockets
<1>7. Append(l.out, x) \in Seq(Addressed) /\ Append(l.out, y) \in Seq(Addressed)
  BY <1>2, <1>4
<1>8. s.out \in Seq(Addressed) BY <1>2, <1>6, <1>7
<1> QED BY <1>8 DEF s

\* The listening socket as one that is called or gets a segment.
LEMMA ListenerSends ==
  ASSUME ListenInv, NEW call, Listening, NEW addr
  PROVE  Sent(Stopped(call), addr) \in Seq(Addressed)
<1> DEFINE l == ListenClose(socket.listen)
<1>1. Stopped(call) = OfListen(l) BY DEF Stopped, SocketCall, Listening
<1>2. l.out \in Seq(Addressed) BY ListenerRecord, ClosingSends
<1> HIDE DEF l
<1>3. Sent(OfListen(l), addr) = l.out BY OfListenFields DEF Sent
<1> QED BY <1>1, <1>2, <1>3

\* What it answers, be it listening or closed.
LEMMA ListenerAnswers ==
  ASSUME ListenInv, NEW src \in Clients, NEW seg \in SegmentMeta, NEW a, NEW addr
  PROVE  Sent(Arrived(src, seg, a), addr) \in Seq(Addressed)
<1>1. CASE Listening
  <2> DEFINE l == ListenOnSegment(socket.listen, src, seg, a)
  <2>1. Arrived(src, seg, a) = OfListen(l)
    BY <1>1 DEF Arrived, SocketOnSegment, Listening
  <2>2. l.out \in Seq(Addressed) BY <1>1, ListenerRecord, ArrivalSends
  <2> HIDE DEF l
  <2>3. Sent(OfListen(l), addr) = l.out BY OfListenFields DEF Sent
  <2> QED BY <2>1, <2>2, <2>3
<1>2. CASE socket = SocketNew
  <2> DEFINE r == SocketOnSegment(socket, src, seg, 0, a)
  <2>1. SoundSocket(socket) /\ Running(socket) BY <1>2 DEF SoundSocket, Running, SocketNew
  <2>2. r.inner = "Closed"
    BY <1>2 DEF SocketOnSegment, SocketNew
  <2>3. LeftBy(r) BY <2>1, SeqNFacts, SegmentLeaves
  <2>4. Arrived(src, seg, a) = r BY DEF Arrived
  <2> HIDE DEF r
  <2>5. r.out \in Seq(Addressed) BY <2>2, <2>3, OfConnectionFields DEF LeftBy
  <2>6. Sent(r, addr) = r.out BY <2>2 DEF Sent
  <2> QED BY <2>4, <2>5, <2>6
<1> QED BY <1>1, <1>2, ClosedOrListen DEF ListenInv

-----------------------------------------------------------------------------
(* How the parts of the state change.                                        *)

\* One socket changes.
LEMMA PutSocket ==
  ASSUME NEW f, SoundSockets(f), NEW c \in Clients, NEW s, SoundSocket(s),
         NEW g, g = [f EXCEPT ![c] = s]
  PROVE  SoundSockets(g)
BY DEF SoundSockets

\* One hand changes.
LEMMA PutHand ==
  ASSUME NEW h, SoundHands(h), NEW a \in Acceptors, NEW x,
         x = Nobody \/ (x.addr \in Clients /\ SoundSocket(x.socket)),
         NEW g, g = [h EXCEPT ![a] = x]
  PROVE  SoundHands(g)
BY DEF SoundHands

\* One link changes.
LEMMA PutLink ==
  ASSUME NEW link \in Links, NEW c \in Clients, NEW q \in Seq(SegmentMeta),
         NEW g, g = [link EXCEPT ![c] = q]
  PROVE  g \in Links
BY DEF Links

\* The server sends.
LEMMA SendsLinks ==
  ASSUME NEW link \in Links, NEW out \in Seq(Addressed),
         NEW g, g = [c \in Clients |-> link[c] \o Segs(out, c)]
  PROVE  g \in Links
<1>1. ASSUME NEW c \in Clients PROVE link[c] \o Segs(out, c) \in Seq(SegmentMeta)
  <2>1. Segs(out, c) \in Seq(SegmentMeta) BY SegsType
  <2>2. link[c] \in Seq(SegmentMeta) BY DEF Links
  <2> HIDE DEF Segs
  <2> QED BY ONLY <2>1, <2>2
<1> QED BY <1>1 DEF Links

\* A client sends.
LEMMA SendsLink ==
  ASSUME NEW link \in Links, NEW c \in Clients, NEW out \in Seq(Addressed),
         NEW g, g = [link EXCEPT ![c] = @ \o Segs(out, c)]
  PROVE  g \in Links
<1>1. link[c] \o Segs(out, c) \in Seq(SegmentMeta)
  <2>1. Segs(out, c) \in Seq(SegmentMeta) BY SegsType
  <2>2. link[c] \in Seq(SegmentMeta) BY DEF Links
  <2> QED BY ONLY <2>1, <2>2
<1>2. g = [link EXCEPT ![c] = link[c] \o Segs(out, c)] OBVIOUS
<1> QED BY <1>1, <1>2, PutLink

\* The oldest segment in flight, and the rest.
LEMMA OldestType ==
  ASSUME NEW link \in Links, NEW c \in Clients, link[c] # <<>>
  PROVE  Head(link[c]) \in SegmentMeta /\ Tail(link[c]) \in Seq(SegmentMeta)
         /\ link[c] \in Seq(SegmentMeta)
<1>1. link[c] \in Seq(SegmentMeta) BY DEF Links
<1> QED BY ONLY <1>1, link[c] # <<>>

\* A method of a registered connection.
LEMMA AcceptedStep ==
  ASSUME SoundParts, NEW c \in Clients, NEW s, LeftBy(s), AcceptedBecomes(c, s)
  PROVE  SoundSockets(accepted') /\ to_client' \in Links
<1> DEFINE q == Quiet(s)
           out == Sent(s, c)
<1>1. SoundSocket(q) /\ out \in Seq(Addressed) BY LeftSound
<1>2. accepted' = [accepted EXCEPT ![c] = q] BY DEF AcceptedBecomes
<1>3. to_client' = [d \in Clients |-> to_client[d] \o Segs(out, d)]
  BY DEF AcceptedBecomes, ServerSends
<1>4. SoundSockets(accepted) /\ to_client \in Links BY DEF SoundParts
<1> HIDE DEF q, out
<1>5. SoundSockets(accepted') BY <1>1, <1>2, <1>4, PutSocket
<1>6. to_client' \in Links BY <1>1, <1>3, <1>4, SendsLinks
<1> QED BY <1>5, <1>6

\* A method of a client's socket.
LEMMA ClientStep ==
  ASSUME SoundParts, NEW c \in Clients, NEW s, LeftBy(s), NEW in_flight \in Seq(SegmentMeta),
         ClientBecomes(c, s, in_flight)
  PROVE  SoundSockets(client') /\ to_server' \in Links /\ to_client' \in Links
<1> DEFINE q == Quiet(s)
           out == Sent(s, c)
<1>1. SoundSocket(q) /\ out \in Seq(Addressed) BY LeftSound
<1>2. /\ client' = [client EXCEPT ![c] = q]
      /\ to_server' = [to_server EXCEPT ![c] = @ \o Segs(out, c)]
      /\ to_client' = [to_client EXCEPT ![c] = in_flight]
  BY DEF ClientBecomes
<1>3. SoundSockets(client) /\ to_client \in Links /\ to_server \in Links BY DEF SoundParts
<1> HIDE DEF q, out
<1>4. SoundSockets(client') BY <1>1, <1>2, <1>3, PutSocket
<1>5. to_server' \in Links BY <1>1, <1>2, <1>3, SendsLink
<1>6. to_client' \in Links BY <1>2, <1>3, PutLink
<1> QED BY <1>4, <1>5, <1>6

\* new_seqn of the server.
LEMMA ClockType ==
  ASSUME SoundParts
  PROVE  /\ ServerIsns[clock] \in SeqN
         /\ NewSeqn \/ UNCHANGED clock => clock' \in 1 .. Len(ServerIsns)
<1> DEFINE L == Len(ServerIsns)
<1>1. ServerIsns \in Seq(SeqN) /\ ServerIsns # <<>> /\ clock \in 1 .. L
  BY ServerAssumption DEF SoundParts
<1>2. L \in Nat /\ L # 0 /\ ServerIsns[clock] \in SeqN BY <1>1
<1>3. NewSeqn => clock' = (clock % L) + 1 BY DEF NewSeqn
<1> HIDE DEF L
<1>4. (clock % L) + 1 \in 1 .. L BY <1>1, <1>2
<1> QED BY <1>1, <1>2, <1>3, <1>4 DEF L

-----------------------------------------------------------------------------
(* One lemma for each action: the connections stay sound, and the listening  *)
(* socket makes a step of its own specification, or none.                    *)

StepOk == SoundParts' /\ [ListenNext]_socket

\* call_connect
LEMMA ConnectStep ==
  ASSUME ServerInv, NEW c \in Clients, Connect(c)
  PROVE  StepOk
<1> DEFINE isn == ClientIsns[c][connects[c] + 1]
           s == SocketConnect(client[c], isn)
<1>1. connects[c] \in Nat /\ connects \in [Clients -> Nat] BY DEF ServerInv, SoundParts
<1>2. ClientIsns[c] \in Seq(SeqN) BY ServerAssumption
<1>3. connects[c] < Len(ClientIsns[c]) BY DEF Connect
<1>4. isn \in SeqN
  <2>1. connects[c] + 1 \in 1 .. Len(ClientIsns[c]) BY <1>1, <1>2, <1>3
  <2> QED BY <1>2, <2>1
<1>5. ClientBecomes(c, s, to_client[c]) BY DEF Connect
<1> HIDE DEF isn
<1>6. LeftBy(s) BY <1>4, ConnectLeaves
<1> HIDE DEF s
<1>7. to_client[c] \in Seq(SegmentMeta) /\ SoundParts BY DEF ServerInv, SoundParts, Links
<1>8. SoundSockets(client') /\ to_server' \in Links /\ to_client' \in Links
  BY <1>5, <1>6, <1>7, ClientStep
<1>9. connects' \in [Clients -> Nat] BY <1>1 DEF Connect
<1>10. UNCHANGED <<socket, clock, hand, accepted>> BY DEF Connect
<1> QED BY <1>7, <1>8, <1>9, <1>10 DEF StepOk, SoundParts

\* The calls of a client.
LEMMA ClientCallStep ==
  ASSUME ServerInv, NEW c \in Clients, ClientCall(c)
  PROVE  StepOk
<1>1. PICK call \in Calls :
        /\ MayCall(client[c], call)
        /\ ClientBecomes(c, SocketCall(client[c], call, << 1 >>, 1), to_client[c])
  BY DEF ClientCall
<1> DEFINE s == SocketCall(client[c], call, << 1 >>, 1)
<1>2. call \in CallNames BY ServerAssumption
<1>3. SoundSocket(client[c]) /\ to_client[c] \in Seq(SegmentMeta) /\ SoundParts
  BY DEF ServerInv, SoundParts, SoundSockets, Links
<1>4. LeftBy(s) BY <1>1, <1>2, <1>3, CallLeaves
<1> HIDE DEF s
<1>5. SoundSockets(client') /\ to_server' \in Links /\ to_client' \in Links
  BY <1>1, <1>3, <1>4, ClientStep DEF s
<1>6. UNCHANGED <<socket, connects, clock, hand, accepted>> BY DEF ClientCall
<1> QED BY <1>3, <1>5, <1>6 DEF StepOk, SoundParts

\* The calls of the server on a registered connection.
LEMMA AcceptedCallStep ==
  ASSUME ServerInv, NEW c \in Clients, AcceptedCall(c)
  PROVE  StepOk
<1>1. PICK call \in ServerCalls :
        /\ MayCall(accepted[c], call)
        /\ AcceptedBecomes(c, SocketCall(accepted[c], call, << 1 >>, 1))
  BY DEF AcceptedCall
<1> DEFINE s == SocketCall(accepted[c], call, << 1 >>, 1)
<1>2. call \in CallNames BY ServerAssumption
<1>3. SoundSocket(accepted[c]) /\ SoundParts
  BY DEF ServerInv, SoundParts, SoundSockets
<1>4. LeftBy(s) BY <1>1, <1>2, <1>3, CallLeaves
<1> HIDE DEF s
<1>5. SoundSockets(accepted') /\ to_client' \in Links
  BY <1>1, <1>3, <1>4, AcceptedStep DEF s
<1>6. UNCHANGED <<socket, client, connects, clock, hand, to_server>> BY DEF AcceptedCall
<1> QED BY <1>3, <1>5, <1>6 DEF StepOk, SoundParts

\* call_listen, and call_close or call_abort of the listening socket.
LEMMA ListensStep ==
  ASSUME ServerInv, ServerListens \/ ServerStops
  PROVE  StepOk
<1>1. CASE ServerListens
  <2>1. UNCHANGED <<client, connects, clock, hand, accepted, to_server, to_client>>
    BY <1>1 DEF ServerListens, network
  <2>2. StartListen BY <1>1 DEF ServerListens
  <2> QED BY <2>1, <2>2 DEF StepOk, ServerInv, SoundParts, ListenNext
<1>2. CASE ServerStops
  <2>1. PICK call \in {"close", "abort"} :
          StopListen(call) /\ ServerSends(Sent(Stopped(call), "none"))
    BY <1>2 DEF ServerStops
  <2> DEFINE out == Sent(Stopped(call), "none")
  <2>2. Listening /\ ListenInv /\ to_client \in Links
    BY <2>1 DEF StopListen, ServerInv, SoundParts
  <2>3. out \in Seq(Addressed) BY <2>2, ListenerSends
  <2>4. to_client' = [d \in Clients |-> to_client[d] \o Segs(out, d)]
    BY <2>1 DEF ServerSends
  <2> HIDE DEF out
  <2>5. to_client' \in Links BY <2>2, <2>3, <2>4, SendsLinks
  <2>6. UNCHANGED <<client, connects, clock, hand, accepted, to_server>>
    BY <1>2 DEF ServerStops
  <2>7. ListenNext BY <2>1 DEF ListenNext
  <2> QED BY <2>5, <2>6, <2>7 DEF StepOk, ServerInv, SoundParts
<1> QED BY <1>1, <1>2

\* call_accept: the new connection is in the thread's hand.
LEMMA AcceptStep ==
  ASSUME ServerInv, NEW a \in Acceptors, Accept(a)
  PROVE  StepOk
<1>0. SoundParts /\ ListenInv BY DEF ServerInv
<1>1. CASE AcceptWait(a) \/ AcceptClosed(a)
  <2>1. ListenNext BY <1>1 DEF ListenNext
  <2>2. ~AcceptNow(a)
    BY <1>0, <1>1, ListenerRecord
       DEF AcceptNow, AcceptWait, AcceptClosed, MustWait, CanAccept
  <2>3. UNCHANGED <<client, connects, clock, hand, accepted, to_server, to_client>>
    BY <2>2 DEF Accept
  <2> QED BY <1>0, <2>1, <2>3 DEF StepOk, SoundParts
<1>2. CASE /\ AcceptNow(a)
           /\ LET addr == Head(socket.listen.queue).addr
                  s == OfConnection(AcceptedConnection(socket.listen, ServerIsns[clock]))
              IN /\ hand' = [hand EXCEPT ![a] = [addr |-> addr, socket |-> Quiet(s)]]
                 /\ ServerSends(Sent(s, addr))
           /\ NewSeqn
  <2> DEFINE isn == ServerIsns[clock]
             addr == Head(socket.listen.queue).addr
             s == OfConnection(AcceptedConnection(socket.listen, isn))
             q == Quiet(s)
             out == Sent(s, addr)
             x == [addr |-> addr, socket |-> q]
  <2>1. Listening /\ CanAccept(socket.listen) BY <1>2 DEF AcceptNow
  <2>2. RecordInv(socket.listen) BY <1>0, <2>1, ListenerRecord
  <2>3. isn \in SeqN /\ clock' \in 1 .. Len(ServerIsns) BY <1>0, <1>2, ClockType
  <2>4. LeftBy(s) /\ addr \in Clients
    <3> HIDE DEF isn
    <3> QED BY <2>1, <2>2, <2>3, AcceptLeaves
  <2>5. hand' = [hand EXCEPT ![a] = x] BY <1>2
  <2>6. to_client' = [d \in Clients |-> to_client[d] \o Segs(out, d)]
    BY <1>2 DEF ServerSends
  <2> HIDE DEF addr, s
  <2>7. SoundSocket(q) /\ out \in Seq(Addressed) BY <2>4, LeftSound
  <2> HIDE DEF q, out
  <2>8. x.addr \in Clients /\ SoundSocket(x.socket) BY <2>4, <2>7
  <2> HIDE DEF x
  <2>9. SoundHands(hand') BY <1>0, <2>5, <2>8, PutHand DEF SoundParts
  <2>10. to_client' \in Links BY <1>0, <2>6, <2>7, SendsLinks DEF SoundParts
  <2>11. ListenNext BY <1>2 DEF ListenNext
  <2>12. UNCHANGED <<client, connects, accepted, to_server>> BY DEF Accept
  <2> QED BY <1>0, <2>3, <2>9, <2>10, <2>11, <2>12 DEF StepOk, SoundParts
<1> QED BY <1>1, <1>2 DEF Accept

\* The connection is registered.
LEMMA RegisterStep ==
  ASSUME ServerInv, NEW a \in Acceptors, Register(a)
  PROVE  StepOk
<1> DEFINE addr == hand[a].addr
           s == hand[a].socket
<1>0. SoundParts BY DEF ServerInv
<1>1. addr \in Clients /\ SoundSocket(s) BY <1>0 DEF Register, SoundParts, SoundHands
<1>2. /\ accepted' = [accepted EXCEPT ![addr] = s]
      /\ hand' = [hand EXCEPT ![a] = Nobody]
      /\ UNCHANGED <<socket, client, connects, clock, to_server, to_client>>
  BY DEF Register, network
<1> HIDE DEF addr, s
<1>3. SoundSockets(accepted') BY <1>0, <1>1, <1>2, PutSocket DEF SoundParts
<1>4. SoundHands(hand') BY <1>0, <1>2, PutHand DEF SoundParts
<1> QED BY <1>0, <1>2, <1>3, <1>4 DEF StepOk, SoundParts

\* A segment reaches the server: its registered connection, or the listening socket.
LEMMA ServerReceivesStep ==
  ASSUME ServerInv, NEW c \in Clients, NEW in_flight \in Seq(SegmentMeta),
         ServerReceives(c, in_flight)
  PROVE  StepOk
<1> DEFINE seg == Head(to_server[c])
           isn == ServerIsns[clock]
<1>0. SoundParts /\ ListenInv BY DEF ServerInv
<1>1. seg \in SegmentMeta /\ to_server' \in Links
  <2>1. to_server[c] # <<>> /\ to_server' = [to_server EXCEPT ![c] = in_flight]
    BY DEF ServerReceives
  <2>2. to_server \in Links BY <1>0 DEF SoundParts
  <2>3. to_server' \in Links BY <2>1, <2>2, PutLink
  <2> QED BY <2>1, <2>2, <2>3, OldestType
<1>2. UNCHANGED <<client, connects, hand>> BY DEF ServerReceives
<1>3. CASE HasConnection(c)
  <2> DEFINE s == SocketOnSegment(accepted[c], c, seg, isn, "none")
  <2>1. AcceptedBecomes(c, s) /\ UNCHANGED socket /\ (NewSeqn \/ UNCHANGED clock)
    BY <1>3 DEF ServerReceives
  <2>2. isn \in SeqN /\ clock' \in 1 .. Len(ServerIsns) BY <1>0, <2>1, ClockType
  <2>3. SoundSocket(accepted[c]) /\ Running(accepted[c])
    BY <1>0 DEF SoundParts, SoundSockets, ServerReceives
  <2> HIDE DEF seg, isn
  <2>4. LeftBy(s) BY <1>1, <2>2, <2>3, SegmentLeaves
  <2> HIDE DEF s
  <2>5. SoundSockets(accepted') /\ to_client' \in Links BY <1>0, <2>1, <2>4, AcceptedStep
  <2> QED BY <1>0, <1>1, <1>2, <2>1, <2>2, <2>5 DEF StepOk, SoundParts
<1>4. CASE ~HasConnection(c)
  <2>1. PICK a \in Acceptors :
          /\ Arrive(c, seg, a)
          /\ ServerSends(Sent(Arrived(c, seg, a), "none"))
          /\ UNCHANGED <<accepted, clock>>
    BY <1>4 DEF ServerReceives
  <2> HIDE DEF seg
  <2> DEFINE out == Sent(Arrived(c, seg, a), "none")
  <2>2. out \in Seq(Addressed) BY <1>0, <1>1, ListenerAnswers
  <2>3. to_client' = [d \in Clients |-> to_client[d] \o Segs(out, d)]
    BY <2>1 DEF ServerSends
  <2> HIDE DEF out
  <2>4. to_client' \in Links BY <1>0, <2>2, <2>3, SendsLinks DEF SoundParts
  <2>5. ListenNext BY <1>1, <2>1 DEF ListenNext
  <2> QED BY <1>0, <1>1, <1>2, <2>1, <2>4, <2>5 DEF StepOk, SoundParts
<1> QED BY <1>3, <1>4

\* A segment reaches a client.
LEMMA ClientReceivesStep ==
  ASSUME ServerInv, NEW c \in Clients, NEW in_flight \in Seq(SegmentMeta),
         ClientReceives(c, in_flight)
  PROVE  StepOk
<1> DEFINE seg == Head(to_client[c])
           s == SocketOnSegment(client[c], c, seg, 0, "none")
<1>0. SoundParts BY DEF ServerInv
<1>1. seg \in SegmentMeta BY <1>0, OldestType DEF SoundParts, ClientReceives
<1>2. SoundSocket(client[c]) /\ Running(client[c])
  BY <1>0 DEF SoundParts, SoundSockets, ClientReceives
<1>3. ClientBecomes(c, s, in_flight) BY DEF ClientReceives
<1> HIDE DEF seg
<1>4. LeftBy(s) BY <1>1, <1>2, SeqNFacts, SegmentLeaves
<1> HIDE DEF s
<1>5. SoundSockets(client') /\ to_server' \in Links /\ to_client' \in Links
  BY <1>0, <1>3, <1>4, ClientStep
<1>6. UNCHANGED <<socket, connects, clock, hand, accepted>> BY DEF ClientReceives
<1> QED BY <1>0, <1>5, <1>6 DEF StepOk, SoundParts

\* The network delivers, loses or copies a segment.
LEMMA NetworkStep ==
  ASSUME ServerInv, NEW c \in Clients,
         DeliverToServer(c) \/ DeliverToClient(c) \/ Lose(c) \/ Copy(c)
  PROVE  StepOk
<1>0. SoundParts /\ to_server \in Links /\ to_client \in Links BY DEF ServerInv, SoundParts
<1>1. CASE DeliverToServer(c)
  <2>1. ServerReceives(c, Tail(to_server[c])) BY <1>1 DEF DeliverToServer
  <2>2. Tail(to_server[c]) \in Seq(SegmentMeta) BY <1>0, <2>1, OldestType DEF ServerReceives
  <2> QED BY <2>1, <2>2, ServerReceivesStep
<1>2. CASE DeliverToClient(c)
  <2>1. ClientReceives(c, Tail(to_client[c])) BY <1>2 DEF DeliverToClient
  <2>2. Tail(to_client[c]) \in Seq(SegmentMeta) BY <1>0, <2>1, OldestType DEF ClientReceives
  <2> QED BY <2>1, <2>2, ClientReceivesStep
<1>3. CASE Lose(c)
  <2>1. UNCHANGED <<socket, client, connects, clock, hand, accepted>> BY <1>3 DEF Lose
  <2>2. to_server' \in Links /\ to_client' \in Links
    <3>1. CASE to_server[c] # <<>> /\ to_server' = [to_server EXCEPT ![c] = Tail(@)]
               /\ UNCHANGED to_client
      <4>1. Tail(to_server[c]) \in Seq(SegmentMeta) BY <1>0, <3>1, OldestType
      <4>2. to_server' = [to_server EXCEPT ![c] = Tail(to_server[c])] BY <3>1
      <4> QED BY <1>0, <3>1, <4>1, <4>2, PutLink
    <3>2. CASE to_client[c] # <<>> /\ to_client' = [to_client EXCEPT ![c] = Tail(@)]
               /\ UNCHANGED to_server
      <4>1. Tail(to_client[c]) \in Seq(SegmentMeta) BY <1>0, <3>2, OldestType
      <4>2. to_client' = [to_client EXCEPT ![c] = Tail(to_client[c])] BY <3>2
      <4> QED BY <1>0, <3>2, <4>1, <4>2, PutLink
    <3> QED BY <1>3, <3>1, <3>2 DEF Lose
  <2> QED BY <1>0, <2>1, <2>2 DEF StepOk, SoundParts
<1>4. CASE Copy(c)
  <2>1. to_server[c] \in Seq(SegmentMeta) /\ to_client[c] \in Seq(SegmentMeta)
    BY <1>0 DEF Links
  <2>2. ServerReceives(c, to_server[c]) \/ ClientReceives(c, to_client[c])
    BY <1>4 DEF Copy
  <2> QED BY <2>1, <2>2, ServerReceivesStep, ClientReceivesStep
<1> QED BY <1>1, <1>2, <1>3, <1>4

\* A timer expires.
LEMMA TickStep ==
  ASSUME ServerInv, NEW c \in Clients, NEW timer,
         TickClient(c, timer) \/ TickAccepted(c, timer)
  PROVE  StepOk
<1>0. SoundParts BY DEF ServerInv
<1>1. CASE TickClient(c, timer)
  <2> DEFINE s == SocketOnTimeTick(client[c], {timer})
  <2>1. ClientBecomes(c, s, to_client[c]) BY <1>1 DEF TickClient
  <2>2. SoundSocket(client[c]) /\ client[c].inner = "Connection" /\ Running(client[c])
        /\ to_client[c] \in Seq(SegmentMeta)
    BY <1>0, <1>1 DEF SoundParts, SoundSockets, TickClient, MayTick, Links
  <2>3. LeftBy(s) BY <2>2, TickLeaves
  <2> HIDE DEF s
  <2>4. SoundSockets(client') /\ to_server' \in Links /\ to_client' \in Links
    BY <1>0, <2>1, <2>2, <2>3, ClientStep
  <2>5. UNCHANGED <<socket, connects, clock, hand, accepted>> BY <1>1 DEF TickClient
  <2> QED BY <1>0, <2>4, <2>5 DEF StepOk, SoundParts
<1>2. CASE TickAccepted(c, timer)
  <2> DEFINE s == SocketOnTimeTick(accepted[c], {timer})
  <2>1. AcceptedBecomes(c, s) BY <1>2 DEF TickAccepted
  <2>2. SoundSocket(accepted[c]) /\ accepted[c].inner = "Connection" /\ Running(accepted[c])
    BY <1>0, <1>2 DEF SoundParts, SoundSockets, TickAccepted, MayTick
  <2>3. LeftBy(s) BY <2>2, TickLeaves
  <2> HIDE DEF s
  <2>4. SoundSockets(accepted') /\ to_client' \in Links
    BY <1>0, <2>1, <2>3, AcceptedStep
  <2>5. UNCHANGED <<socket, client, connects, clock, hand, to_server>>
    BY <1>2 DEF TickAccepted
  <2> QED BY <1>0, <2>4, <2>5 DEF StepOk, SoundParts
<1> QED BY <1>1, <1>2

\* Every step of the server.
LEMMA ServerStep ==
  ASSUME ServerInv, [Next]_vars
  PROVE  StepOk
<1>1. CASE UNCHANGED vars
  <2>1. UNCHANGED <<socket, client, connects, clock, hand, accepted, to_server, to_client>>
    BY <1>1 DEF vars
  <2> QED BY <2>1 DEF StepOk, ServerInv, SoundParts
<1>2. CASE ServerListens \/ ServerStops BY <1>2, ListensStep
<1>3. CASE \E a \in Acceptors : Accept(a) \/ Register(a) BY <1>3, AcceptStep, RegisterStep
<1>4. ASSUME NEW c \in Clients,
             \/ Connect(c) \/ ClientCall(c) \/ AcceptedCall(c)
             \/ DeliverToServer(c) \/ DeliverToClient(c) \/ Lose(c) \/ Copy(c)
             \/ \E timer \in Timers : TickClient(c, timer) \/ TickAccepted(c, timer)
      PROVE  StepOk
  BY <1>4, ConnectStep, ClientCallStep, AcceptedCallStep, NetworkStep, TickStep
<1> QED BY <1>1, <1>2, <1>3, <1>4 DEF Next

-----------------------------------------------------------------------------
(* The composition.                                                          *)

\* Every connection of the server and of its clients satisfies what a connection
\* satisfies in Endpoint: the methods of connection.rs meet no input that Endpoint
\* does not have.
THEOREM ServerInvariance == Spec => []ServerInv
<1>1. Init => ServerInv
  <2> SUFFICES ASSUME Init PROVE ServerInv OBVIOUS
  <2>1. ListenInv
    BY DEF Init, ListenInit, SocketNew, ListenInv, ListenTypeOK, NoLostWakeup,
           BacklogSound, Listening
  <2>2. SoundSocket(SocketNew) BY DEF SoundSocket
  <2>3. SoundSockets(client) /\ SoundSockets(accepted) BY <2>2 DEF Init, SoundSockets
  <2>4. SoundHands(hand) BY DEF Init, SoundHands
  <2>5. 1 \in 1 .. Len(ServerIsns)
    <3>1. ServerIsns \in Seq(SeqN) /\ ServerIsns # <<>> BY ServerAssumption
    <3> QED BY ONLY <3>1
  <2>6. to_server \in Links /\ to_client \in Links
    <3>1. <<>> \in Seq(SegmentMeta) OBVIOUS
    <3> QED BY <3>1 DEF Init, Links
  <2> QED BY <2>1, <2>3, <2>4, <2>5, <2>6 DEF Init, ServerInv, SoundParts
<1>2. ServerInv /\ [Next]_vars => ServerInv'
  <2> SUFFICES ASSUME ServerInv, [Next]_vars PROVE ServerInv' OBVIOUS
  <2>1. SoundParts' /\ [ListenNext]_socket BY ServerStep DEF StepOk
  <2>2. ListenInv' BY <2>1, ListenStep DEF ServerInv
  <2> QED BY <2>1, <2>2 DEF ServerInv
<1> QED BY <1>1, <1>2, PTL DEF Spec

\* The listening socket of a server, with its clients and their network, behaves as
\* that of Listener.
THEOREM ServerImplementsListener == Spec => ListenSpec
<1>1. Init => ListenInit BY DEF Init
<1>2. ServerInv /\ [Next]_vars => [ListenNext]_socket BY ServerStep DEF StepOk
<1> QED BY <1>1, <1>2, ServerInvariance, PTL DEF Spec, ListenSpec

\* lib.rs, listen.rs: the listening socket keeps its type, and no cookie is
\* triggered twice, with the connections it makes and the segments they send.
THEOREM ServerListenType == Spec => []ListenTypeOK
BY ServerImplementsListener, ListenTypeCorrect, PTL

\* listen.rs on_segment, call_accept: no connection stays in the queue of a server
\* while all its accepting threads sleep.
THEOREM ServerWakeups == Spec => []NoLostWakeup
BY ServerImplementsListener, WakeupNeverLost, PTL

\* listen.rs: the backlog of a server is a bound, holds only SYNs that a new
\* connection accepts, and nobody is left in it or suspended by call_close.
THEOREM ServerBacklog == Spec => []BacklogSound
BY ServerImplementsListener, BacklogCorrect, PTL
=============================================================================
