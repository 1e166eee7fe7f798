--------------------------- MODULE ListenerProofs ---------------------------
(***************************************************************************)
(* The listening socket, for every set of clients and accepting threads,   *)
(* every backlog and every segment that may arrive.                        *)
(*                                                                         *)
(* The three properties of Listener are inductive together: that a woken   *)
(* thread is counted once needs the suspended and the woken threads to be  *)
(* disjoint, and that a thread that meets a closed socket takes no wake-up *)
(* away needs the queue of a closed socket to be empty.                    *)
(***************************************************************************)
EXTENDS Listener, ConnectionProofs, FiniteSetTheorems

ListenInv == ListenTypeOK /\ NoLostWakeup /\ BacklogSound

\* The invariant of the record of an open or closed listener.
RecordInv(l) ==
  /\ l \in ListenSockets
  /\ l.suspended \cap (l.woken \cup l.failed) = {}
  /\ l.suspended # {} => Len(l.queue) <= Cardinality(l.woken)
  /\ Len(l.queue) <= l.backlog
  /\ \A i \in 1 .. Len(l.queue) :
       "SYN" \in l.queue[i].seg.flags /\ l.queue[i].seg.flags \cap {"RST", "ACK"} = {}
  /\ ~l.open => l.queue = <<>> /\ l.suspended = {}

\* A listener is its record.
LEMMA OfListenFields ==
  ASSUME NEW l
  PROVE  OfListen(l).inner = "Listen" /\ OfListen(l).listen = l
BY DEF OfListen

\* The invariant of the socket is that of its record.
LEMMA RecordSuffices ==
  ASSUME NEW l, socket = OfListen(l)
  PROVE  RecordInv(l) <=> ListenInv
BY DEF OfListen, RecordInv, ListenInv, ListenTypeOK, NoLostWakeup, BacklogSound, Listening

\* Sets of threads are finite, and taking or adding one changes their size by one.
LEMMA ThreadSets ==
  ASSUME NEW S \in SUBSET Acceptors, NEW a
  PROVE  /\ IsFiniteSet(S) /\ Cardinality(S) \in Nat
         /\ Cardinality(S) - 1 <= Cardinality(S \ {a})
         /\ a \notin S => Cardinality(S \cup {a}) = Cardinality(S) + 1
<1>1. IsFiniteSet(S) BY ListenAssumption, FS_Subset
<1>2. Cardinality(S) \in Nat BY <1>1, FS_CardinalityType
<1>3. Cardinality(S) - 1 <= Cardinality(S \ {a})
  <2>1. IsFiniteSet(S \ {a}) /\ Cardinality(S \ {a}) =
          IF a \in S THEN Cardinality(S) - 1 ELSE Cardinality(S)
    BY <1>1, FS_RemoveElement
  <2> QED BY <2>1, <1>2
<1>4. a \notin S => Cardinality(S \cup {a}) = Cardinality(S) + 1
  BY <1>1, FS_AddElement
<1> QED BY <1>1, <1>2, <1>3, <1>4

\* What the callers leave in `out' is nothing: the listener without it.
LEMMA QuietFields ==
  ASSUME NEW d \in ListenSockets
  PROVE  LET s == [d EXCEPT !.out = <<>>]
         IN /\ s \in ListenSockets
            /\ s.queue = d.queue /\ s.backlog = d.backlog /\ s.open = d.open
            /\ s.suspended = d.suspended /\ s.woken = d.woken /\ s.failed = d.failed
<1>1. <<>> \in Seq(Addressed) OBVIOUS
<1> QED BY <1>1 DEF ListenSockets

\* What a listener sends is addressed segments.
LEMMA RefusalType ==
  ASSUME NEW x \in Addressed
  PROVE  /\ Refusal(x) \in Addressed
         /\ To(x.addr, Control({"RST", "ACK"}, wrapping_add(x.seg.ackn, 1), 0, 0)) \in Addressed
<1>1. x.addr \in Clients /\ x.seg.ackn \in SeqN BY DEF Addressed, SegmentMeta
<1>2. wrapping_add(x.seg.ackn, 1) \in SeqN /\ 0 \in SeqN BY <1>1, SeqNFacts, WrapType
<1>3. 0 \in 0 .. WindowMax BY SegmentAssumption
<1>4. {"RST"} \in SUBSET SegmentFlags /\ {"RST", "ACK"} \in SUBSET SegmentFlags
  BY DEF SegmentFlags
<1>5. Control({"RST"}, x.seg.ackn, 0, 0) \in SegmentMeta
  BY <1>1, <1>2, <1>3, <1>4, EmptySegmentType
<1>6. Control({"RST", "ACK"}, wrapping_add(x.seg.ackn, 1), 0, 0) \in SegmentMeta
  BY <1>2, <1>3, <1>4, EmptySegmentType
<1> QED BY <1>1, <1>5, <1>6 DEF Refusal, To, Addressed

\* call_listen makes an empty queue, with room for at least one connection.
LEMMA NewListenInv == RecordInv(NewListen(Backlog))
<1>1. NewListen(Backlog) \in ListenSockets
  BY ListenAssumption DEF NewListen, ListenSockets
<1> QED BY <1>1 DEF NewListen, RecordInv, ListenSockets

\* A thread that was woken and calls again uses up its wake-up.
LEMMA ResumedInv ==
  ASSUME NEW l, NEW a \in Acceptors, RecordInv(l)
  PROVE  LET r == [l EXCEPT !.woken = @ \ {a}]
         IN /\ r \in ListenSockets
            /\ r.suspended \cap (r.woken \cup r.failed) = {}
            /\ r.suspended # {} => Len(r.queue) - 1 <= Cardinality(r.woken)
            /\ r.queue = l.queue /\ r.backlog = l.backlog /\ r.open = l.open
            /\ r.suspended = l.suspended /\ r.failed = l.failed
<1> DEFINE r == [l EXCEPT !.woken = @ \ {a}]
<1>1. l \in ListenSockets BY DEF RecordInv
<1>2. r \in ListenSockets BY <1>1 DEF ListenSockets
<1>3. /\ r.queue = l.queue /\ r.backlog = l.backlog /\ r.open = l.open
      /\ r.suspended = l.suspended /\ r.failed = l.failed
      /\ r.woken = l.woken \ {a}
  BY <1>1 DEF ListenSockets
<1>4. r.suspended \cap (r.woken \cup r.failed) = {} BY <1>3 DEF RecordInv
<1>5. r.suspended # {} => Len(r.queue) - 1 <= Cardinality(r.woken)
  <2> SUFFICES ASSUME l.suspended # {}
               PROVE  Len(l.queue) - 1 <= Cardinality(l.woken \ {a})
    BY <1>3
  <2>1. l.woken \in SUBSET Acceptors /\ Len(l.queue) \in Nat BY <1>1 DEF ListenSockets
  <2>2. Len(l.queue) <= Cardinality(l.woken) BY DEF RecordInv
  <2>3. Cardinality(l.woken) \in Nat /\ Cardinality(l.woken) - 1 <= Cardinality(l.woken \ {a})
    BY <2>1, ThreadSets
  <2>4. Cardinality(l.woken \ {a}) \in Nat BY <2>1, ThreadSets
  <2> QED BY <2>1, <2>2, <2>3, <2>4
<1> HIDE DEF r
<1>6. /\ r \in ListenSockets
      /\ r.suspended \cap (r.woken \cup r.failed) = {}
      /\ r.suspended # {} => Len(r.queue) - 1 <= Cardinality(r.woken)
      /\ r.queue = l.queue /\ r.backlog = l.backlog /\ r.open = l.open
      /\ r.suspended = l.suspended /\ r.failed = l.failed
  BY <1>2, <1>3, <1>4, <1>5
<1> QED BY <1>6 DEF r

\* call_accept with a queued connection: whichever thread takes it, the others that
\* are in the queue still have a thread on its way.
LEMMA AcceptNowInv ==
  ASSUME NEW l, NEW a \in Acceptors, RecordInv(l), CanAccept(l)
  PROVE  RecordInv(ListenAccept([l EXCEPT !.woken = @ \ {a}]))
<1> DEFINE r == [l EXCEPT !.woken = @ \ {a}]
<1>1. /\ r \in ListenSockets
      /\ r.suspended \cap (r.woken \cup r.failed) = {}
      /\ r.suspended # {} => Len(r.queue) - 1 <= Cardinality(r.woken)
      /\ r.queue = l.queue /\ r.backlog = l.backlog /\ r.open = l.open
      /\ r.suspended = l.suspended /\ r.failed = l.failed
  BY ResumedInv
<1> HIDE DEF r
<1> DEFINE s == ListenAccept(r)
<1>2. l.queue \in Seq(Addressed) /\ l.queue # <<>> /\ l.open /\ l.backlog \in Nat
  BY DEF RecordInv, CanAccept, ListenSockets
<1>3. /\ Tail(l.queue) \in Seq(Addressed)
      /\ Len(Tail(l.queue)) = Len(l.queue) - 1
      /\ \A i \in 1 .. Len(Tail(l.queue)) : i + 1 \in 1 .. Len(l.queue) /\ Tail(l.queue)[i] = l.queue[i + 1]
  BY <1>2
<1>4. /\ s \in ListenSockets
      /\ s.queue = Tail(l.queue) /\ s.backlog = l.backlog /\ s.open
      /\ s.suspended = r.suspended /\ s.woken = r.woken /\ s.failed = r.failed
  BY <1>1, <1>2, <1>3 DEF ListenAccept, ListenSockets
<1> HIDE DEF s
<1>5. s.suspended \cap (s.woken \cup s.failed) = {} BY <1>1, <1>4
<1>6. s.suspended # {} => Len(s.queue) <= Cardinality(s.woken) BY <1>1, <1>3, <1>4
<1>7. Len(s.queue) <= s.backlog BY <1>2, <1>3, <1>4 DEF RecordInv
<1>8. \A i \in 1 .. Len(s.queue) :
        "SYN" \in s.queue[i].seg.flags /\ s.queue[i].seg.flags \cap {"RST", "ACK"} = {}
  BY <1>3, <1>4 DEF RecordInv
<1>9. RecordInv(s) BY <1>4, <1>5, <1>6, <1>7, <1>8 DEF RecordInv
<1> QED BY <1>9 DEF s, r

\* call_accept with an empty queue: the thread is suspended, and no connection waits.
LEMMA AcceptWaitInv ==
  ASSUME NEW l, NEW a \in Acceptors, RecordInv(l), MustWait(l), a \notin l.failed
  PROVE  RecordInv(ListenSuspend([l EXCEPT !.woken = @ \ {a}], a))
<1> DEFINE s == ListenSuspend([l EXCEPT !.woken = @ \ {a}], a)
<1>1. l \in ListenSockets BY DEF RecordInv
<1>2. /\ s \in ListenSockets
      /\ s.queue = l.queue /\ s.backlog = l.backlog /\ s.open = l.open
      /\ s.suspended = l.suspended \cup {a} /\ s.woken = l.woken \ {a} /\ s.failed = l.failed
  BY <1>1 DEF ListenSuspend, ListenSockets
<1>3. l.queue = <<>> /\ l.open BY DEF MustWait
<1>4. s.suspended \cap (s.woken \cup s.failed) = {} BY <1>2 DEF RecordInv
<1> HIDE DEF s
<1>5. Len(s.queue) = 0 /\ Cardinality(s.woken) \in Nat
  <2>1. s.woken \in SUBSET Acceptors BY <1>2 DEF ListenSockets
  <2>2. Cardinality(s.woken) \in Nat BY <2>1, ThreadSets
  <2>3. s.queue = <<>> BY <1>2, <1>3
  <2> QED BY <2>2, <2>3
<1>6. s.backlog \in Nat BY <1>2 DEF ListenSockets
<1>7. RecordInv(s) BY <1>2, <1>3, <1>4, <1>5, <1>6 DEF RecordInv
<1> QED BY <1>7 DEF s

\* call_accept on a closed socket.
LEMMA AcceptClosedInv ==
  ASSUME NEW l, NEW a \in Acceptors, RecordInv(l), ~l.open
  PROVE  RecordInv([[l EXCEPT !.woken = @ \ {a}] EXCEPT !.failed = @ \cup {a}])
<1> DEFINE s == [[l EXCEPT !.woken = @ \ {a}] EXCEPT !.failed = @ \cup {a}]
<1>1. l \in ListenSockets BY DEF RecordInv
<1>2. /\ s \in ListenSockets
      /\ s.queue = l.queue /\ s.backlog = l.backlog /\ s.open = l.open
      /\ s.suspended = l.suspended
  BY <1>1 DEF ListenSockets
<1>3. l.queue = <<>> /\ l.suspended = {} BY DEF RecordInv
<1> HIDE DEF s
<1>4. RecordInv(s) BY <1>2, <1>3 DEF RecordInv
<1> QED BY <1>4 DEF s

\* call_close leaves nobody behind, in the queue or suspended.
LEMMA ListenCloseInv ==
  ASSUME NEW l, RecordInv(l)
  PROVE  RecordInv([ListenClose(l) EXCEPT !.out = <<>>])
<1> DEFINE s == [ListenClose(l) EXCEPT !.out = <<>>]
<1>1. l \in ListenSockets BY DEF RecordInv
<1>2. /\ s \in ListenSockets
      /\ s.queue = <<>> /\ s.backlog = l.backlog /\ s.suspended = {}
  <2> DEFINE refusals == [i \in 1 .. Len(l.queue) |-> Refusal(l.queue[i])]
             out == l.out \o refusals
             d == ListenClose(l)
  <2>1. l.queue \in Seq(Addressed) /\ l.out \in Seq(Addressed) /\ <<>> \in Seq(Addressed)
    BY <1>1 DEF ListenSockets
  <2>2. \A i \in 1 .. Len(l.queue) : Refusal(l.queue[i]) \in Addressed BY <2>1, RefusalType
  <2>3. refusals \in Seq(Addressed) BY <2>1, <2>2
  <2> HIDE DEF refusals
  <2>4. out \in Seq(Addressed) BY <2>1, <2>3
  <2>5. d = [l EXCEPT !.open = FALSE, !.failed = @ \cup l.suspended, !.suspended = {},
                      !.queue = <<>>, !.out = out]
    BY DEF ListenClose, refusals
  <2> HIDE DEF out, d
  <2>6. d \in ListenSockets /\ d.queue = <<>> /\ d.backlog = l.backlog /\ d.suspended = {}
    BY <1>1, <2>1, <2>4, <2>5 DEF ListenSockets
  <2>7. [d EXCEPT !.out = <<>>] \in ListenSockets
        /\ [d EXCEPT !.out = <<>>].queue = d.queue
        /\ [d EXCEPT !.out = <<>>].backlog = d.backlog
        /\ [d EXCEPT !.out = <<>>].suspended = d.suspended
    BY <2>6, QuietFields
  <2> QED BY <2>6, <2>7 DEF d
<1> HIDE DEF s
<1>3. s.backlog \in Nat BY <1>2 DEF ListenSockets
<1>4. RecordInv(s) BY <1>2, <1>3 DEF RecordInv
<1> QED BY <1>4 DEF s

\* A new connection is queued, and a suspended thread woken for it if there is one.
LEMMA AdmitInv ==
  ASSUME NEW l, NEW a \in Acceptors, NEW addr \in Clients, NEW seg \in SegmentMeta,
         RecordInv(l), l.open, MayWake(l, a), Len(l.queue) < l.backlog,
         "SYN" \in seg.flags, seg.flags \cap {"RST", "ACK"} = {}
  PROVE  RecordInv([Admit(l, To(addr, seg), a) EXCEPT !.out = <<>>])
<1> DEFINE x == To(addr, seg)
           s == [Admit(l, x, a) EXCEPT !.out = <<>>]
<1>1. l \in ListenSockets BY DEF RecordInv
<1>2. x \in Addressed /\ x.seg = seg BY DEF To, Addressed
<1> HIDE DEF x
<1>3. /\ l.queue \in Seq(Addressed)
      /\ Append(l.queue, x) \in Seq(Addressed)
      /\ Len(Append(l.queue, x)) = Len(l.queue) + 1
      /\ \A i \in 1 .. Len(l.queue) : Append(l.queue, x)[i] = l.queue[i]
      /\ Append(l.queue, x)[Len(l.queue) + 1] = x
      /\ Len(l.queue) \in Nat /\ l.backlog \in Nat
  BY <1>1, <1>2 DEF ListenSockets
<1>4. /\ s \in ListenSockets
      /\ s.queue = Append(l.queue, x) /\ s.backlog = l.backlog /\ s.open = l.open
      /\ s.suspended = l.suspended \ {a} /\ s.failed = l.failed
      /\ s.woken = l.woken \cup (l.suspended \cap {a})
  <2> DEFINE d == Admit(l, x, a)
  <2>1. /\ d \in ListenSockets
        /\ d.queue = Append(l.queue, x) /\ d.backlog = l.backlog /\ d.open = l.open
        /\ d.suspended = l.suspended \ {a} /\ d.failed = l.failed
        /\ d.woken = l.woken \cup (l.suspended \cap {a})
    BY <1>1, <1>3 DEF Admit, ListenSockets
  <2> HIDE DEF d
  <2>2. LET q == [d EXCEPT !.out = <<>>]
        IN /\ q \in ListenSockets
           /\ q.queue = d.queue /\ q.backlog = d.backlog /\ q.open = d.open
           /\ q.suspended = d.suspended /\ q.woken = d.woken /\ q.failed = d.failed
    BY <2>1, QuietFields
  <2> QED BY <2>1, <2>2 DEF d
<1> HIDE DEF s
<1>5. s.suspended \cap (s.woken \cup s.failed) = {} BY <1>4 DEF RecordInv
<1>6. s.suspended # {} => Len(s.queue) <= Cardinality(s.woken)
  <2> SUFFICES ASSUME s.suspended # {} PROVE Len(s.queue) <= Cardinality(s.woken)
    OBVIOUS
  <2>1. a \in l.suspended BY <1>4 DEF MayWake
  <2>2. a \notin l.woken /\ s.woken = l.woken \cup {a} BY <2>1, <1>4 DEF RecordInv
  <2>3. l.woken \in SUBSET Acceptors BY <1>1 DEF ListenSockets
  <2>4. Cardinality(l.woken) \in Nat /\ Cardinality(s.woken) = Cardinality(l.woken) + 1
    BY <2>2, <2>3, ThreadSets
  <2>5. Len(l.queue) <= Cardinality(l.woken) BY <2>1 DEF RecordInv
  <2> QED BY <1>3, <1>4, <2>4, <2>5
<1>7. Len(s.queue) <= s.backlog BY <1>3, <1>4
<1>8. \A i \in 1 .. Len(s.queue) :
        "SYN" \in s.queue[i].seg.flags /\ s.queue[i].seg.flags \cap {"RST", "ACK"} = {}
  <2> SUFFICES ASSUME NEW i \in 1 .. Len(s.queue)
               PROVE  "SYN" \in s.queue[i].seg.flags /\ s.queue[i].seg.flags \cap {"RST", "ACK"} = {}
    OBVIOUS
  <2>1. CASE i \in 1 .. Len(l.queue) BY <2>1, <1>3, <1>4 DEF RecordInv
  <2>2. CASE i = Len(l.queue) + 1 BY <2>2, <1>2, <1>3, <1>4
  <2> QED BY <2>1, <2>2, <1>3, <1>4
<1>9. RecordInv(s) BY <1>4, <1>5, <1>6, <1>7, <1>8 DEF RecordInv
<1> QED BY <1>9 DEF s, x

\* What is sent is not part of the invariant.
LEMMA OutKeeps ==
  ASSUME NEW l, NEW out \in Seq(Addressed), RecordInv(l)
  PROVE  RecordInv([[l EXCEPT !.out = out] EXCEPT !.out = <<>>])
<1> DEFINE s == [[l EXCEPT !.out = out] EXCEPT !.out = <<>>]
<1>1. l \in ListenSockets BY DEF RecordInv
<1>2. /\ s \in ListenSockets
      /\ s.queue = l.queue /\ s.backlog = l.backlog /\ s.open = l.open
      /\ s.suspended = l.suspended /\ s.woken = l.woken /\ s.failed = l.failed
  <2> DEFINE d == [l EXCEPT !.out = out]
  <2>1. /\ d \in ListenSockets
        /\ d.queue = l.queue /\ d.backlog = l.backlog /\ d.open = l.open
        /\ d.suspended = l.suspended /\ d.woken = l.woken /\ d.failed = l.failed
    BY <1>1 DEF ListenSockets
  <2> HIDE DEF d
  <2>2. LET q == [d EXCEPT !.out = <<>>]
        IN /\ q \in ListenSockets
           /\ q.queue = d.queue /\ q.backlog = d.backlog /\ q.open = d.open
           /\ q.suspended = d.suspended /\ q.woken = d.woken /\ q.failed = d.failed
    BY <2>1, QuietFields
  <2> QED BY <2>1, <2>2 DEF d
<1> HIDE DEF s
<1>3. RecordInv(s) BY <1>2 DEF RecordInv
<1> QED BY <1>3 DEF s

\* on_segment: each of its early returns, and the admission at its end.
LEMMA ListenOnSegmentInv ==
  ASSUME NEW l, NEW a \in Acceptors, NEW addr \in Clients, NEW seg \in SegmentMeta,
         RecordInv(l), MayWake(l, a)
  PROVE  RecordInv([ListenOnSegment(l, addr, seg, a) EXCEPT !.out = <<>>])
<1> DEFINE s == ListenOnSegment(l, addr, seg, a)
<1>1. l \in ListenSockets BY DEF RecordInv
<1>2. l = [l EXCEPT !.out = l.out] /\ l.out \in Seq(Addressed) BY <1>1 DEF ListenSockets
<1>7. To(addr, seg) \in Addressed /\ To(addr, seg).addr = addr /\ To(addr, seg).seg = seg
  BY DEF To, Addressed
<1>3. CASE s = l
  <2>1. RecordInv([[l EXCEPT !.out = l.out] EXCEPT !.out = <<>>]) BY <1>2, OutKeeps
  <2> QED BY <2>1, <1>2, <1>3
<1>4. CASE \E out \in Seq(Addressed) : s = [l EXCEPT !.out = out]
  <2>1. PICK out \in Seq(Addressed) : s = [l EXCEPT !.out = out] BY <1>4
  <2>2. RecordInv([[l EXCEPT !.out = out] EXCEPT !.out = <<>>]) BY OutKeeps
  <2> QED BY <2>1, <2>2
<1>5. CASE /\ s = Admit(l, To(addr, seg), a)
           /\ l.open /\ "SYN" \in seg.flags /\ seg.flags \cap {"RST", "ACK"} = {}
           /\ ~(Len(l.queue) >= l.backlog)
  <2>1. Len(l.queue) < l.backlog BY <1>1, <1>5 DEF ListenSockets
  <2>2. RecordInv([Admit(l, To(addr, seg), a) EXCEPT !.out = <<>>]) BY <1>5, <2>1, AdmitInv
  <2> QED BY <1>5, <2>2
<1>6. \/ s = l
      \/ \E out \in Seq(Addressed) : s = [l EXCEPT !.out = out]
      \/ /\ s = Admit(l, To(addr, seg), a)
         /\ l.open /\ "SYN" \in seg.flags /\ seg.flags \cap {"RST", "ACK"} = {}
         /\ ~(Len(l.queue) >= l.backlog)
  <2>1. CASE "RST" \in seg.flags BY <2>1 DEF ListenOnSegment
  <2>2. CASE "RST" \notin seg.flags /\ ("ACK" \in seg.flags \/ ~l.open)
    <3>1. s = [l EXCEPT !.out = Append(l.out, Refusal(To(addr, seg)))] BY <2>2 DEF ListenOnSegment
    <3>2. Append(l.out, Refusal(To(addr, seg))) \in Seq(Addressed) BY <1>2, <1>7, RefusalType
    <3> QED BY <3>1, <3>2
  <2>3. CASE /\ "RST" \notin seg.flags /\ "ACK" \notin seg.flags /\ l.open
             /\ "SYN" \notin seg.flags
    BY <2>3 DEF ListenOnSegment
  <2>4. CASE /\ "RST" \notin seg.flags /\ "ACK" \notin seg.flags /\ l.open
             /\ "SYN" \in seg.flags /\ Len(l.queue) >= l.backlog
    <3>1. s = [l EXCEPT !.out = Append(l.out, To(addr, Control({"RST", "ACK"},
                                                wrapping_add(seg.ackn, 1), 0, 0)))]
      BY <2>4 DEF ListenOnSegment
    <3>2. To(addr, Control({"RST", "ACK"}, wrapping_add(seg.ackn, 1), 0, 0)) \in Addressed
      BY <1>7, RefusalType
    <3>3. Append(l.out, To(addr, Control({"RST", "ACK"}, wrapping_add(seg.ackn, 1), 0, 0)))
            \in Seq(Addressed)
      BY <1>2, <3>2
    <3> QED BY <3>1, <3>3
  <2>5. CASE /\ "RST" \notin seg.flags /\ "ACK" \notin seg.flags /\ l.open
             /\ "SYN" \in seg.flags /\ ~(Len(l.queue) >= l.backlog)
    <3>1. s = Admit(l, To(addr, seg), a) BY <2>5 DEF ListenOnSegment
    <3>2. seg.flags \cap {"RST", "ACK"} = {} BY <2>5
    <3> QED BY <2>5, <3>1, <3>2
  <2> QED BY <2>1, <2>2, <2>3, <2>4, <2>5
<1> HIDE DEF s
<1> QED BY <1>3, <1>4, <1>5, <1>6

-----------------------------------------------------------------------------
\* A socket that is not listening is new.
LEMMA ClosedOrListen ==
  ASSUME ListenTypeOK
  PROVE  \/ socket = SocketNew
         \/ Listening /\ socket = OfListen(socket.listen)
<1>1. CASE socket \in [inner : {"Closed"}, out : {<<>>}] BY <1>1 DEF SocketNew
<1>2. CASE socket \in [inner : {"Listen"}, listen : ListenSockets]
  BY <1>2 DEF OfListen, Listening
<1> QED BY <1>1, <1>2 DEF ListenTypeOK

\* What every step below ends with.
LEMMA BecomesListener ==
  ASSUME NEW l, RecordInv(l), socket' = OfListen(l)
  PROVE  ListenInv'
BY DEF OfListen, RecordInv, ListenInv, ListenTypeOK, NoLostWakeup, BacklogSound, Listening

\* A socket that is new again needs nothing.
LEMMA StaysNew ==
  ASSUME socket' = SocketNew
  PROVE  ListenInv'
BY DEF SocketNew, ListenInv, ListenTypeOK, NoLostWakeup, BacklogSound, Listening

\* What every step below starts from.
LEMMA ListenerRecord ==
  ASSUME ListenInv, Listening
  PROVE  RecordInv(socket.listen)
<1>1. socket = OfListen(socket.listen)
  BY ClosedOrListen DEF ListenInv, Listening, SocketNew
<1> QED BY <1>1, RecordSuffices

\* on_segment of the socket, whatever it is.
LEMMA ArriveInv ==
  ASSUME ListenInv, NEW addr \in Clients, NEW seg \in SegmentMeta, NEW a \in Acceptors,
         Arrive(addr, seg, a)
  PROVE  ListenInv'
<1>1. CASE socket = SocketNew
  <2> DEFINE s == SocketOnSegment(socket, addr, seg, 0, a)
  <2>1. s.inner = "Closed"
    BY <1>1 DEF SocketOnSegment, SocketNew
  <2> HIDE DEF s
  <2>2. Quiet(s) = SocketNew BY <2>1 DEF Quiet
  <2>3. socket' = Quiet(s) BY DEF Arrive, Arrived, s
  <2> QED BY <2>2, <2>3, StaysNew
<1>2. CASE Listening
  <2> DEFINE l == ListenOnSegment(socket.listen, addr, seg, a)
             s == SocketOnSegment(socket, addr, seg, 0, a)
  <2>1. s = OfListen(l) BY <1>2 DEF SocketOnSegment, Listening
  <2>2. MayWake(socket.listen, a) BY <1>2 DEF Arrive, Wakes
  <2>3. RecordInv([l EXCEPT !.out = <<>>])
    BY <1>2, <2>2, ListenerRecord, ListenOnSegmentInv
  <2>4. socket' = Quiet(s) BY DEF Arrive, Arrived
  <2> HIDE DEF l, s
  <2>5. socket' = OfListen([l EXCEPT !.out = <<>>])
    BY <2>1, <2>4, OfListenFields DEF Quiet
  <2> QED BY <2>3, <2>5, BecomesListener
<1> QED BY <1>1, <1>2, ClosedOrListen DEF ListenInv

\* call_close and call_abort of a listener.
LEMMA StopInv ==
  ASSUME ListenInv, NEW call, StopListen(call)
  PROVE  ListenInv'
<1> DEFINE l == ListenClose(socket.listen)
           s == Stopped(call)
<1>1. Listening /\ socket' = Quiet(s) BY DEF StopListen
<1>2. s = OfListen(l) BY <1>1 DEF Stopped, SocketCall, Listening
<1>3. RecordInv([l EXCEPT !.out = <<>>]) BY <1>1, ListenerRecord, ListenCloseInv
<1> HIDE DEF l, s
<1>4. socket' = OfListen([l EXCEPT !.out = <<>>]) BY <1>1, <1>2, OfListenFields DEF Quiet
<1> QED BY <1>3, <1>4, BecomesListener

\* call_accept in its three cases.
LEMMA AcceptInv ==
  ASSUME ListenInv, NEW a \in Acceptors, AcceptNow(a) \/ AcceptWait(a) \/ AcceptClosed(a)
  PROVE  ListenInv'
<1>1. Listening /\ RecordInv(socket.listen)
  BY ListenerRecord DEF AcceptNow, AcceptWait, AcceptClosed
<1>2. a \notin socket.listen.failed
  BY DEF AcceptNow, AcceptWait, AcceptClosed, FreeAcceptor
<1>3. CASE AcceptNow(a)
  <2>1. RecordInv(ListenAccept(Resumed(a)))
    BY <1>1, <1>3, AcceptNowInv DEF AcceptNow, Resumed
  <2> QED BY <1>3, <2>1, BecomesListener DEF AcceptNow
<1>4. CASE AcceptWait(a)
  <2>1. RecordInv(ListenSuspend(Resumed(a), a))
    BY <1>1, <1>2, <1>4, AcceptWaitInv DEF AcceptWait, Resumed
  <2> QED BY <1>4, <2>1, BecomesListener DEF AcceptWait
<1>5. CASE AcceptClosed(a)
  <2>1. RecordInv([Resumed(a) EXCEPT !.failed = @ \cup {a}])
    BY <1>1, <1>5, AcceptClosedInv DEF AcceptClosed, Resumed
  <2> QED BY <1>5, <2>1, BecomesListener DEF AcceptClosed
<1> QED BY <1>3, <1>4, <1>5

\* Every step of the listening socket keeps its invariant.
LEMMA ListenStep ==
  ASSUME ListenInv, [ListenNext]_socket
  PROVE  ListenInv'
<1>1. CASE StartListen
  <2>1. socket' = OfListen(NewListen(Backlog)) BY <1>1 DEF StartListen, SocketListen
  <2> QED BY <2>1, NewListenInv, BecomesListener
<1>2. CASE \E a \in Acceptors : AcceptNow(a) \/ AcceptWait(a) \/ AcceptClosed(a)
  BY <1>2, AcceptInv
<1>3. CASE \E call \in {"close", "abort"} : StopListen(call) BY <1>3, StopInv
<1>4. CASE \E addr \in Clients, seg \in SegmentMeta, a \in Acceptors : Arrive(addr, seg, a)
  BY <1>4, ArriveInv
<1>5. CASE UNCHANGED socket
  BY <1>5 DEF ListenInv, ListenTypeOK, NoLostWakeup, BacklogSound, Listening
<1> QED BY <1>1, <1>2, <1>3, <1>4, <1>5 DEF ListenNext

\* The invariant of the listening socket.
THEOREM ListenInvariance == ListenSpec => []ListenInv
<1>1. ListenInit => ListenInv
  BY DEF ListenInit, SocketNew, ListenInv, ListenTypeOK, NoLostWakeup, BacklogSound, Listening
<1>2. ListenInv /\ [ListenNext]_socket => ListenInv' BY ListenStep
<1> QED BY <1>1, <1>2, PTL DEF ListenSpec

\* listen.rs, lib.rs: whatever arrives and whoever calls, the socket keeps its type
\* and no cookie is triggered twice.
THEOREM ListenTypeCorrect == ListenSpec => []ListenTypeOK
<1>1. ListenInv => ListenTypeOK BY DEF ListenInv
<1> QED BY <1>1, ListenInvariance, PTL

\* listen.rs on_segment, call_accept: for any number of accepting threads, no
\* connection stays in the queue while all of them sleep.
THEOREM WakeupNeverLost == ListenSpec => []NoLostWakeup
<1>1. ListenInv => NoLostWakeup BY DEF ListenInv
<1> QED BY <1>1, ListenInvariance, PTL

\* listen.rs: the backlog is a bound, holds only SYNs that a new connection accepts,
\* and nobody is left in it or suspended by call_close.
THEOREM BacklogCorrect == ListenSpec => []BacklogSound
<1>1. ListenInv => BacklogSound BY DEF ListenInv
<1> QED BY <1>1, ListenInvariance, PTL
=============================================================================
