------------------------------ MODULE Listener ------------------------------
(***************************************************************************)
(* A server's listening socket with the threads that accept on it: any     *)
(* segment may arrive, the threads call call_accept and wait for its       *)
(* event, somebody closes the socket.  What holds here holds of the socket *)
(* whatever the clients and the network do.                                *)
(***************************************************************************)
EXTENDS Socket

VARIABLE socket

Listening == socket.inner = "Listen"

\* A thread that waits for its event, or that has seen the socket closed, makes
\* no call.
FreeAcceptor(a) == a \notin socket.listen.suspended \cup socket.listen.failed

\* The thread takes the event that woke it, if one did.
Resumed(a) == [socket.listen EXCEPT !.woken = @ \ {a}]

StartListen ==
  /\ CanOpen(socket)
  /\ socket' = SocketListen(socket, Backlog)

AcceptNow(a) ==
  /\ Listening /\ FreeAcceptor(a)
  /\ CanAccept(socket.listen)
  /\ socket' = OfListen(ListenAccept(Resumed(a)))

AcceptWait(a) ==
  /\ Listening /\ FreeAcceptor(a)
  /\ MustWait(socket.listen)
  /\ socket' = OfListen(ListenSuspend(Resumed(a), a))

\* call_accept on a closed socket fails, and the thread ends.
AcceptClosed(a) ==
  /\ Listening /\ FreeAcceptor(a)
  /\ ~socket.listen.open
  /\ socket' = OfListen([Resumed(a) EXCEPT !.failed = @ \cup {a}])

Stopped(call) == SocketCall(socket, call, <<>>, 0)
StopListen(call) ==
  /\ Listening /\ CanCall(socket, call)
  /\ socket' = Quiet(Stopped(call))

\* A segment arrives; a is the thread it wakes if it wakes one.
Wakes(a) == Listening => MayWake(socket.listen, a)
Arrived(addr, seg, a) == SocketOnSegment(socket, addr, seg, 0, a)
Arrive(addr, seg, a) == Wakes(a) /\ socket' = Quiet(Arrived(addr, seg, a))

ListenInit == socket = SocketNew

ListenNext ==
  \/ StartListen
  \/ \E a \in Acceptors : AcceptNow(a) \/ AcceptWait(a) \/ AcceptClosed(a)
  \/ \E call \in {"close", "abort"} : StopListen(call)
  \/ \E addr \in Clients, seg \in SegmentMeta, a \in Acceptors : Arrive(addr, seg, a)

ListenSpec == ListenInit /\ [][ListenNext]_socket

-----------------------------------------------------------------------------
\* listen.rs, lib.rs: the socket and the SYNs of its queue keep their types, and an
\* accept is suspended or has got its event, never both: a cookie is used once.
ListenTypeOK ==
  /\ socket \in [inner : {"Closed"}, out : {<<>>}] \cup [inner : {"Listen"}, listen : ListenSockets]
  /\ Listening =>
       socket.listen.suspended \cap (socket.listen.woken \cup socket.listen.failed) = {}

\* listen.rs on_segment, call_accept: while threads are suspended there is a woken
\* one for each connection in the queue.  An arrival wakes one thread only, and
\* another thread may take the connection first.
NoLostWakeup ==
  Listening /\ socket.listen.suspended # {} =>
    Len(socket.listen.queue) <= Cardinality(socket.listen.woken)

\* listen.rs: the queue holds at most backlog connections, each the bare SYN that
\* the new connection of call_accept expects, and is empty for good once the socket
\* is closed; nobody waits on a closed socket.
BacklogSound ==
  Listening =>
    LET l == socket.listen
    IN /\ Len(l.queue) <= l.backlog
       /\ \A i \in 1 .. Len(l.queue) :
            "SYN" \in l.queue[i].seg.flags /\ l.queue[i].seg.flags \cap {"RST", "ACK"} = {}
       /\ ~l.open => l.queue = <<>> /\ l.suspended = {}
=============================================================================
