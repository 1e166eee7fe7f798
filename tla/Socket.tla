------------------------------- MODULE Socket -------------------------------
(***************************************************************************)
(* The socket of src/src/lib.rs: closed, a connection or a listener, with  *)
(* the calls, segments and ticks dispatched to what it is.                 *)
(*                                                                         *)
(* A closed socket has an `out' of its own for what it answers.  The       *)
(* options of a socket are the constants of Connection.                    *)
(***************************************************************************)
EXTENDS ListenSocket

\* SocketInner, and the conversions From<Connection> and From<ListenSocket>.
\* SwapTemp is never seen between two methods.
SocketNew == [inner |-> "Closed", out |-> <<>>]
OfConnection(c) == [inner |-> "Connection", conn |-> c]
OfListen(l) == [inner |-> "Listen", listen |-> l]

Sockets == [inner : {"Closed"}, out : Seq(Addressed)]
           \cup [inner : {"Connection"}, conn : Connections]
           \cup [inner : {"Listen"}, listen : ListenSockets]

\* Socket::state
SocketState(s) ==
  CASE s.inner = "Closed" -> Closed
    [] s.inner = "Listen" -> Listen
    [] s.inner = "Connection" -> s.conn.state

\* call_connect and call_listen are for closed sockets; a closed connection is
\* replaced by a new one.
CanOpen(s) == SocketState(s) = Closed
SocketConnect(s, new_seqn) == OfConnection(CallConnect(New, new_seqn))
SocketListen(s, backlog) == OfListen(NewListen(backlog))

\* The calls on a connection or a listener, with the thread that waits for each.
\* A listener has only one way to end.
CallNames == {"send", "recv", "shutdown", "close", "abort"}
CallerOf == [send |-> "writer", recv |-> "reader", shutdown |-> "closer",
             close |-> "closer", abort |-> "opener"]

CanCall(s, call) ==
  \/ s.inner = "Listen" /\ call \in {"close", "abort"}
  \/ s.inner = "Connection" /\ CASE call = "send" -> CanSend(s.conn)
                                 [] call = "recv" -> CanRecv(s.conn)
                                 [] call = "shutdown" -> CanShutdown(s.conn)
                                 [] call = "close" -> CanClose(s.conn)
                                 [] call = "abort" -> CanAbort(s.conn)

\* data and n are the arguments of call_send and call_recv.
SocketCall(s, call, data, n) ==
  IF s.inner = "Listen" THEN OfListen(ListenClose(s.listen))
  ELSE OfConnection(CASE call = "send" -> CallSend(s.conn, data)
                      [] call = "recv" -> CallRecv(s.conn, n)
                      [] call = "shutdown" -> CallShutdown(s.conn)
                      [] call = "close" -> CallClose(s.conn)
                      [] call = "abort" -> CallAbort(s.conn))

\* on_segment; new_seqn and a as in OnSegment and ListenOnSegment.
SocketOnSegment(s, src, seg, new_seqn, a) ==
  CASE s.inner = "Closed" ->
         IF "RST" \in seg.flags THEN s
         ELSE [s EXCEPT !.out = Append(@, To(src, response_to_closed(seg)))]
    [] s.inner = "Listen" -> OfListen(ListenOnSegment(s.listen, src, seg, a))
    [] s.inner = "Connection" -> OfConnection(OnSegment(s.conn, seg, new_seqn))

\* on_time_tick
SocketOnTimeTick(s, expired) ==
  IF s.inner = "Connection" THEN OfConnection(OnTimeTick(s.conn, expired)) ELSE s

-----------------------------------------------------------------------------
\* What a method has sent, and the socket without it.
Sent(s, remote) ==
  CASE s.inner = "Closed" -> s.out
    [] s.inner = "Listen" -> s.listen.out
    [] s.inner = "Connection" -> [i \in 1 .. Len(s.conn.out) |-> To(remote, s.conn.out[i])]

Quiet(s) ==
  CASE s.inner = "Closed" -> SocketNew
    [] s.inner = "Listen" -> OfListen([s.listen EXCEPT !.out = <<>>])
    [] s.inner = "Connection" -> OfConnection([s.conn EXCEPT !.out = <<>>])
=============================================================================
