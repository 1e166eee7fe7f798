------------------------------- MODULE Server -------------------------------
(***************************************************************************)
(* Clients that connect to a server, over a network that loses segments:   *)
(* the Listener composed with the connections it accepts and with the      *)
(* sockets of the clients.                                                 *)
(*                                                                         *)
(* As the ListenCtx of src/tests/common does, the server gives a segment   *)
(* to the connection it has accepted from that client, and to the          *)
(* listening socket if it has none; an accepting thread registers the      *)
(* connection after call_accept has returned it.                           *)
(***************************************************************************)
EXTENDS Listener

CONSTANTS
  ClientIsns,  \* user_data.new_seqn() of a client, one for each call_connect
  ServerIsns,  \* user_data.new_seqn() of the server, in turn
  Calls,       \* the calls the clients make after call_connect
  ServerCalls, \* the calls the server makes on the connections it has accepted
  Faults,      \* what the network may do to a segment
  MaxFaults,   \* bound: how often it does
  MaxInFlight  \* bound: timers expire with fewer segments in flight

ASSUME ServerAssumption ==
  /\ ClientIsns \in [Clients -> Seq(SeqN)]
  /\ ServerIsns \in Seq(SeqN) \ {<<>>}
  /\ Calls \subseteq CallNames /\ ServerCalls \subseteq CallNames
  /\ Faults \subseteq {"lose", "copy"}
  /\ MaxFaults \in Nat /\ MaxInFlight \in Nat

VARIABLES
  client,    \* the socket of each client
  connects,  \* how often each client has called call_connect
  clock,     \* which of ServerIsns comes next
  hand,      \* the connection each acceptor has got and not yet registered
  accepted,  \* the connection the server has registered for each client
  to_server, \* the segments in flight from each client, oldest first
  to_client, \* the segments in flight to each client, oldest first
  faults     \* how many faults the network has made

network == <<to_server, to_client>>
vars == <<socket, client, connects, clock, hand, accepted, to_server, to_client, faults>>

Nobody == [addr |-> "none", socket |-> SocketNew]

Init ==
  /\ ListenInit
  /\ client = [c \in Clients |-> SocketNew]
  /\ connects = [c \in Clients |-> 0]
  /\ clock = 1
  /\ hand = [a \in Acceptors |-> Nobody]
  /\ accepted = [c \in Clients |-> SocketNew]
  /\ to_server = [c \in Clients |-> <<>>]
  /\ to_client = [c \in Clients |-> <<>>]
  /\ faults = 0

-----------------------------------------------------------------------------
\* The segments of out that go to c, in their order.
Segs(out, c) ==
  LET first[n \in 0 .. Len(out)] ==
        IF n = 0 THEN <<>>
        ELSE IF out[n].addr = c THEN Append(first[n - 1], out[n].seg)
        ELSE first[n - 1]
  IN first[Len(out)]

\* The segments the server has sent are in flight to their clients.
ServerSends(out) == to_client' = [c \in Clients |-> to_client[c] \o Segs(out, c)]

\* The server's connection with c becomes s.
AcceptedBecomes(c, s) ==
  /\ accepted' = [accepted EXCEPT ![c] = Quiet(s)]
  /\ ServerSends(Sent(s, c))

\* The socket of client c becomes s, with in_flight left to be delivered to it.
ClientBecomes(c, s, in_flight) ==
  /\ client' = [client EXCEPT ![c] = Quiet(s)]
  /\ to_server' = [to_server EXCEPT ![c] = @ \o Segs(Sent(s, c), c)]
  /\ to_client' = [to_client EXCEPT ![c] = in_flight]

Connect(c) ==
  /\ CanOpen(client[c])
  /\ connects[c] < Len(ClientIsns[c])
  /\ ClientBecomes(c, SocketConnect(client[c], ClientIsns[c][connects[c] + 1]), to_client[c])
  /\ connects' = [connects EXCEPT ![c] = @ + 1]
  /\ UNCHANGED <<socket, clock, hand, accepted, faults>>

\* A socket whose method panicked is gone.
Running(s) == s.inner = "Connection" => s.conn.panic = "none"

\* The application may make the call from a thread that is not suspended.  Bound:
\* it writes one byte on a connection.
MayCall(s, call) ==
  /\ s.inner = "Connection" /\ Running(s)
  /\ CanCall(s, call)
  /\ call # "abort" => s.conn.wait[CallerOf[call]] = NoWait
  /\ call = "send" => /\ s.conn.tx = <<>> /\ ~s.conn.tx_fin
                      /\ s.conn.next = wrapping_add(s.conn.init_seqn, 1)

ClientCall(c) ==
  /\ \E call \in Calls :
       /\ MayCall(client[c], call)
       /\ ClientBecomes(c, SocketCall(client[c], call, <<1>>, 1), to_client[c])
  /\ UNCHANGED <<socket, connects, clock, hand, accepted, faults>>

AcceptedCall(c) ==
  /\ \E call \in ServerCalls :
       /\ MayCall(accepted[c], call)
       /\ AcceptedBecomes(c, SocketCall(accepted[c], call, <<1>>, 1))
  /\ UNCHANGED <<socket, client, connects, clock, hand, to_server, faults>>

-----------------------------------------------------------------------------
ServerListens ==
  /\ StartListen
  /\ UNCHANGED <<client, connects, clock, hand, accepted, network, faults>>

ServerStops ==
  /\ \E call \in {"close", "abort"} :
       /\ StopListen(call)
       /\ ServerSends(Sent(Stopped(call), "none"))
  /\ UNCHANGED <<client, connects, clock, hand, accepted, to_server, faults>>

NewSeqn == clock' = (clock % Len(ServerIsns)) + 1

\* The new connection has answered the SYN when call_accept returns.
Accept(a) ==
  /\ hand[a] = Nobody
  /\ \/ /\ AcceptNow(a)
        /\ LET addr == Head(socket.listen.queue).addr
               s == OfConnection(AcceptedConnection(socket.listen, ServerIsns[clock]))
           IN /\ hand' = [hand EXCEPT ![a] = [addr |-> addr, socket |-> Quiet(s)]]
              /\ ServerSends(Sent(s, addr))
        /\ NewSeqn
     \/ /\ AcceptWait(a) \/ AcceptClosed(a)
        /\ UNCHANGED <<clock, hand, to_client>>
  /\ UNCHANGED <<client, connects, accepted, to_server, faults>>

\* The connection takes the place of an earlier one with the same client, which
\* gets no more segments and ticks.
Register(a) ==
  /\ hand[a] # Nobody
  /\ accepted' = [accepted EXCEPT ![hand[a].addr] = hand[a].socket]
  /\ hand' = [hand EXCEPT ![a] = Nobody]
  /\ UNCHANGED <<socket, client, connects, clock, network, faults>>

-----------------------------------------------------------------------------
HasConnection(c) == accepted[c].inner = "Connection"

\* The server handles the oldest segment from c, leaving in_flight.
ServerReceives(c, in_flight) ==
  /\ to_server[c] # <<>> /\ Running(accepted[c])
  /\ LET seg == Head(to_server[c])
     IN IF HasConnection(c)
        THEN /\ AcceptedBecomes(c, SocketOnSegment(accepted[c], c, seg, ServerIsns[clock], "none"))
             /\ IF SocketState(accepted[c]) = Listen THEN NewSeqn ELSE UNCHANGED clock
             /\ UNCHANGED socket
        ELSE \E a \in Acceptors :
               /\ Arrive(c, seg, a)
               /\ ServerSends(Sent(Arrived(c, seg, a), "none"))
               /\ UNCHANGED <<accepted, clock>>
  /\ to_server' = [to_server EXCEPT ![c] = in_flight]
  /\ UNCHANGED <<client, connects, hand>>

ClientReceives(c, in_flight) ==
  /\ to_client[c] # <<>> /\ Running(client[c])
  /\ ClientBecomes(c, SocketOnSegment(client[c], c, Head(to_client[c]), 0, "none"), in_flight)
  /\ UNCHANGED <<socket, connects, clock, hand, accepted>>

DeliverToServer(c) == ServerReceives(c, Tail(to_server[c])) /\ UNCHANGED faults
DeliverToClient(c) == ClientReceives(c, Tail(to_client[c])) /\ UNCHANGED faults

Fault(kind) ==
  /\ kind \in Faults
  /\ faults < MaxFaults
  /\ faults' = faults + 1

\* The network loses a segment, or delivers one that it will deliver again.
Lose(c) ==
  /\ Fault("lose")
  /\ \/ to_server[c] # <<>> /\ to_server' = [to_server EXCEPT ![c] = Tail(@)] /\ UNCHANGED to_client
     \/ to_client[c] # <<>> /\ to_client' = [to_client EXCEPT ![c] = Tail(@)] /\ UNCHANGED to_server
  /\ UNCHANGED <<socket, client, connects, clock, hand, accepted>>

Copy(c) ==
  /\ Fault("copy")
  /\ ServerReceives(c, to_server[c]) \/ ClientReceives(c, to_client[c])

\* A timer of s, a socket that talks to or is client c, expires.
MayTick(s, c, timer) ==
  /\ s.inner = "Connection" /\ Running(s)
  /\ IF timer = "re_tx" THEN s.conn.timer_re_tx ELSE s.conn.timer_timewait
  /\ Len(to_server[c]) + Len(to_client[c]) < MaxInFlight

TickClient(c, timer) ==
  /\ MayTick(client[c], c, timer)
  /\ ClientBecomes(c, SocketOnTimeTick(client[c], {timer}), to_client[c])
  /\ UNCHANGED <<socket, connects, clock, hand, accepted, faults>>

TickAccepted(c, timer) ==
  /\ MayTick(accepted[c], c, timer)
  /\ AcceptedBecomes(c, SocketOnTimeTick(accepted[c], {timer}))
  /\ UNCHANGED <<socket, client, connects, clock, hand, to_server, faults>>

Timers == {"re_tx", "timewait"}

Next ==
  \/ ServerListens \/ ServerStops
  \/ \E a \in Acceptors : Accept(a) \/ Register(a)
  \/ \E c \in Clients :
       \/ Connect(c) \/ ClientCall(c) \/ AcceptedCall(c)
       \/ DeliverToServer(c) \/ DeliverToClient(c) \/ Lose(c) \/ Copy(c)
       \/ \E timer \in Timers : TickClient(c, timer) \/ TickAccepted(c, timer)

Spec == Init /\ [][Next]_vars

-----------------------------------------------------------------------------
(* Fairness: the network delivers what it does not lose, retransmission     *)
(* timers expire, and the accepting threads accept and register.  As in Tcp *)
(* the guard of an action stands for its ENABLED.                           *)

MayAccept(a) == hand[a] = Nobody /\ Listening /\ FreeAcceptor(a)

Fairness ==
  /\ \A a \in Acceptors :
       /\ []<>~MayAccept(a) \/ []<><<Accept(a)>>_vars
       /\ WF_vars(Register(a))
  /\ \A c \in Clients :
       /\ \/ []<>~(to_server[c] # <<>> /\ Running(accepted[c]))
          \/ []<><<DeliverToServer(c)>>_vars
       /\ \/ []<>~(to_client[c] # <<>> /\ Running(client[c]))
          \/ []<><<DeliverToClient(c)>>_vars
       /\ \/ <>[]~MayTick(client[c], c, "re_tx")
          \/ []<><<TickClient(c, "re_tx")>>_vars
       /\ \/ <>[]~MayTick(accepted[c], c, "re_tx")
          \/ []<><<TickAccepted(c, "re_tx")>>_vars

FairSpec == Spec /\ Fairness

-----------------------------------------------------------------------------
\* listen.rs, connection.rs: every call_connect comes to an end, by a connection or
\* by a refusal: with the backlog full, the listening socket closed at any moment,
\* a SYN or SYN-ACK lost, copied or retransmitted, an earlier connection of the
\* client still registered.
Connecting(c) == SocketState(client[c]) = SynSent
Settles == \A c \in Clients : Connecting(c) ~> ~Connecting(c)

\* listen.rs call_accept, connection.rs on_segment: when the two ends are both
\* established they are ends of the same connection.  Several connections may have
\* been made for the SYNs of one client.
HandshakeAgrees ==
  \A c \in Clients :
    SocketState(client[c]).kind = "Established" /\ SocketState(accepted[c]).kind = "Established" =>
      LET x == client[c].conn
          y == accepted[c].conn
      IN /\ in_range_inclusive(y.ackd, x.unack, x.next)
         /\ in_range_inclusive(x.ackd, y.unack, y.next)
=============================================================================
