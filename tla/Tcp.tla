-------------------------------- MODULE Tcp --------------------------------
(***************************************************************************)
(* A client and a server connection over an unreliable network.            *)
(*                                                                         *)
(* Each peer is a Connection driven by its application (call_ methods),    *)
(* by the segments the network delivers (on_segment) and by its timers     *)
(* (on_time_tick).  The network is what the user of the library supplies:  *)
(* it may delay, reorder, lose and duplicate segments.                     *)
(***************************************************************************)
EXTENDS Connection, SequencesExt

CONSTANTS
  Isn,         \* user_data.new_seqn() of each peer
  Calls,       \* the calls each application makes
  MaxWritten,  \* bound: bytes each application writes
  Writes,      \* sizes of call_send
  Reads,       \* buffer sizes of call_recv
  Orderly,     \* the applications call as those of tests/echo_server.rs do
  LongTimewait,\* time-wait (240 s) outlasts the peer's retransmissions
  Faults,      \* what the network may do to a segment
  MaxFaults,   \* bound: how often it does
  MaxInFlight  \* bound: timers expire with fewer segments in flight

Peers == {"client", "server"}
Other(p) == IF p = "client" THEN "server" ELSE "client"
CallNames == {"send", "recv", "shutdown", "close", "abort"}

ASSUME TcpAssumption ==
  /\ Isn \in [Peers -> SeqN]
  /\ Calls \in [Peers -> SUBSET CallNames]
  /\ MaxWritten \in [Peers -> Nat]
  /\ Writes \subseteq Nat \ {0}
  /\ Reads \subseteq Nat \ {0}
  /\ Orderly \in BOOLEAN /\ LongTimewait \in BOOLEAN
  /\ Faults \subseteq {"lose", "copy", "overtake"}
  /\ MaxFaults \in Nat /\ MaxInFlight \in Nat

VARIABLES
  conn,       \* the connection of each peer
  net,        \* the segments in flight to each peer, oldest first
  connected,  \* the client has made its call_connect
  written,    \* how many bytes the application of each peer has written
  finished,   \* each peer has ended its stream: the FIN mark has been set
  delivered,  \* the bytes call_recv has returned to each application
  faults      \* how many faults the network has made

vars == <<conn, net, connected, written, finished, delivered, faults>>

\* The server's connection is as ListenSocket::call_accept makes it.
Init ==
  /\ conn = [p \in Peers |-> IF p = "client" THEN New ELSE SetState(New, Listen)]
  /\ net = [p \in Peers |-> <<>>]
  /\ connected = FALSE
  /\ written = [p \in Peers |-> 0]
  /\ finished = [p \in Peers |-> FALSE]
  /\ delivered = [p \in Peers |-> <<>>]
  /\ faults = 0

-----------------------------------------------------------------------------
\* Peer p's method leaves the connection c when n is what is in flight to p;
\* what c sends goes to its peer.
BecomesAfter(p, c, n) ==
  /\ conn' = [conn EXCEPT ![p] = [c EXCEPT !.out = <<>>]]
  /\ net' = [net EXCEPT ![p] = n, ![Other(p)] = @ \o c.out]
  /\ finished' = [finished EXCEPT ![p] = @ \/ c.tx_fin]

Becomes(p, c) == BecomesAfter(p, c, net[p])

Running(p) == conn[p].panic = "none"

\* The application of p makes the call, from a thread that is not suspended.
\* An orderly application waits for its connection, and that of the server
\* closes at the end of the client's stream.
Calling(p, call, caller) ==
  /\ Running(p)
  /\ call \in Calls[p]
  /\ conn[p].wait[caller] = NoWait
  /\ Orderly => /\ conn[p].state.kind = "Established"
                /\ call = "close" => p = "client" \/ conn[p].state.rx_state = "Closed"

Connect ==
  /\ ~connected
  /\ Running("client") /\ CanConnect(conn["client"])
  /\ Becomes("client", CallConnect(conn["client"], Isn["client"]))
  /\ connected' = TRUE
  /\ UNCHANGED <<written, delivered, faults>>

\* The application sends nothing after it has shut its channel down.
MayWrite(p) ==
  /\ Calling(p, "send", "writer")
  /\ CanSend(conn[p]) /\ conn[p].state.tx_state = "Open" /\ ~conn[p].tx_fin

Write(p) ==
  /\ MayWrite(p)
  /\ \E n \in Writes :
       /\ written[p] + n <= MaxWritten[p]
       /\ Becomes(p, CallSend(conn[p], [i \in 1 .. n |-> written[p] + i]))
       /\ written' = [written EXCEPT ![p] = @ + n]
  /\ UNCHANGED <<connected, delivered, faults>>

MayRead(p) == Calling(p, "recv", "reader") /\ CanRecv(conn[p])

Read(p) ==
  /\ MayRead(p)
  /\ \E n \in Reads :
       /\ Becomes(p, CallRecv(conn[p], n))
       /\ delivered' = [delivered EXCEPT ![p] = @ \o RecvData(conn[p], n)]
  /\ UNCHANGED <<connected, written, faults>>

MayShutdown(p) == Calling(p, "shutdown", "closer") /\ CanShutdown(conn[p])

Shutdown(p) ==
  /\ MayShutdown(p)
  /\ Becomes(p, CallShutdown(conn[p]))
  /\ UNCHANGED <<connected, written, delivered, faults>>

MayClose(p) == Calling(p, "close", "closer") /\ CanClose(conn[p])

Close(p) ==
  /\ MayClose(p)
  /\ Becomes(p, CallClose(conn[p]))
  /\ UNCHANGED <<connected, written, delivered, faults>>

Abort(p) ==
  /\ Calling(p, "abort", "opener")
  /\ CanAbort(conn[p])
  /\ Becomes(p, CallAbort(conn[p]))
  /\ UNCHANGED <<connected, written, delivered, faults>>

\* on_segment for the i-th segment in flight to p, leaving n in flight.
Arrives(p, i, n) ==
  /\ Running(p)
  /\ BecomesAfter(p, OnSegment(conn[p], net[p][i], Isn[p]), n)
  /\ UNCHANGED <<connected, written, delivered>>

Deliver(p) ==
  /\ net[p] # <<>>
  /\ Arrives(p, 1, Tail(net[p]))
  /\ UNCHANGED faults

Fault(kind) ==
  /\ kind \in Faults
  /\ faults < MaxFaults
  /\ faults' = faults + 1

\* The network delivers a segment before older ones.
Overtake(p) ==
  /\ Fault("overtake")
  /\ \E i \in 2 .. Len(net[p]) : Arrives(p, i, RemoveAt(net[p], i))

\* It delivers a segment that it will deliver again.
Copy(p) ==
  /\ Fault("copy")
  /\ net[p] # <<>>
  /\ Arrives(p, 1, net[p])

Lose(p) ==
  /\ Fault("lose")
  /\ net[p] # <<>>
  /\ net' = [net EXCEPT ![p] = Tail(@)]
  /\ UNCHANGED <<conn, connected, written, finished, delivered>>

\* A timer expires.  The bound keeps repeated expiry from filling the network.
MayTick(p, expired) ==
  /\ Running(p)
  /\ "re_tx" \in expired => conn[p].timer_re_tx
  /\ "timewait" \in expired =>
       /\ conn[p].timer_timewait
       /\ LongTimewait => ~conn[Other(p)].timer_re_tx
  /\ Len(net[p]) + Len(net[Other(p)]) < MaxInFlight

Tick(p, expired) ==
  /\ MayTick(p, expired)
  /\ Becomes(p, OnTimeTick(conn[p], expired))
  /\ UNCHANGED <<connected, written, delivered, faults>>

Next ==
  \/ Connect
  \/ \E p \in Peers :
       \/ Write(p) \/ Read(p) \/ Shutdown(p) \/ Close(p) \/ Abort(p)
       \/ Deliver(p) \/ Overtake(p) \/ Copy(p) \/ Lose(p)
       \/ \E expired \in SUBSET {"re_tx", "timewait"} : Tick(p, expired)

Spec == Init /\ [][Next]_vars

-----------------------------------------------------------------------------
(* Fairness: the network delivers what it does not lose, timers expire, and *)
(* the applications make the calls they are able to make.                   *)
(*                                                                         *)
(* It is weak but for the timers: an armed timer is disabled by the bound   *)
(* MaxInFlight alone, which nothing in the code corresponds to.  Where an   *)
(* action runs a whole method its ENABLED is written as its guard, which is *)
(* the same (a method always has a result) and which TLC can evaluate.      *)

Application(p) == Read(p) \/ Shutdown(p) \/ Close(p)
MayCall(p) == MayRead(p) \/ MayShutdown(p) \/ MayClose(p)

Fairness ==
  /\ WF_vars(Connect)
  /\ \A p \in Peers :
       /\ []<>~MayCall(p) \/ []<><<Application(p)>>_vars
       /\ []<>~(Running(p) /\ net[p] # <<>>) \/ []<><<Deliver(p)>>_vars
       /\ <>[]~MayTick(p, {"re_tx"}) \/ []<><<Tick(p, {"re_tx"})>>_vars
       /\ <>[]~MayTick(p, {"timewait"}) \/ []<><<Tick(p, {"timewait"})>>_vars

FairSpec == Spec /\ Fairness

-----------------------------------------------------------------------------
\* The connections, the network and the history keep their types.
TypeOK ==
  /\ conn \in [Peers -> Connections]
  /\ net \in [Peers -> Seq(SegmentMeta)]
  /\ connected \in BOOLEAN
  /\ written \in [Peers -> Nat]
  /\ finished \in [Peers -> BOOLEAN]
  /\ delivered \in [Peers -> Seq(Byte)]
  /\ faults \in 0 .. MaxFaults

\* What p has received of the stream so far.
Received(p) == delivered[p] \o conn[p].rx

\* Bytes reach the application in order, once each, and only those the peer
\* wrote: rx.write() is given a segment only where the stream continues.
StreamIntegrity ==
  \A p \in Peers :
    /\ Len(Received(p)) <= written[Other(p)]
    /\ \A i \in 1 .. Len(Received(p)) : Received(p)[i] = i

\* A receive channel ends (Fin, then Closed) only with all the peer wrote: a lost
\* tail, an overtaking FIN or a RST is never taken for the end of the stream.
EofSound ==
  \A p \in Peers :
    conn[p].state.kind = "Established" /\ conn[p].state.rx_state # "Open" =>
      Len(Received(p)) = written[Other(p)]

InSync == \A p \in Peers : Running(p) /\ conn[p].state.kind = "Established"

\* What a peer takes as acknowledged the other has received, and what that one
\* has received was sent: unack <= ackd <= next across the connection.
AckSound ==
  InSync => \A p \in Peers :
    in_range_inclusive(conn[Other(p)].ackd, conn[p].unack, conn[p].next)

\* rx.rs curr_window, tx.rs space_available: what is in flight fits into the
\* receive buffer of the peer.
FlowControl ==
  InSync => \A p \in Peers :
    wrapping_sub(conn[p].next, conn[Other(p)].ackd) + Len(conn[Other(p)].rx)
      <= INITIAL_WINDOW_SIZE

-----------------------------------------------------------------------------
(* A connection is two byte streams.                                       *)

\* For p the stream has ended with the call_recv that met the FIN, and is gone
\* when p has let go of the connection.
Phase(p) ==
  LET state == conn[p].state
  IN IF state.kind = "Established" /\ state.rx_state = "Closed" THEN "ended"
     ELSE IF \/ state.kind \in {"TimeWait", "Reset"}
             \/ state.kind = "Closed" /\ (p = "client" => connected)
     THEN "gone" ELSE "open"

\* What the client writes, and what the server writes.
ClientStream == INSTANCE ByteStream WITH
  written <- written["client"], finished <- finished["client"],
  delivered <- delivered["server"], phase <- Phase("server")
ServerStream == INSTANCE ByteStream WITH
  written <- written["server"], finished <- finished["server"],
  delivered <- delivered["client"], phase <- Phase("client")

\* call_send, on_segment, call_recv: what the client writes reaches the server as a
\* byte stream, whatever the network, the timers, a close or an abort do.
ToServer == ClientStream!Spec

\* The same of the opposite direction, which shares segments and timers with it.
ToClient == ServerStream!Spec

-----------------------------------------------------------------------------
\* connection.rs, queue.rs, rx.rs, timers.rs: no assert! fails and no unreachable!() is
\* reached, also after set_state has cleared a connection within on_segment.  Stated for
\* release builds; debug assertions of state.rs do fail (TransitionsValid is one case).
NoPanic == \A p \in Peers : Running(p)

\* call_send, on_segment, on_timer_re_tx: every byte the client writes reaches
\* the application of the server.
Delivery ==
  \A k \in 1 .. MaxWritten["client"] :
    (written["client"] = k) ~> (Len(delivered["server"]) >= k)

\* call_close, set_state: once both applications close, both connections come
\* to be Closed and stay so.
Termination == <>[](\A p \in Peers : conn[p].state.kind = "Closed")

\* Delivery for the bytes the server writes (call_send of the echo).
Reply ==
  \A k \in 1 .. MaxWritten["server"] :
    (written["server"] = k) ~> (Len(delivered["client"]) >= k)

-----------------------------------------------------------------------------
(* What comments and assertions of the code claim, and it does not keep.    *)

\* event.rs, WaitUntil::Recv: a reader waits until the receive buffer has enough
\* data, so one that has enough is woken.
ReaderWoken ==
  \A p \in Peers :
    LET enough == /\ conn[p].wait["reader"].kind = "Recv"
                  /\ Len(conn[p].rx) >= conn[p].wait["reader"].arg
    IN enough ~> ~enough

\* connection.rs: the unreachable!() for a RST in TimeWait is not reached.
RstUnreachable == \A p \in Peers : conn[p].panic # "rst_unreachable"

\* state.rs, debug_validate_transition: every transition it sees is valid.
TransitionsValid == \A p \in Peers : conn[p].panic # "transition"

\* lib.rs, response_to_closed: a peer whose partner has closed learns of it.
HalfOpenReset ==
  LET half_open == /\ connected /\ conn["client"].state.kind = "Closed"
                   /\ conn["server"].state.kind \in {"SynReceived", "Established"}
  IN half_open ~> ~half_open
=============================================================================
