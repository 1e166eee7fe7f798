------------------------------- MODULE MCTcp -------------------------------
(* Tcp for TLC: a window of two one-byte segments, sequence numbers that    *)
(* wrap during the connection.                                             *)
EXTENDS TcpInvariant

MCIsn == [client |-> 14, server |-> 5]
MCIsnInside == [client |-> 3, server |-> 5]

MCOneWay == [client |-> {"send", "close"}, server |-> {"recv", "close"}]
MCSendRecv == [client |-> {"send"}, server |-> {"recv"}]
MCDuplex == [client |-> {"send", "recv", "shutdown"}, server |-> {"send", "shutdown"}]
MCAbort == [client |-> {"send", "close", "abort"}, server |-> {"recv", "close"}]

MCOrderly == [client |-> {"send", "recv", "close"}, server |-> {"recv", "close"}]

MCEcho == [client |-> {"send", "recv", "close"}, server |-> {"send", "recv", "close"}]
MCConnectClose == [client |-> {"close"}, server |-> {}]
MCCloseAbort == [p \in Peers |-> {"recv", "close", "abort"}]

MCWritten00 == [p \in Peers |-> 0]
MCWritten20 == [client |-> 2, server |-> 0]
MCWritten40 == [client |-> 4, server |-> 0]
MCWritten11 == [client |-> 1, server |-> 1]
=============================================================================
