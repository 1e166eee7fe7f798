-------------------------- MODULE ConnectionState --------------------------
(***************************************************************************)
(* The states of a connection: src/src/state.rs.                           *)
(*                                                                         *)
(* Established carries the state of both channels and two flags.  The      *)
(* other states carry in the same fields what the accessors tx(), rx(),    *)
(* close_called() and close_active() answer for them.                      *)
(***************************************************************************)
EXTENDS Naturals

ChannelState == {"Open", "Fin", "Closed"}

\* The derived order of ChannelState: Open < Fin < Closed.
ChannelRank(ch) == CASE ch = "Open" -> 0 [] ch = "Fin" -> 1 [] ch = "Closed" -> 2

StateKind == {"Listen", "SynSent", "SynReceived", "Established", "TimeWait",
              "Reset", "Closed"}

ConnectionStates == [kind         : StateKind,
                     tx_state     : ChannelState,
                     rx_state     : ChannelState,
                     close_called : BOOLEAN,
                     close_active : BOOLEAN]

Established(tx, rx, called, active) ==
  [kind |-> "Established", tx_state |-> tx, rx_state |-> rx,
   close_called |-> called, close_active |-> active]

FULLY_OPEN == Established("Open", "Open", FALSE, FALSE)

Handshake(kind) == [FULLY_OPEN EXCEPT !.kind = kind]
Finished(kind, active) ==
  [kind |-> kind, tx_state |-> "Closed", rx_state |-> "Closed",
   close_called |-> FALSE, close_active |-> active]

SynSent     == Handshake("SynSent")
SynReceived == Handshake("SynReceived")
Listen      == Finished("Listen", FALSE)
TimeWait    == Finished("TimeWait", TRUE)
Reset       == Finished("Reset", FALSE)
Closed      == Finished("Closed", FALSE)

\* What debug_validate_transition asserts.
ValidTransition(from, to) ==
  from.kind = "Established" /\ to.kind = "Established" =>
    /\ ChannelRank(from.tx_state) <= ChannelRank(to.tx_state)
    /\ ChannelRank(from.rx_state) <= ChannelRank(to.rx_state)
    /\ from.close_called => to.close_called
    /\ from.close_active => to.close_active
    /\ from.close_called => to.tx_state # "Open"

\* Have we sent a FIN already?
fin_sent(s) ==
  \/ s.kind = "Established" /\ s.tx_state \in {"Fin", "Closed"}
  \/ s.kind = "TimeWait"

output_buffer_guaranteed_clear(s) ==
  \/ s.kind = "Established" /\ s.rx_state = "Closed"
  \/ s.kind = "TimeWait"
=============================================================================
