---------------------------- MODULE ListenSocket ----------------------------
(***************************************************************************)
(* A listening socket: src/src/listen.rs.  As in Connection a socket is a  *)
(* record and a method is an operator from the record it finds to the one  *)
(* it leaves.                                                              *)
(*                                                                         *)
(* The callbacks show as fields: `out' is what the method hands to         *)
(* user_data.send(), with its destination; `woken' and `failed' are the    *)
(* acceptors that got an event with Ok and with ListenClosed.  A cookie is *)
(* the acceptor that is suspended with it.                                 *)
(***************************************************************************)
EXTENDS Connection

CONSTANTS
  Clients,    \* the addresses that segments come from
  Acceptors,  \* the user threads that call call_accept
  Backlog     \* the argument of call_listen

ASSUME ListenAssumption ==
  /\ IsFiniteSet(Acceptors)
  /\ Backlog \in Nat

\* An element of the backlog, and a segment with its destination.
Addressed == [addr : Clients, seg : SegmentMeta]
To(addr, seg) == [addr |-> addr, seg |-> seg]

ListenSockets == [queue     : Seq(Addressed),
                  backlog   : Nat \ {0},
                  open      : BOOLEAN,
                  suspended : SUBSET Acceptors,
                  woken     : SUBSET Acceptors,
                  failed    : SUBSET Acceptors,
                  out       : Seq(Addressed)]

\* ListenSocket::call_listen
NewListen(backlog) ==
  [queue |-> <<>>, backlog |-> IF backlog = 0 THEN 1 ELSE backlog, open |-> TRUE,
   suspended |-> {}, woken |-> {}, failed |-> {}, out |-> <<>>]

\* The refusal of a segment.
Refusal(a) == To(a.addr, Control({"RST"}, a.seg.ackn, 0, 0))

\* Wrong variant: the suspended accepts are forgotten.
ListenClose_Silent(l) ==
  [l EXCEPT !.open = FALSE, !.queue = <<>>,
            !.out = @ \o [i \in 1 .. Len(l.queue) |-> Refusal(l.queue[i])]]

\* call_close: the suspended accepts fail, the queued connections are refused.
ListenClose(l) ==
  [l EXCEPT !.open = FALSE,
            !.failed = @ \cup l.suspended,
            !.suspended = {},
            !.queue = <<>>,
            !.out = @ \o [i \in 1 .. Len(l.queue) |-> Refusal(l.queue[i])]]

\* call_accept with a connection to accept: the segment is taken from the queue
\* and given to a new connection in LISTEN.
CanAccept(l) == l.open /\ l.queue # <<>>
ListenAccept(l) == [l EXCEPT !.queue = Tail(@)]
AcceptedConnection(l, new_seqn) ==
  OnSegment(SetState(New, Listen), Head(l.queue).seg, new_seqn)

\* call_accept without one.
MustWait(l) == l.open /\ l.queue = <<>>
ListenSuspend(l, a) == [l EXCEPT !.suspended = @ \cup {a}]

\* The acceptor that the arrival of a connection may wake: any suspended one.
MayWake(l, a) == l.suspended = {} \/ a \in l.suspended

\* Wrong variants: the event of a suspended accept is triggered again and again; an
\* arrival wakes nobody if the queue is not empty.
Admit_Again(l, arrival, a) ==
  [l EXCEPT !.queue = Append(@, arrival), !.woken = @ \cup (l.suspended \cap {a})]
Admit_FirstOnly(l, arrival, a) ==
  [l EXCEPT !.queue = Append(@, arrival),
            !.suspended = IF l.queue = <<>> THEN @ \ {a} ELSE @,
            !.woken = IF l.queue = <<>> THEN @ \cup (l.suspended \cap {a}) ELSE @]

Admit(l, arrival, a) ==
  [l EXCEPT !.queue = Append(@, arrival),
            !.suspended = @ \ {a},
            !.woken = @ \cup (l.suspended \cap {a})]

\* Wrong variant: a closed socket still queues connections.
ListenOnSegment_Late(l, addr, seg, a) ==
  LET flags == seg.flags
  IN IF "RST" \in flags THEN l
     ELSE IF "ACK" \in flags THEN [l EXCEPT !.out = Append(@, Refusal(To(addr, seg)))]
     ELSE IF "SYN" \notin flags \/ Len(l.queue) >= l.backlog THEN l
     ELSE Admit(l, To(addr, seg), a)

\* on_segment; a is the acceptor that is woken, if one is.
ListenOnSegment(l, addr, seg, a) ==
  LET flags == seg.flags
  IN IF "RST" \in flags THEN l
     ELSE IF "ACK" \in flags \/ ~l.open
     THEN [l EXCEPT !.out = Append(@, Refusal(To(addr, seg)))]
     ELSE IF "SYN" \notin flags THEN l
     ELSE IF Len(l.queue) >= l.backlog
     THEN [l EXCEPT !.out = Append(@, To(addr, Control({"RST", "ACK"},
                                             wrapping_add(seg.ackn, 1), 0, 0)))]
     ELSE Admit(l, To(addr, seg), a)
=============================================================================
