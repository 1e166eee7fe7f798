----------------------------- MODULE ByteStream -----------------------------
(***************************************************************************)
(* What a connection promises for one direction of it: the receiver gets   *)
(* what the sender has written, from the start, in order and once, and     *)
(* the end of the stream after all of it and only if the sender has ended  *)
(* it.  A stream that breaks off (reset, abort, close) delivers no more.   *)
(***************************************************************************)
EXTENDS Naturals, Sequences

VARIABLES
  written,    \* how many bytes the sender has written
  finished,   \* the sender has ended its stream
  delivered,  \* the bytes the receiver has got; a byte is its place in the stream
  phase       \* for the receiver the stream is "open", "ended" or "gone"

vars == <<written, finished, delivered, phase>>

Init == written = 0 /\ finished = FALSE /\ delivered = <<>> /\ phase = "open"

Write ==
  /\ ~finished
  /\ written' \in Nat /\ written' > written
  /\ UNCHANGED <<finished, delivered, phase>>

\* A sender that gives up before the end leaves an unfinished stream.
Finish ==
  /\ finished' = TRUE
  /\ UNCHANGED <<written, delivered, phase>>

\* The receiver gets more of the stream, and with the last of it perhaps the end.
Receive ==
  /\ phase = "open"
  /\ Len(delivered') \in Len(delivered) .. written
  /\ delivered' = [i \in 1 .. Len(delivered') |-> i]
  /\ phase' \in {"open", "ended", "gone"}
  /\ phase' = "ended" => finished /\ Len(delivered') = written
  /\ UNCHANGED <<written, finished>>

Break ==
  /\ phase' = "gone"
  /\ UNCHANGED <<written, finished, delivered>>

Next == Write \/ Finish \/ Receive \/ Break

Spec == Init /\ [][Next]_vars
=============================================================================
