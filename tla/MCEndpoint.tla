---------------------------- MODULE MCEndpoint ----------------------------
(* Endpoint for TLC: sequence numbers that wrap, segments of at most one    *)
(* byte, among them stale, early, zero-window and malformed ones.           *)
EXTENDS Endpoint

MCWrites == {<<1>>}

Seg(flags, seqns, ackns, windows, datas) ==
  [seqn : seqns, ackn : ackns, window : windows, flags : {flags}, data : datas]

MCSegments ==
  Seg({"SYN"}, {6}, {0}, {0, 2}, {<<>>})
  \cup Seg({"SYN"}, {7}, {0}, {2}, {<<>>})
  \cup Seg({"SYN", "ACK"}, {6}, {6, 7}, {2}, {<<>>})
  \cup Seg({"RST"}, {7, 0}, {0}, {0}, {<<>>})
  \cup Seg({"ACK"}, {7, 0}, {7, 0, 1}, {0, 2}, {<<>>})
  \cup Seg({"ACK"}, {7, 0}, {7, 0}, {2}, {<<1>>})
  \cup Seg({"FIN", "ACK"}, {7, 0}, {7, 0, 1}, {2}, {<<>>})
  \cup Seg({"FIN"}, {7}, {0}, {2}, {<<>>})
=============================================================================
