------------------------------ MODULE Segment ------------------------------
(***************************************************************************)
(* Sequence numbers and segments: src/src/segment.rs.                      *)
(*                                                                         *)
(* SeqN is a u32 with wrapping arithmetic.  The width is the constant      *)
(* SeqSpace (2^32 in the code), so that small instances wrap around.       *)
(* The payload of a segment is a sequence of bytes; a byte is named by its *)
(* position in the stream its sender was given, which is all that the      *)
(* properties of a byte stream can tell apart.                             *)
(***************************************************************************)
EXTENDS Naturals, Sequences

CONSTANTS
  SeqSpace,      \* number of sequence numbers, 2^32 in the code
  WindowMax    \* largest value of a window field, a u16

ASSUME SegmentAssumption ==
  /\ SeqSpace \in Nat /\ SeqSpace >= 4
  /\ WindowMax \in Nat /\ WindowMax < SeqSpace

SeqN == 0 .. SeqSpace - 1

\* Wrong variant: the sum does not wrap.
wrapping_add_Plain(a, v) == a + v

\* SeqN::wrapping_add and wrapping_sub for operands below SeqSpace, which all
\* operands in the code are.
wrapping_add(a, v) == IF a + v < SeqSpace THEN a + v ELSE a + v - SeqSpace
wrapping_sub(a, v) == IF v <= a THEN a - v ELSE a + SeqSpace - v

in_range_inclusive(self, start, end) ==
  IF start = end THEN self = start
  ELSE IF start < end THEN start <= self /\ self <= end
  ELSE start <= self \/ self <= end

\* u32::MAX / 2
HalfRange == (SeqSpace - 1) \div 2

\* The code's lt is reflexive: the range it tests includes its right end.
lt(self, other) == in_range_inclusive(self, wrapping_sub(other, HalfRange), other)

lte(self, other) == self = other \/ lt(self, other)

-----------------------------------------------------------------------------
Byte == Nat \ {0}

\* PSH, URG, ECE, CWR and NS are never set or read by the library.
SegmentFlags == {"SYN", "ACK", "FIN", "RST"}

\* A payload, with its SYN and FIN, is far shorter than the sequence space.
Payload == {d \in Seq(Byte) : Len(d) + 2 < SeqSpace}

SegmentMeta == [seqn   : SeqN,
                ackn   : SeqN,
                window : 0 .. WindowMax,
                flags  : SUBSET SegmentFlags,
                data   : Payload]

seq_size(seg) ==
  Len(seg.data) + (IF "SYN" \in seg.flags THEN 1 ELSE 0)
                + (IF "FIN" \in seg.flags THEN 1 ELSE 0)

\* The sequence number just after the segment.
seqn_after(seg) == wrapping_add(seg.seqn, seq_size(seg))

\* A segment without payload.
Control(flags, seqn, ackn, window) ==
  [seqn |-> seqn, ackn |-> ackn, window |-> window, flags |-> flags, data |-> <<>>]

\* lib.rs: the answer to a segment that reaches a closed socket; a RST gets none.
response_to_closed(seg) ==
  IF "ACK" \in seg.flags
  THEN Control({"RST", "ACK"}, 0, wrapping_add(seg.seqn, Len(seg.data)), 0)
  ELSE Control({"RST"}, seg.ackn, 0, 0)
=============================================================================
