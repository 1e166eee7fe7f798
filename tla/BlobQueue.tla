----------------------------- MODULE BlobQueue -----------------------------
(***************************************************************************)
(* The queue behind TxBuffer and RxBuffer: src/src/queue.rs.  It keeps the *)
(* blobs that writes or segments have brought; a read may end inside of    *)
(* one, and leaves the rest of it, even if empty, in front.                *)
(*                                                                         *)
(* Connection takes such a queue for the sequence of its bytes, AllBytes,  *)
(* which is justified if no read goes wrong: Misread is empty.             *)
(***************************************************************************)
EXTENDS Naturals, SequencesExt

BlobQueueNew == [buffer |-> <<>>, fin |-> FALSE]

mark_fin(q) == [q EXCEPT !.fin = TRUE]

\* An empty blob is dropped, the others come before the FIN.
CanWrite(q, data) == data = <<>> \/ ~q.fin
write_bytes(q, data) == IF data = <<>> THEN q ELSE [q EXCEPT !.buffer = Append(@, data)]

AllBytes(blobs) == FlattenSeq(blobs)
available_bytes(q) == Len(AllBytes(q.buffer))

\* How many blobs the loop of read_bytes pops: those up to the one with which the
\* limit is reached, all of them if it is not.
Popped(q, limit) ==
  LET I == {i \in 1 .. Len(q.buffer) : Len(AllBytes(SubSeq(q.buffer, 1, i))) >= limit}
  IN IF I = {} THEN Len(q.buffer) ELSE CHOOSE i \in I : \A j \in I : i <= j

\* The first n elements of s, or all of them if they are fewer.
Foremost(s, n) == SubSeq(s, 1, IF n < Len(s) THEN n ELSE Len(s))

\* The queue and the result that a read leaves, with the rest of the popped blobs.
ReadInto(q, limit, rest) ==
  LET all == AllBytes(SubSeq(q.buffer, 1, Popped(q, limit)))
  IN [queue |-> [q EXCEPT !.buffer = rest],
      data  |-> Foremost(all, limit),
      done  |-> Len(all) < limit /\ q.fin]

\* Wrong variant: the rest of a blob goes to the end of the queue.
read_bytes_RestLast(q, limit) ==
  LET n == Popped(q, limit)
      all == AllBytes(SubSeq(q.buffer, 1, n))
      left == SubSeq(q.buffer, n + 1, Len(q.buffer))
  IN ReadInto(q, limit, IF Len(all) >= limit
                        THEN Append(left, SubSeq(all, limit + 1, Len(all)))
                        ELSE left)

read_bytes(q, limit) ==
  LET n == Popped(q, limit)
      all == AllBytes(SubSeq(q.buffer, 1, n))
      left == SubSeq(q.buffer, n + 1, Len(q.buffer))
  IN ReadInto(q, limit, IF Len(all) >= limit
                        THEN <<SubSeq(all, limit + 1, Len(all))>> \o left
                        ELSE left)

-----------------------------------------------------------------------------
\* Bounds: up to MaxBlobs blobs of up to MaxBlob bytes, and reads of up to MaxLimit.
MaxBlobs == 3
MaxBlob == 2
MaxLimit == MaxBlobs * MaxBlob + 1

\* A queue whose blobs have the given sizes; a byte is named by its place.
BlobsOf(sizes) == [i \in 1 .. Len(sizes) |-> [j \in 1 .. sizes[i] |-> <<i, j>>]]

Queues == {[buffer |-> BlobsOf(sizes), fin |-> fin] :
             sizes \in BoundedSeq(0 .. MaxBlob, MaxBlobs), fin \in BOOLEAN}

Limits == 1 .. MaxLimit
More == {<<>>, << <<MaxBlobs + 1, 1>> >>}

\* What may happen to the queue between two reads: a write, the FIN, both or neither.
Arrivals == [data : More, fin : BOOLEAN]
Fill(q, a) ==
  LET filled == write_bytes(q, a.data) IN IF a.fin THEN mark_fin(filled) ELSE filled

\* The reads that go wrong with n bytes in the queue: a read of q, an arrival, and
\* another read.
Misread[n \in 0 .. MaxBlobs * MaxBlob] ==
  {<<q, limit, next, a>> \in {q \in Queues : available_bytes(q) = n} \X Limits \X Limits \X Arrivals :
     LET bytes == AllBytes(q.buffer)
         stream == bytes \o a.data
         first == read_bytes(q, limit)
         second == read_bytes(Fill(first.queue, a), next)
         taken == Len(first.data)
     IN /\ CanWrite(q, a.data)
        /\ ~(/\ first.data = Foremost(bytes, limit)
             /\ first.done = (q.fin /\ limit > Len(bytes))
             /\ second.data = Foremost(SubSeq(stream, taken + 1, Len(stream)), next)
             /\ available_bytes(second.queue) = Len(stream) - taken - Len(second.data)
             /\ second.done = ((q.fin \/ a.fin) /\ taken + next > Len(stream)))}
=============================================================================
