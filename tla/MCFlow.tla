------------------------------ MODULE MCFlow -------------------------------
(* Tcp and the queue behind its buffers, for the run on flow control.       *)
EXTENDS MCTcp, BlobQueue

\* queue.rs, read_bytes: however the bytes a peer has received were cut into blobs,
\* and whatever the application asks for, two reads with a write, the FIN, both or
\* neither between them return them in order, none twice and none left out; a read
\* reports the end exactly if the FIN has come and it finds fewer than it asked for.
IsByteQueue ==
  \A p \in Peers : \A n \in 0 .. Len(Received(p)) : Misread[n] = {}
=============================================================================
