------------------------------ MODULE MCServer ------------------------------
(* Server for TLC: clients that connect once or twice, and sequence numbers *)
(* of the server that do not repeat within a run.                           *)
EXTENDS Server, TLC

MCIsns1 == [c \in Clients |-> <<14>>]
MCIsns2 == [c \in Clients |-> <<14, 3>>]
MCServerIsns == <<5, 9, 13, 1>>

Interchangeable == Permutations(Acceptors)
=============================================================================
