------------------------------- MODULE MCTlsf -------------------------------
(* A heap of four size classes per level, with room for a few blocks.      *)
EXTENDS Tlsf

MCExtra == [mem |-> ARENA + Bytes + W, bytes |-> 40]
=============================================================================
