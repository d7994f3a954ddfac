------------------------------- MODULE MCPoa -------------------------------
(* Two signers, active at every height, that both may lose their peers.    *)
EXTENDS PoaProducer

MCStartHeight == [n \in Signers |-> 0]
MCEndHeight == [n \in Signers |-> MaxHeight]
=============================================================================
