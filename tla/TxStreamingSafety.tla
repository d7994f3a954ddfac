------------------------- MODULE TxStreamingSafety -------------------------
(***************************************************************************)
(* What the client of the transaction phase promises, see TxStreaming.     *)
(***************************************************************************)

VARIABLES dag, stored

(* What is stored is closed under dependencies, whatever order             *)
(* transactions arrive in and whatever other peers add meanwhile.          *)
StorageIsClosed == \A v \in stored : dag.deps[v] \subseteq stored
=============================================================================
