------------------------------ MODULE MCLedger ------------------------------
(* Instances of the consensus and of feature activation for TLC.  A        *)
(* behaviour is one of either: the first decides which blocks form the     *)
(* best chain, the second reads one chain of blocks.                       *)
EXTENDS MCFeatureLifecycle

CONSTANTS MaxBlocks, MaxTxs, MaxVertices, BlockWorks, TxWorks, GenesisOutputs

VARIABLES
    part,    \* what this behaviour is about
    store    \* of Consensus

Dag == INSTANCE Consensus

ASSUME ConsensusAssumption == Dag!ConsensusAssumption

MCInit ==
    /\ part \in {"consensus", "features"}
    /\ Dag!Init
    /\ Init
    /\ part = "consensus" => criteria = CHOOSE config \in Configurations : TRUE

AddToChain == part = "features" /\ Next /\ UNCHANGED <<part, store>>

MCNext ==
    \/ part = "consensus" /\ Dag!Next /\ UNCHANGED <<part, vars>>
    \/ AddToChain

(* Miners keep producing blocks that other nodes accept.                   *)
MCSpec == MCInit /\ [][MCNext]_<<part, store, vars>> /\ WF_vars(AddToChain)

----------------------------------------------------------------------------
(* The properties of the consensus, stated in Consensus.                   *)

(* At most one of the transactions that spend an output is executed.       *)
NoDoubleSpend == Dag!NoDoubleSpend

(* What voids a transaction voids what verifies or spends it.              *)
VoidednessPropagates == Dag!VoidednessPropagates

(* The executed blocks are one chain from the genesis.                     *)
ExecutedBlocksAreAChain == Dag!ExecutedBlocksAreAChain

(* meta.first_block names the lowest executed block above a transaction.   *)
FirstBlockIsFirst == Dag!FirstBlockIsFirst

(* A transaction voided by a lost conflict has a rival with its weight.    *)
LoserIsOutweighed == Dag!LoserIsOutweighed

(* The process of every feature ends, in a chain that goes on growing:     *)
(* each height _calculate_new_state waits for is met by some boundary.     *)
EveryFeatureSettles ==
    part = "features" => \A f \in Features : <>(state[f] \in {"ACTIVE", "FAILED"})
=============================================================================
