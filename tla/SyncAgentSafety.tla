-------------------------- MODULE SyncAgentSafety ---------------------------
(***************************************************************************)
(* What the sync agents of two honest nodes promise, see SyncAgent.        *)
(***************************************************************************)
EXTENDS Integers

CONSTANT MaxScore
VARIABLES me, run, unsolicited, closed

(* One thing closes the connection of two nodes that follow the protocol:  *)
(* more than MaxScore vertices that the peer relayed before it learned     *)
(* that I had disabled the relay, as handle_data counts each as            *)
(* misbehavior.  Otherwise no answer finds its requester in another state  *)
(* and no request meets a running stream, in spite of re-orgs and growth   *)
(* between any two messages.                                               *)
OnlyLateRelaysClose ==
    closed # "" =>
        closed = "Misbehavior score is too high" /\ unsolicited > MaxScore

(* A node that says it is synced has the peer's block it says so about,    *)
(* although it compares with a best block read before the answer came.     *)
SyncedMeansStored == run.synced => run.syncedBlock \in me.blocks
=============================================================================
