--------------------------- MODULE StratumSafety ---------------------------
(***************************************************************************)
(* What the stratum server promises, see Stratum.                          *)
(***************************************************************************)
EXTENDS Naturals

CONSTANT Miners
VARIABLE miner

(* No miner is left without work: whichever of submits, timeouts, new      *)
(* blocks, resubscriptions and queued transactions replaced its job last,  *)
(* a subscribed miner has an open job whose timeout will renew it, or a    *)
(* job_request on its way.                                                 *)
NoIdleMiner ==
    \A m \in Miners : (miner[m].listed /\ miner[m].link = "open") =>
        \/ ~miner[m].job.submitted /\ miner[m].timer
        \/ miner[m].soon > 0
=============================================================================
