------------------------- MODULE MergedMiningSafety -------------------------
(***************************************************************************)
(* What the merged mining coordinator promises, see MergedMining.          *)
(***************************************************************************)
EXTENDS Integers

CONSTANT Miners
VARIABLE protocol

(* The shares a protocol knows: _new_submitted_work and _submitted_work.   *)
Remembered(p) == p.new \cup p.kept

(***************************************************************************)
(* A share accepted within the estimator's window is remembered, so the    *)
(* same work is never paid twice: whatever the order of submissions,       *)
(* bursts and runs of the estimator (handle_submit, estimator_loop).       *)
(***************************************************************************)
SharesAreRemembered ==
    \A m \in Miners : protocol[m].counted \subseteq Remembered(protocol[m])
=============================================================================
