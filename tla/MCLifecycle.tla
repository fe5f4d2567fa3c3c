---------------------------- MODULE MCLifecycle ----------------------------
(***************************************************************************)
(* Bounds for the life of a task: its agents and the heartbeat timeout.    *)
(***************************************************************************)
EXTENDS Lifecycle, TLC

MCSymmetry == Permutations(Agents)
============================================================================
