---------------------------- MODULE MCCheckpoint ----------------------------
(***************************************************************************)
(* Two requests at a time, up to MaxTasks tasks over several lives of the  *)
(* daemon.                                                                 *)
(***************************************************************************)
EXTENDS Checkpoint, TLC

MCSymmetry == Permutations(Agents) \cup Permutations(Handlers)
=============================================================================
