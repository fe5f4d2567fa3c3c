------------------------------- MODULE MCDemo -------------------------------
(***************************************************************************)
(* The two kinds of demo request, which have no variable of the models in  *)
(* common, so that a behaviour exercises one of them, which Init picks:    *)
(* two software-real requests at a time with a few syscalls of workers,    *)
(* and requests that save a task each, up to MaxTasks over several lives   *)
(* of the daemon.                                                          *)
(***************************************************************************)
EXTENDS SoftwareReal, Checkpoint, TLC

VARIABLE demo   \* the kind that runs

MCSymmetry == Permutations(Demos) \cup Permutations(Agents) \cup Permutations(Handlers)

DInit == demo \in {"software-real", "default"} /\ Init /\ CInit

DNext ==
    /\ UNCHANGED demo
    /\ \/ demo = "software-real" /\ RNext /\ UNCHANGED cvars
       \/ demo = "default" /\ CNext /\ UNCHANGED rvars

DSpec == DInit /\ [][DNext]_<<demo, rvars, cvars>>
=============================================================================
