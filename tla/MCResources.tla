---------------------------- MODULE MCResources ----------------------------
(***************************************************************************)
(* The two managers of what an agent owns on the machine, its workspace    *)
(* and its capsule.  They have no state in common and their steps commute, *)
(* so a behaviour exercises one of them, which Init picks.                 *)
(*                                                                         *)
(* Workspace: a base layer of two files, one of them in a directory, and   *)
(* tools that add a file or a link.  Calls one at a time with overlayfs    *)
(* and failing steps, and overlapping calls on a machine without it.       *)
(***************************************************************************)
EXTENDS Workspace, Capsule, TLC

VARIABLE manager   \* the one that moves

MCBase == {"readme", "main"}
MCNested == {"main"}
MCWritten == {"new", "link"}
MCLink == "link"
MCSettings ==
    {[overlay |-> TRUE, serial |-> TRUE, calls |-> 3, faults |-> 2,
      ops |-> {"tool", "ensure", "rollback", "commit", "destroy", "rmfault"}],
     [overlay |-> TRUE, serial |-> TRUE, calls |-> 4, faults |-> 1,
      ops |-> {"tool", "rollback", "commit", "destroy"}],
     [overlay |-> FALSE, serial |-> FALSE, calls |-> 3, faults |-> 0,
      ops |-> {"tool", "ensure", "rollback", "commit"}]}
MCSymmetry == Permutations(Callers) \cup Permutations(Clients) \cup Permutations(Children)

RInit ==
    /\ manager \in {"workspace", "capsule"}
    /\ WInit /\ Init
    /\ manager = "workspace" => HasCgroupKill
    /\ manager = "capsule" => setting = CHOOSE s \in Settings : TRUE

RNext ==
    /\ UNCHANGED manager
    /\ \/ manager = "workspace" /\ WNext /\ UNCHANGED cvars
       \/ manager = "capsule" /\ CNext /\ UNCHANGED wvars

RSpec == RInit /\ [][RNext]_<<manager, wvars, cvars>>
============================================================================
