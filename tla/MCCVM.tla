------------------------------- MODULE MCCVM -------------------------------
(***************************************************************************)
(* A small store: one page that gzip shrinks and one it leaves at its      *)
(* size, two interchangeable agents and the empty agent id, two callers.   *)
(***************************************************************************)
EXTENDS CVMClients, TLC

CONSTANTS shrinks, same

MCContents == {shrinks, same}
MCBytes == [c \in MCContents |-> IF c = shrinks THEN 3 ELSE 2]
MCGzipBytes == [c \in MCContents |-> IF c = shrinks THEN 1 ELSE 2]
MCSymmetry == Permutations(Agents) \cup Permutations(Callers)
============================================================================
