----------------------------- MODULE MCGateway -----------------------------
(***************************************************************************)
(* Two agents, two concurrent callers and two pages.  MaxRef, MaxAccess    *)
(* and MaxDepth are larger than MaxCalls calls can reach, so that they     *)
(* never block a call half way.                                            *)
(***************************************************************************)
EXTENDS Gateway, TLC

CONSTANTS shrinks, same

MCContents == {shrinks, same}
MCBytes == [c \in MCContents |-> IF c = shrinks THEN 3 ELSE 2]
MCGzipBytes == [c \in MCContents |-> IF c = shrinks THEN 1 ELSE 2]
MCControls == {[pins |-> <<>>, cold |-> 0, evict |-> 1],
               [pins |-> <<shrinks>>, cold |-> 1, evict |-> 0]}
MCSymmetry == Permutations(Agents) \cup Permutations(Callers)
============================================================================
