---------------------------- MODULE SchedPolicy ----------------------------
(***************************************************************************)
(* The scheduling policies of internal/scheduler/scheduler.go as operators *)
(* over a sequence of candidates.                                          *)
(*                                                                         *)
(* A candidate is a record of the AVP fields a policy reads: vruntime,     *)
(* created, priority, the PageTable and ContextPages as sets (the page     *)
(* tables hold no duplicates), and its own memory, pids and cpu load as    *)
(* clamped fractions in permille.  A score is a float rounded to three     *)
(* decimals in the code and the exact integer of thousandths here.         *)
(***************************************************************************)
EXTENDS Integers, Sequences, FiniteSets, SequencesExt, FiniteSetsExt

CONSTANT Threshold   \* affinityThreshold, 50 in New

NoPressure == [memory |-> 0, pids |-> 0, cpu |-> 0, psi |-> 0]

Gather(ready, c) == IF c.ready THEN Append(ready, c) ELSE ready
readyAgents(cs) == FoldLeft(Gather, <<>>, cs)

\* Pages a candidate has in common with the last selected agent, counted
\* once per list that names them.
Shared(c, lastPages) ==
    Cardinality(c.pages \cap lastPages) + Cardinality(c.context \cap lastPages)

\* The indexes among which a field has its least value.  The first of them is
\* element 0 of a stable sort by that field.
Least(cs, among, key) == {i \in among : \A j \in among : cs[i][key] <= cs[j][key]}

fifo(cs) == cs[Min(Least(cs, DOMAIN cs, "created"))]

\* Fault: the sort compares the ages first.
OldestFirst(cs) == cs[Min(Least(cs, Least(cs, DOMAIN cs, "created"), "vruntime"))]

minVRuntime(cs) == cs[Min(Least(cs, Least(cs, DOMAIN cs, "vruntime"), "created"))]

vruntimeDistance(l, r) == IF l >= r THEN l - r ELSE r - l

\* A candidate near the minimum that shares more pages replaces the best.
Warmer(best, c, base, lastPages) ==
    IF /\ Shared(c, lastPages) > Shared(best, lastPages)
       /\ vruntimeDistance(c.vruntime, base.vruntime) <= Threshold
    THEN c ELSE best

\* With no previous agent every count is 0 and the minimum stays selected.
selectPrefixAffinity(cs, lastPages) ==
    LET base == minVRuntime(cs)
    IN  FoldLeft(LAMBDA best, c : Warmer(best, c, base, lastPages), base, cs)

maxFloat(a, b) == IF a > b THEN a ELSE b

\* num/den to the nearest integer, halves away from zero, as math.Round does.
Round(num, den) ==
    IF num >= 0 THEN (2 * num + den) \div (2 * den)
                ELSE -((-2 * num + den) \div (2 * den))

\* Fault: the machine wide pressure hides the candidate's own load.
ScoreGlobal(c, shared, g) ==
    LET rest == 30000 * shared + 5000 * c.priority
                - 180 * g.memory - 160 * g.pids - 120 * g.cpu - 90 * g.psi
        den  == 1 + c.vruntime
    IN  Round(1000000 + rest * den, den)

resourceAwareScore(c, shared, g) ==
    LET rest == 30000 * shared + 5000 * c.priority
                - 180 * maxFloat(g.memory, c.memory)
                - 160 * maxFloat(g.pids, c.pids)
                - 120 * maxFloat(g.cpu, c.cpu) - 90 * g.psi
        den  == 1 + c.vruntime
    IN  Round(1000000 + rest * den, den)

Better(best, c, lastPages, g) ==
    LET Score(x) == resourceAwareScore(x, Shared(x, lastPages), g)
    IN  IF \/ Score(c) > Score(best)
           \/ Score(c) = Score(best) /\ c.created < best.created
        THEN c ELSE best

selectResourceAware(cs, lastPages, g) ==
    FoldLeft(LAMBDA best, c : Better(best, c, lastPages, g), Head(cs), cs)

selectLocked(p, cs, lastPages, g) ==
    CASE p = "token-cfs"                 -> minVRuntime(cs)
      [] p = "token-cfs-prefix-affinity" -> selectPrefixAffinity(cs, lastPages)
      [] p = "token-cfs-prefix-affinity-resource-aware"
                                         -> selectResourceAware(cs, lastPages, g)
      [] OTHER                           -> fifo(cs)
=============================================================================
