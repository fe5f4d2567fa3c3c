----------------------------- MODULE MCLaunch -----------------------------
(***************************************************************************)
(* Two demo requests over one scheduler, and two loads of turns over three *)
(* agents whose page tables overlap in part: a fair one, where two agents  *)
(* are always ready, and one of all policies under pressure, with agents   *)
(* that differ in age, pages and load.  Vruntimes are scaled down with the *)
(* threshold.                                                              *)
(***************************************************************************)
EXTENDS Launch

Agent(a, created, pages, memory, ready) ==
    [id |-> a, vruntime |-> 0, created |-> created, priority |-> 100,
     pages |-> pages, context |-> {}, memory |-> memory, pids |-> 0, cpu |-> 0,
     ready |-> ready]

Fair ==
    [client |-> "turns", policies |-> {"token-cfs", "token-cfs-prefix-affinity"},
     pressures |-> {}, tokens |-> {0, 1, 2}, blockable |-> {"a3"}, limit |-> 5,
     agents |-> {[a1 |-> Agent("a1", 1, {"sys"}, 0, TRUE),
                  a2 |-> Agent("a2", 2, {"sys", "x"}, 0, TRUE),
                  a3 |-> Agent("a3", 1, {"sys", "x", "y"}, 0, r)] : r \in BOOLEAN}]

Loaded ==
    [client |-> "turns",
     policies |-> {"fifo", "token-cfs-prefix-affinity-resource-aware"},
     pressures |-> {NoPressure, [memory |-> 1400, pids |-> -100, cpu |-> 0, psi |-> 300]},
     tokens |-> {1}, blockable |-> {}, limit |-> 2,
     agents |-> {[a1 |-> Agent("a1", c, {"sys"}, m, TRUE),
                  a2 |-> Agent("a2", 1, p, n, TRUE),
                  a3 |-> Agent("a3", 2, {"sys", "x", "y"}, 0, TRUE)] :
                    c \in 1..2, p \in {{"sys"}, {"sys", "x"}}, m, n \in {0, 950}}]

\* The requests' agents are their own: the turns' agents are idle.
Requests ==
    [client |-> "demos",
     policies |-> {"fifo", "token-cfs-prefix-affinity", "token-cfs-prefix-affinity-resource-aware"},
     pressures |-> {}, tokens |-> {}, blockable |-> {}, limit |-> 0, agents |-> {<<>>}]

MCLoads == {Fair, Loaded, Requests}
Weights == [a1 |-> 1, a2 |-> 2, a3 |-> 1]

\* A reading is a percentage: these stand for 50, 20 and 30.
Thresholds == [cpu |-> 500, memory |-> 200, io |-> 300]
============================================================================
