----------------------------- MODULE MCServices -----------------------------
(***************************************************************************)
(* Three services behind the syscalls, each with its own lock and no state *)
(* in common with the others: the blackboard, the LLM router, and          *)
(* agent.spawn over the registry; and the replay of trace files, which     *)
(* only reads.  Steps of different services commute, so a behaviour        *)
(* exercises one of them, which Init picks, and the others stay as they    *)
(* are.                                                                    *)
(***************************************************************************)
EXTENDS Blackboard, Spawn, Replay, LLM, TLC

VARIABLE service   \* the one that moves

svars == <<service, vars, pvars, llmvars, file>>

\* Every configuration the environment can give the router.
AllConfigs ==
    [key : BOOLEAN, default : {"mock", "deepseek", "other"},
     fallback : {"mock", "deepseek", "other"},
     roles : {[r \in {} |-> ""], ("planner" :> "deepseek")}]

\* A task of two agents, which workers spawn as well, and its fixer.
TaskSpecs == <<"coder", "reviewer">>

MCSymmetry == Permutations(Callers) \cup Permutations(Calls)

SInit ==
    /\ service \in {"blackboard", "spawn", "llm", "replay"}
    /\ Init /\ PInit /\ LLMInit
    /\ file \in IF service = "replay" THEN Traces ELSE {<<>>}
    /\ service # "llm" => config = CHOOSE c \in Configs : TRUE

SNext ==
    /\ UNCHANGED <<service, file>>
    /\ \/ service = "blackboard" /\ Next /\ UNCHANGED <<pvars, llmvars>>
       \/ service = "spawn" /\ PNext /\ UNCHANGED <<vars, llmvars>>
       \/ service = "llm" /\ LLMNext /\ UNCHANGED <<vars, pvars>>

SSpec == SInit /\ [][SNext]_svars
=============================================================================
