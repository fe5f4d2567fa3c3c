----------------------------- MODULE Scheduler -----------------------------
(***************************************************************************)
(* The mutex protected scheduler object around the policies: the policy,   *)
(* the pages of the agent selected last, and the resource pressure.  The   *)
(* mutex makes each method one step; callers interleave freely.            *)
(*                                                                         *)
(* Its clients here are callers that offer agents of their own, let the    *)
(* selected one run a turn and charge it for its tokens, as the tests and  *)
(* experiments do.  The daemon's use of it is in module Launch.            *)
(***************************************************************************)
EXTENDS SchedPolicy

CONSTANTS
    Offered,       \* agents a caller may offer
    Weight,        \* agent -> weight
    Loads          \* what the clients do, see load

NoAgent == "none"
Kinds == {"memory", "pids", "cpu", "psi"}

\* An agent as its caller describes it: its own name, its counters, and page
\* tables of some pages.
Described(a, r) ==
    /\ r \in [id : {a}, vruntime : Nat, created : Nat, priority : Int,
              pages : {r.pages}, context : {r.context},
              memory : Nat, pids : Nat, cpu : Nat, ready : BOOLEAN]
    /\ IsFiniteSet(r.pages) /\ IsFiniteSet(r.context)

\* Finitely many agents that have run no turn, of which some may wait, and
\* turns of a bounded number of tokens.
ASSUME SchedulerAssumption ==
    /\ Threshold \in Nat
    /\ IsFiniteSet(Offered) /\ NoAgent \notin Offered
    /\ Weight \in [Offered -> Int]
    /\ \A l \in Loads :
        /\ DOMAIN l = {"client", "policies", "pressures", "tokens", "blockable", "agents", "limit"}
        /\ l.client = "turns" =>
             /\ l.pressures \subseteq [Kinds -> Int]
             /\ l.tokens # {} /\ Max(l.tokens) \in Nat /\ l.tokens \subseteq 0..Max(l.tokens)
             /\ l.blockable \subseteq Offered
             /\ \A agents \in l.agents :
                  /\ agents \in [Offered -> {agents[a] : a \in Offered}]
                  /\ \A a \in Offered : /\ Described(a, agents[a])
                                        /\ agents[a].vruntime = 0
                                        /\ a \notin l.blockable => agents[a].ready

VARIABLES
    policy, last, pressure,   \* the object
    avp, running, decision,   \* the agents, the one whose turn it is, the last decision
    load    \* the member of Loads that holds: the kind of client, the policies and
            \* pressures it may set, the tokens of a turn, the agents that are not
            \* READY all the time, the agents' descriptions, the bound on vruntime

object == <<policy, last, pressure>>
svars == <<policy, last, pressure, avp, running, decision, load>>

Nothing == [candidates |-> <<>>, last |-> {}, policy |-> "fifo",
            pressure |-> 0, selected |-> NoAgent]

(***************************************************************************)
(* The object.                                                             *)
(***************************************************************************)
\* ChargeTokens: vruntime advances by the weighted tokens, by at least 1.
ChargeTokens(v, weight, n) ==
    LET w == IF weight <= 0 THEN 100 ELSE weight
    IN  v + (n \div w) + (IF n > 0 /\ n \div w = 0 THEN 1 ELSE 0)

SInit ==
    /\ load \in Loads
    /\ policy \in load.policies
    /\ last = {}
    /\ pressure = NoPressure
    /\ avp \in load.agents
    /\ running = NoAgent
    /\ decision = Nothing

SetPolicy(p) ==
    /\ policy' = p
    /\ UNCHANGED <<last, pressure>>

\* A fraction, in permille, is kept between 0 and 1.
clamp(v) == Max({0, Min({v, 1000})})

normalizeResourcePressure(g) == [kind \in DOMAIN g |-> clamp(g[kind])]

SetResourcePressure(g) ==
    /\ pressure' = normalizeResourcePressure(g)
    /\ UNCHANGED <<policy, last>>

\* What the decision log keeps of a selection: the ready candidates with their
\* vruntimes, the policy, the pages and the pressure it was made with.
makeDecisionLocked(ready, pick) ==
    [candidates |-> ready, last |-> last, policy |-> policy,
     pressure |-> pressure.memory, selected |-> pick.id]

(***************************************************************************)
(* Clients that run turns.                                                 *)
(***************************************************************************)
\* Select over the candidates a caller gathered, in the order it gathered
\* them; with none ready it fails and changes nothing.
Select(order) ==
    LET ready == readyAgents([i \in 1..Len(order) |-> avp[order[i]]])
        pick  == selectLocked(policy, ready, last, pressure)
    IN  /\ running = NoAgent
        /\ ready # <<>>
        /\ last' = pick.pages \cup pick.context
        /\ running' = pick.id
        /\ decision' = makeDecisionLocked(ready, pick)
        /\ UNCHANGED <<policy, pressure, avp>>

\* The turn of the selected agent ends and is charged.
Charge(n) ==
    /\ running # NoAgent
    /\ LET v == ChargeTokens(avp[running].vruntime, Weight[running], n)
       IN  /\ v <= load.limit
           /\ avp' = [avp EXCEPT ![running].vruntime = v]
    /\ running' = NoAgent
    /\ UNCHANGED <<object, decision>>

\* Between turns an agent may start or stop waiting.
SetReady(a, r) ==
    /\ running = NoAgent /\ avp[a].ready # r
    /\ avp' = [avp EXCEPT ![a].ready = r]
    /\ UNCHANGED <<object, running, decision>>

Orders == SetToSeqs(Offered)

SNext ==
    /\ load.client = "turns"
    /\ \/ \E p \in load.policies : SetPolicy(p) /\ UNCHANGED <<avp, running, decision>>
       \/ \E g \in load.pressures : SetResourcePressure(g) /\ UNCHANGED <<avp, running, decision>>
       \/ \E s \in Orders : Select(s)
       \/ \E n \in load.tokens : Charge(n)
       \/ \E a \in load.blockable, r \in BOOLEAN : SetReady(a, r)
    /\ UNCHANGED load

(***************************************************************************)
(* Properties.                                                             *)
(***************************************************************************)
Chosen == CHOOSE i \in 1..Len(decision.candidates) :
             decision.candidates[i].id = decision.selected

MaxStep == Max({ChargeTokens(0, Weight[a], n) : a \in Offered, n \in load.tokens})

\* Token fairness over any number of turns, policy changes and blocked
\* agents, while a token-cfs policy without resource awareness is set: of two
\* agents that are always ready, neither runs ahead of the other by more than
\* the affinity threshold plus one turn (selectLocked and ChargeTokens together).
FairShare ==
    load.client = "turns" /\ load.policies \subseteq {"token-cfs", "token-cfs-prefix-affinity"} =>
      \A a, b \in Offered \ load.blockable :
        avp[a].vruntime - avp[b].vruntime <= MaxStep + Threshold

\* Under the resource aware policy the selected agent is not dominated: no
\* ready agent that is no further ahead, shares as many pages, has as much
\* priority and is under no more pressure of any kind is also older, or under
\* less memory pressure than the selected one and the machine.
Undominated ==
    decision.policy = "token-cfs-prefix-affinity-resource-aware"
      /\ decision.selected # NoAgent =>
      LET cs  == decision.candidates
          sel == cs[Chosen]
      IN  ~ \E i \in 1..Len(cs) :
              /\ cs[i].vruntime <= sel.vruntime
              /\ Shared(cs[i], decision.last) >= Shared(sel, decision.last)
              /\ cs[i].priority >= sel.priority
              /\ cs[i].memory <= sel.memory
              /\ cs[i].pids <= sel.pids
              /\ cs[i].cpu <= sel.cpu
              /\ \/ cs[i].created < sel.created
                 \/ maxFloat(cs[i].memory, decision.pressure) < sel.memory
=============================================================================
