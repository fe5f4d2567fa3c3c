------------------------------ MODULE Registry ------------------------------
(***************************************************************************)
(* The agent registry of internal/worker/registry.go.  Every operation     *)
(* reads, changes and stores one record under the registry's mutex, so     *)
(* each is one action on the variable agents.                              *)
(*                                                                         *)
(* A record keeps what the operations decide on: the state, whether a PID  *)
(* is known, and LastSeen; and whether it has its AgentID. LastSeen is     *)
(* kept as the time since then, in heartbeat periods, saturated once it    *)
(* exceeds the timeout; Never stands for the zero LastSeen. The state is   *)
(* only ever one the daemon sets: nothing in it uses the WAITING states or *)
(* SUSPENDED.                                                              *)
(***************************************************************************)
EXTENDS Integers

CONSTANTS
    Agents,    \* agent ids
    Timeout,   \* heartbeat timeout, in heartbeat periods
    Never      \* LastSeen was never set

ASSUME RegistryAssumption == Timeout \in Nat \ {0} /\ Never \notin Nat

VARIABLE agents  \* Registry.agents: a function from the known ids

States == {"CREATED", "READY", "RUNNING", "COMPLETED", "success", "FAILED", "KILLED"}

AVP == [agentID : {TRUE}, state : States, pid : BOOLEAN,
        silence : (0..(Timeout + 1)) \cup {Never}]

Put(f, k, v) == [x \in DOMAIN f \cup {k} |-> IF x = k THEN v ELSE f[x]]

Fresh == [agentID |-> TRUE, state |-> "CREATED", pid |-> FALSE, silence |-> Never]

\* The zero record a lookup of an unknown id returns; it has no AgentID.
Zero == [agentID |-> FALSE, state |-> "", pid |-> FALSE, silence |-> Never]

Entry(a) == IF a \in DOMAIN agents THEN agents[a] ELSE Zero

agentForMessage(a) == IF a \in DOMAIN agents THEN agents[a] ELSE Fresh

CreateAgent(a) == agents' = Put(agents, a, Fresh)

\* Fault: registering does not count as a sign of life.
registerUnseen(a) ==
    agents' = Put(agents, a, [agentForMessage(a) EXCEPT !.pid = TRUE, !.state = "RUNNING"])

register(a) ==
    agents' = Put(agents, a, [agentForMessage(a) EXCEPT !.pid = TRUE, !.state = "RUNNING",
                                                        !.silence = 0])

heartbeat(a) ==
    agents' = Put(agents, a, [agentForMessage(a) EXCEPT !.pid = TRUE, !.silence = 0])

report(a, status) ==
    agents' = Put(agents, a, [agentForMessage(a) EXCEPT !.state = status, !.silence = 0])

\* The records of a checkpoint, each stored over what may be there already.
RestoreAgents(saved) ==
    agents' = [a \in DOMAIN agents \cup DOMAIN saved |->
                  IF a \in DOMAIN saved THEN saved[a] ELSE agents[a]]

SetState(a, state) == agents' = Put(agents, a, [Entry(a) EXCEPT !.state = state])

\* SetCapsule and SetWorkspace write a path into the current record.
SetPath(a) == agents' = Put(agents, a, Entry(a))

\* Fault: an agent seen exactly one timeout ago is given up.
LostAtTimeout(r) ==
    /\ r.pid /\ r.silence # Never
    /\ r.state \notin {"FAILED", "KILLED"}
    /\ r.silence >= Timeout

\* What MarkHeartbeatLost turns into FAILED.
Lost(r) ==
    /\ r.pid /\ r.silence # Never
    /\ r.state \notin {"FAILED", "KILLED"}
    /\ r.silence > Timeout

MarkHeartbeatLost ==
    agents' = [a \in DOMAIN agents |->
                  IF Lost(agents[a]) THEN [agents[a] EXCEPT !.state = "FAILED"] ELSE agents[a]]

\* One heartbeat period passes for a record.
Aged(r) ==
    [r EXCEPT !.silence = IF @ = Never THEN Never ELSE IF @ > Timeout THEN @ ELSE @ + 1]
=============================================================================
