------------------------------- MODULE Spawn -------------------------------
(***************************************************************************)
(* agent.spawn and the task it adds an agent to (spawnAgent, runDemo and   *)
(* handleDemoRun in internal/api/server.go), over the agent registry.      *)
(*                                                                         *)
(* spawnAgent takes the registry's lock three times and the server's once, *)
(* so the calls of several connections, the messages of workers and the    *)
(* demo that creates the task interleave between its steps.  The caller    *)
(* names the new agent; a call without a name uses one that contains the   *)
(* time, which no one else uses.  The pages the new agent inherits are in  *)
(* module Gateway.                                                         *)
(***************************************************************************)
EXTENDS Registry, Sequences, SequencesExt

CONSTANTS
    Specs,      \* the agents of the demo's task, in order
    Fixer,      \* the agent its reviewer spawns
    Callers,    \* goroutines serving worker connections
    Demo,       \* the goroutine serving the demo request
    NoTask,     \* the server has no task of this id
    MaxCalls    \* bound on the agent.spawn calls of the workers

ASSUME SpawnAssumption ==
    /\ Specs \in Seq(Agents) \ {<<>>} /\ Fixer \in Agents \ ToSet(Specs)
    /\ Demo \notin Callers /\ MaxCalls \in Nat

VARIABLES
    demo,       \* where the demo request is
    made,       \* how many of its agents it has created
    task,       \* s.tasks[id]: the agents in the order they were added
    call,       \* the agent.spawn call each goroutine is in
    calls

pvars == <<agents, demo, made, task, call, calls>>

Idle == [step |-> "idle", id |-> Fixer]

PInit ==
    /\ agents = [a \in {} |-> Fresh]
    /\ demo = "idle" /\ made = 0
    /\ task = NoTask
    /\ call = [k \in Callers \cup {Demo} |-> Idle]
    /\ calls = 0

(***************************************************************************)
(* spawnAgent.                                                             *)
(***************************************************************************)
Enter(k, id) == call' = [call EXCEPT ![k] = [step |-> "lookup", id |-> id]]

At(k, step) == call[k].step = step
Goto(k, step) == call' = [call EXCEPT ![k].step = step]

\* The names in a task contain its id, which task.created makes known before the
\* first of its agents is there.
Named(a) == a \in ToSet(Specs) \cup {Fixer} => demo # "idle"

\* A worker asks for an agent by any name, also one that is there already.
WorkerSpawns(k, id) ==
    /\ At(k, "idle") /\ Named(id)
    /\ calls < MaxCalls
    /\ calls' = calls + 1
    /\ Enter(k, id)
    /\ UNCHANGED <<agents, demo, made, task>>

\* Fault: the agent is created without looking whether it is there.
LookupNothing(k) ==
    /\ At(k, "lookup")
    /\ Goto(k, "create")
    /\ UNCHANGED <<agents, demo, made, task, calls>>

Lookup(k) ==
    /\ At(k, "lookup")
    /\ Goto(k, IF call[k].id \in DOMAIN agents THEN "workspace" ELSE "create")
    /\ UNCHANGED <<agents, demo, made, task, calls>>

\* The record may be there by now; it is overwritten.
Create(k) ==
    /\ At(k, "create")
    /\ CreateAgent(call[k].id)
    /\ Goto(k, "workspace")
    /\ UNCHANGED <<demo, made, task, calls>>

Workspace(k) ==
    /\ At(k, "workspace")
    /\ SetPath(call[k].id) \/ UNCHANGED agents
    /\ Goto(k, "list")
    /\ UNCHANGED <<demo, made, task, calls>>

\* Only a task the server has gets the agent, at the end of its list and DAG.
List(k) ==
    /\ At(k, "list")
    /\ task' = IF task = NoTask THEN NoTask ELSE Append(task, call[k].id)
    /\ Goto(k, "idle")
    /\ UNCHANGED <<agents, demo, made, calls>>

(***************************************************************************)
(* The demo request and the workers.                                       *)
(***************************************************************************)
DemoBegin ==
    /\ demo = "idle"
    /\ demo' = "create"
    /\ UNCHANGED <<agents, made, task, call, calls>>

\* One agent after another; a record that a spawn has made meanwhile is
\* overwritten.
DemoCreate ==
    /\ demo = "create"
    /\ CreateAgent(Specs[made + 1])
    /\ made' = made + 1
    /\ demo' = IF made' = Len(Specs) THEN "evidence" ELSE "create"
    /\ UNCHANGED <<task, call, calls>>

\* runDemoRuntimeEvidence: the reviewer spawns the fixer.
DemoEvidence ==
    /\ demo = "evidence"
    /\ demo' = "spawning"
    /\ Enter(Demo, Fixer)
    /\ UNCHANGED <<agents, made, task, calls>>

DemoLaunch ==
    /\ demo = "spawning" /\ At(Demo, "idle")
    /\ demo' \in {"launched", "failed"}
    /\ UNCHANGED <<agents, made, task, call, calls>>

DemoStore ==
    /\ demo = "launched"
    /\ demo' = "stored"
    /\ task' = Specs
    /\ UNCHANGED <<agents, made, call, calls>>

\* The workers of the task are started by the demo; a worker of another name
\* was started by hand.
Message(a) ==
    /\ Named(a)
    /\ a \in ToSet(Specs) => demo \in {"launched", "stored"}
    /\ register(a) \/ heartbeat(a) \/ report(a, "COMPLETED")
    /\ UNCHANGED <<demo, made, task, call, calls>>

PNext ==
    \/ \E k \in Callers, id \in Agents : WorkerSpawns(k, id)
    \/ \E k \in Callers \cup {Demo} : Lookup(k) \/ Create(k) \/ Workspace(k) \/ List(k)
    \/ DemoBegin \/ DemoCreate \/ DemoEvidence \/ DemoLaunch \/ DemoStore
    \/ \E a \in Agents : Message(a)

PSpec == PInit /\ [][PNext]_pvars

(***************************************************************************)
(* Properties.                                                             *)
(***************************************************************************)
\* The agents runDemo has still to create, and those a spawn is about to create
\* because it did not find them.
Due == {Specs[i] : i \in (made + 1)..Len(Specs)}
Missed == {call[k].id : k \in {j \in Callers \cup {Demo} : At(j, "create")}}

Settled(a) == a \in DOMAIN agents /\ a \notin Due \cup Missed

\* The window between the two steps of spawnAgent, looking up and creating, is
\* the only one in which the record of a registered worker can be overwritten:
\* once nobody is left who missed an agent it stays settled for good, whoever
\* spawns agents of its name afterwards, and its process is never forgotten.  Nor
\* do spawns, or the demo that stores the task, overwrite an entry of its list.
SpawnUndoesNothing ==
    [][/\ \A a \in Agents : Settled(a) => Settled(a)' /\ (agents[a].pid => agents'[a].pid)
       /\ task # NoTask => IsPrefix(task, task')]_pvars
=============================================================================
