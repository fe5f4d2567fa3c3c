----------------------------- MODULE Lifecycle -----------------------------
(***************************************************************************)
(* The life of an agent across the parts that act on it concurrently:      *)
(*   - its worker process (cmd/aort-worker), which registers, works,       *)
(*     reports and then sends heartbeats over its own connection;          *)
(*   - the goroutine of that connection, which feeds the registry and runs *)
(*     the registration callback (capsule, workspace);                     *)
(*   - the goroutine that drives the task: /api/demo/run launches workers  *)
(*     after saving its checkpoint, the software-real demo waits for each  *)
(*     worker, completes the agents, saves its checkpoint and returns,     *)
(*     which cancels the request context its workers run under;            *)
(*   - HTTP handlers that freeze, kill and destroy agents, and those that  *)
(*     inject a fault, which make a workspace for an agent id of their own *)
(*     that the registry is never told of;                                 *)
(*   - the heartbeat monitor;                                              *)
(*   - the daemon, which may crash and restart from the checkpoint.        *)
(*                                                                         *)
(* One task is modelled, with Agents as its agents: task ids are unique,   *)
(* so an agent id is launched at most once.  Time advances in heartbeat    *)
(* periods.  A worker that is neither dead nor frozen sends what it owes   *)
(* once per period and the daemon takes its messages in that period.       *)
(***************************************************************************)
EXTENDS Registry, Sequences

CONSTANTS
    Nobody,    \* the task driver waits for no agent
    FaultIds   \* the ids fault-<time>-agent of injected faults

ASSUME LifecycleAssumption == Agents \cap FaultIds = {}

VARIABLES
    up,        \* the daemon: "down", "starting" (not recovered yet) or "up"
    capsule,   \* capsule[a]: "none", "real" or "degraded" (capsule.Manager)
    ws,        \* the ids that have a workspace (workspace.Manager)
    work,      \* work[a]: where the worker process of a is
    freeze,    \* freeze[a]: "never", "frozen" or "thawed" (cgroup.freeze)
    beaten,    \* beaten[a]: the worker of a sent something in this period
    sock,      \* sock[a]: messages of a's worker the daemon has not read
    conn,      \* conn[a]: the goroutine serving the connection of a's worker
    killing,   \* ids killed or destroyed, which the registry does not know yet
    run,       \* how far the task driver is
    wait,      \* the agent the task driver waits for
    ckpt       \* the records of the saved checkpoint

lvars == <<agents, up, capsule, ws, work, freeze, beaten, sock, conn, killing, run, wait, ckpt>>
machine == <<capsule, ws, freeze, killing>>
driver == <<run, wait, ckpt>>
worker == <<work, beaten>>

Alive(a) == work[a] \in {"started", "working", "reporting", "beating"}

\* A worker that registers or has registered, and can send.
Active(a) ==
    /\ work[a] \in {"working", "reporting", "beating"}
    /\ freeze[a] # "frozen"
    /\ conn[a] # "closed"

\* A worker that neither died, nor lost its daemon, nor was ever frozen.
Healthy(a) == Active(a) /\ freeze[a] = "never"

Known(a) == a \in DOMAIN agents

LInit ==
    /\ agents = [a \in {} |-> Fresh]
    /\ up = "up"
    /\ capsule = [a \in Agents |-> "none"]
    /\ ws = {}
    /\ work = [a \in Agents |-> "none"]
    /\ freeze = [a \in Agents |-> "never"]
    /\ beaten = [a \in Agents |-> FALSE]
    /\ sock = [a \in Agents |-> <<>>]
    /\ conn = [a \in Agents |-> "none"]
    /\ killing = {}
    /\ run = "idle"
    /\ wait = Nobody
    /\ ckpt = [a \in {} |-> Fresh]

-----------------------------------------------------------------------------
(* The worker process. *)

Send(a, message, next) ==
    /\ freeze[a] # "frozen"
    /\ conn[a] # "closed"
    /\ sock' = [sock EXCEPT ![a] = Append(@, message)]
    /\ beaten' = [beaten EXCEPT ![a] = TRUE]
    /\ work' = [work EXCEPT ![a] = next]
    /\ UNCHANGED <<agents, up, machine, driver>>

\* Dials and sends the register message.
WorkerRegister(a) ==
    /\ work[a] = "started"
    /\ up # "down"
    /\ conn' = [conn EXCEPT ![a] = "reading"]
    /\ Send(a, "register", "working")

\* Done with its context and tool syscalls, which are answered after the
\* registration has been handled; agent.report waits for its own answer.
WorkerReport(a) ==
    /\ work[a] = "working"
    /\ sock[a] = <<>> /\ conn[a] = "reading"
    /\ Send(a, "report", "reporting")
    /\ UNCHANGED conn

WorkerHeartbeat(a) ==
    /\ work[a] = "beating"
    /\ ~beaten[a]
    /\ Send(a, "heartbeat", "beating")
    /\ UNCHANGED conn

Die(S) == work' = [a \in Agents |-> IF a \in S /\ Alive(a) THEN "dead" ELSE work[a]]

\* Crashes on its own.
WorkerCrash(a) ==
    /\ Alive(a)
    /\ Die({a})
    /\ UNCHANGED <<agents, up, machine, driver, beaten, sock, conn>>

\* Finds the daemon gone when it dials, sends or waits for an answer.
WorkerExit(a) ==
    /\ Alive(a)
    /\ freeze[a] # "frozen"
    /\ conn[a] = "closed" \/ (work[a] = "started" /\ up = "down")
    /\ Die({a})
    /\ UNCHANGED <<agents, up, machine, driver, beaten, sock, conn>>

-----------------------------------------------------------------------------
(* The goroutine serving the connection of a's worker. *)

Receive(a, message) ==
    /\ up # "down"
    /\ conn[a] = "reading"
    /\ sock[a] # <<>> /\ Head(sock[a]) = message
    /\ sock' = [sock EXCEPT ![a] = Tail(@)]
    /\ UNCHANGED <<up, machine, driver, beaten>>

HandleRegister(a) ==
    /\ Receive(a, "register")
    /\ register(a)
    /\ conn' = [conn EXCEPT ![a] = "prepare"]
    /\ UNCHANGED work

HandleHeartbeat(a) ==
    /\ Receive(a, "heartbeat")
    /\ heartbeat(a)
    /\ UNCHANGED <<conn, work>>

HandleReport(a) ==
    /\ Receive(a, "report")
    /\ report(a, "COMPLETED")
    /\ work' = [work EXCEPT ![a] = IF @ = "reporting" THEN "beating" ELSE @]
    /\ UNCHANGED conn

\* capsules.Prepare falls back to a degraded capsule when a cgroup write fails.
PrepareCapsule(a) ==
    /\ conn[a] = "prepare"
    /\ \E mode \in {"real", "degraded"} : capsule' = [capsule EXCEPT ![a] = mode]
    /\ conn' = [conn EXCEPT ![a] = "attach"]
    /\ UNCHANGED <<agents, up, ws, freeze, killing, driver, worker, sock>>

\* Fault: stores the record the callback was handed at registration.
AttachCapsuleFromCopy(a) ==
    /\ conn[a] = "attach"
    /\ agents' = Put(agents, a, [Entry(a) EXCEPT !.state = "RUNNING"])
    /\ conn' = [conn EXCEPT ![a] = "workspace"]
    /\ UNCHANGED <<up, machine, driver, worker, sock>>

AttachCapsule(a) ==
    /\ conn[a] = "attach"
    /\ SetPath(a)
    /\ conn' = [conn EXCEPT ![a] = "workspace"]
    /\ UNCHANGED <<up, machine, driver, worker, sock>>

\* ensureAgentWorkspace may fail; then SetWorkspace is skipped.
AttachWorkspace(a) ==
    /\ conn[a] = "workspace"
    /\ \/ SetPath(a) /\ ws' = ws \cup {a}
       \/ UNCHANGED <<agents, ws>>
    /\ conn' = [conn EXCEPT ![a] = "reading"]
    /\ UNCHANGED <<up, capsule, freeze, killing, driver, worker, sock>>

-----------------------------------------------------------------------------
(* The task driver. *)

DemoCreate ==
    /\ up = "up" /\ run = "idle"
    /\ agents' = [a \in DOMAIN agents \cup Agents |-> IF a \in Agents THEN Fresh ELSE agents[a]]
    /\ run' = "created"
    /\ UNCHANGED <<up, machine, wait, ckpt, worker, sock, conn>>

\* Saves the records of the task (ListByTask) and only reports a failing Save.
saveCheckpoint ==
    \/ ckpt' = [a \in DOMAIN agents \cap Agents |-> agents[a]]
    \/ ckpt' = ckpt

\* Saved before the first worker is launched.
DemoCheckpoint ==
    /\ run = "created"
    /\ saveCheckpoint
    /\ run' = "launching"
    /\ UNCHANGED <<agents, up, machine, wait, worker, sock, conn>>

\* A worker that cannot be started ends the task with the rest not launched.
DemoLaunch(a) ==
    /\ run = "launching"
    /\ work[a] = "none"
    /\ \/ work' = [work EXCEPT ![a] = "started"] /\ UNCHANGED run
       \/ run' = "over" /\ UNCHANGED work
    /\ UNCHANGED <<agents, up, machine, wait, ckpt, beaten, sock, conn>>

RealLaunch(a) ==
    /\ up = "up" /\ run \in {"idle", "real"}
    /\ wait = Nobody
    /\ work[a] = "none"
    /\ IF Known(a) THEN UNCHANGED agents ELSE CreateAgent(a)
    /\ \/ work' = [work EXCEPT ![a] = "started"] /\ wait' = a /\ run' = "real"
       \/ run' = "ending" /\ UNCHANGED <<work, wait>>
    /\ UNCHANGED <<up, machine, ckpt, beaten, sock, conn>>

\* The driver sees the PID and makes sure that there is a capsule.
RealAttach(a) ==
    /\ run = "real" /\ wait = a
    /\ Known(a) /\ agents[a].pid
    /\ SetPath(a)
    /\ IF capsule[a] # "none" THEN UNCHANGED capsule
       ELSE \E mode \in {"real", "degraded"} : capsule' = [capsule EXCEPT ![a] = mode]
    /\ wait' = Nobody
    /\ UNCHANGED <<up, ws, freeze, killing, run, ckpt, worker, sock, conn>>

\* The demo fails or a worker does not register in time.
RealAbort ==
    /\ run = "real"
    /\ run' = "ending"
    /\ wait' = Nobody
    /\ UNCHANGED <<agents, up, machine, ckpt, worker, sock, conn>>

AllAttached == run = "real" /\ wait = Nobody /\ \A a \in Agents : work[a] # "none"

\* The last step of the demo: its own agent.report for the reporter.
RealReport(a) ==
    /\ AllAttached
    /\ report(a, "success")
    /\ run' = "reported"
    /\ UNCHANGED <<up, machine, wait, ckpt, worker, sock, conn>>

RealComplete ==
    /\ run = "reported"
    /\ agents' = [a \in DOMAIN agents |->
                    IF a \in Agents THEN [agents[a] EXCEPT !.state = "COMPLETED"] ELSE agents[a]]
    /\ run' = "completed"
    /\ UNCHANGED <<up, machine, wait, ckpt, worker, sock, conn>>

RealCheckpoint ==
    /\ run = "completed"
    /\ saveCheckpoint
    /\ run' = "ending"
    /\ UNCHANGED <<agents, up, machine, wait, worker, sock, conn>>

\* The request returns: its context is cancelled and the workers are killed.
RealEnd ==
    /\ run = "ending"
    /\ Die(Agents)
    /\ run' = "over"
    /\ UNCHANGED <<agents, up, machine, wait, ckpt, beaten, sock, conn>>

\* tool.exec makes the agent a workspace if it has none: in the demo before its
\* checkpoint, in the software-real demo, and for the worker between its
\* registration and its report.
ToolExec(a) ==
    /\ \/ run = "created" \/ AllAttached
       \/ Active(a) /\ work[a] = "working" /\ sock[a] = <<>> /\ conn[a] = "reading"
    /\ a \notin ws
    /\ ws' = ws \cup {a}
    /\ UNCHANGED <<agents, up, capsule, freeze, killing, driver, worker, sock, conn>>

-----------------------------------------------------------------------------
(* HTTP handlers for one agent or one id. *)

\* POST /api/demo/fault/tool-timeout and workspace-rm: a workspace for an id
\* that is in no registry and has neither a worker nor a capsule.
InjectFault(f) ==
    /\ up = "up" /\ f \notin ws
    /\ ws' = ws \cup {f}
    /\ UNCHANGED <<agents, up, capsule, freeze, killing, driver, worker, sock, conn>>

Freeze(a) ==
    /\ up = "up" /\ capsule[a] = "real" /\ Alive(a)
    /\ freeze' = [freeze EXCEPT ![a] = "frozen"]
    /\ UNCHANGED <<agents, up, capsule, ws, killing, driver, worker, sock, conn>>

Unfreeze(a) ==
    /\ up = "up" /\ capsule[a] = "real" /\ freeze[a] = "frozen"
    /\ freeze' = [freeze EXCEPT ![a] = "thawed"]
    /\ UNCHANGED <<agents, up, capsule, ws, killing, driver, worker, sock, conn>>

\* capsules.Kill needs a PID, recorded with the capsule; the registry learns
\* of it in a second step, which a grace period may separate from the first.
KillProcess(a) ==
    /\ up = "up" /\ capsule[a] # "none" /\ a \notin killing
    /\ Die({a})
    /\ killing' = killing \cup {a}
    /\ UNCHANGED <<agents, up, capsule, ws, freeze, driver, beaten, sock, conn>>

\* Fault: the workspace need not exist.
DestroyAny(a) ==
    /\ up = "up" /\ a \notin killing
    /\ ws' = ws \ {a}
    /\ killing' = killing \cup {a}
    /\ UNCHANGED <<agents, up, capsule, freeze, driver, worker, sock, conn>>

\* Destroys the workspace of any id, an error if it has none; the worker is
\* not told.
Destroy(a) ==
    /\ up = "up" /\ a \in ws /\ a \notin killing
    /\ ws' = ws \ {a}
    /\ killing' = killing \cup {a}
    /\ UNCHANGED <<agents, up, capsule, freeze, driver, worker, sock, conn>>

\* POST /api/workspaces/<agent>/destroy leaves the registry alone.
DestroyWorkspace(a) ==
    /\ up = "up" /\ a \in ws
    /\ ws' = ws \ {a}
    /\ UNCHANGED <<agents, up, capsule, freeze, killing, driver, worker, sock, conn>>

\* The second step of kill and of destroy; an id the registry does not know
\* gets the zero record.
SetKilled(a) ==
    /\ a \in killing
    /\ SetState(a, "KILLED")
    /\ killing' = killing \ {a}
    /\ UNCHANGED <<up, capsule, ws, freeze, driver, worker, sock, conn>>

-----------------------------------------------------------------------------
(* The monitor, time, and the daemon's crash and restart. *)

Monitor ==
    /\ up # "down"
    /\ \E a \in DOMAIN agents : Lost(agents[a])
    /\ MarkHeartbeatLost
    /\ UNCHANGED <<up, machine, driver, worker, sock, conn>>

\* The daemon has handled everything that came over the connection.
Served(a) == sock[a] = <<>> /\ conn[a] \in {"none", "reading", "closed"}

Tick ==
    /\ \A a \in Agents : Served(a) /\ (Active(a) => beaten[a])
    /\ agents' = [a \in DOMAIN agents |-> Aged(agents[a])]
    /\ ckpt' = [a \in DOMAIN ckpt |-> Aged(ckpt[a])]
    /\ beaten' = [a \in Agents |-> FALSE]
    /\ UNCHANGED <<up, machine, run, wait, work, sock, conn>>

\* Everything in the daemon's memory is lost; connections break.
Crash ==
    /\ up # "down"
    /\ up' = "down"
    /\ agents' = [a \in {} |-> Fresh]
    /\ capsule' = [a \in Agents |-> "none"]
    /\ ws' = {}
    /\ killing' = {}
    /\ sock' = [a \in Agents |-> <<>>]
    /\ conn' = [a \in Agents |-> IF conn[a] = "none" THEN "none" ELSE "closed"]
    /\ run' = IF run = "idle" THEN "idle" ELSE "over"
    /\ wait' = Nobody
    /\ UNCHANGED <<freeze, worker, ckpt>>

Restart ==
    /\ up = "down"
    /\ up' = "starting"
    /\ UNCHANGED <<agents, machine, driver, worker, sock, conn>>

isRecoveredTerminal(state) == state \in {"COMPLETED", "FAILED", "KILLED"}

Restored(r) == IF isRecoveredTerminal(r.state) THEN r ELSE [r EXCEPT !.state = "READY"]

\* Restores every record of the checkpoint, over what may be there already;
\* checkpoints that cannot be read leave the registry as it is.
Recover ==
    /\ up = "starting"
    /\ up' = "up"
    /\ RestoreAgents([a \in DOMAIN ckpt |-> Restored(ckpt[a])]) \/ UNCHANGED agents
    /\ UNCHANGED <<machine, driver, worker, sock, conn>>

-----------------------------------------------------------------------------
WorkerSends(a) == WorkerRegister(a) \/ WorkerReport(a) \/ WorkerHeartbeat(a)

Serve(a) ==
    \/ HandleRegister(a) \/ HandleHeartbeat(a) \/ HandleReport(a)
    \/ PrepareCapsule(a) \/ AttachCapsule(a) \/ AttachWorkspace(a)

Drive ==
    \/ DemoCreate \/ DemoCheckpoint \/ RealAbort \/ RealComplete \/ RealCheckpoint \/ RealEnd
    \/ \E a \in Agents : DemoLaunch(a) \/ RealLaunch(a) \/ RealAttach(a) \/ RealReport(a)
                      \/ ToolExec(a)

Operate ==
    \/ \E a \in Agents : Freeze(a) \/ Unfreeze(a) \/ KillProcess(a)
    \/ \E f \in FaultIds : InjectFault(f)
    \/ \E a \in Agents \cup FaultIds : Destroy(a) \/ DestroyWorkspace(a) \/ SetKilled(a)

LNext ==
    \/ \E a \in Agents : WorkerSends(a) \/ WorkerCrash(a) \/ WorkerExit(a) \/ Serve(a)
    \/ Operate
    \/ Drive \/ Monitor \/ Tick \/ Crash \/ Restart \/ Recover

(***************************************************************************)
(* Time passes; the monitor's ticker fires; live workers and connection    *)
(* goroutines are scheduled.  Nothing else has to happen.                  *)
(***************************************************************************)
LFairness ==
    /\ WF_lvars(Tick) /\ WF_lvars(Monitor)
    /\ \A a \in Agents : WF_lvars(WorkerSends(a)) /\ WF_lvars(Serve(a))

LSpec == LInit /\ [][LNext]_lvars /\ LFairness

-----------------------------------------------------------------------------
\* What SetState(id, KILLED) stores under an id the registry does not know.
Ghost == [Zero EXCEPT !.state = "KILLED"]

\* The records without an AgentID are those of injected faults.
Records(f) ==
    /\ DOMAIN f \subseteq Agents \cup FaultIds
    /\ f \in [DOMAIN f -> AVP \cup {Ghost}]
    /\ \A a \in DOMAIN f : a \in FaultIds <=> f[a] = Ghost

\* Type invariant.  Every record of an agent of the task has its AgentID:
\* SetState, SetCapsule and SetWorkspace meet no agent of the task that the
\* registry does not know, whatever was killed, destroyed or lost in a restart
\* before.  The zero record that destroying the agent of an injected fault
\* leaves is KILLED, has no process and gets into no checkpoint.
LTypeOK ==
    /\ Records(agents)
    /\ DOMAIN ckpt \subseteq Agents /\ ckpt \in [DOMAIN ckpt -> AVP]
    /\ up \in {"down", "starting", "up"}
    /\ capsule \in [Agents -> {"none", "real", "degraded"}]
    /\ ws \subseteq Agents \cup FaultIds /\ killing \subseteq Agents \cup FaultIds
    /\ work \in [Agents -> {"none", "started", "working", "reporting", "beating", "dead"}]
    /\ freeze \in [Agents -> {"never", "frozen", "thawed"}]
    /\ beaten \in [Agents -> BOOLEAN]
    /\ sock \in [Agents -> Seq({"register", "report", "heartbeat"})]
    /\ conn \in [Agents -> {"none", "reading", "prepare", "attach", "workspace", "closed"}]
    /\ run \in {"idle", "created", "launching", "real", "reported", "completed", "ending",
               "over"}
    /\ wait \in Agents \cup {Nobody}

\* The monitor raises no false alarm: a worker that does its work and sends
\* its heartbeats is not declared FAILED, not even between its registration
\* and its report, when it sends no heartbeat.
HealthyNotFailed ==
    \A a \in Agents : Healthy(a) /\ Known(a) => agents[a].state # "FAILED"

\* The registration callback, which runs without the registry's lock on a copy
\* of the record, the monitor and the operator's handlers leave a KILLED agent
\* KILLED.  The two who do not are named: a message of the agent's own worker
\* and the driver of its task (KilledStays is about those).
KilledHeldAgainstCallbacks ==
    [][\A a \in Agents : Known(a) /\ agents[a].state = "KILLED" /\ up' = "up" =>
          \/ agents'[a].state = "KILLED"
          \/ sock'[a] # sock[a]
          \/ run' # run]_lvars

\* A RUNNING agent whose worker is dead does not stay RUNNING.
DeadWorkerNoticed ==
    \A a \in Agents :
        Known(a) /\ agents[a].state = "RUNNING" /\ work[a] = "dead"
            ~> ~(Known(a) /\ agents[a].state = "RUNNING")

\* COMPLETED has no way out: an agent that completed stays so for as long as
\* the daemon runs, and no worker is needed for that any more.
CompletedStays ==
    [][\A a \in Agents : Known(a) /\ agents[a].state = "COMPLETED" /\ up' = "up" =>
          agents'[a].state # "FAILED"]_lvars

\* KILLED has no way out: what was killed or destroyed stays so for as long as
\* the daemon runs.
KilledStays ==
    [][\A a \in Agents : Known(a) /\ agents[a].state = "KILLED" /\ up' = "up" =>
          agents'[a].state = "KILLED"]_lvars

\* Freezing an agent suspends it; it is not a failure.
FrozenNotFailed ==
    \A a \in Agents : Known(a) /\ freeze[a] = "frozen" /\ conn[a] # "closed" =>
        agents[a].state # "FAILED"
============================================================================
