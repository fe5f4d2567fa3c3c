----------------------------- MODULE Checkpoint -----------------------------
(***************************************************************************)
(* The checkpoint store (internal/checkpoint/checkpoint.go), the requests  *)
(* that save tasks in it and the recovery when the daemon starts           *)
(* (internal/api/server.go runDemo, saveCheckpoint, recoverFromCheckpoints *)
(* and what it calls).                                                     *)
(*                                                                         *)
(* A task has one file, saved under sequence 1 and written in place: it is *)
(* truncated first and holds no complete snapshot until it is written.     *)
(* The daemon may be killed at any moment, and a write may fail half way.  *)
(* What becomes of the registry at a restart is in module Lifecycle.       *)
(***************************************************************************)
EXTENDS Integers, FiniteSets

CONSTANTS
    Agents,      \* the agents of a task
    States,      \* the states a registry record may have when it is saved
    Handlers,    \* goroutines serving POST /api/demo/run
    Torn,        \* a file without a complete snapshot
    NoRun,       \* the handler serves no request
    MaxTasks, MaxCrashes

ASSUME CheckpointAssumption ==
    /\ MaxTasks \in Nat /\ MaxCrashes \in Nat
    /\ States \subseteq {"CREATED", "READY", "RUNNING", "COMPLETED", "FAILED", "KILLED"}

VARIABLES
    up,       \* the daemon runs and serves requests
    disk,     \* disk[t]: the snapshot in the file of task t, or Torn
    tasks,    \* the server's tasks: status and agent states
    report,   \* the recovery report: per recovered task, or empty
    failed,   \* runtime.recovery_failed was published
    broken,   \* a file could not be read at the last start (the machine's fault)
    run,      \* run[h]: the request a handler serves
    clock,    \* the task ids used so far (the time of day)
    crashes

cvars == <<up, disk, tasks, report, failed, broken, run, clock, crashes>>

Snapshots == [Agents -> States]
NoTasks == [t \in {} |-> 0]

CInit ==
    /\ up = TRUE
    /\ disk = NoTasks
    /\ tasks = NoTasks
    /\ report = NoTasks
    /\ failed = FALSE /\ broken = FALSE
    /\ run = [h \in Handlers |-> NoRun]
    /\ clock = 0
    /\ crashes = 0

-----------------------------------------------------------------------------
(* Running a task and saving it. *)

Put(f, t, v) == [u \in DOMAIN f \cup {t} |-> IF u = t THEN v ELSE f[u]]
Step(h, s) == run' = [run EXCEPT ![h].step = s]

\* Fault: ids are counted from one again after every start.
CountedTask == Cardinality(DOMAIN tasks \ DOMAIN report) + 1
\* The id of a task is the time it is created at.
NewTask == clock + 1

\* The agents are created; what the registry holds of them when the snapshot is
\* taken depends on what their workers have reported by then.
CreateTask(h) ==
    /\ up /\ run[h] = NoRun
    /\ clock < MaxTasks
    /\ clock' = clock + 1
    /\ \E snapshot \in Snapshots :
          run' = [run EXCEPT ![h] = [task |-> NewTask, agents |-> snapshot, step |-> "open"]]
    /\ UNCHANGED <<up, disk, tasks, report, failed, broken, crashes>>

\* The error of Save is published and the request goes on.
StoreOpen(h) ==
    /\ up /\ run[h] # NoRun /\ run[h].step = "open"
    /\ \/ disk' = Put(disk, run[h].task, Torn) /\ Step(h, "write")
       \/ UNCHANGED disk /\ Step(h, "launch")
    /\ UNCHANGED <<up, tasks, report, failed, broken, clock, crashes>>

StoreWrite(h) ==
    /\ up /\ run[h] # NoRun /\ run[h].step = "write"
    /\ \/ disk' = Put(disk, run[h].task, run[h].agents)
       \/ UNCHANGED disk
    /\ Step(h, "launch")
    /\ UNCHANGED <<up, tasks, report, failed, broken, clock, crashes>>

\* A task none of whose launches failed enters the server's table.
Launch(h) ==
    /\ up /\ run[h] # NoRun /\ run[h].step = "launch"
    /\ \/ tasks' = Put(tasks, run[h].task, [status |-> "running", agents |-> run[h].agents])
       \/ UNCHANGED tasks
    /\ run' = [run EXCEPT ![h] = NoRun]
    /\ UNCHANGED <<up, disk, report, failed, broken, clock, crashes>>

-----------------------------------------------------------------------------
(* Recovery. *)

Crash ==
    /\ up /\ crashes < MaxCrashes
    /\ crashes' = crashes + 1
    /\ up' = FALSE
    /\ tasks' = NoTasks /\ report' = NoTasks /\ failed' = FALSE /\ broken' = FALSE
    /\ run' = [h \in Handlers |-> NoRun]
    /\ UNCHANGED <<disk, clock>>

\* Fault: a killed agent counts as one that may be resumed.
isTerminalOrKilled(state) == state \in {"COMPLETED", "FAILED"}
isTerminal(state) == state \in {"COMPLETED", "FAILED", "KILLED"}

isRecoveredTerminal(state) == state \in {"COMPLETED", "FAILED", "KILLED"}

\* A task with no agent left to run is reported as completed, failed ones included.
summarizeRecovery(snapshot) ==
    LET ready == {a \in Agents : ~isTerminal(snapshot[a])}
    IN  [status |-> IF ready = {} THEN "completed" ELSE "recovered",
         completed |-> {a \in Agents : snapshot[a] = "COMPLETED"},
         ready |-> ready]

taskFromSnapshot(snapshot, status) ==
    [status |-> status,
     agents |-> [a \in Agents |->
                    IF isRecoveredTerminal(snapshot[a]) THEN snapshot[a] ELSE "READY"]]

\* List fails as a whole on a file it cannot decode.
Readable == \A t \in DOMAIN disk : disk[t] # Torn

\* Fault: only the file saved last is read.
NewestOnly == {t \in DOMAIN disk : \A u \in DOMAIN disk : u <= t}
RecoverAll == DOMAIN disk

\* Startup.  No request is served before it is done.  The first listing makes
\* the report; a report of no task is the end of it.
RecoverNothing ==
    /\ ~up
    /\ up' = TRUE
    /\ broken' \in BOOLEAN
    /\ ~Readable \/ broken' \/ disk = NoTasks
    /\ failed' = (~Readable \/ broken')
    /\ report' = NoTasks /\ tasks' = NoTasks
    /\ UNCHANGED <<disk, run, clock, crashes>>

\* The tasks of the report are restored from a second listing.  When that one
\* fails, the report is published already and no task is restored.
Recover ==
    /\ ~up
    /\ up' = TRUE
    /\ Readable /\ disk # NoTasks
    /\ report' = [t \in RecoverAll |-> summarizeRecovery(disk[t])]
    /\ broken' \in BOOLEAN
    /\ failed' = broken'
    /\ tasks' = IF broken' THEN NoTasks
                ELSE [t \in DOMAIN report' |-> taskFromSnapshot(disk[t], report'[t].status)]
    /\ UNCHANGED <<disk, run, clock, crashes>>

CNext ==
    \/ \E h \in Handlers : CreateTask(h) \/ StoreOpen(h) \/ StoreWrite(h) \/ Launch(h)
    \/ Crash \/ RecoverNothing \/ Recover

CSpec == CInit /\ [][CNext]_cvars

-----------------------------------------------------------------------------
(* Properties. *)

\* Unless runtime.recovery_failed was published, what /api/recovery/status says
\* of a recovered task stays true of the task the server holds, however many tasks
\* are run afterwards: the same status, the agents reported ready are the ones
\* restored as READY, the completed ones are COMPLETED (summarizeRecovery and
\* taskFromSnapshot decide this separately).
ReportHolds ==
    up /\ ~failed => \A t \in DOMAIN report :
             /\ t \in DOMAIN tasks
             /\ tasks[t].status = report[t].status
             /\ report[t].ready = {a \in Agents : tasks[t].agents[a] = "READY"}
             /\ report[t].completed = {a \in Agents : tasks[t].agents[a] = "COMPLETED"}

Started == ~up /\ up'
Saved == {t \in DOMAIN disk : disk[t] # Torn}

\* A daemon that starts with no torn file, and can read them all, restores every
\* task that was saved, of this and of all earlier lives (recoverFromCheckpoints).
RestoredUnlessTorn ==
    [][Started /\ Saved = DOMAIN disk /\ ~broken' => ~failed' /\ Saved \subseteq DOMAIN tasks']_cvars

\* "systemd restarts aortd" and "/api/tasks contains the task restored from the
\* latest checkpoint" (docs/deployment_openeuler.md:98-100): a daemon that starts
\* and can read its files has every task whose checkpoint was written completely.
SavedIsRestored ==
    [][Started /\ ~broken' => Saved \subseteq DOMAIN tasks']_cvars
=============================================================================
