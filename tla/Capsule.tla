------------------------------ MODULE Capsule ------------------------------
(***************************************************************************)
(* The capsule manager of internal/capsule/manager.go for one agent: its   *)
(* record (runtimes and pids), the cgroup directory, and the agent's       *)
(* processes.  Only the record is under the mutex; every system call is a  *)
(* step of its own, and the registration callback, the software-real       *)
(* driver and the HTTP handlers may all be inside the manager at once.     *)
(*                                                                         *)
(* The kernel is external: a child is born in its parent's cgroup, a dead  *)
(* process cannot be moved, a cgroup with processes cannot be removed, and *)
(* a frozen process only reacts to SIGKILL.  PIDs are not reused here.     *)
(***************************************************************************)
EXTENDS Naturals, FiniteSets

CONSTANTS
    Worker,         \* the agent's worker process
    Children,       \* the processes it and its children may make
    Clients,        \* goroutines inside the manager
    Attempts,       \* rounds of destroyCgroupTree, 8 in the code
    MaxCalls,       \* bound: calls made in a behaviour
    MaxFaults       \* bound: system calls that fail without a reason here

ASSUME CapsuleAssumption == Worker \notin Children

VARIABLES
    rec,     \* the record: [mode]; its pid is always the worker's
    cg,      \* the cgroup: [exists, limits, frozen]
    proc,    \* process -> "unborn", "out", "in" (the cgroup) or "dead"
    call,    \* caller -> what it is doing
    spent,   \* [calls, faults] so far
    HasCgroupKill  \* the kernel has cgroup.kill; it never changes

cvars == <<rec, cg, proc, call, spent, HasCgroupKill>>

Procs == {Worker} \cup Children
Limits == {"memory.max", "pids.max", "cpu.max"}
CgroupFiles == Limits \cup {"cgroup.procs"}

Alive(p) == proc[p] \in {"out", "in"}
Inside == {p \in Procs : proc[p] = "in"}
NoCgroup == [exists |-> FALSE, limits |-> {}, frozen |-> FALSE]
Idle == [op |-> "none", step |-> "idle", todo |-> {}, rt |-> "none", pids |-> {},
         round |-> 0, result |-> "none"]

Init ==
    /\ rec = "none"
    /\ cg = NoCgroup
    /\ proc = [p \in Procs |-> IF p = Worker THEN "out" ELSE "unborn"]
    /\ call = [c \in Clients |-> Idle]
    /\ spent = [calls |-> 0, faults |-> 0]
    /\ HasCgroupKill \in BOOLEAN

Doing(c, op, step) == call[c].op = op /\ call[c].step = step
Goto(c, step) == call' = [call EXCEPT ![c].step = step]
Return(c, r) == call' = [call EXCEPT ![c].step = "idle", ![c].result = r]
Dies(S) == proc' = [p \in Procs |-> IF p \in S /\ Alive(p) THEN "dead" ELSE proc[p]]
Failing == spent.faults < MaxFaults /\ spent' = [spent EXCEPT !.faults = @ + 1]

\* A call begins.  Kill, Destroy and the freezer read the record first.
BeginCall(c, op) ==
    /\ call[c].step = "idle" /\ spent.calls < MaxCalls
    /\ spent' = [spent EXCEPT !.calls = @ + 1]
    /\ call' = [call EXCEPT ![c] = [Idle EXCEPT !.op = op, !.step = "begin", !.rt = rec]]
    /\ UNCHANGED <<rec, cg, proc>>

(***************************************************************************)
(* Prepare.                                                                *)
(***************************************************************************)
\* available, enableSubtreeControllers and MkdirAll succeed.
PrepareMkdir(c) ==
    /\ Doing(c, "prepare", "begin")
    /\ cg' = IF cg.exists THEN cg ELSE [NoCgroup EXCEPT !.exists = TRUE]
    /\ call' = [call EXCEPT ![c].step = "write", ![c].todo = CgroupFiles]
    /\ UNCHANGED <<rec, proc, spent>>

\* The files are written in the order a Go map is walked: any.
PrepareWrite(c, f) ==
    /\ Doing(c, "prepare", "write") /\ f \in call[c].todo
    /\ cg.exists
    /\ IF f = "cgroup.procs"
       THEN /\ Alive(Worker)
            /\ proc' = [proc EXCEPT ![Worker] = "in"]
            /\ UNCHANGED cg
       ELSE /\ cg' = [cg EXCEPT !.limits = @ \cup {f}]
            /\ UNCHANGED proc
    /\ call' = [call EXCEPT ![c].todo = @ \ {f}]
    /\ UNCHANGED <<rec, spent>>

\* Fault: a file that cannot be written is skipped.
SkipFile(c) ==
    /\ \E f \in call[c].todo : call' = [call EXCEPT ![c].todo = @ \ {f}]
    /\ UNCHANGED rec

\* degradedOrError with AllowDegraded: whatever was written stays.
degradedOrError(c) ==
    /\ rec' = "degraded"
    /\ Return(c, "ok")

PrepareFails(c) ==
    /\ call[c].op = "prepare" /\ call[c].step \in {"begin", "write"}
    /\ call[c].step = "write" => call[c].todo # {}
    /\ \/ Failing
       \/ /\ call[c].step = "write"
          /\ ~cg.exists \/ ("cgroup.procs" \in call[c].todo /\ ~Alive(Worker))
          /\ UNCHANGED spent
    /\ degradedOrError(c)
    /\ UNCHANGED <<cg, proc>>

PrepareCommit(c) ==
    /\ Doing(c, "prepare", "write") /\ call[c].todo = {}
    /\ rec' = "real"
    /\ Return(c, "ok")
    /\ UNCHANGED <<cg, proc, spent>>

(***************************************************************************)
(* Freeze and Unfreeze.                                                    *)
(***************************************************************************)
writeFreeze(c, op, value) ==
    /\ Doing(c, op, "begin")
    /\ IF call[c].rt = "real" /\ cg.exists
       THEN cg' = [cg EXCEPT !.frozen = value] /\ Return(c, "ok")
       ELSE UNCHANGED cg /\ Return(c, "error")
    /\ UNCHANGED <<rec, proc, spent>>

(***************************************************************************)
(* Kill.                                                                   *)
(***************************************************************************)
KillCgroup(c) ==
    /\ Doing(c, "kill", "begin") /\ call[c].rt = "real"
    /\ HasCgroupKill /\ cg.exists
    /\ Dies(Inside)
    /\ call' = [call EXCEPT ![c].step = "idle", ![c].result = "cgroup-kill"]
    /\ UNCHANGED <<rec, cg, spent>>

\* Without a usable cgroup.kill: the processes of the cgroup and the recorded
\* PID, which is read again and may be gone by now.
KillReadPids(c) ==
    LET listed == IF call[c].rt = "real" /\ cg.exists THEN Inside ELSE {}
        pids   == listed \cup (IF rec = "none" THEN {} ELSE {Worker})
    IN  /\ Doing(c, "kill", "begin")
        /\ call[c].rt = "real" => ~(HasCgroupKill /\ cg.exists)
        /\ IF pids = {} THEN Return(c, "error")
           ELSE call' = [call EXCEPT ![c].step = "term", ![c].pids = pids]
        /\ UNCHANGED <<rec, cg, proc, spent>>

\* SIGTERM: a process that is not frozen may end, or have a handler.
Obeys(S) == {p \in S : Alive(p) /\ ~(proc[p] = "in" /\ cg.frozen)}

KillTerm(c) ==
    /\ Doing(c, "kill", "term")
    /\ \E S \in SUBSET Obeys(call[c].pids) : Dies(S)
    /\ Goto(c, "kill")
    /\ UNCHANGED <<rec, cg, spent>>

\* Fault: the grace period is taken as the end of the process.
TermIsEnough(c) == UNCHANGED proc

SignalKill(c) == Dies(call[c].pids)

KillSignal(c) ==
    /\ Doing(c, "kill", "kill")
    /\ SignalKill(c)
    /\ Return(c, "signals")
    /\ UNCHANGED <<rec, cg, spent>>

KillFails(c) ==
    /\ call[c].op = "kill" /\ call[c].step \in {"term", "kill"}
    /\ Failing
    /\ Return(c, "error")
    /\ UNCHANGED <<rec, cg, proc>>

(***************************************************************************)
(* Destroy.                                                                *)
(***************************************************************************)
\* No capsule is an error, a degraded one is only forgotten.
DestroyBegin(c) ==
    /\ Doing(c, "destroy", "begin")
    /\ CASE call[c].rt = "none" -> Return(c, "error") /\ UNCHANGED rec
         [] call[c].rt = "degraded" -> Return(c, "forgot") /\ rec' = "none"
         [] OTHER -> Goto(c, "drain") /\ UNCHANGED rec
    /\ UNCHANGED <<cg, proc, spent>>

\* drainCgroupTree: cgroup.kill where the kernel has it, ...
DrainCgroupKill(c) ==
    /\ Doing(c, "destroy", "drain")
    /\ IF HasCgroupKill /\ cg.exists THEN Dies(Inside) ELSE UNCHANGED proc
    /\ Goto(c, "list")
    /\ UNCHANGED <<rec, cg, spent>>

\* ... SIGTERM to the processes that are listed, and SIGKILL to those that are
\* listed 50 ms later.  A process may fork between the reading and the signal.
readCgroupPIDs(c, from, to) ==
    /\ Doing(c, "destroy", from)
    /\ call' = [call EXCEPT ![c].step = to, ![c].pids = Inside]
    /\ UNCHANGED <<rec, cg, proc, spent>>

DrainTerm(c) ==
    /\ Doing(c, "destroy", "term")
    /\ \E S \in SUBSET Obeys(call[c].pids) : Dies(S)
    /\ Goto(c, "list2")
    /\ UNCHANGED <<rec, cg, spent>>

DrainKill(c) ==
    /\ Doing(c, "destroy", "kill")
    /\ SignalKill(c)
    /\ Goto(c, "rmdir")
    /\ UNCHANGED <<rec, cg, spent>>

\* os.Remove, which only removes an empty cgroup; else another round, and an
\* error after the last.
DestroyRmdir(c) ==
    /\ Doing(c, "destroy", "rmdir")
    /\ IF Inside = {}
       THEN cg' = NoCgroup /\ Goto(c, "forget")
       ELSE /\ UNCHANGED cg
            /\ IF call[c].round + 1 < Attempts
               THEN call' = [call EXCEPT ![c].step = "drain", ![c].round = @ + 1]
               ELSE Return(c, "error")
    /\ UNCHANGED <<rec, proc, spent>>

DestroyForget(c) ==
    /\ Doing(c, "destroy", "forget")
    /\ rec' = "none"
    /\ Return(c, "destroyed")
    /\ UNCHANGED <<cg, proc, spent>>

DestroyFails(c) ==
    /\ call[c].op = "destroy" /\ call[c].step \in {"drain", "term", "kill", "rmdir"}
    /\ Failing
    /\ Return(c, "error")
    /\ UNCHANGED <<rec, cg, proc>>

(***************************************************************************)
(* The processes themselves.                                               *)
(***************************************************************************)
Fork(p, q) ==
    /\ Obeys({p}) # {} /\ proc[q] = "unborn"
    /\ proc' = [proc EXCEPT ![q] = proc[p]]
    /\ UNCHANGED <<rec, cg, call, spent>>

Exit(p) ==
    /\ Obeys({p}) # {}
    /\ Dies({p})
    /\ UNCHANGED <<rec, cg, call, spent>>

CNext ==
    /\ \/ \E c \in Clients :
            \/ \E op \in {"prepare", "freeze", "unfreeze", "kill", "destroy"} : BeginCall(c, op)
            \/ PrepareMkdir(c) \/ (\E f \in CgroupFiles : PrepareWrite(c, f))
            \/ PrepareFails(c) \/ PrepareCommit(c)
            \/ writeFreeze(c, "freeze", TRUE) \/ writeFreeze(c, "unfreeze", FALSE)
            \/ KillCgroup(c) \/ KillReadPids(c) \/ KillTerm(c) \/ KillSignal(c) \/ KillFails(c)
            \/ DestroyBegin(c) \/ DrainCgroupKill(c)
            \/ readCgroupPIDs(c, "list", "term") \/ DrainTerm(c)
            \/ readCgroupPIDs(c, "list2", "kill") \/ DrainKill(c)
            \/ DestroyRmdir(c) \/ DestroyForget(c) \/ DestroyFails(c)
       \/ \E p \in Procs : Exit(p) \/ \E q \in Children : Fork(p, q)
    /\ UNCHANGED HasCgroupKill

CSpec == Init /\ [][CNext]_cvars

(***************************************************************************)
(* Properties.                                                             *)
(***************************************************************************)
\* A capsule recorded as real really confines a worker that is still alive:
\* it is in the cgroup and all three limits are set, whatever other calls of
\* Prepare, Kill and Destroy did meanwhile and whichever write failed.
RealMeansConfined ==
    rec = "real" /\ Alive(Worker) =>
      proc[Worker] = "in" /\ cg.exists /\ cg.limits = Limits

\* A Kill that reported success leaves the worker dead, by cgroup.kill or by
\* the signals of the fallback, also when the capsule is frozen; by cgroup.kill
\* it also leaves nothing in the cgroup.  A Destroy that succeeded leaves no
\* process of the agent in a cgroup, children forked between the reading of
\* cgroup.procs and the signals included, and none can get back into one.
NothingSurvives ==
    \A c \in Clients :
      /\ call[c].result \in {"cgroup-kill", "signals", "destroyed"} => ~Alive(Worker)
      /\ call[c].result \in {"cgroup-kill", "destroyed"} => Inside = {}
============================================================================
