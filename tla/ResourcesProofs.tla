-------------------------- MODULE ResourcesProofs --------------------------
(***************************************************************************)
(* Proofs about what an agent owns on the machine: its capsule, for any    *)
(* number of goroutines inside the manager and without a bound on their    *)
(* calls, faults or forks, and its workspace, for any base layer, any      *)
(* number of callers and any number of calls and failures.                 *)
(***************************************************************************)
EXTENDS Workspace, Capsule, SequenceTheorems, TLAPS

Modes == {"none", "degraded", "real"}

Steps == {"idle", "begin", "write", "term", "kill", "drain", "list", "list2", "rmdir", "forget"}
Results == {"none", "ok", "error", "cgroup-kill", "signals", "forgot", "destroyed"}

Requests ==
    [op : {"none", "prepare", "freeze", "unfreeze", "kill", "destroy"},
     step : Steps,
     todo : SUBSET CgroupFiles, rt : Modes, pids : SUBSET Procs, round : Nat,
     result : Results]

CapsuleTypeOK ==
    /\ rec \in Modes
    /\ cg \in [exists : BOOLEAN, limits : SUBSET Limits, frozen : BOOLEAN]
    /\ proc \in [Procs -> {"unborn", "out", "in", "dead"}]
    /\ call \in [Clients -> Requests]

(***************************************************************************)
(* The inductive invariant.                                                *)
(*                                                                         *)
(* OutsideUnknown: while the worker is still outside the cgroup no capsule *)
(* was ever recorded as real, so no call acts on one; a live worker that   *)
(* is not outside is in the cgroup and keeps it from being removed.  Hence *)
(* what a Prepare has written stays while the worker lives.                *)
(***************************************************************************)
OutsideUnknown ==
    proc[Worker] = "out" => rec # "real" /\ \A c \in Clients : call[c].rt # "real"

Housed == Inside # {} => cg.exists

\* A Prepare finds what it has written so far.
WrittenStays(c) ==
    Doing(c, "prepare", "write") /\ Alive(Worker) =>
        /\ cg.exists
        /\ Limits \ call[c].todo \subseteq cg.limits
        /\ "cgroup.procs" \notin call[c].todo => proc[Worker] = "in"

\* A Kill that sends signals has the worker on its list unless it is dead.
KillFindsWorker(c) ==
    call[c].op = "kill" /\ call[c].step \in {"term", "kill"} =>
        ~Alive(Worker) \/ Worker \in call[c].pids

\* Only a real capsule is drained, and nothing is left once it is removed.
DestroyOK(c) ==
    call[c].op = "destroy" =>
        /\ call[c].step \notin {"idle", "begin"} => call[c].rt = "real"
        /\ call[c].step = "forget" => ~Alive(Worker) /\ Inside = {}

CapsuleInv ==
    /\ CapsuleTypeOK
    /\ OutsideUnknown
    /\ Housed
    /\ \A c \in Clients : WrittenStays(c) /\ KillFindsWorker(c) /\ DestroyOK(c)
    /\ RealMeansConfined
    /\ NothingSurvives

-----------------------------------------------------------------------------
(* Every step keeps the invariant: one lemma for each action. *)

\* A call that goes on or returns is a call still.
LEMMA CallTyped ==
    ASSUME CapsuleTypeOK, NEW c \in Clients
    PROVE  /\ \A s \in Steps : Goto(c, s) => call' \in [Clients -> Requests]
           /\ \A r \in Results : Return(c, r) => call' \in [Clients -> Requests]
<1>1. call[c] \in Requests /\ "idle" \in Steps
  BY DEF CapsuleTypeOK, Steps
<1>2. \A s \in Steps : [call[c] EXCEPT !.step = s] \in Requests
  BY <1>1 DEF Requests
<1>3. \A r \in Results : [call[c] EXCEPT !.step = "idle", !.result = r] \in Requests
  BY <1>1 DEF Requests
<1>4. \A r \in Results :
        Return(c, r) => call' = [call EXCEPT ![c] = [call[c] EXCEPT !.step = "idle", !.result = r]]
  BY DEF Return, CapsuleTypeOK
<1>5. \A s \in Steps : Goto(c, s) => call' = [call EXCEPT ![c] = [call[c] EXCEPT !.step = s]]
  BY DEF Goto
<1>6. \A x \in Requests : [call EXCEPT ![c] = x] \in [Clients -> Requests]
  BY DEF CapsuleTypeOK
<1> QED BY <1>2, <1>3, <1>4, <1>5, <1>6

\* A process that dies is a process still.
LEMMA ProcTyped ==
    ASSUME CapsuleTypeOK, NEW S, Dies(S)
    PROVE  proc' \in [Procs -> {"unborn", "out", "in", "dead"}]
BY DEF CapsuleTypeOK, Dies

\* A call that begins has read the record and done nothing else.
LEMMA BeginCallInv ==
    ASSUME CapsuleInv, NEW c \in Clients,
           NEW o \in {"prepare", "freeze", "unfreeze", "kill", "destroy"}, BeginCall(c, o)
    PROVE  CapsuleInv'
<1> USE DEF CapsuleInv, CapsuleTypeOK, BeginCall, Idle
<1>1. CapsuleTypeOK'
  BY CallTyped DEF Requests, Steps, Results
<1>2. OutsideUnknown' /\ Housed'
  BY DEF OutsideUnknown, Housed, Inside
<1>3. \A d \in Clients : WrittenStays(d)' /\ KillFindsWorker(d)' /\ DestroyOK(d)'
  BY DEF WrittenStays, KillFindsWorker, DestroyOK, Alive, Inside, Doing
<1>4. RealMeansConfined'
  BY DEF RealMeansConfined, Alive
<1>5. NothingSurvives'
  BY DEF NothingSurvives, Alive, Inside
<1> QED BY <1>1, <1>2, <1>3, <1>4, <1>5

\* MkdirAll keeps a cgroup that is there; every file is still to be written.
LEMMA PrepareMkdirInv ==
    ASSUME CapsuleInv, NEW c \in Clients, PrepareMkdir(c)
    PROVE  CapsuleInv'
<1> USE DEF CapsuleInv, CapsuleTypeOK, PrepareMkdir, Doing, NoCgroup
<1>1. CapsuleTypeOK'
  <2>1. call' \in [Clients -> Requests]
    <3>1. [call[c] EXCEPT !.step = "write", !.todo = CgroupFiles] \in Requests
      <4>1. call[c] \in Requests /\ CgroupFiles \in SUBSET CgroupFiles
        OBVIOUS
      <4> HIDE DEF CapsuleInv, CapsuleTypeOK, PrepareMkdir
      <4> QED BY <4>1 DEF Requests, Steps
    <3>2. call' = [call EXCEPT ![c] = [call[c] EXCEPT !.step = "write", !.todo = CgroupFiles]]
      OBVIOUS
    <3> QED BY <3>1, <3>2
  <2>2. proc' \in [Procs -> {"unborn", "out", "in", "dead"}]
    OBVIOUS
  <2>3. rec' \in Modes /\ cg' \in [exists : BOOLEAN, limits : SUBSET Limits, frozen : BOOLEAN]
    OBVIOUS
  <2> QED BY <2>1, <2>2, <2>3
<1>2. OutsideUnknown' /\ Housed'
  BY DEF OutsideUnknown, Housed
<1>3. \A d \in Clients : WrittenStays(d)' /\ KillFindsWorker(d)' /\ DestroyOK(d)'
  BY DEF WrittenStays, KillFindsWorker, DestroyOK, Alive, Inside, CgroupFiles
<1>4. RealMeansConfined'
  BY DEF RealMeansConfined, Alive
<1>5. NothingSurvives'
  BY DEF NothingSurvives, Alive, Inside
<1> QED BY <1>1, <1>2, <1>3, <1>4, <1>5

\* A file that is written sets its limit or moves the worker inside.
LEMMA PrepareWriteInv ==
    ASSUME CapsuleInv, NEW c \in Clients, NEW f \in CgroupFiles, PrepareWrite(c, f)
    PROVE  CapsuleInv'
<1> USE DEF CapsuleInv, CapsuleTypeOK, PrepareWrite, Doing
<1>1. CapsuleTypeOK'
  <2>1. call' \in [Clients -> Requests]
    BY DEF Requests
  <2>2. proc' \in [Procs -> {"unborn", "out", "in", "dead"}]
    OBVIOUS
  <2>3. rec' \in Modes /\ cg' \in [exists : BOOLEAN, limits : SUBSET Limits, frozen : BOOLEAN]
    BY DEF CgroupFiles
  <2> QED BY <2>1, <2>2, <2>3
<1>2. OutsideUnknown' /\ Housed'
  BY DEF OutsideUnknown, Housed
<1>3. \A d \in Clients : WrittenStays(d)' /\ KillFindsWorker(d)' /\ DestroyOK(d)'
  BY DEF WrittenStays, KillFindsWorker, DestroyOK, Alive, Inside, Procs, Limits
<1>4. RealMeansConfined'
  BY DEF RealMeansConfined, Alive, Limits, CgroupFiles
<1>5. NothingSurvives'
  BY DEF NothingSurvives, Alive, Inside
<1> QED BY <1>1, <1>2, <1>3, <1>4, <1>5

\* A Prepare that fails records the capsule as degraded, never as real.
LEMMA PrepareFailsInv ==
    ASSUME CapsuleInv, NEW c \in Clients, PrepareFails(c)
    PROVE  CapsuleInv'
<1> USE DEF CapsuleInv, CapsuleTypeOK, PrepareFails, Failing, degradedOrError, Return
<1>1. CapsuleTypeOK'
  BY CallTyped DEF Modes, Results
<1>2. OutsideUnknown' /\ Housed'
  BY DEF OutsideUnknown, Housed, Inside
<1>3. \A d \in Clients : WrittenStays(d)' /\ KillFindsWorker(d)' /\ DestroyOK(d)'
  BY DEF WrittenStays, KillFindsWorker, DestroyOK, Alive, Inside, Doing
<1>4. RealMeansConfined'
  BY DEF RealMeansConfined
<1>5. NothingSurvives'
  BY DEF NothingSurvives, Alive, Inside
<1> QED BY <1>1, <1>2, <1>3, <1>4, <1>5

\* Prepare records the capsule as real only when every file was written.
LEMMA PrepareCommitInv ==
    ASSUME CapsuleInv, NEW c \in Clients, PrepareCommit(c)
    PROVE  CapsuleInv'
<1> USE DEF CapsuleInv, CapsuleTypeOK, PrepareCommit, Doing, Return
<1>1. CapsuleTypeOK'
  BY CallTyped DEF Modes, Results
<1>2. OutsideUnknown' /\ Housed'
  BY DEF OutsideUnknown, Housed, WrittenStays, Alive, Inside
<1>3. \A d \in Clients : WrittenStays(d)' /\ KillFindsWorker(d)' /\ DestroyOK(d)'
  BY DEF WrittenStays, KillFindsWorker, DestroyOK, Alive, Inside
<1>4. RealMeansConfined'
  BY DEF WrittenStays, RealMeansConfined, Alive
<1>5. NothingSurvives'
  BY DEF NothingSurvives, Alive, Inside
<1> QED BY <1>1, <1>2, <1>3, <1>4, <1>5

\* Freezing and unfreezing write cgroup.freeze and touch no process.
LEMMA writeFreezeInv ==
    ASSUME CapsuleInv, NEW c \in Clients, NEW o, NEW value \in BOOLEAN, writeFreeze(c, o, value)
    PROVE  CapsuleInv'
<1> USE DEF CapsuleInv, CapsuleTypeOK, writeFreeze, Doing, Return
<1>1. CapsuleTypeOK'
  BY CallTyped DEF Steps, Results, Procs, Limits, CgroupFiles
<1>2. OutsideUnknown' /\ Housed'
  BY DEF OutsideUnknown, Housed, Requests, Inside
<1>3. \A d \in Clients : WrittenStays(d)' /\ KillFindsWorker(d)' /\ DestroyOK(d)'
  BY DEF WrittenStays, KillFindsWorker, DestroyOK, Requests, Alive, Inside
<1>4. RealMeansConfined'
  BY DEF RealMeansConfined, Alive
<1>5. NothingSurvives'
  BY DEF DestroyOK, NothingSurvives, Requests, Alive, Inside
<1> QED BY <1>1, <1>2, <1>3, <1>4, <1>5

\* A write of cgroup.kill kills every process inside.
LEMMA KillCgroupInv ==
    ASSUME CapsuleInv, NEW c \in Clients, KillCgroup(c)
    PROVE  CapsuleInv'
<1> USE DEF CapsuleInv, CapsuleTypeOK, KillCgroup, Doing, Dies
<1>1. CapsuleTypeOK'
  <2>1. call' \in [Clients -> Requests]
    BY CallTyped DEF Return, Results
  <2>2. proc' \in [Procs -> {"unborn", "out", "in", "dead"}]
    BY ProcTyped
  <2>3. rec' \in Modes /\ cg' \in [exists : BOOLEAN, limits : SUBSET Limits, frozen : BOOLEAN]
    OBVIOUS
  <2> QED BY <2>1, <2>2, <2>3
<1>2. OutsideUnknown' /\ Housed'
  BY DEF OutsideUnknown, Housed, Procs
<1>3. \A d \in Clients : WrittenStays(d)' /\ KillFindsWorker(d)' /\ DestroyOK(d)'
  BY DEF WrittenStays, KillFindsWorker, DestroyOK, Alive, Inside, Procs
<1>4. RealMeansConfined'
  BY DEF RealMeansConfined, Alive, Procs
<1>5. NothingSurvives'
  BY DEF NothingSurvives, Requests, Alive, Inside
<1> QED BY <1>1, <1>2, <1>3, <1>4, <1>5

\* The fallback of Kill signals the processes listed and the recorded PID.
LEMMA KillReadPidsInv ==
    ASSUME CapsuleInv, NEW c \in Clients, KillReadPids(c)
    PROVE  CapsuleInv'
<1> USE DEF CapsuleInv, CapsuleTypeOK, KillReadPids, Doing, Return
<1>1. CapsuleTypeOK'
  <2>1. call' \in [Clients -> Requests]
    <3>1. \A S \in SUBSET Procs : [call[c] EXCEPT !.step = "term", !.pids = S] \in Requests
      BY DEF Requests, Steps
    <3>2. \A S \in SUBSET Procs : [call EXCEPT ![c].step = "term", ![c].pids = S] \in [Clients -> Requests]
      BY <3>1
    <3>3. Return(c, "error") => call' \in [Clients -> Requests]
      BY CallTyped DEF Results
    <3>4. Inside \subseteq Procs /\ Worker \in Procs
      BY DEF Inside, Procs
    <3> DEFINE S == (IF call[c].rt = "real" /\ cg.exists THEN Inside ELSE {})
                      \cup (IF rec = "none" THEN {} ELSE {Worker})
    <3>5. S \in SUBSET Procs
      BY <3>4
    <3>6. Return(c, "error") \/ call' = [call EXCEPT ![c].step = "term", ![c].pids = S]
      OBVIOUS
    <3> HIDE DEF S, CapsuleInv, CapsuleTypeOK, KillReadPids, Return
    <3> QED BY <3>2, <3>3, <3>5, <3>6
  <2>2. proc' \in [Procs -> {"unborn", "out", "in", "dead"}]
    OBVIOUS
  <2>3. rec' \in Modes /\ cg' \in [exists : BOOLEAN, limits : SUBSET Limits, frozen : BOOLEAN]
    OBVIOUS
  <2> QED BY <2>1, <2>2, <2>3
<1>2. OutsideUnknown' /\ Housed'
  BY DEF OutsideUnknown, Housed, Requests, Inside
<1>3. \A d \in Clients : WrittenStays(d)' /\ KillFindsWorker(d)' /\ DestroyOK(d)'
  BY DEF OutsideUnknown, WrittenStays, KillFindsWorker, DestroyOK, Requests, Alive, Inside, Procs
<1>4. RealMeansConfined'
  BY DEF RealMeansConfined, Alive
<1>5. NothingSurvives'
  BY DEF NothingSurvives, Requests, Alive, Inside
<1> QED BY <1>1, <1>2, <1>3, <1>4, <1>5

\* The SIGTERM of the fallback may end some of those.
LEMMA KillTermInv ==
    ASSUME CapsuleInv, NEW c \in Clients, KillTerm(c)
    PROVE  CapsuleInv'
<1> USE DEF CapsuleInv, CapsuleTypeOK, KillTerm, Doing, Goto, Dies, Obeys
<1>1. CapsuleTypeOK'
  <2>1. call' \in [Clients -> Requests]
    BY CallTyped DEF Steps
  <2>2. proc' \in [Procs -> {"unborn", "out", "in", "dead"}]
    BY ProcTyped
  <2>3. rec' \in Modes /\ cg' \in [exists : BOOLEAN, limits : SUBSET Limits, frozen : BOOLEAN]
    OBVIOUS
  <2> QED BY <2>1, <2>2, <2>3
<1>2. OutsideUnknown' /\ Housed'
  <2>1. OutsideUnknown'
    BY DEF OutsideUnknown, Procs
  <2>2. Inside' \subseteq Inside
    BY DEF Inside
  <2> QED BY <2>1, <2>2 DEF Housed
<1>3. \A d \in Clients : WrittenStays(d)' /\ KillFindsWorker(d)' /\ DestroyOK(d)'
  BY DEF WrittenStays, KillFindsWorker, DestroyOK, Alive, Inside, Procs
<1>4. RealMeansConfined'
  BY DEF RealMeansConfined, Alive, Procs
<1>5. NothingSurvives'
  BY DEF NothingSurvives, Alive, Inside, Procs
<1> QED BY <1>1, <1>2, <1>3, <1>4, <1>5

\* The SIGKILL of the fallback ends the rest.
LEMMA KillSignalInv ==
    ASSUME CapsuleInv, NEW c \in Clients, KillSignal(c)
    PROVE  CapsuleInv'
<1> USE DEF CapsuleInv, CapsuleTypeOK, KillSignal, Doing, Return, SignalKill, Dies
<1>1. CapsuleTypeOK'
  BY CallTyped, ProcTyped DEF Results
<1>2. OutsideUnknown' /\ Housed'
  BY DEF OutsideUnknown, Housed, Inside, Procs
<1>3. \A d \in Clients : WrittenStays(d)' /\ KillFindsWorker(d)' /\ DestroyOK(d)'
  BY DEF WrittenStays, KillFindsWorker, DestroyOK, Alive, Inside, Procs
<1>4. RealMeansConfined'
  BY DEF RealMeansConfined, Alive, Procs
<1>5. NothingSurvives'
  BY DEF KillFindsWorker, NothingSurvives, Alive, Inside, Procs
<1> QED BY <1>1, <1>2, <1>3, <1>4, <1>5

\* A kill that fails ends nobody and is an error.
LEMMA KillFailsInv ==
    ASSUME CapsuleInv, NEW c \in Clients, KillFails(c)
    PROVE  CapsuleInv'
<1> USE DEF CapsuleInv, CapsuleTypeOK, KillFails, Return, Failing
<1>1. CapsuleTypeOK'
  BY CallTyped DEF Results
<1>2. OutsideUnknown' /\ Housed'
  BY DEF OutsideUnknown, Housed, Inside
<1>3. \A d \in Clients : WrittenStays(d)' /\ KillFindsWorker(d)' /\ DestroyOK(d)'
  BY DEF WrittenStays, KillFindsWorker, DestroyOK, Alive, Inside, Doing
<1>4. RealMeansConfined'
  BY DEF RealMeansConfined, Alive
<1>5. NothingSurvives'
  BY DEF NothingSurvives, Alive, Inside
<1> QED BY <1>1, <1>2, <1>3, <1>4, <1>5

\* Destroy refuses without a capsule, forgets a degraded one and drains a real one.
LEMMA DestroyBeginInv ==
    ASSUME CapsuleInv, NEW c \in Clients, DestroyBegin(c)
    PROVE  CapsuleInv'
<1> USE DEF CapsuleInv, CapsuleTypeOK, DestroyBegin, Doing, Goto, Return
<1>1. CapsuleTypeOK'
  BY CallTyped DEF Modes, Requests, Steps, Results
<1>2. OutsideUnknown' /\ Housed'
  BY DEF OutsideUnknown, Housed, Requests, Inside
<1>3. \A d \in Clients : WrittenStays(d)' /\ KillFindsWorker(d)' /\ DestroyOK(d)'
  <2>1. \A d \in Clients : WrittenStays(d)' /\ KillFindsWorker(d)'
    BY DEF WrittenStays, KillFindsWorker, Requests, Alive
  <2>2. \A d \in Clients : DestroyOK(d)'
    BY DEF DestroyOK, Requests, Modes, Alive, Inside
  <2> QED BY <2>1, <2>2
<1>4. RealMeansConfined'
  BY DEF RealMeansConfined, Alive
<1>5. NothingSurvives'
  BY DEF NothingSurvives, Requests, Alive, Inside
<1> QED BY <1>1, <1>2, <1>3, <1>4, <1>5

\* A write of cgroup.kill ends those inside, where the kernel has it.
LEMMA DrainCgroupKillInv ==
    ASSUME CapsuleInv, NEW c \in Clients, DrainCgroupKill(c)
    PROVE  CapsuleInv'
<1> USE DEF CapsuleInv, CapsuleTypeOK, DrainCgroupKill, Doing, Goto, Dies
<1>1. CapsuleTypeOK'
  <2>1. call' \in [Clients -> Requests]
    BY CallTyped DEF Steps
  <2>2. proc' \in [Procs -> {"unborn", "out", "in", "dead"}]
    BY ProcTyped
  <2>3. rec' \in Modes /\ cg' \in [exists : BOOLEAN, limits : SUBSET Limits, frozen : BOOLEAN]
    OBVIOUS
  <2> QED BY <2>1, <2>2, <2>3
<1>2. OutsideUnknown' /\ Housed'
  BY DEF OutsideUnknown, Housed, Inside, Procs
<1>3. \A d \in Clients : WrittenStays(d)' /\ KillFindsWorker(d)' /\ DestroyOK(d)'
  BY DEF WrittenStays, KillFindsWorker, DestroyOK, Alive, Inside, Procs
<1>4. RealMeansConfined'
  BY DEF RealMeansConfined, Alive, Procs
<1>5. NothingSurvives'
  BY DEF NothingSurvives, Alive, Inside, Procs
<1> QED BY <1>1, <1>2, <1>3, <1>4, <1>5

\* Reading cgroup.procs changes nothing but the list the caller holds.
LEMMA readCgroupPIDsInv ==
    ASSUME CapsuleInv, NEW c \in Clients, NEW from \in {"list", "list2"},
           NEW to \in {"term", "kill"}, readCgroupPIDs(c, from, to)
    PROVE  CapsuleInv'
<1> USE DEF CapsuleInv, CapsuleTypeOK, readCgroupPIDs, Doing
<1>1. CapsuleTypeOK'
  <2>1. call' \in [Clients -> Requests]
    <3>1. [call[c] EXCEPT !.step = to, !.pids = Inside] \in Requests
      BY DEF Requests, Steps, Inside
    <3> QED BY <3>1
  <2> QED BY <2>1
<1>2. OutsideUnknown' /\ Housed'
  BY DEF OutsideUnknown, Housed, Inside
<1>3. \A d \in Clients : WrittenStays(d)' /\ KillFindsWorker(d)' /\ DestroyOK(d)'
  BY DEF WrittenStays, KillFindsWorker, DestroyOK, Alive, Inside
<1>4. RealMeansConfined'
  BY DEF RealMeansConfined, Alive
<1>5. NothingSurvives'
  BY DEF NothingSurvives, Alive, Inside
<1> QED BY <1>1, <1>2, <1>3, <1>4, <1>5

\* The SIGTERM of the drain may end some of the processes that were listed.
LEMMA DrainTermInv ==
    ASSUME CapsuleInv, NEW c \in Clients, DrainTerm(c)
    PROVE  CapsuleInv'
<1> USE DEF CapsuleInv, CapsuleTypeOK, DrainTerm, Doing, Goto, Dies, Obeys
<1>1. CapsuleTypeOK'
  <2>1. call' \in [Clients -> Requests]
    BY CallTyped DEF Steps
  <2>2. proc' \in [Procs -> {"unborn", "out", "in", "dead"}]
    BY ProcTyped
  <2>3. rec' \in Modes /\ cg' \in [exists : BOOLEAN, limits : SUBSET Limits, frozen : BOOLEAN]
    OBVIOUS
  <2> QED BY <2>1, <2>2, <2>3
<1>2. OutsideUnknown' /\ Housed'
  <2>1. OutsideUnknown'
    BY DEF OutsideUnknown, Procs
  <2>2. Inside' \subseteq Inside
    BY DEF Inside
  <2> QED BY <2>1, <2>2 DEF Housed
<1>3. \A d \in Clients : WrittenStays(d)' /\ KillFindsWorker(d)' /\ DestroyOK(d)'
  BY DEF WrittenStays, KillFindsWorker, DestroyOK, Alive, Inside, Procs
<1>4. RealMeansConfined'
  BY DEF RealMeansConfined, Alive, Procs
<1>5. NothingSurvives'
  BY DEF NothingSurvives, Alive, Inside, Procs
<1> QED BY <1>1, <1>2, <1>3, <1>4, <1>5

\* The SIGKILL of the drain ends the processes that were listed before it.
LEMMA DrainKillInv ==
    ASSUME CapsuleInv, NEW c \in Clients, DrainKill(c)
    PROVE  CapsuleInv'
<1> USE DEF CapsuleInv, CapsuleTypeOK, DrainKill, Doing, Goto, SignalKill, Dies
<1>1. CapsuleTypeOK'
  BY CallTyped, ProcTyped DEF Steps
<1>2. OutsideUnknown' /\ Housed'
  BY DEF OutsideUnknown, Housed, Inside, Procs
<1>3. \A d \in Clients : WrittenStays(d)' /\ KillFindsWorker(d)' /\ DestroyOK(d)'
  BY DEF WrittenStays, KillFindsWorker, DestroyOK, Alive, Inside, Procs
<1>4. RealMeansConfined'
  BY DEF RealMeansConfined, Alive, Procs
<1>5. NothingSurvives'
  BY DEF NothingSurvives, Alive, Inside, Procs
<1> QED BY <1>1, <1>2, <1>3, <1>4, <1>5

\* os.Remove removes a cgroup that nobody is in; else Destroy goes round again.
LEMMA DestroyRmdirInv ==
    ASSUME CapsuleInv, NEW c \in Clients, DestroyRmdir(c)
    PROVE  CapsuleInv'
<1> USE DEF CapsuleInv, CapsuleTypeOK, DestroyRmdir, Doing, Goto, Return, NoCgroup
<1>1. CapsuleTypeOK'
  <2>1. CASE Inside = {}
    <3>1. Goto(c, "forget") /\ cg' = NoCgroup
      BY <2>1
    <3>2. NoCgroup \in [exists : BOOLEAN, limits : SUBSET Limits, frozen : BOOLEAN]
      OBVIOUS
    <3> QED BY <3>1, <3>2, CallTyped DEF Steps
  <2>2. CASE Inside # {}
    <3>1. CASE call[c].round + 1 < Attempts
      BY <2>2, <3>1 DEF Requests
    <3>2. CASE ~(call[c].round + 1 < Attempts)
      BY <2>2, <3>2, CallTyped DEF Results
    <3> QED BY <3>1, <3>2
  <2> QED BY <2>1, <2>2
<1>2. OutsideUnknown' /\ Housed'
  BY DEF OutsideUnknown, Housed, DestroyOK, Inside
<1>3. \A d \in Clients : WrittenStays(d)' /\ KillFindsWorker(d)' /\ DestroyOK(d)'
  BY DEF OutsideUnknown, WrittenStays, KillFindsWorker, DestroyOK, Requests, Alive, Inside, Procs
<1>4. RealMeansConfined'
  BY DEF RealMeansConfined, Alive, Inside, Procs
<1>5. NothingSurvives'
  BY DEF NothingSurvives, Requests, Alive, Inside
<1> QED BY <1>1, <1>2, <1>3, <1>4, <1>5

\* A destroy that removed the cgroup forgets the capsule.
LEMMA DestroyForgetInv ==
    ASSUME CapsuleInv, NEW c \in Clients, DestroyForget(c)
    PROVE  CapsuleInv'
<1> USE DEF CapsuleInv, CapsuleTypeOK, DestroyForget, Doing, Return
<1>1. CapsuleTypeOK'
  BY CallTyped DEF Modes, Results
<1>2. OutsideUnknown' /\ Housed'
  BY DEF OutsideUnknown, Housed, Inside
<1>3. \A d \in Clients : WrittenStays(d)' /\ KillFindsWorker(d)' /\ DestroyOK(d)'
  BY DEF WrittenStays, KillFindsWorker, DestroyOK, Alive, Inside
<1>4. RealMeansConfined'
  BY DEF RealMeansConfined
<1>5. NothingSurvives'
  BY DEF DestroyOK, NothingSurvives, Alive, Inside
<1> QED BY <1>1, <1>2, <1>3, <1>4, <1>5

\* A drain that fails keeps the capsule and is an error.
LEMMA DestroyFailsInv ==
    ASSUME CapsuleInv, NEW c \in Clients, DestroyFails(c)
    PROVE  CapsuleInv'
<1> USE DEF CapsuleInv, CapsuleTypeOK, DestroyFails, Return, Failing
<1>1. CapsuleTypeOK'
  BY CallTyped DEF Results
<1>2. OutsideUnknown' /\ Housed'
  BY DEF OutsideUnknown, Housed, Inside
<1>3. \A d \in Clients : WrittenStays(d)' /\ KillFindsWorker(d)' /\ DestroyOK(d)'
  BY DEF WrittenStays, KillFindsWorker, DestroyOK, Alive, Inside, Doing
<1>4. RealMeansConfined'
  BY DEF RealMeansConfined, Alive
<1>5. NothingSurvives'
  BY DEF NothingSurvives, Alive, Inside
<1> QED BY <1>1, <1>2, <1>3, <1>4, <1>5

\* A child is born where the process that makes it is.
LEMMA ForkInv ==
    ASSUME CapsuleInv, NEW p \in Procs, NEW q \in Children, Fork(p, q)
    PROVE  CapsuleInv'
<1> USE DEF CapsuleInv, CapsuleTypeOK, Fork, Obeys
<1>1. /\ UNCHANGED <<rec, cg, call>> /\ Alive(p) /\ Worker # q /\ Worker \in Procs
      /\ \A o \in Procs : proc'[o] = IF o = q THEN proc[p] ELSE proc[o]
  BY CapsuleAssumption DEF Procs
<1>2. Alive(Worker)' = Alive(Worker) /\ proc'[Worker] = proc[Worker]
  BY <1>1 DEF Alive
<1>3. Inside' # {} => Inside # {}
  BY <1>1 DEF Inside
<1>4. CapsuleTypeOK'
  BY <1>1 DEF Procs
<1>5. OutsideUnknown' /\ Housed'
  BY <1>1, <1>2, <1>3 DEF OutsideUnknown, Housed
<1>6. \A d \in Clients : WrittenStays(d)' /\ KillFindsWorker(d)' /\ DestroyOK(d)'
  BY <1>1, <1>2, <1>3 DEF WrittenStays, KillFindsWorker, DestroyOK, Doing
<1>7. RealMeansConfined' /\ NothingSurvives'
  BY <1>1, <1>2, <1>3 DEF RealMeansConfined, NothingSurvives
<1> QED BY <1>4, <1>5, <1>6, <1>7

\* A process that ends by itself leaves its cgroup.
LEMMA ExitInv ==
    ASSUME CapsuleInv, NEW p \in Procs, Exit(p)
    PROVE  CapsuleInv'
<1> USE DEF CapsuleInv, CapsuleTypeOK, Exit, Dies, Obeys
<1>1. CapsuleTypeOK'
  BY ProcTyped
<1>2. OutsideUnknown' /\ Housed'
  BY DEF OutsideUnknown, Housed, Inside, Procs
<1>3. \A d \in Clients : WrittenStays(d)' /\ KillFindsWorker(d)' /\ DestroyOK(d)'
  BY DEF WrittenStays, KillFindsWorker, DestroyOK, Alive, Inside, Procs, Doing
<1>4. RealMeansConfined'
  BY DEF RealMeansConfined, Alive, Procs
<1>5. NothingSurvives'
  BY DEF NothingSurvives, Alive, Inside, Procs
<1> QED BY <1>1, <1>2, <1>3, <1>4, <1>5

-----------------------------------------------------------------------------
(* The invariant of the specification and what follows from it. *)

\* At first there is no capsule, no cgroup and the worker is outside.
LEMMA CapsuleInitInv == Init => CapsuleInv
<1> SUFFICES ASSUME Init PROVE CapsuleInv
  OBVIOUS
<1>1. CapsuleTypeOK
  BY DEF Init, CapsuleTypeOK, Idle, NoCgroup, Modes, Requests, Steps, Results
<1>2. OutsideUnknown /\ Housed
  BY DEF Init, OutsideUnknown, Housed, Inside, Idle, Procs
<1>3. \A c \in Clients : WrittenStays(c) /\ KillFindsWorker(c) /\ DestroyOK(c)
  BY DEF Init, WrittenStays, KillFindsWorker, DestroyOK, Idle, Doing
<1>4. RealMeansConfined /\ NothingSurvives
  BY DEF Init, RealMeansConfined, NothingSurvives, Idle
<1> QED BY <1>1, <1>2, <1>3, <1>4 DEF CapsuleInv

\* Every step of a caller, of the worker and of its child keeps the invariant.
LEMMA CapsuleNextInv == CapsuleInv /\ [CNext]_cvars => CapsuleInv'
<1> SUFFICES ASSUME CapsuleInv, [CNext]_cvars PROVE CapsuleInv'
  OBVIOUS
<1>1. ASSUME NEW c \in Clients,
             \/ \E o \in {"prepare", "freeze", "unfreeze", "kill", "destroy"} : BeginCall(c, o)
             \/ PrepareMkdir(c) \/ (\E f \in CgroupFiles : PrepareWrite(c, f))
             \/ PrepareFails(c) \/ PrepareCommit(c)
             \/ writeFreeze(c, "freeze", TRUE) \/ writeFreeze(c, "unfreeze", FALSE)
      PROVE  CapsuleInv'
  BY <1>1, BeginCallInv, PrepareMkdirInv, PrepareWriteInv, PrepareFailsInv, PrepareCommitInv,
     writeFreezeInv
<1>2. ASSUME NEW c \in Clients,
             \/ KillCgroup(c) \/ KillReadPids(c) \/ KillTerm(c) \/ KillSignal(c) \/ KillFails(c)
             \/ DestroyBegin(c) \/ DrainCgroupKill(c)
             \/ readCgroupPIDs(c, "list", "term") \/ DrainTerm(c)
             \/ readCgroupPIDs(c, "list2", "kill") \/ DrainKill(c)
             \/ DestroyRmdir(c) \/ DestroyForget(c) \/ DestroyFails(c)
      PROVE  CapsuleInv'
  BY <1>2, KillCgroupInv, KillReadPidsInv, KillTermInv, KillSignalInv, KillFailsInv,
     DestroyBeginInv, DrainCgroupKillInv, readCgroupPIDsInv, DrainTermInv, DrainKillInv,
     DestroyRmdirInv, DestroyForgetInv, DestroyFailsInv
<1>3. CASE \E p \in Procs : Exit(p) \/ \E q \in Children : Fork(p, q)
  BY <1>3, ForkInv, ExitInv
<1>4. CASE UNCHANGED cvars
  BY <1>4 DEF cvars, CapsuleInv, CapsuleTypeOK, OutsideUnknown, Housed, WrittenStays,
     KillFindsWorker, DestroyOK, RealMeansConfined, NothingSurvives, Alive, Inside, Doing
<1> QED BY <1>1, <1>2, <1>3, <1>4 DEF CNext

\* In every reachable state of the capsule manager the invariant holds.
THEOREM CapsuleInvariant == CSpec => []CapsuleInv
<1>1. Init => CapsuleInv
  BY CapsuleInitInv
<1>2. CapsuleInv /\ [CNext]_cvars => CapsuleInv'
  BY CapsuleNextInv
<1> QED BY <1>1, <1>2, PTL DEF CSpec

\* A capsule on record as real has its worker in the cgroup, with all limits:
\* Prepare records it last, and a live worker keeps the cgroup from os.Remove.
THEOREM CapsuleRealMeansConfined == CSpec => []RealMeansConfined
<1>1. CapsuleInv => RealMeansConfined
  BY DEF CapsuleInv
<1> QED BY <1>1, CapsuleInvariant, PTL

\* A Kill that reported success has killed the worker and a Destroy that did
\* has emptied the cgroup, whatever Prepare, Freeze and forks come in between.
THEOREM CapsuleNothingSurvives == CSpec => []NothingSurvives
<1>1. CapsuleInv => NothingSurvives
  BY DEF CapsuleInv
<1> QED BY <1>1, CapsuleInvariant, PTL

-----------------------------------------------------------------------------
(***************************************************************************)
(* The workspace manager.                                                  *)
(*                                                                         *)
(* Placed says where a call of operation o and status st can be: at the    *)
(* step h with the steps t after it.  A call creates a workspace, commits, *)
(* restores or destroys it; After is what follows a creation.              *)
(***************************************************************************)
StepNames ==
    {"lookup", "snapshot", "rmRoot", "mkDirs", "seed", "mount", "fill", "store", "mkMerged", "tool",
     "fetchCommit", "rmOut", "copyOut", "manifest", "clear", "fetchRollback", "umount", "rmUpper",
     "mkUpper", "remount", "rmMerged", "fetchDestroy", "forget"}

After(o) ==
    CASE o = "tool" -> <<"mkMerged", "tool">>
      [] o = "rmfault" -> <<"clear", "fetchRollback">>
      [] OTHER -> <<>>

Creates(o, st) == st = "running" /\ o \in {"tool", "ensure", "rmfault"}
Commits(o, st) == st = "running" /\ o \in {"tool", "commit"}
Restores(o, st) == (st = "running" /\ o \in {"rollback", "rmfault"}) \/ (st = "failed" /\ o = "tool")
Destroys(o, st) == st = "running" /\ o = "destroy"
RunsTool(o, st) == st = "running" /\ o = "tool"
InjectsFault(o, st) == st = "running" /\ o = "rmfault"

Placed(o, st, h, t) ==
    \/ h = "lookup" /\ Creates(o, st) /\ o # "rmfault" /\ t = After(o)
    \/ h = "snapshot" /\ InjectsFault(o, st) /\ t = CreateSteps \o After(o)
    \/ h = "rmRoot" /\ Creates(o, st) /\ t = <<"mkDirs", "seed", "mount">> \o After(o)
    \/ h = "mkDirs" /\ Creates(o, st) /\ t = <<"seed", "mount">> \o After(o)
    \/ h = "seed" /\ Creates(o, st) /\ t = <<"mount">> \o After(o)
    \/ h = "mount" /\ Creates(o, st) /\ t = After(o)
    \/ h = "fill" /\ Creates(o, st) /\ t = <<"store">> \o After(o)
    \/ h = "store" /\ Creates(o, st) /\ t = After(o)
    \/ h = "mkMerged" /\ RunsTool(o, st) /\ t = <<"tool">>
    \/ h = "tool" /\ RunsTool(o, st) /\ t = <<>>
    \/ h = "fetchCommit" /\ Commits(o, st) /\ t = <<>>
    \/ h = "rmOut" /\ Commits(o, st) /\ t = <<"copyOut", "manifest">>
    \/ h = "copyOut" /\ Commits(o, st) /\ t = <<"manifest">>
    \/ h = "manifest" /\ Commits(o, st) /\ t = <<>>
    \/ h = "clear" /\ InjectsFault(o, st) /\ t = <<"fetchRollback">>
    \/ h = "fetchRollback" /\ Restores(o, st) /\ t = <<>>
    \/ h = "umount" /\ Restores(o, st) /\ t = <<"rmUpper", "mkUpper", "remount">>
    \/ h = "rmUpper" /\ Restores(o, st) /\ t = <<"mkUpper", "remount">>
    \/ h = "mkUpper" /\ Restores(o, st) /\ t = <<"remount">>
    \/ h = "remount" /\ Restores(o, st) /\ t = <<>>
    \/ h = "rmMerged" /\ Restores(o, st) /\ t = <<"mkMerged", "fill", "store">>
    \/ h = "mkMerged" /\ Restores(o, st) /\ t = <<"fill", "store">>
    \/ h = "fill" /\ Restores(o, st) /\ t = <<"store">>
    \/ h = "store" /\ Restores(o, st) /\ t = <<>>
    \/ h = "clear" /\ Restores(o, st) /\ t = <<"fill">>
    \/ h = "fill" /\ Restores(o, st) /\ t = <<>>
    \/ h = "fetchDestroy" /\ Destroys(o, st) /\ t = <<>>
    \/ h = "umount" /\ Destroys(o, st) /\ t = <<"rmRoot", "forget">>
    \/ h = "rmRoot" /\ Destroys(o, st) /\ t = <<"forget">>
    \/ h = "forget" /\ Destroys(o, st) /\ t = <<>>

Standing(k) == Placed(op[k], status[k], Head(todo[k]), Tail(todo[k]))

WTypeOK ==
    /\ setting \in Settings
    /\ mounts \in Seq({"live", "dead"})
    /\ reg \in {NoMode, "overlay", "copy"}
    /\ op \in [Callers -> setting.ops \cup {"none"}]
    /\ status \in [Callers -> {"none", "running", "ok", "failed", "restored", "error"}]
    /\ mode \in [Callers -> {NoMode, "overlay", "copy"}]
    /\ todo \in [Callers -> Seq(StepNames)]
    /\ left \in [Callers -> SUBSET Base]
    /\ erred \in BOOLEAN
    /\ faults \in Nat
    /\ \A k \in Callers : todo[k] # <<>> => Standing(k)

(***************************************************************************)
(* What the calls find when no two of them work at a time.                 *)
(***************************************************************************)
Alone == \A j, k \in Callers : todo[j] # <<>> /\ todo[k] # <<>> => j = k

\* What is mounted is on record or about to be.
MountKnown ==
    mounts # <<>> => reg = "overlay" \/ \E k \in Callers : At(k, "store") /\ mode[k] = "overlay"

\* Nothing is mounted from the removal of the directory to the next mount, nor
\* while a copy is restored or made.
Unmounted(k) ==
    (\/ \E h \in {"mkDirs", "seed", "mount", "forget", "fill"} : At(k, h)
     \/ At(k, "mkMerged") /\ Rest(k) = <<"fill", "store">>
     \/ At(k, "clear") /\ Rest(k) = <<"fill">>)
    => mounts = <<>>

\* The directory a copy is made in starts out empty, and so does the upper
\* layer that is mounted; what is then put on record shows the base layer.
CleanStart(k) ==
    /\ At(k, "mkDirs") => merged = NoDir /\ upper = NoDir
    /\ At(k, "seed") \/ At(k, "mount") => Entries(merged) = {} /\ upper = NoChange
    /\ At(k, "mkMerged") /\ Rest(k) = <<"fill", "store">> => Entries(merged) = {}
    /\ At(k, "fill") => Entries(merged) = {}
    /\ At(k, "mkUpper") => upper = NoDir
    /\ At(k, "remount") => upper = NoChange
    /\ At(k, "store") => View = Entries(lower) /\ (mode[k] = "overlay" \/ mounts = <<>>)

\* An overlay is remounted only for a record of one.
RemountsOverlay(k) ==
    (\/ At(k, "umount") /\ Rest(k) = <<"rmUpper", "mkUpper", "remount">>
     \/ \E h \in {"rmUpper", "mkUpper", "remount"} : At(k, h))
    => reg = "overlay"

\* A commit works with the record that is registered, and the manifest comes
\* after everything there is to commit.
CommitPrepared(k) ==
    /\ (\E h \in {"rmOut", "copyOut", "manifest"} : At(k, h)) => mode[k] = reg
    /\ At(k, "copyOut") => out = NoOutput
    /\ At(k, "manifest") =>
          /\ CommitSource(mode[k]).dir /\ CommitSource(mode[k]).copyable
          /\ out = [files |-> CommitSource(mode[k]).files, manifest |-> NoDir]

SerialOK ==
    /\ Alone
    /\ MountKnown
    /\ \A k \in Callers :
          Unmounted(k) /\ CleanStart(k) /\ RemountsOverlay(k) /\ CommitPrepared(k)

(***************************************************************************)
(* Where no overlay can be mounted, also with overlapping calls.           *)
(***************************************************************************)
CopyHere(k) ==
    /\ At(k, "store") \/ (At(k, "fill") /\ Rest(k) # <<>>) => mode[k] = "copy"
    /\ \A h \in {"rmUpper", "mkUpper", "remount", "rmMerged"} : ~At(k, h)
    /\ ~(At(k, "umount") /\ Rest(k) = <<"rmUpper", "mkUpper", "remount">>)
    /\ ~(At(k, "mkMerged") /\ Rest(k) = <<"fill", "store">>)

CopyOnly ==
    /\ mounts = <<>>
    /\ reg # NoMode => reg = "copy"
    /\ \A k \in Callers : CopyHere(k)

\* A call that writes the base layer still has what is missing of it to write.
Writing(k) == At(k, "seed") /\ Base \ Entries(lower) \subseteq left[k]
Making(k) == At(k, "rmRoot") \/ At(k, "mkDirs") \/ At(k, "forget") \/ Writing(k)
Seeded(k) == At(k, "mount") \/ At(k, "store") \/ (At(k, "fill") /\ Rest(k) # <<>>)

\* The base layer is there, or a call is about to complete it, or there is no
\* workspace and none about to be registered.
SeedOK ==
    /\ lower \in {NoDir} \cup SUBSET Base
    /\ \/ lower = Base
       \/ \E k \in Callers : Making(k)
       \/ reg = NoMode /\ \A k \in Callers : ~Seeded(k) /\ ~At(k, "seed")

WInv ==
    /\ WTypeOK
    /\ setting.serial => SerialOK
    /\ ~setting.overlay => CopyOnly
    /\ ~setting.overlay /\ NoLateDestroy /\ ~erred => SeedOK

-----------------------------------------------------------------------------
\* The first step of a concatenated program and what is left after it.
LEMMA HeadTailConcat ==
    ASSUME NEW p \in Seq(StepNames), p # <<>>, NEW a \in Seq(StepNames)
    PROVE  /\ p \o a \in Seq(StepNames)
           /\ p \o a # <<>>
           /\ Head(p \o a) = Head(p)
           /\ Tail(p \o a) = Tail(p) \o a
<1> DEFINE u == p \o a
           w == Tail(p) \o a
<1>1. Len(p) \in Nat /\ Len(p) > 0 /\ Len(a) \in Nat
  BY EmptySeq, LenProperties
<1>2. u \in Seq(StepNames) /\ Len(u) = Len(p) + Len(a)
      /\ \A i \in 1..(Len(p) + Len(a)) : u[i] = IF i <= Len(p) THEN p[i] ELSE a[i - Len(p)]
  BY ConcatProperties
<1>3. Tail(p) \in Seq(StepNames) /\ Len(Tail(p)) = Len(p) - 1
      /\ \A i \in 1..Len(Tail(p)) : Tail(p)[i] = p[i + 1]
  BY HeadTailProperties
<1>4. w \in Seq(StepNames) /\ Len(w) = Len(Tail(p)) + Len(a)
      /\ \A i \in 1..(Len(Tail(p)) + Len(a)) :
            w[i] = IF i <= Len(Tail(p)) THEN Tail(p)[i] ELSE a[i - Len(Tail(p))]
  BY <1>3, ConcatProperties
<1> HIDE DEF u, w
<1>5. u # <<>> /\ u[1] = p[1]
  BY <1>1, <1>2
<1>6. Head(u) = u[1] /\ Head(p) = p[1]
  BY <1>1, <1>2
<1>7. Tail(u) \in Seq(StepNames) /\ Len(Tail(u)) = Len(u) - 1
      /\ \A i \in 1..Len(Tail(u)) : Tail(u)[i] = u[i + 1]
  BY <1>2, <1>5, HeadTailProperties
<1>8. Len(Tail(u)) = Len(w)
  BY <1>1, <1>2, <1>3, <1>4, <1>7
<1>9. ASSUME NEW i \in 1..Len(w)
      PROVE  Tail(u)[i] = w[i]
  <2>1. Tail(u)[i] = u[i + 1] /\ i + 1 \in 1..(Len(p) + Len(a)) /\ i \in Nat
    BY <1>1, <1>2, <1>7, <1>8
  <2>2. CASE i <= Len(Tail(p))
    <3>1. i \in 1..Len(Tail(p)) /\ i + 1 <= Len(p)
      BY <1>1, <1>3, <2>1, <2>2
    <3>2. w[i] = p[i + 1]
      BY <1>3, <1>4, <2>2, <3>1
    <3> QED BY <1>2, <2>1, <3>1, <3>2
  <2>3. CASE ~(i <= Len(Tail(p)))
    <3>1. ~(i + 1 <= Len(p)) /\ (i + 1) - Len(p) = i - Len(Tail(p))
      BY <1>1, <1>3, <2>1, <2>3
    <3>2. w[i] = a[i - Len(Tail(p))]
      BY <1>4, <2>3
    <3>3. u[i + 1] = a[(i + 1) - Len(p)]
      BY <1>2, <2>1, <3>1
    <3> QED BY <2>1, <3>1, <3>2, <3>3
  <2> QED BY <2>2, <2>3
<1>10. Tail(u) = w
  BY <1>4, <1>7, <1>8, <1>9, SeqEqual
<1> QED BY <1>2, <1>5, <1>6, <1>10 DEF u, w

\* The lists of steps the calls go on with.
LEMMA StepLists ==
    /\ <<>> \in Seq(StepNames)
    /\ /\ <<"store">> \in Seq(StepNames) /\ <<"store">> # <<>>
       /\ Head(<<"store">>) = "store" /\ Tail(<<"store">>) = <<>>
    /\ /\ <<"mount">> \in Seq(StepNames) /\ <<"mount">> # <<>>
       /\ Head(<<"mount">>) = "mount" /\ Tail(<<"mount">>) = <<>>
    /\ /\ <<"fill">> \in Seq(StepNames) /\ <<"fill">> # <<>>
       /\ Head(<<"fill">>) = "fill" /\ Tail(<<"fill">>) = <<>>
    /\ /\ <<"tool">> \in Seq(StepNames) /\ <<"tool">> # <<>>
       /\ Head(<<"tool">>) = "tool" /\ Tail(<<"tool">>) = <<>>
    /\ /\ <<"manifest">> \in Seq(StepNames) /\ <<"manifest">> # <<>>
       /\ Head(<<"manifest">>) = "manifest" /\ Tail(<<"manifest">>) = <<>>
    /\ /\ <<"fetchRollback">> \in Seq(StepNames) /\ <<"fetchRollback">> # <<>>
       /\ Head(<<"fetchRollback">>) = "fetchRollback" /\ Tail(<<"fetchRollback">>) = <<>>
    /\ /\ <<"remount">> \in Seq(StepNames) /\ <<"remount">> # <<>>
       /\ Head(<<"remount">>) = "remount" /\ Tail(<<"remount">>) = <<>>
    /\ /\ <<"forget">> \in Seq(StepNames) /\ <<"forget">> # <<>>
       /\ Head(<<"forget">>) = "forget" /\ Tail(<<"forget">>) = <<>>
    /\ /\ <<"fill", "store">> \in Seq(StepNames) /\ <<"fill", "store">> # <<>>
       /\ Head(<<"fill", "store">>) = "fill" /\ Tail(<<"fill", "store">>) = <<"store">>
    /\ /\ <<"seed", "mount">> \in Seq(StepNames) /\ <<"seed", "mount">> # <<>>
       /\ Head(<<"seed", "mount">>) = "seed" /\ Tail(<<"seed", "mount">>) = <<"mount">>
    /\ /\ <<"mkMerged", "tool">> \in Seq(StepNames) /\ <<"mkMerged", "tool">> # <<>>
       /\ Head(<<"mkMerged", "tool">>) = "mkMerged" /\ Tail(<<"mkMerged", "tool">>) = <<"tool">>
    /\ /\ <<"clear", "fetchRollback">> \in Seq(StepNames) /\ <<"clear", "fetchRollback">> # <<>>
       /\ Head(<<"clear", "fetchRollback">>) = "clear" /\ Tail(<<"clear", "fetchRollback">>) = <<"fetchRollback">>
    /\ /\ <<"copyOut", "manifest">> \in Seq(StepNames) /\ <<"copyOut", "manifest">> # <<>>
       /\ Head(<<"copyOut", "manifest">>) = "copyOut" /\ Tail(<<"copyOut", "manifest">>) = <<"manifest">>
    /\ /\ <<"mkUpper", "remount">> \in Seq(StepNames) /\ <<"mkUpper", "remount">> # <<>>
       /\ Head(<<"mkUpper", "remount">>) = "mkUpper" /\ Tail(<<"mkUpper", "remount">>) = <<"remount">>
    /\ /\ <<"rmRoot", "forget">> \in Seq(StepNames) /\ <<"rmRoot", "forget">> # <<>>
       /\ Head(<<"rmRoot", "forget">>) = "rmRoot" /\ Tail(<<"rmRoot", "forget">>) = <<"forget">>
    /\ /\ <<"mkDirs", "seed", "mount">> \in Seq(StepNames) /\ <<"mkDirs", "seed", "mount">> # <<>>
       /\ Head(<<"mkDirs", "seed", "mount">>) = "mkDirs" /\ Tail(<<"mkDirs", "seed", "mount">>) = <<"seed", "mount">>
    /\ /\ <<"rmUpper", "mkUpper", "remount">> \in Seq(StepNames) /\ <<"rmUpper", "mkUpper", "remount">> # <<>>
       /\ Head(<<"rmUpper", "mkUpper", "remount">>) = "rmUpper" /\ Tail(<<"rmUpper", "mkUpper", "remount">>) = <<"mkUpper", "remount">>
    /\ /\ <<"mkMerged", "fill", "store">> \in Seq(StepNames) /\ <<"mkMerged", "fill", "store">> # <<>>
       /\ Head(<<"mkMerged", "fill", "store">>) = "mkMerged" /\ Tail(<<"mkMerged", "fill", "store">>) = <<"fill", "store">>
    /\ /\ <<"rmRoot", "mkDirs", "seed", "mount">> \in Seq(StepNames) /\ <<"rmRoot", "mkDirs", "seed", "mount">> # <<>>
       /\ Head(<<"rmRoot", "mkDirs", "seed", "mount">>) = "rmRoot" /\ Tail(<<"rmRoot", "mkDirs", "seed", "mount">>) = <<"mkDirs", "seed", "mount">>
<1>1. /\ "lookup" \in StepNames /\ "snapshot" \in StepNames /\ "rmRoot" \in StepNames /\ "mkDirs" \in StepNames
      /\ "seed" \in StepNames /\ "mount" \in StepNames /\ "fill" \in StepNames /\ "store" \in StepNames
      /\ "mkMerged" \in StepNames /\ "tool" \in StepNames /\ "fetchCommit" \in StepNames /\ "rmOut" \in StepNames
      /\ "copyOut" \in StepNames /\ "manifest" \in StepNames /\ "clear" \in StepNames /\ "fetchRollback" \in StepNames
      /\ "umount" \in StepNames /\ "rmUpper" \in StepNames /\ "mkUpper" \in StepNames /\ "remount" \in StepNames
      /\ "rmMerged" \in StepNames /\ "fetchDestroy" \in StepNames /\ "forget" \in StepNames
  BY DEF StepNames
<1>2. /\ <<"store">> \in Seq(StepNames) /\ <<"store">> # <<>>
      /\ Head(<<"store">>) = "store" /\ Tail(<<"store">>) = <<>>
  BY <1>1
<1>3. /\ <<"mount">> \in Seq(StepNames) /\ <<"mount">> # <<>>
      /\ Head(<<"mount">>) = "mount" /\ Tail(<<"mount">>) = <<>>
  BY <1>1
<1>4. /\ <<"fill">> \in Seq(StepNames) /\ <<"fill">> # <<>>
      /\ Head(<<"fill">>) = "fill" /\ Tail(<<"fill">>) = <<>>
  BY <1>1
<1>5. /\ <<"tool">> \in Seq(StepNames) /\ <<"tool">> # <<>>
      /\ Head(<<"tool">>) = "tool" /\ Tail(<<"tool">>) = <<>>
  BY <1>1
<1>6. /\ <<"manifest">> \in Seq(StepNames) /\ <<"manifest">> # <<>>
      /\ Head(<<"manifest">>) = "manifest" /\ Tail(<<"manifest">>) = <<>>
  BY <1>1
<1>7. /\ <<"fetchRollback">> \in Seq(StepNames) /\ <<"fetchRollback">> # <<>>
      /\ Head(<<"fetchRollback">>) = "fetchRollback" /\ Tail(<<"fetchRollback">>) = <<>>
  BY <1>1
<1>8. /\ <<"remount">> \in Seq(StepNames) /\ <<"remount">> # <<>>
      /\ Head(<<"remount">>) = "remount" /\ Tail(<<"remount">>) = <<>>
  BY <1>1
<1>9. /\ <<"forget">> \in Seq(StepNames) /\ <<"forget">> # <<>>
      /\ Head(<<"forget">>) = "forget" /\ Tail(<<"forget">>) = <<>>
  BY <1>1
<1>10. /\ <<"fill", "store">> \in Seq(StepNames) /\ <<"fill", "store">> # <<>>
       /\ Head(<<"fill", "store">>) = "fill" /\ Tail(<<"fill", "store">>) = <<"store">>
  BY <1>1
<1>11. /\ <<"seed", "mount">> \in Seq(StepNames) /\ <<"seed", "mount">> # <<>>
       /\ Head(<<"seed", "mount">>) = "seed" /\ Tail(<<"seed", "mount">>) = <<"mount">>
  BY <1>1
<1>12. /\ <<"mkMerged", "tool">> \in Seq(StepNames) /\ <<"mkMerged", "tool">> # <<>>
       /\ Head(<<"mkMerged", "tool">>) = "mkMerged" /\ Tail(<<"mkMerged", "tool">>) = <<"tool">>
  BY <1>1
<1>13. /\ <<"clear", "fetchRollback">> \in Seq(StepNames) /\ <<"clear", "fetchRollback">> # <<>>
       /\ Head(<<"clear", "fetchRollback">>) = "clear" /\ Tail(<<"clear", "fetchRollback">>) = <<"fetchRollback">>
  BY <1>1
<1>14. /\ <<"copyOut", "manifest">> \in Seq(StepNames) /\ <<"copyOut", "manifest">> # <<>>
       /\ Head(<<"copyOut", "manifest">>) = "copyOut" /\ Tail(<<"copyOut", "manifest">>) = <<"manifest">>
  BY <1>1
<1>15. /\ <<"mkUpper", "remount">> \in Seq(StepNames) /\ <<"mkUpper", "remount">> # <<>>
       /\ Head(<<"mkUpper", "remount">>) = "mkUpper" /\ Tail(<<"mkUpper", "remount">>) = <<"remount">>
  BY <1>1
<1>16. /\ <<"rmRoot", "forget">> \in Seq(StepNames) /\ <<"rmRoot", "forget">> # <<>>
       /\ Head(<<"rmRoot", "forget">>) = "rmRoot" /\ Tail(<<"rmRoot", "forget">>) = <<"forget">>
  BY <1>1
<1>17. /\ <<"mkDirs", "seed", "mount">> \in Seq(StepNames) /\ <<"mkDirs", "seed", "mount">> # <<>>
       /\ Head(<<"mkDirs", "seed", "mount">>) = "mkDirs" /\ Tail(<<"mkDirs", "seed", "mount">>) = <<"seed", "mount">>
  BY <1>1
<1>18. /\ <<"rmUpper", "mkUpper", "remount">> \in Seq(StepNames) /\ <<"rmUpper", "mkUpper", "remount">> # <<>>
       /\ Head(<<"rmUpper", "mkUpper", "remount">>) = "rmUpper" /\ Tail(<<"rmUpper", "mkUpper", "remount">>) = <<"mkUpper", "remount">>
  BY <1>1
<1>19. /\ <<"mkMerged", "fill", "store">> \in Seq(StepNames) /\ <<"mkMerged", "fill", "store">> # <<>>
       /\ Head(<<"mkMerged", "fill", "store">>) = "mkMerged" /\ Tail(<<"mkMerged", "fill", "store">>) = <<"fill", "store">>
  BY <1>1
<1>20. /\ <<"rmRoot", "mkDirs", "seed", "mount">> \in Seq(StepNames) /\ <<"rmRoot", "mkDirs", "seed", "mount">> # <<>>
       /\ Head(<<"rmRoot", "mkDirs", "seed", "mount">>) = "rmRoot" /\ Tail(<<"rmRoot", "mkDirs", "seed", "mount">>) = <<"mkDirs", "seed", "mount">>
  BY <1>1
<1>21. <<>> \in Seq(StepNames)
  OBVIOUS
<1> QED BY <1>21, <1>2, <1>3, <1>4, <1>5, <1>6, <1>7, <1>8, <1>9, <1>10, <1>11, <1>12, <1>13, <1>14, <1>15, <1>16, <1>17, <1>18, <1>19, <1>20, Zenon

\* The steps of a creation, one after the other.
LEMMA CreateParts ==
    ASSUME NEW a \in Seq(StepNames)
    PROVE  /\ /\ CreateSteps \o a \in Seq(StepNames) /\ CreateSteps \o a # <<>>
              /\ Head(CreateSteps \o a) = "rmRoot"
              /\ Tail(CreateSteps \o a) = <<"mkDirs", "seed", "mount">> \o a
           /\ /\ <<"mkDirs", "seed", "mount">> \o a \in Seq(StepNames)
              /\ <<"mkDirs", "seed", "mount">> \o a # <<>>
              /\ Head(<<"mkDirs", "seed", "mount">> \o a) = "mkDirs"
              /\ Tail(<<"mkDirs", "seed", "mount">> \o a) = <<"seed", "mount">> \o a
           /\ /\ <<"seed", "mount">> \o a \in Seq(StepNames) /\ <<"seed", "mount">> \o a # <<>>
              /\ Head(<<"seed", "mount">> \o a) = "seed"
              /\ Tail(<<"seed", "mount">> \o a) = <<"mount">> \o a
           /\ /\ <<"mount">> \o a \in Seq(StepNames) /\ <<"mount">> \o a # <<>>
              /\ Head(<<"mount">> \o a) = "mount" /\ Tail(<<"mount">> \o a) = a
           /\ /\ <<"fill", "store">> \o a \in Seq(StepNames) /\ <<"fill", "store">> \o a # <<>>
              /\ Head(<<"fill", "store">> \o a) = "fill"
              /\ Tail(<<"fill", "store">> \o a) = <<"store">> \o a
           /\ /\ <<"store">> \o a \in Seq(StepNames) /\ <<"store">> \o a # <<>>
              /\ Head(<<"store">> \o a) = "store" /\ Tail(<<"store">> \o a) = a
<1>1. <<>> \o a = a
  BY ConcatEmptySeq
<1>2. /\ Head(CreateSteps) = "rmRoot" /\ Tail(CreateSteps) = <<"mkDirs", "seed", "mount">>
      /\ Head(<<"mkDirs", "seed", "mount">>) = "mkDirs"
      /\ Tail(<<"mkDirs", "seed", "mount">>) = <<"seed", "mount">>
      /\ Head(<<"seed", "mount">>) = "seed" /\ Tail(<<"seed", "mount">>) = <<"mount">>
      /\ Head(<<"mount">>) = "mount" /\ Tail(<<"mount">>) = <<>>
      /\ Head(<<"fill", "store">>) = "fill" /\ Tail(<<"fill", "store">>) = <<"store">>
      /\ Head(<<"store">>) = "store" /\ Tail(<<"store">>) = <<>>
  BY DEF CreateSteps
<1>3. /\ CreateSteps \o a \in Seq(StepNames) /\ CreateSteps \o a # <<>>
      /\ Head(CreateSteps \o a) = Head(CreateSteps)
      /\ Tail(CreateSteps \o a) = Tail(CreateSteps) \o a
  BY StepLists, HeadTailConcat DEF CreateSteps
<1>4. /\ <<"mkDirs", "seed", "mount">> \o a \in Seq(StepNames)
      /\ <<"mkDirs", "seed", "mount">> \o a # <<>>
      /\ Head(<<"mkDirs", "seed", "mount">> \o a) = Head(<<"mkDirs", "seed", "mount">>)
      /\ Tail(<<"mkDirs", "seed", "mount">> \o a) = Tail(<<"mkDirs", "seed", "mount">>) \o a
  BY StepLists, HeadTailConcat
<1>5. /\ <<"seed", "mount">> \o a \in Seq(StepNames) /\ <<"seed", "mount">> \o a # <<>>
      /\ Head(<<"seed", "mount">> \o a) = Head(<<"seed", "mount">>)
      /\ Tail(<<"seed", "mount">> \o a) = Tail(<<"seed", "mount">>) \o a
  BY StepLists, HeadTailConcat
<1>6. /\ <<"mount">> \o a \in Seq(StepNames) /\ <<"mount">> \o a # <<>>
      /\ Head(<<"mount">> \o a) = Head(<<"mount">>)
      /\ Tail(<<"mount">> \o a) = Tail(<<"mount">>) \o a
  BY StepLists, HeadTailConcat
<1>7. /\ <<"fill", "store">> \o a \in Seq(StepNames) /\ <<"fill", "store">> \o a # <<>>
      /\ Head(<<"fill", "store">> \o a) = Head(<<"fill", "store">>)
      /\ Tail(<<"fill", "store">> \o a) = Tail(<<"fill", "store">>) \o a
  BY StepLists, HeadTailConcat
<1>8. /\ <<"store">> \o a \in Seq(StepNames) /\ <<"store">> \o a # <<>>
      /\ Head(<<"store">> \o a) = Head(<<"store">>)
      /\ Tail(<<"store">> \o a) = Tail(<<"store">>) \o a
  BY StepLists, HeadTailConcat
<1> QED BY <1>1, <1>2, <1>3, <1>4, <1>5, <1>6, <1>7, <1>8, Zenon

\* What follows a creation.
LEMMA AfterCases ==
    ASSUME NEW o
    PROVE  /\ After(o) \in Seq(StepNames)
           /\ o = "tool" => /\ After(o) = <<"mkMerged", "tool">>
                            /\ Head(After(o)) = "mkMerged" /\ Tail(After(o)) = <<"tool">>
           /\ o = "rmfault" => /\ After(o) = <<"clear", "fetchRollback">>
                               /\ Head(After(o)) = "clear" /\ Tail(After(o)) = <<"fetchRollback">>
           /\ o \notin {"tool", "rmfault"} => After(o) = <<>>
BY StepLists, Zenon DEF After

\* A call that does the step it stands at stands at the next one.
LEMMA Onward ==
    ASSUME NEW o, NEW st, NEW h, NEW t, Placed(o, st, h, t)
    PROVE  /\ t \in Seq(StepNames)
           /\ t # <<>> => Placed(o, st, Head(t), Tail(t))
<1> DEFINE Goal == t \in Seq(StepNames) /\ (t # <<>> => Placed(o, st, Head(t), Tail(t)))
<1> DEFINE a == After(o)
<1>1. a \in Seq(StepNames) /\ (a # <<>> => o \in {"tool", "rmfault"})
  BY AfterCases
<1>2. ASSUME Creates(o, st), t = a
      PROVE  Goal
  <2>1. CASE o = "tool"
    BY <1>2, <2>1, AfterCases DEF Placed, RunsTool, Creates
  <2>2. CASE o = "rmfault"
    BY <1>2, <2>2, AfterCases DEF Placed, InjectsFault, Creates
  <2>3. CASE o = "ensure"
    BY <1>2, <2>3, AfterCases
  <2> QED BY <1>2, <2>1, <2>2, <2>3 DEF Creates
<1>3. ASSUME h = "lookup", t = a, Creates(o, st) PROVE Goal
  BY <1>2, <1>3
<1>4. ASSUME h = "snapshot", InjectsFault(o, st), t = CreateSteps \o a PROVE Goal
  BY <1>1, <1>4, CreateParts DEF Placed, InjectsFault, Creates
<1>5. ASSUME h = "rmRoot", Creates(o, st), t = <<"mkDirs", "seed", "mount">> \o a PROVE Goal
  BY <1>1, <1>5, CreateParts DEF Placed
<1>6. ASSUME h = "mkDirs", Creates(o, st), t = <<"seed", "mount">> \o a PROVE Goal
  BY <1>1, <1>6, CreateParts DEF Placed
<1>7. ASSUME h = "seed", Creates(o, st), t = <<"mount">> \o a PROVE Goal
  BY <1>1, <1>7, CreateParts DEF Placed
<1>8. ASSUME h = "mount", Creates(o, st), t = a PROVE Goal
  BY <1>2, <1>8
<1>9. ASSUME h = "fill", Creates(o, st), t = <<"store">> \o a PROVE Goal
  BY <1>1, <1>9, CreateParts DEF Placed
<1>10. ASSUME h = "store", Creates(o, st), t = a PROVE Goal
  BY <1>2, <1>10
<1>11. ASSUME t = <<>> PROVE Goal
  BY <1>11
<1>12. ASSUME t = <<"tool">>, RunsTool(o, st) PROVE Goal
  BY <1>12, StepLists DEF Placed
<1>13. ASSUME t = <<"copyOut", "manifest">>, Commits(o, st) PROVE Goal
  BY <1>13, StepLists DEF Placed
<1>14. ASSUME t = <<"manifest">>, Commits(o, st) PROVE Goal
  BY <1>14, StepLists DEF Placed
<1>15. ASSUME t = <<"fetchRollback">>, InjectsFault(o, st) PROVE Goal
  BY <1>15, StepLists DEF Placed, InjectsFault, Restores
<1>16. ASSUME Restores(o, st),
              t \in {<<"mkUpper", "remount">>, <<"remount">>, <<"fill", "store">>, <<"store">>, <<"fill">>}
       PROVE  Goal
  BY <1>16, StepLists DEF Placed
<1>17. ASSUME Restores(o, st), t = <<"rmUpper", "mkUpper", "remount">> PROVE Goal
  BY <1>17, StepLists DEF Placed
<1>18. ASSUME Restores(o, st), t = <<"mkMerged", "fill", "store">> PROVE Goal
  BY <1>18, StepLists DEF Placed
<1>19. ASSUME Destroys(o, st), t \in {<<"rmRoot", "forget">>, <<"forget">>} PROVE Goal
  BY <1>19, StepLists DEF Placed
<1> HIDE DEF Goal
<1>20. Goal
  BY <1>3, <1>4, <1>5, <1>6, <1>7, <1>8, <1>9, <1>10, <1>11, <1>12, <1>13, <1>14, <1>15,
     <1>16, <1>17, <1>18, <1>19 DEF Placed
<1> QED BY <1>20 DEF Goal

\* A call that goes on stands where its program says,
LEMMA ContinueStands ==
    ASSUME WTypeOK, NEW k \in Callers, todo[k] # <<>>, NEW rest \in Seq(StepNames),
           Continue(k, rest), UNCHANGED op,
           rest # <<>> => Placed(op[k], status[k], Head(rest), Tail(rest))
    PROVE  /\ todo' \in [Callers -> Seq(StepNames)]
           /\ status' \in [Callers -> {"none", "running", "ok", "failed", "restored", "error"}]
           /\ \A j \in Callers : todo'[j] # <<>> => Standing(j)'
<1>1. todo' = [todo EXCEPT ![k] = rest] /\ todo' \in [Callers -> Seq(StepNames)]
  BY DEF WTypeOK, Continue
<1>2. status' = [status EXCEPT ![k] = CASE rest = <<>> /\ status[k] = "running" -> "ok"
                                        [] rest = <<>> /\ status[k] = "failed" -> "restored"
                                        [] OTHER -> status[k]]
  BY DEF Continue
<1>3. status' \in [Callers -> {"none", "running", "ok", "failed", "restored", "error"}]
  BY <1>2 DEF WTypeOK
<1>4. rest # <<>> => status'[k] = status[k]
  BY <1>2 DEF WTypeOK
<1>5. ASSUME NEW j \in Callers, todo'[j] # <<>> PROVE Standing(j)'
  <2>1. CASE j = k
    <3>1. todo'[k] = rest
      BY <1>1 DEF WTypeOK
    <3> QED BY <1>4, <1>5, <2>1, <3>1 DEF Standing
  <2>2. CASE j # k
    <3>1. todo'[j] = todo[j] /\ status'[j] = status[j]
      BY <1>1, <1>2, <2>2 DEF WTypeOK
    <3> QED BY <1>5, <3>1 DEF WTypeOK, Standing
  <2> QED BY <2>1, <2>2
<1> QED BY <1>1, <1>3, <1>5

\* and one that fails stands nowhere.
LEMMA AbortStands ==
    ASSUME WTypeOK, NEW k \in Callers, Abort(k), UNCHANGED op
    PROVE  /\ todo' \in [Callers -> Seq(StepNames)]
           /\ status' \in [Callers -> {"none", "running", "ok", "failed", "restored", "error"}]
           /\ \A j \in Callers : todo'[j] # <<>> => Standing(j)'
           /\ todo'[k] = <<>>
<1>1. /\ todo' = [todo EXCEPT ![k] = <<>>] /\ status' = [status EXCEPT ![k] = "error"]
      /\ todo' \in [Callers -> Seq(StepNames)]
      /\ status' \in [Callers -> {"none", "running", "ok", "failed", "restored", "error"}]
      /\ todo'[k] = <<>>
  BY StepLists DEF WTypeOK, Abort
<1>2. ASSUME NEW j \in Callers, todo'[j] # <<>> PROVE Standing(j)'
  <2>1. todo'[j] = todo[j] /\ status'[j] = status[j]
    BY <1>1, <1>2 DEF WTypeOK
  <2> QED BY <1>2, <2>1 DEF WTypeOK, Standing
<1> QED BY <1>1, <1>2

\* A step that keeps the types of what it writes keeps the type invariant.
LEMMA TypeStep ==
    ASSUME WTypeOK, NEW k \in Callers, todo[k] # <<>>,
           UNCHANGED op, UNCHANGED setting, left' \in [Callers -> SUBSET Base],
           \/ \E rest \in Seq(StepNames) :
                 /\ Continue(k, rest)
                 /\ rest # <<>> => Placed(op[k], status[k], Head(rest), Tail(rest))
           \/ Abort(k),
           mounts' \in Seq({"live", "dead"}), reg' \in {NoMode, "overlay", "copy"},
           mode' \in [Callers -> {NoMode, "overlay", "copy"}],
           faults' = faults \/ faults' = faults + 1
    PROVE  WTypeOK'
<1>1. erred' \in BOOLEAN
  BY DEF WTypeOK, Continue, Abort
<1>2. /\ todo' \in [Callers -> Seq(StepNames)]
      /\ status' \in [Callers -> {"none", "running", "ok", "failed", "restored", "error"}]
      /\ \A j \in Callers : todo'[j] # <<>> => Standing(j)'
  BY ContinueStands, AbortStands
<1>3. setting' \in Settings /\ op' \in [Callers -> setting'.ops \cup {"none"}] /\ faults' \in Nat
  BY DEF WTypeOK
<1> QED BY <1>1, <1>2, <1>3 DEF WTypeOK

\* Most steps leave alone which call is made and what is left to be written.
LEMMA ControlKept ==
    ASSUME WTypeOK, UNCHANGED control
    PROVE  UNCHANGED op /\ UNCHANGED setting /\ left' \in [Callers -> SUBSET Base]
BY DEF WTypeOK, control

\* What a call that stands at a step goes on with.
LEMMA AtPlaced ==
    ASSUME WTypeOK, NEW k \in Callers, NEW h, At(k, h)
    PROVE  /\ todo[k] # <<>>
           /\ Placed(op[k], status[k], h, Rest(k))
           /\ Rest(k) \in Seq(StepNames)
           /\ Rest(k) # <<>> => Placed(op[k], status[k], Head(Rest(k)), Tail(Rest(k)))
<1>1. todo[k] # <<>> /\ Placed(op[k], status[k], h, Rest(k))
  BY DEF WTypeOK, At, Rest, Standing
<1> QED BY <1>1, Onward

\* The overlays stay on the directory when what they show is removed.
LEMMA DeadMounts ==
    ASSUME mounts \in Seq({"live", "dead"})
    PROVE  /\ [i \in DOMAIN mounts |-> "dead"] \in Seq({"live", "dead"})
           /\ [i \in DOMAIN mounts |-> "dead"] = <<>> <=> mounts = <<>>
<1> DEFINE d == [i \in DOMAIN mounts |-> "dead"]
<1>1. DOMAIN mounts = 1..Len(mounts) /\ Len(mounts) \in Nat
  BY LenProperties
<1>2. d \in Seq({"live", "dead"}) /\ Len(d) = Len(mounts)
  BY <1>1, IsASeq
<1> HIDE DEF d
<1>3. d = <<>> <=> mounts = <<>>
  BY <1>1, <1>2, EmptySeq
<1> QED BY <1>2, <1>3 DEF d

\* Front takes one overlay away, Append adds one that is live.
LEMMA StackedMounts ==
    ASSUME mounts \in Seq({"live", "dead"})
    PROVE  /\ mounts # <<>> => Front(mounts) \in Seq({"live", "dead"})
           /\ Append(mounts, "live") \in Seq({"live", "dead"})
           /\ Append(mounts, "live") # <<>>
           /\ Last(Append(mounts, "live")) = "live"
<1>1. mounts # <<>> => Front(mounts) \in Seq({"live", "dead"})
  BY DEF Front
<1>2. /\ Append(mounts, "live") \in Seq({"live", "dead"})
      /\ Len(Append(mounts, "live")) = Len(mounts) + 1
      /\ Append(mounts, "live")[Len(mounts) + 1] = "live"
      /\ Len(mounts) \in Nat
  BY AppendProperties
<1>3. Append(mounts, "live") # <<>>
  BY <1>2
<1> QED BY <1>1, <1>2, <1>3 DEF Last

\* The programs of the calls, and what the record makes of them.
LEMMA ProgramPlaced ==
    ASSUME NEW o \in {"tool", "ensure", "rollback", "commit", "destroy", "rmfault"}
    PROVE  /\ Program(o) \in Seq(StepNames) /\ Program(o) # <<>>
           /\ Head(Program(o)) \in {"lookup", "fetchRollback", "fetchCommit", "fetchDestroy", "snapshot"}
           /\ Placed(o, "running", Head(Program(o)), Tail(Program(o)))
<1>1. CASE o = "tool"
  <2>1. Program(o) = <<"lookup", "mkMerged", "tool">>
    BY <1>1 DEF Program
  <2>2. "lookup" \in StepNames /\ "mkMerged" \in StepNames /\ "tool" \in StepNames
    BY DEF StepNames
  <2>3. <<"lookup", "mkMerged", "tool">> \in Seq(StepNames)
    BY <2>2
  <2>4. Head(<<"lookup", "mkMerged", "tool">>) = "lookup"
        /\ Tail(<<"lookup", "mkMerged", "tool">>) = <<"mkMerged", "tool">>
        /\ <<"lookup", "mkMerged", "tool">> # <<>>
    OBVIOUS
  <2> QED BY <1>1, <2>1, <2>3, <2>4, AfterCases, Zenon DEF Placed, Creates
<1>2. CASE o = "ensure"
  <2>1. "lookup" \in StepNames
    BY DEF StepNames
  <2>2. <<"lookup">> \in Seq(StepNames)
    BY <2>1
  <2>3. Head(<<"lookup">>) = "lookup" /\ Tail(<<"lookup">>) = <<>> /\ <<"lookup">> # <<>>
    OBVIOUS
  <2>4. Program(o) = <<"lookup">> /\ After(o) = <<>>
    BY <1>2, AfterCases DEF Program
  <2> QED BY <1>2, <2>2, <2>3, <2>4, Zenon DEF Placed, Creates
<1>3. CASE o \in {"rollback", "commit", "destroy"}
  <2>1. \A h \in {"fetchRollback", "fetchCommit", "fetchDestroy"} : h \in StepNames
    BY DEF StepNames
  <2>2. \A h \in StepNames : /\ <<h>> \in Seq(StepNames) /\ <<h>> # <<>>
                             /\ Head(<<h>>) = h /\ Tail(<<h>>) = <<>>
    OBVIOUS
  <2>3. \A h \in {"fetchRollback", "fetchCommit", "fetchDestroy"} :
           /\ <<h>> \in Seq(StepNames) /\ <<h>> # <<>>
           /\ Head(<<h>>) = h /\ Tail(<<h>>) = <<>>
    BY <2>1, <2>2, Zenon
  <2> QED BY <1>3, <2>3 DEF Program, Placed, Restores, Commits, Destroys
<1>4. CASE o = "rmfault"
  <2>1. Program(o) = <<"snapshot">> \o (CreateSteps \o <<"clear", "fetchRollback">>)
    BY <1>4 DEF Program, FaultSteps, InjectSteps
  <2>2. After(o) = <<"clear", "fetchRollback">>
    BY <1>4, AfterCases
  <2>3. CreateSteps \o After(o) \in Seq(StepNames)
    BY AfterCases, CreateParts
  <2>4. "snapshot" \in StepNames
    BY DEF StepNames
  <2>5. <<"snapshot">> \in Seq(StepNames) /\ <<"snapshot">> # <<>>
        /\ Head(<<"snapshot">>) = "snapshot" /\ Tail(<<"snapshot">>) = <<>>
    BY <2>4
  <2>6. /\ Program(o) \in Seq(StepNames) /\ Program(o) # <<>>
        /\ Head(Program(o)) = "snapshot" /\ Tail(Program(o)) = <<>> \o (CreateSteps \o After(o))
    BY <2>1, <2>2, <2>3, <2>5, HeadTailConcat
  <2>7. <<>> \o (CreateSteps \o After(o)) = CreateSteps \o After(o)
    BY <2>3, ConcatEmptySeq
  <2> QED BY <1>4, <2>6, <2>7, Zenon DEF Placed, InjectsFault
<1> QED BY <1>1, <1>2, <1>3, <1>4

\* The programs a call goes on with once it has read the record.
LEMMA FetchedPlaced ==
    ASSUME NEW o, NEW st
    PROVE  /\ Restores(o, st) =>
                /\ RemountSteps \in Seq(StepNames) /\ RemountSteps # <<>>
                /\ Head(RemountSteps) = "umount"
                /\ Tail(RemountSteps) = <<"rmUpper", "mkUpper", "remount">>
                /\ Placed(o, st, Head(RemountSteps), Tail(RemountSteps))
                /\ RestoreSteps \in Seq(StepNames) /\ RestoreSteps # <<>>
                /\ Head(RestoreSteps) = "clear" /\ Tail(RestoreSteps) = <<"fill">>
                /\ Placed(o, st, Head(RestoreSteps), Tail(RestoreSteps))
                /\ DegradeSteps \in Seq(StepNames) /\ DegradeSteps # <<>> /\ DegradeSteps \o <<>> = DegradeSteps
                /\ Head(DegradeSteps) = "rmMerged"
                /\ Tail(DegradeSteps) = <<"mkMerged", "fill", "store">>
                /\ Placed(o, st, Head(DegradeSteps), Tail(DegradeSteps))
           /\ Commits(o, st) =>
                /\ CommitSteps \in Seq(StepNames) /\ CommitSteps # <<>>
                /\ Head(CommitSteps) = "rmOut" /\ Tail(CommitSteps) = <<"copyOut", "manifest">>
                /\ Placed(o, st, Head(CommitSteps), Tail(CommitSteps))
           /\ Destroys(o, st) => \A m :
                /\ DestroySteps(m) \in Seq(StepNames) /\ DestroySteps(m) # <<>>
                /\ \/ /\ Head(DestroySteps(m)) = "umount"
                      /\ Tail(DestroySteps(m)) = <<"rmRoot", "forget">>
                   \/ Head(DestroySteps(m)) = "rmRoot" /\ Tail(DestroySteps(m)) = <<"forget">>
                /\ Placed(o, st, Head(DestroySteps(m)), Tail(DestroySteps(m)))
<1>1. /\ "umount" \in StepNames /\ "rmUpper" \in StepNames /\ "mkUpper" \in StepNames
      /\ "remount" \in StepNames /\ "clear" \in StepNames /\ "fill" \in StepNames
      /\ "rmMerged" \in StepNames /\ "mkMerged" \in StepNames /\ "store" \in StepNames
      /\ "rmOut" \in StepNames /\ "copyOut" \in StepNames /\ "manifest" \in StepNames
      /\ "rmRoot" \in StepNames /\ "forget" \in StepNames
  BY DEF StepNames
<1>2. /\ RemountSteps \in Seq(StepNames) /\ RemountSteps # <<>>
      /\ Head(RemountSteps) = "umount"
      /\ Tail(RemountSteps) = <<"rmUpper", "mkUpper", "remount">>
  BY <1>1 DEF RemountSteps
<1>3. /\ RestoreSteps \in Seq(StepNames) /\ RestoreSteps # <<>>
      /\ Head(RestoreSteps) = "clear" /\ Tail(RestoreSteps) = <<"fill">>
  BY <1>1 DEF RestoreSteps
<1>4. /\ DegradeSteps \in Seq(StepNames) /\ DegradeSteps # <<>>
      /\ Head(DegradeSteps) = "rmMerged"
      /\ Tail(DegradeSteps) = <<"mkMerged", "fill", "store">>
  BY <1>1 DEF DegradeSteps
<1>5. DegradeSteps \o <<>> = DegradeSteps
  BY <1>4, ConcatEmptySeq
<1>6. /\ CommitSteps \in Seq(StepNames) /\ CommitSteps # <<>>
      /\ Head(CommitSteps) = "rmOut" /\ Tail(CommitSteps) = <<"copyOut", "manifest">>
  BY <1>1 DEF CommitSteps
<1>7. ASSUME NEW m
      PROVE  /\ DestroySteps(m) \in Seq(StepNames) /\ DestroySteps(m) # <<>>
             /\ \/ /\ Head(DestroySteps(m)) = "umount"
                   /\ Tail(DestroySteps(m)) = <<"rmRoot", "forget">>
                \/ Head(DestroySteps(m)) = "rmRoot" /\ Tail(DestroySteps(m)) = <<"forget">>
  <2>1. <<"rmRoot", "forget">> \in Seq(StepNames) /\ <<>> \o <<"rmRoot", "forget">> = <<"rmRoot", "forget">>
    BY StepLists, ConcatEmptySeq
  <2>2. CASE m = "overlay"
    <3>1. DestroySteps(m) = <<"umount">> \o <<"rmRoot", "forget">>
      BY <2>2 DEF DestroySteps
    <3>2. <<"umount">> \in Seq(StepNames) /\ <<"umount">> # <<>>
          /\ Head(<<"umount">>) = "umount" /\ Tail(<<"umount">>) = <<>>
      BY <1>1
    <3>3. /\ DestroySteps(m) \in Seq(StepNames) /\ DestroySteps(m) # <<>>
          /\ Head(DestroySteps(m)) = Head(<<"umount">>)
          /\ Tail(DestroySteps(m)) = Tail(<<"umount">>) \o <<"rmRoot", "forget">>
      BY <2>1, <3>1, <3>2, HeadTailConcat
    <3> QED BY <2>1, <3>2, <3>3, Zenon
  <2>3. CASE m # "overlay"
    <3>1. DestroySteps(m) = <<"rmRoot", "forget">>
      BY <2>1, <2>3 DEF DestroySteps
    <3> QED BY <3>1, StepLists
  <2> QED BY <2>2, <2>3
<1>8. Restores(o, st) => /\ Placed(o, st, Head(RemountSteps), Tail(RemountSteps))
                         /\ Placed(o, st, Head(RestoreSteps), Tail(RestoreSteps))
                         /\ Placed(o, st, Head(DegradeSteps), Tail(DegradeSteps))
  BY <1>2, <1>3, <1>4 DEF Placed
<1>9. Commits(o, st) => Placed(o, st, Head(CommitSteps), Tail(CommitSteps))
  BY <1>6 DEF Placed
<1>10. Destroys(o, st) => \A m : Placed(o, st, Head(DestroySteps(m)), Tail(DestroySteps(m)))
  BY <1>7 DEF Placed
<1> QED BY <1>2, <1>3, <1>4, <1>5, <1>6, <1>7, <1>8, <1>9, <1>10, Zenon

\* The type invariant: every call stands at a place of its program.
LEMMA WBeginType ==
    ASSUME WTypeOK, NEW k \in Callers, Begin(k)
    PROVE  /\ WTypeOK'
           /\ todo'[k] # <<>>
           /\ Head(todo'[k]) \in {"lookup", "fetchRollback", "fetchCommit", "fetchDestroy", "snapshot"}
<1>1. PICK o \in setting.ops : op' = [op EXCEPT ![k] = o] /\ todo' = [todo EXCEPT ![k] = Program(o)]
  BY DEF Begin
<1>2. setting.ops \subseteq {"tool", "ensure", "rollback", "commit", "destroy", "rmfault"}
  BY WorkspaceAssumption DEF WTypeOK
<1>3. /\ Program(o) \in Seq(StepNames) /\ Program(o) # <<>>
      /\ Head(Program(o)) \in {"lookup", "fetchRollback", "fetchCommit", "fetchDestroy", "snapshot"}
      /\ Placed(o, "running", Head(Program(o)), Tail(Program(o)))
  BY <1>1, <1>2, ProgramPlaced
<1>4. /\ status' = [status EXCEPT ![k] = "running"] /\ mode' = [mode EXCEPT ![k] = NoMode]
      /\ UNCHANGED <<mounts, reg, left, erred, faults, setting>>
  BY DEF Begin, dirs
<1>5. /\ todo' \in [Callers -> Seq(StepNames)] /\ op' \in [Callers -> setting'.ops \cup {"none"}]
      /\ status' \in [Callers -> {"none", "running", "ok", "failed", "restored", "error"}]
      /\ mode' \in [Callers -> {NoMode, "overlay", "copy"}]
  BY <1>1, <1>3, <1>4 DEF WTypeOK
<1>6. todo'[k] = Program(o) /\ op'[k] = o /\ status'[k] = "running"
  BY <1>1, <1>4 DEF WTypeOK
<1>7. ASSUME NEW j \in Callers, todo'[j] # <<>> PROVE Standing(j)'
  <2>1. CASE j = k
    BY <1>3, <1>6, <2>1 DEF Standing
  <2>2. CASE j # k
    <3>1. todo'[j] = todo[j] /\ status'[j] = status[j] /\ op'[j] = op[j]
      BY <1>1, <1>4, <2>2 DEF WTypeOK
    <3> QED BY <1>7, <3>1 DEF WTypeOK, Standing
  <2> QED BY <2>1, <2>2
<1> QED BY <1>3, <1>4, <1>5, <1>6, <1>7 DEF WTypeOK

\* What a lookup goes on with.
LEMMA LookupPlaced ==
    ASSUME WTypeOK, NEW k \in Callers, At(k, "lookup")
    PROVE  /\ CreateSteps \o Rest(k) \in Seq(StepNames) /\ CreateSteps \o Rest(k) # <<>>
           /\ Head(CreateSteps \o Rest(k)) = "rmRoot"
           /\ Placed(op[k], status[k], Head(CreateSteps \o Rest(k)), Tail(CreateSteps \o Rest(k)))
           /\ <<>> \o Rest(k) = Rest(k)
<1>1. /\ Rest(k) \in Seq(StepNames)
      /\ Placed(op[k], status[k], "lookup", Rest(k))
  BY AtPlaced
<1>2. Creates(op[k], status[k]) /\ Rest(k) = After(op[k])
  BY <1>1 DEF Placed
<1>3. <<>> \o Rest(k) = Rest(k)
  BY <1>1, ConcatEmptySeq
<1>4. Placed(op[k], status[k], "rmRoot", <<"mkDirs", "seed", "mount">> \o After(op[k]))
  BY <1>2 DEF Placed
<1>5. /\ CreateSteps \o Rest(k) \in Seq(StepNames) /\ CreateSteps \o Rest(k) # <<>>
      /\ Head(CreateSteps \o Rest(k)) = "rmRoot"
      /\ Tail(CreateSteps \o Rest(k)) = <<"mkDirs", "seed", "mount">> \o Rest(k)
  BY <1>1, CreateParts
<1> QED BY <1>2, <1>3, <1>4, <1>5, Zenon

\* What a mount goes on with.
LEMMA MountPlaced ==
    ASSUME WTypeOK, NEW k \in Callers, At(k, "mount")
    PROVE  /\ <<"store">> \o Rest(k) \in Seq(StepNames) /\ <<"store">> \o Rest(k) # <<>>
           /\ Head(<<"store">> \o Rest(k)) = "store"
           /\ Placed(op[k], status[k], Head(<<"store">> \o Rest(k)), Tail(<<"store">> \o Rest(k)))
           /\ CopySteps \o Rest(k) \in Seq(StepNames) /\ CopySteps \o Rest(k) # <<>>
           /\ Head(CopySteps \o Rest(k)) = "fill" /\ Tail(CopySteps \o Rest(k)) # <<>>
           /\ Placed(op[k], status[k], Head(CopySteps \o Rest(k)), Tail(CopySteps \o Rest(k)))
<1>1. /\ Rest(k) \in Seq(StepNames)
      /\ Placed(op[k], status[k], "mount", Rest(k))
  BY AtPlaced
<1>2. Creates(op[k], status[k]) /\ Rest(k) = After(op[k])
  BY <1>1 DEF Placed
<1>3. CopySteps = <<"fill", "store">>
  BY DEF CopySteps
<1>4. /\ Placed(op[k], status[k], "store", After(op[k]))
      /\ Placed(op[k], status[k], "fill", <<"store">> \o After(op[k]))
  BY <1>2 DEF Placed
<1>5. /\ <<"store">> \o Rest(k) \in Seq(StepNames) /\ <<"store">> \o Rest(k) # <<>>
      /\ Head(<<"store">> \o Rest(k)) = "store" /\ Tail(<<"store">> \o Rest(k)) = Rest(k)
      /\ CopySteps \o Rest(k) \in Seq(StepNames) /\ CopySteps \o Rest(k) # <<>>
      /\ Head(CopySteps \o Rest(k)) = "fill"
      /\ Tail(CopySteps \o Rest(k)) = <<"store">> \o Rest(k)
  BY <1>1, <1>3, CreateParts
<1> QED BY <1>2, <1>4, <1>5, Zenon

\* What a remount goes on with.
LEMMA RemountPlaced ==
    ASSUME WTypeOK, NEW k \in Callers, At(k, "remount")
    PROVE  /\ Rest(k) = <<>> /\ Restores(op[k], status[k])
           /\ DegradeSteps \o Rest(k) = DegradeSteps
<1>1. Placed(op[k], status[k], "remount", Rest(k))
  BY AtPlaced
<1>2. Rest(k) = <<>> /\ Restores(op[k], status[k])
  BY <1>1 DEF Placed
<1> QED BY <1>2, FetchedPlaced

\* The steps on the record go on with a program that fits what they read.
LEMMA WRecordType ==
    ASSUME WTypeOK, NEW k \in Callers, RecordStep(k)
    PROVE  WTypeOK'
<1>1. CASE Lookup(k)
  <2>1. At(k, "lookup") /\ UNCHANGED <<mounts, reg, mode, control, faults>>
    BY <1>1 DEF Lookup, dirs
  <2>2. Continue(k, CreateSteps \o Rest(k)) \/ Continue(k, Rest(k))
    BY <1>1, <2>1, LookupPlaced DEF Lookup
  <2>3. \E rest \in Seq(StepNames) :
           /\ Continue(k, rest)
           /\ rest # <<>> => Placed(op[k], status[k], Head(rest), Tail(rest))
    BY <2>1, <2>2, LookupPlaced, AtPlaced
  <2>4. UNCHANGED mounts /\ UNCHANGED reg /\ UNCHANGED mode /\ UNCHANGED control /\ UNCHANGED faults
    BY <2>1
  <2> QED BY <2>1, <2>3, <2>4, AtPlaced, ControlKept, TypeStep DEF WTypeOK
<1>2. ASSUME NEW step \in {"fetchRollback", "fetchCommit", "fetchDestroy"}, NEW steps,
             Fetch(k, step, steps),
             At(k, step) => steps \in Seq(StepNames) /\ Placed(op[k], status[k], Head(steps), Tail(steps))
      PROVE  WTypeOK'
  <2>1. /\ At(k, step) /\ UNCHANGED mounts /\ UNCHANGED reg /\ UNCHANGED control /\ UNCHANGED faults
        /\ mode' = [mode EXCEPT ![k] = reg]
        /\ Abort(k) \/ Continue(k, steps)
    BY <1>2 DEF Fetch, dirs
  <2>2. \/ Abort(k)
        \/ \E rest \in Seq(StepNames) :
              /\ Continue(k, rest)
              /\ rest # <<>> => Placed(op[k], status[k], Head(rest), Tail(rest))
    BY <1>2, <2>1
  <2>3. mode' \in [Callers -> {NoMode, "overlay", "copy"}]
    BY <2>1 DEF WTypeOK
  <2> QED BY <2>1, <2>2, <2>3, AtPlaced, ControlKept, TypeStep DEF WTypeOK
<1>3. CASE FetchRollback(k)
  <2>1. At(k, "fetchRollback") => Restores(op[k], status[k])
    BY AtPlaced DEF Placed
  <2>2. RollbackSteps(reg) = RemountSteps \/ RollbackSteps(reg) = RestoreSteps
    BY DEF RollbackSteps
  <2>3. At(k, "fetchRollback") =>
           /\ RollbackSteps(reg) \in Seq(StepNames)
           /\ Placed(op[k], status[k], Head(RollbackSteps(reg)), Tail(RollbackSteps(reg)))
    BY <2>1, <2>2, FetchedPlaced
  <2> QED BY <1>2, <1>3, <2>3 DEF FetchRollback
<1>4. CASE FetchCommit(k)
  <2>1. At(k, "fetchCommit") => Commits(op[k], status[k])
    BY AtPlaced DEF Placed
  <2>2. At(k, "fetchCommit") =>
           CommitSteps \in Seq(StepNames) /\ Placed(op[k], status[k], Head(CommitSteps), Tail(CommitSteps))
    BY <2>1, FetchedPlaced
  <2> QED BY <1>2, <1>4, <2>2 DEF FetchCommit
<1>5. CASE FetchDestroy(k)
  <2>1. At(k, "fetchDestroy") => Destroys(op[k], status[k])
    BY AtPlaced DEF Placed
  <2>2. At(k, "fetchDestroy") =>
           /\ DestroySteps(reg) \in Seq(StepNames)
           /\ Placed(op[k], status[k], Head(DestroySteps(reg)), Tail(DestroySteps(reg)))
    BY <2>1, FetchedPlaced
  <2> QED BY <1>2, <1>5, <2>2 DEF FetchDestroy
<1>6. CASE SetWorkspace(k) \/ Forget(k)
  <2>1. PICK h : At(k, h) /\ Continue(k, Rest(k))
    BY <1>6 DEF SetWorkspace, Forget
  <2>2. /\ UNCHANGED mounts /\ UNCHANGED mode /\ UNCHANGED control /\ UNCHANGED faults
        /\ reg' = mode[k] \/ reg' = NoMode
    BY <1>6 DEF SetWorkspace, Forget, dirs
  <2>3. reg' \in {NoMode, "overlay", "copy"}
    BY <2>2 DEF WTypeOK
  <2> QED BY <2>1, <2>2, <2>3, AtPlaced, ControlKept, TypeStep DEF WTypeOK
<1> QED BY <1>1, <1>3, <1>4, <1>5, <1>6 DEF RecordStep

\* The steps on the file system go on with what is left, or fail.
LEMMA WFileType ==
    ASSUME WTypeOK, NEW k \in Callers, FileStep(k)
    PROVE  WTypeOK'
<1> DEFINE Moves == \/ Abort(k)
                    \/ \E rest \in Seq(StepNames) :
                          /\ Continue(k, rest)
                          /\ rest # <<>> => Placed(op[k], status[k], Head(rest), Tail(rest))
           Counts == faults' = faults \/ faults' = faults + 1
           Stacks == mounts' \in Seq({"live", "dead"})
           Marks == mode' \in [Callers -> {NoMode, "overlay", "copy"}]
           Keeps == UNCHANGED op /\ UNCHANGED setting /\ left' \in [Callers -> SUBSET Base]
<1>1. \A h : At(k, h) /\ (Continue(k, Rest(k)) \/ Abort(k)) => Moves
  BY AtPlaced
<1>2. (\E h : At(k, h)) /\ Keeps /\ UNCHANGED reg /\ Moves /\ Counts /\ Stacks /\ Marks
        => WTypeOK'
  <2>1. (\E h : At(k, h)) => todo[k] # <<>>
    BY AtPlaced
  <2> QED BY <2>1, TypeStep DEF WTypeOK
<1>3. /\ Fault(k) => Counts
      /\ NoFault => Counts
      /\ UNCHANGED control => Keeps
      /\ UNCHANGED mounts => Stacks
      /\ UNCHANGED mode => Marks
  BY ControlKept DEF Fault, NoFault, WTypeOK
<1>4. [i \in DOMAIN mounts |-> "dead"] \in Seq({"live", "dead"})
  BY DeadMounts DEF WTypeOK
<1> HIDE DEF Moves, Counts, Stacks, Marks, Keeps
<1>5. CASE Snapshot(k)
  BY <1>1, <1>2, <1>3, <1>5 DEF Snapshot, dirs
<1>6. CASE RemoveRoot(k)
  <2>1. Stacks
    BY <1>4, <1>6 DEF RemoveRoot, Stacks
  <2> QED BY <1>1, <1>2, <1>3, <1>6, <2>1 DEF RemoveRoot
<1>23. CASE RemovePart(k)
  BY <1>23 DEF RemovePart, WTypeOK, control, Standing
<1>7. CASE MakeDirs(k)
  <2>1. Keeps
    BY <1>7 DEF MakeDirs, Keeps, WTypeOK
  <2> QED BY <1>1, <1>2, <1>3, <1>7, <2>1 DEF MakeDirs
<1>8. CASE Seed(k)
  <2>1. Keeps
    BY <1>8 DEF Seed, Keeps, WTypeOK
  <2>2. Continue(k, todo[k]) => Moves
    BY <1>8 DEF Seed, At, Moves, WTypeOK, Standing
  <2>3. At(k, "seed") /\ (Continue(k, Rest(k)) \/ Continue(k, todo[k]) \/ Abort(k))
        /\ (NoFault \/ Fault(k)) /\ UNCHANGED reg /\ UNCHANGED mounts /\ UNCHANGED mode
    BY <1>8 DEF Seed
  <2> QED BY <1>1, <1>2, <1>3, <2>1, <2>2, <2>3
<1>9. ASSUME NEW step, NEW success, NEW fallback, MountOr(k, step, success, fallback),
             Continue(k, success) \/ Continue(k, fallback) => Moves
      PROVE  WTypeOK'
  <2>1. Marks
    BY <1>9 DEF MountOr, WTypeOK, Marks
  <2>2. Stacks
    BY <1>9, StackedMounts DEF MountOr, WTypeOK, Stacks
  <2>3. Counts /\ Moves
    BY <1>3, <1>9 DEF MountOr
  <2> QED BY <1>2, <1>3, <1>9, <2>1, <2>2, <2>3 DEF MountOr
<1>10. CASE Mount(k)
  <2>1. At(k, "mount")
    BY <1>10 DEF Mount, MountOr
  <2>2. Continue(k, <<"store">> \o Rest(k)) \/ Continue(k, CopySteps \o Rest(k)) => Moves
    BY <2>1, MountPlaced DEF Moves
  <2> QED BY <1>9, <1>10, <2>2 DEF Mount
<1>11. CASE Remount(k)
  <2>1. At(k, "remount")
    BY <1>11 DEF Remount, MountOr
  <2>2. Continue(k, Rest(k)) \/ Continue(k, DegradeSteps \o Rest(k)) => Moves
    BY <1>1, <2>1, RemountPlaced, FetchedPlaced DEF Moves
  <2> QED BY <1>9, <1>11, <2>2 DEF Remount
<1>12. CASE Unmount(k)
  <2>1. Stacks
    BY <1>12, StackedMounts DEF Unmount, WTypeOK, Stacks
  <2> QED BY <1>1, <1>2, <1>3, <1>12, <2>1 DEF Unmount
<1>13. CASE RemoveUpper(k)
  <2>1. Stacks
    BY <1>3, <1>4, <1>13 DEF RemoveUpper, Stacks
  <2> QED BY <1>1, <1>2, <1>3, <1>13, <2>1 DEF RemoveUpper
<1>14. CASE MakeUpper(k)
  BY <1>1, <1>2, <1>3, <1>14 DEF MakeUpper
<1>15. CASE MakeMerged(k)
  BY <1>1, <1>2, <1>3, <1>15 DEF MakeMerged
<1>16. CASE RemoveMerged(k)
  BY <1>1, <1>2, <1>3, <1>16 DEF RemoveMerged
<1>17. CASE Clear(k)
  BY <1>1, <1>2, <1>3, <1>17 DEF Clear
<1>18. CASE Fill(k)
  BY <1>1, <1>2, <1>3, <1>18 DEF Fill
<1>19. CASE RemoveOutput(k)
  BY <1>1, <1>2, <1>3, <1>19 DEF RemoveOutput
<1>20. CASE CopyOutput(k)
  BY <1>1, <1>2, <1>3, <1>20 DEF CopyOutput
<1>21. CASE WriteManifest(k)
  BY <1>1, <1>2, <1>3, <1>21 DEF WriteManifest
<1>22. CASE RunTool(k)
  <2>1. At(k, "tool") /\ UNCHANGED <<mounts, reg, mode, control, faults>>
    BY <1>22 DEF RunTool
  <2>2. RunsTool(op[k], status[k])
    BY <2>1, AtPlaced DEF Placed
  <2>3. /\ "fetchCommit" \in StepNames /\ "fetchRollback" \in StepNames
    BY DEF StepNames
  <2>4. /\ <<"fetchCommit">> \in Seq(StepNames) /\ Head(<<"fetchCommit">>) = "fetchCommit"
        /\ Tail(<<"fetchCommit">>) = <<>>
    BY <2>3
  <2>5. CASE Continue(k, <<"fetchCommit">>)
    <3>1. Placed(op[k], status[k], Head(<<"fetchCommit">>), Tail(<<"fetchCommit">>))
      BY <2>2, <2>4 DEF Placed, RunsTool, Commits
    <3>2. Moves
      BY <2>4, <2>5, <3>1 DEF Moves
    <3> QED BY <1>2, <1>3, <2>1, <3>2 DEF Counts
  <2>6. CASE /\ todo' = [todo EXCEPT ![k] = <<"fetchRollback">>]
             /\ status' = [status EXCEPT ![k] = "failed"]
    <3>1. UNCHANGED op /\ UNCHANGED setting /\ UNCHANGED left /\ UNCHANGED erred
      BY <1>22, <2>1 DEF RunTool, Continue, control
    <3>2. /\ todo' \in [Callers -> Seq(StepNames)] /\ todo'[k] = <<"fetchRollback">>
          /\ status' \in [Callers -> {"none", "running", "ok", "failed", "restored", "error"}]
          /\ status'[k] = "failed"
      BY <2>6, StepLists DEF WTypeOK
    <3>3. ASSUME NEW j \in Callers, todo'[j] # <<>> PROVE Standing(j)'
      <4>1. CASE j = k
        <5>1. Placed(op[k], "failed", "fetchRollback", <<>>)
          BY <2>2 DEF Placed, Restores, RunsTool
        <5> QED BY <3>1, <3>2, <4>1, <5>1, StepLists DEF Standing
      <4>2. CASE j # k
        <5>1. todo'[j] = todo[j] /\ status'[j] = status[j]
          BY <2>6, <4>2 DEF WTypeOK
        <5> QED BY <3>1, <3>3, <5>1 DEF WTypeOK, Standing
      <4> QED BY <4>1, <4>2
    <3> QED BY <2>1, <3>1, <3>2, <3>3 DEF WTypeOK
  <2> QED BY <1>22, <2>5, <2>6 DEF RunTool
<1> QED BY <1>5, <1>6, <1>7, <1>8, <1>10, <1>11, <1>12, <1>13, <1>14, <1>15, <1>16, <1>17,
           <1>18, <1>19, <1>20, <1>21, <1>22, <1>23 DEF FileStep

-----------------------------------------------------------------------------
(* Calls one at a time. *)

HereOK(k) == Unmounted(k) /\ CleanStart(k) /\ RemountsOverlay(k) /\ CommitPrepared(k)

\* Places that need nothing of the directories.
Plain(h, t) ==
    \/ h \in {"lookup", "snapshot", "rmRoot", "tool", "fetchRollback", "fetchCommit", "fetchDestroy", "rmMerged"}
    \/ h = "mkMerged" /\ t = <<"tool">>
    \/ h = "umount" /\ t = <<"rmRoot", "forget">>
    \/ h = "clear" /\ t = <<"fetchRollback">>

\* Where a call is after its step.
LEMMA NewPlace ==
    ASSUME WTypeOK, NEW k \in Callers, NEW rest, Continue(k, rest)
    PROVE  /\ todo' = [todo EXCEPT ![k] = rest]
           /\ todo'[k] = rest
           /\ \A h : At(k, h)' <=> rest # <<>> /\ Head(rest) = h
           /\ Rest(k)' = Tail(rest)
<1>1. todo' = [todo EXCEPT ![k] = rest] /\ todo'[k] = rest
  BY DEF WTypeOK, Continue
<1> QED BY <1>1 DEF At, Rest

\* A call that has ended needs nothing,
LEMMA EndedHere ==
    ASSUME NEW k \in Callers, todo'[k] = <<>>
    PROVE  HereOK(k)'
<1>1. \A h : ~At(k, h)'
  BY DEF At
<1> QED BY <1>1 DEF HereOK, Unmounted, CleanStart, RemountsOverlay, CommitPrepared

\* nor does one at a plain place.
LEMMA PlainHere ==
    ASSUME NEW k \in Callers, NEW g, NEW t, Plain(g, t), Rest(k)' = t,
           \A h : At(k, h)' => h = g
    PROVE  HereOK(k)'
<1>1. g \notin {"mkDirs", "seed", "mount", "forget", "fill", "mkUpper", "remount", "store", "rmUpper",
                "rmOut", "copyOut", "manifest"}
  BY DEF Plain
<1>2. \A h \in {"mkDirs", "seed", "mount", "forget", "fill", "mkUpper", "remount", "store", "rmUpper",
                "rmOut", "copyOut", "manifest"} : ~At(k, h)'
  BY <1>1
<1>3. <<"tool">> # <<"fill", "store">> /\ <<"fetchRollback">> # <<"fill">>
      /\ <<"rmRoot", "forget">> # <<"rmUpper", "mkUpper", "remount">>
  OBVIOUS
<1>4. /\ ~(At(k, "mkMerged")' /\ Rest(k)' = <<"fill", "store">>)
      /\ ~(At(k, "clear")' /\ Rest(k)' = <<"fill">>)
      /\ ~(At(k, "umount")' /\ Rest(k)' = <<"rmUpper", "mkUpper", "remount">>)
  BY <1>3, Zenon DEF Plain
<1>5. Unmounted(k)'
  BY <1>2, <1>4 DEF Unmounted
<1>6. CleanStart(k)'
  BY <1>2, <1>4 DEF CleanStart
<1>7. RemountsOverlay(k)'
  BY <1>2, <1>4 DEF RemountsOverlay
<1>8. CommitPrepared(k)'
  BY <1>2 DEF CommitPrepared
<1> QED BY <1>5, <1>6, <1>7, <1>8 DEF HereOK

\* Only the call that steps has to be looked at.
LEMMA SoloStep ==
    ASSUME WTypeOK, SerialOK, NEW k \in Callers, todo[k] # <<>>, NEW rest,
           todo' = [todo EXCEPT ![k] = rest], HereOK(k)', MountKnown'
    PROVE  SerialOK'
<1>1. \A j \in Callers : j # k => todo[j] = <<>> /\ todo'[j] = <<>>
  BY DEF WTypeOK, SerialOK, Alone
<1>2. Alone'
  BY <1>1 DEF Alone
<1>3. \A j \in Callers : HereOK(j)'
  BY <1>1, EndedHere
<1> QED BY <1>2, <1>3 DEF SerialOK, HereOK

\* Unless the call is about to register a mount, a mount is registered.
LEMMA KnownMount ==
    ASSUME SerialOK, NEW k \in Callers, NEW h, At(k, h), h # "store"
    PROVE  mounts # <<>> => reg = "overlay"
<1>1. ASSUME NEW j \in Callers, At(j, "store") PROVE FALSE
  <2>1. j = k
    BY <1>1 DEF SerialOK, Alone, At
  <2> QED BY <1>1, <2>1 DEF At
<1> QED BY <1>1 DEF SerialOK, MountKnown

\* A step that ends in a plain place, or ends the call, and mounts nothing.
LEMMA PlainStep ==
    ASSUME WTypeOK, SerialOK, NEW k \in Callers, NEW h, At(k, h), h # "store",
           UNCHANGED reg, mounts' # <<>> => mounts # <<>>,
           \/ Abort(k)
           \/ \E rest : Continue(k, rest) /\ (rest # <<>> => Plain(Head(rest), Tail(rest)))
    PROVE  SerialOK'
<1>1. MountKnown'
  BY KnownMount DEF MountKnown
<1>2. todo[k] # <<>>
  BY DEF At
<1>3. CASE Abort(k)
  <2>1. todo' = [todo EXCEPT ![k] = <<>>] /\ todo'[k] = <<>>
    BY <1>3 DEF Abort, WTypeOK
  <2>2. HereOK(k)'
    BY <2>1, EndedHere
  <2> QED BY <1>1, <1>2, <2>1, <2>2, SoloStep
<1>4. ASSUME NEW rest, Continue(k, rest), rest # <<>> => Plain(Head(rest), Tail(rest))
      PROVE  SerialOK'
  <2>1. /\ todo' = [todo EXCEPT ![k] = rest] /\ todo'[k] = rest
        /\ \A g : At(k, g)' <=> rest # <<>> /\ Head(rest) = g
        /\ Rest(k)' = Tail(rest)
    BY <1>4, NewPlace
  <2>2. HereOK(k)'
    <3>1. CASE rest = <<>>
      BY <2>1, <3>1, EndedHere
    <3>2. CASE rest # <<>>
      BY <1>4, <2>1, <3>2, PlainHere
    <3> QED BY <3>1, <3>2
  <2> QED BY <1>1, <1>2, <2>1, <2>2, SoloStep
<1> QED BY <1>3, <1>4

\* What comes after a creation is plain.
LEMMA AfterPlain ==
    ASSUME NEW o, After(o) # <<>>
    PROVE  Plain(Head(After(o)), Tail(After(o)))
BY AfterCases DEF Plain

\* The steps of a call find and leave what the calls before them promise: when
\* a call begins,
LEMMA WBeginSerial ==
    ASSUME WTypeOK, SerialOK, setting.serial, NEW k \in Callers, Begin(k)
    PROVE  SerialOK'
<1>1. \A j \in Callers : todo[j] = <<>>
  BY DEF Begin
<1>2. PICK o \in setting.ops : todo' = [todo EXCEPT ![k] = Program(o)]
  BY DEF Begin
<1>3. \A j \in Callers : j # k => todo'[j] = <<>>
  BY <1>1, <1>2 DEF WTypeOK
<1>4. Alone'
  BY <1>3 DEF Alone
<1>5. UNCHANGED reg /\ UNCHANGED mounts
  BY DEF Begin, dirs
<1>6. MountKnown'
  <2>1. \A j \in Callers : ~At(j, "store")
    BY <1>1 DEF At
  <2>2. mounts # <<>> => reg = "overlay"
    BY <2>1 DEF SerialOK, MountKnown
  <2> QED BY <1>5, <2>2 DEF MountKnown
<1>7. HereOK(k)'
  <2>1. /\ todo'[k] # <<>>
        /\ Head(todo'[k]) \in {"lookup", "fetchRollback", "fetchCommit", "fetchDestroy", "snapshot"}
    BY WBeginType
  <2>2. Plain(Head(todo'[k]), Tail(todo'[k]))
    BY <2>1 DEF Plain
  <2>3. \A h : At(k, h)' => h = Head(todo'[k])
    BY DEF At
  <2>4. Rest(k)' = Tail(todo'[k])
    BY DEF Rest
  <2> QED BY <2>2, <2>3, <2>4, PlainHere
<1>8. \A j \in Callers : HereOK(j)'
  BY <1>3, <1>7, EndedHere
<1> QED BY <1>4, <1>6, <1>8 DEF SerialOK, HereOK

\* when it reads or writes the record,
LEMMA WRecordSerial ==
    ASSUME WTypeOK, SerialOK, NEW k \in Callers, RecordStep(k)
    PROVE  SerialOK'
<1>1. CASE Lookup(k)
  <2>1. At(k, "lookup") /\ UNCHANGED reg /\ UNCHANGED mounts
    BY <1>1 DEF Lookup, dirs
  <2>2. Continue(k, CreateSteps \o Rest(k)) \/ Continue(k, Rest(k))
    BY <1>1, <2>1, LookupPlaced DEF Lookup
  <2>3. Rest(k) # <<>> => Plain(Head(Rest(k)), Tail(Rest(k)))
    <3>1. Rest(k) = After(op[k])
      BY <2>1, AtPlaced DEF Placed
    <3> QED BY <3>1, AfterPlain
  <2>4. Plain(Head(CreateSteps \o Rest(k)), Tail(CreateSteps \o Rest(k)))
    BY <2>1, LookupPlaced DEF Plain
  <2> QED BY <2>1, <2>2, <2>3, <2>4, PlainStep
<1>2. CASE FetchRollback(k)
  <2>1. /\ At(k, "fetchRollback") /\ UNCHANGED reg /\ UNCHANGED mounts
        /\ (reg = NoMode /\ Abort(k)) \/ (reg # NoMode /\ Continue(k, RollbackSteps(reg)))
    BY <1>2 DEF FetchRollback, Fetch, dirs
  <2>2. CASE Abort(k)
    BY <2>1, <2>2, PlainStep
  <2>3. CASE Continue(k, RollbackSteps(reg))
    <3>1. /\ todo' = [todo EXCEPT ![k] = RollbackSteps(reg)]
          /\ \A h : At(k, h)' <=> RollbackSteps(reg) # <<>> /\ Head(RollbackSteps(reg)) = h
          /\ Rest(k)' = Tail(RollbackSteps(reg))
      BY <2>3, NewPlace
    <3>2. Restores(op[k], status[k])
      BY <2>1, AtPlaced DEF Placed
    <3>3. MountKnown'
      BY <2>1, KnownMount DEF MountKnown
    <3>4. HereOK(k)'
      <4>1. CASE reg = "overlay"
        <5>1. RollbackSteps(reg) = RemountSteps
          BY <4>1 DEF RollbackSteps
        <5>2. \A h : At(k, h)' => h = "umount"
          BY <3>1, <3>2, <5>1, FetchedPlaced
        <5> QED BY <2>1, <4>1, <5>2
                DEF HereOK, Unmounted, CleanStart, RemountsOverlay, CommitPrepared
      <4>2. CASE reg # "overlay"
        <5>1. RollbackSteps(reg) = RestoreSteps
          BY <4>2 DEF RollbackSteps
        <5>2. \A h : At(k, h)' => h = "clear"
          BY <3>1, <3>2, <5>1, FetchedPlaced
        <5>3. mounts' = <<>>
          BY <2>1, <4>2, KnownMount
        <5> QED BY <5>2, <5>3
                DEF HereOK, Unmounted, CleanStart, RemountsOverlay, CommitPrepared
      <4> QED BY <4>1, <4>2
    <3>5. todo[k] # <<>>
      BY <2>1 DEF At
    <3> QED BY <3>1, <3>3, <3>4, <3>5, SoloStep
  <2> QED BY <2>1, <2>2, <2>3
<1>3. CASE FetchCommit(k)
  <2>1. /\ At(k, "fetchCommit") /\ UNCHANGED reg /\ UNCHANGED mounts
        /\ Abort(k) \/ Continue(k, CommitSteps)
        /\ mode' = [mode EXCEPT ![k] = reg]
    BY <1>3 DEF FetchCommit, Fetch, dirs
  <2>2. CASE Abort(k)
    BY <2>1, <2>2, PlainStep
  <2>3. CASE Continue(k, CommitSteps)
    <3>1. /\ todo' = [todo EXCEPT ![k] = CommitSteps]
          /\ \A h : At(k, h)' <=> CommitSteps # <<>> /\ Head(CommitSteps) = h
      BY <2>3, NewPlace
    <3>2. Commits(op[k], status[k])
      BY <2>1, AtPlaced DEF Placed
    <3>3. MountKnown'
      BY <2>1, KnownMount DEF MountKnown
    <3>4. \A h : At(k, h)' => h = "rmOut"
      BY <3>1, <3>2, FetchedPlaced
    <3>5. mode'[k] = reg'
      BY <2>1 DEF WTypeOK
    <3>6. HereOK(k)'
      BY <3>4, <3>5 DEF HereOK, Unmounted, CleanStart, RemountsOverlay, CommitPrepared
    <3>7. todo[k] # <<>>
      BY <2>1 DEF At
    <3> QED BY <3>1, <3>3, <3>6, <3>7, SoloStep
  <2> QED BY <2>1, <2>2, <2>3
<1>4. CASE FetchDestroy(k)
  <2>1. /\ At(k, "fetchDestroy") /\ UNCHANGED reg /\ UNCHANGED mounts
        /\ Abort(k) \/ Continue(k, DestroySteps(reg))
    BY <1>4 DEF FetchDestroy, Fetch, dirs
  <2>2. Destroys(op[k], status[k])
    BY <2>1, AtPlaced DEF Placed
  <2>3. Plain(Head(DestroySteps(reg)), Tail(DestroySteps(reg)))
    BY <2>2, FetchedPlaced DEF Plain
  <2> QED BY <2>1, <2>3, PlainStep
<1>5. CASE SetWorkspace(k)
  <2>1. /\ At(k, "store") /\ UNCHANGED mounts /\ UNCHANGED mode /\ reg' = mode[k]
        /\ Continue(k, Rest(k))
    BY <1>5 DEF SetWorkspace, dirs
  <2>2. /\ todo' = [todo EXCEPT ![k] = Rest(k)] /\ todo'[k] = Rest(k)
        /\ \A g : At(k, g)' <=> Rest(k) # <<>> /\ Head(Rest(k)) = g
        /\ Rest(k)' = Tail(Rest(k))
    BY <2>1, NewPlace
  <2>3. Rest(k) # <<>> => Rest(k) = After(op[k])
    BY <2>1, AtPlaced DEF Placed
  <2>4. HereOK(k)'
    <3>1. CASE Rest(k) = <<>>
      BY <2>2, <3>1, EndedHere
    <3>2. CASE Rest(k) # <<>>
      BY <2>2, <2>3, <3>2, AfterPlain, PlainHere
    <3> QED BY <3>1, <3>2
  <2>5. MountKnown'
    BY <2>1 DEF MountKnown, SerialOK, CleanStart
  <2>6. todo[k] # <<>>
    BY <2>1 DEF At
  <2> QED BY <2>2, <2>4, <2>5, <2>6, SoloStep
<1>6. CASE Forget(k)
  <2>1. At(k, "forget") /\ UNCHANGED mounts /\ Continue(k, Rest(k))
    BY <1>6 DEF Forget, dirs
  <2>2. Rest(k) = <<>>
    BY <2>1, AtPlaced DEF Placed
  <2>3. mounts = <<>>
    BY <2>1 DEF SerialOK, Unmounted
  <2>4. /\ todo' = [todo EXCEPT ![k] = Rest(k)] /\ todo'[k] = Rest(k)
    BY <2>1, NewPlace
  <2>5. HereOK(k)'
    BY <2>2, <2>4, EndedHere
  <2>6. MountKnown' /\ todo[k] # <<>>
    BY <2>1, <2>3 DEF MountKnown, At
  <2> QED BY <2>4, <2>5, <2>6, SoloStep
<1> QED BY <1>1, <1>2, <1>3, <1>4, <1>5, <1>6 DEF RecordStep

\* and when it works on the directories.
LEMMA WFileSerial ==
    ASSUME WTypeOK, SerialOK, setting.serial, NEW k \in Callers, FileStep(k)
    PROVE  SerialOK'
<1> DEFINE Next1(g) == \A h : At(k, h)' => h = g
\* A step that goes on to g, where what g needs is there.
<1>1. ASSUME NEW h, At(k, h), h # "store", UNCHANGED reg, mounts' # <<>> => mounts # <<>>,
             NEW rest, Continue(k, rest), HereOK(k)'
      PROVE  SerialOK'
  <2>1. MountKnown' /\ todo[k] # <<>>
    BY <1>1, KnownMount DEF MountKnown, At
  <2>2. todo' = [todo EXCEPT ![k] = rest]
    BY <1>1, NewPlace
  <2> QED BY <1>1, <2>1, <2>2, SoloStep
<1>2. ASSUME NEW rest, Continue(k, rest), rest # <<>>
      PROVE  Next1(Head(rest)) /\ Rest(k)' = Tail(rest)
  BY <1>2, NewPlace
<1>3. mounts = <<>> => [i \in DOMAIN mounts |-> "dead"] = <<>>
  BY DeadMounts DEF WTypeOK
<1>4. [i \in DOMAIN mounts |-> "dead"] # <<>> => mounts # <<>>
  BY DeadMounts DEF WTypeOK
<1> HIDE DEF Next1
<1>5. CASE Snapshot(k)
  <2>1. At(k, "snapshot") /\ UNCHANGED reg /\ UNCHANGED mounts /\ (Continue(k, Rest(k)) \/ Abort(k))
    BY <1>5 DEF Snapshot, dirs
  <2>2. Rest(k) = CreateSteps \o After(op[k])
    BY <2>1, AtPlaced DEF Placed
  <2>3. Head(Rest(k)) = "rmRoot"
    BY <2>2, AfterCases, CreateParts
  <2>4. Plain(Head(Rest(k)), Tail(Rest(k)))
    BY <2>3 DEF Plain
  <2> QED BY <2>1, <2>4, PlainStep
<1>6. CASE RemoveRoot(k)
  <2>1. At(k, "rmRoot") /\ UNCHANGED reg /\ mounts' = [i \in DOMAIN mounts |-> "dead"]
    BY <1>6 DEF RemoveRoot
  <2>2. CASE Abort(k)
    BY <1>4, <2>1, <2>2, PlainStep
  <2>3. CASE mounts = <<>> /\ merged' = NoDir /\ upper' = NoDir /\ Continue(k, Rest(k))
    <3>1. mounts' = <<>>
      BY <1>3, <2>1, <2>3
    <3>2. CASE Rest(k) = <<"mkDirs", "seed", "mount">> \o After(op[k])
      <4>1. Rest(k) # <<>> /\ Head(Rest(k)) = "mkDirs"
        BY <3>2, AfterCases, CreateParts
      <4>2. Next1("mkDirs")
        BY <1>2, <2>3, <4>1
      <4>3. HereOK(k)'
        BY <2>3, <3>1, <4>2
           DEF Next1, HereOK, Unmounted, CleanStart, RemountsOverlay, CommitPrepared
      <4> QED BY <1>1, <2>1, <2>3, <3>1, <4>3
    <3>3. CASE Rest(k) = <<"forget">>
      <4>1. Next1("forget")
        BY <1>2, <2>3, <3>3, StepLists
      <4>2. HereOK(k)'
        BY <3>1, <4>1 DEF Next1, HereOK, Unmounted, CleanStart, RemountsOverlay, CommitPrepared
      <4> QED BY <1>1, <2>1, <2>3, <3>1, <4>2
    <3> QED BY <2>1, <3>2, <3>3, AtPlaced DEF Placed
  <2> QED BY <1>6, <2>2, <2>3 DEF RemoveRoot
<1>7. CASE MakeDirs(k)
  <2>1. /\ At(k, "mkDirs") /\ UNCHANGED reg /\ UNCHANGED mounts
        /\ \/ Abort(k)
           \/ /\ Continue(k, Rest(k))
              /\ upper' = IF upper = NoDir THEN NoChange ELSE upper
              /\ merged' = IF merged = NoDir THEN {} ELSE merged
    BY <1>7 DEF MakeDirs
  <2>2. CASE Abort(k)
    BY <2>1, <2>2, PlainStep
  <2>3. CASE /\ Continue(k, Rest(k))
             /\ upper' = IF upper = NoDir THEN NoChange ELSE upper
             /\ merged' = IF merged = NoDir THEN {} ELSE merged
    <3>1. Rest(k) = <<"seed", "mount">> \o After(op[k])
      BY <2>1, AtPlaced DEF Placed
    <3>2. Rest(k) # <<>> /\ Head(Rest(k)) = "seed"
      BY <3>1, AfterCases, CreateParts
    <3>3. Next1("seed")
      BY <1>2, <2>3, <3>2
    <3>4. mounts' = <<>> /\ upper' = NoChange /\ merged' = {}
      BY <2>1, <2>3 DEF SerialOK, Unmounted, CleanStart
    <3>5. HereOK(k)'
      BY <3>3, <3>4 DEF Next1, HereOK, Unmounted, CleanStart, RemountsOverlay, CommitPrepared, Entries
    <3> QED BY <1>1, <2>1, <2>3, <3>4, <3>5
  <2> QED BY <2>1, <2>2, <2>3
<1>8. CASE Seed(k)
  <2>1. /\ At(k, "seed") /\ UNCHANGED reg /\ UNCHANGED mounts /\ UNCHANGED merged /\ UNCHANGED upper
        /\ Abort(k) \/ Continue(k, Rest(k)) \/ Continue(k, todo[k])
    BY <1>8 DEF Seed
  <2>2. CASE Abort(k)
    BY <2>1, <2>2, PlainStep
  <2>3. CASE Continue(k, Rest(k))
    <3>1. Rest(k) = <<"mount">> \o After(op[k])
      BY <2>1, AtPlaced DEF Placed
    <3>2. Rest(k) # <<>> /\ Head(Rest(k)) = "mount"
      BY <3>1, AfterCases, CreateParts
    <3>3. Next1("mount")
      BY <1>2, <2>3, <3>2
    <3>4. mounts = <<>> /\ upper = NoChange /\ Entries(merged) = {}
      BY <2>1 DEF SerialOK, Unmounted, CleanStart
    <3>5. HereOK(k)'
      BY <2>1, <3>3, <3>4
         DEF Next1, HereOK, Unmounted, CleanStart, RemountsOverlay, CommitPrepared, Entries
    <3> QED BY <1>1, <2>1, <2>3, <3>5
  <2>4. CASE Continue(k, todo[k])
    <3>1. todo[k] # <<>> /\ Head(todo[k]) = "seed"
      BY <2>1 DEF At
    <3>2. Next1("seed")
      BY <1>2, <2>4, <3>1
    <3>3. mounts = <<>> /\ upper = NoChange /\ Entries(merged) = {}
      BY <2>1 DEF SerialOK, Unmounted, CleanStart
    <3>4. HereOK(k)'
      BY <2>1, <3>2, <3>3
         DEF Next1, HereOK, Unmounted, CleanStart, RemountsOverlay, CommitPrepared, Entries
    <3> QED BY <1>1, <2>1, <2>4, <3>4
  <2> QED BY <2>1, <2>2, <2>3, <2>4
<1>22. CASE RemovePart(k)
  BY <1>22 DEF RemovePart
<1>9. CASE Mount(k)
  <2>1. /\ At(k, "mount") /\ UNCHANGED reg
        /\ UNCHANGED lower /\ UNCHANGED merged /\ UNCHANGED upper
        /\ \/ /\ NoDir \notin {lower, upper, merged} /\ mounts' = Append(mounts, "live")
              /\ mode' = [mode EXCEPT ![k] = "overlay"]
              /\ Continue(k, <<"store">> \o Rest(k))
           \/ Continue(k, CopySteps \o Rest(k)) /\ UNCHANGED mounts
    BY <1>9 DEF Mount, MountOr
  <2>2. mounts = <<>> /\ upper = NoChange /\ Entries(merged) = {}
    BY <2>1 DEF SerialOK, Unmounted, CleanStart
  <2>3. CASE /\ NoDir \notin {lower, upper, merged} /\ mounts' = Append(mounts, "live")
             /\ mode' = [mode EXCEPT ![k] = "overlay"]
             /\ Continue(k, <<"store">> \o Rest(k))
    <3>1. <<"store">> \o Rest(k) # <<>> /\ Head(<<"store">> \o Rest(k)) = "store"
      BY <2>1, MountPlaced
    <3>2. Next1("store") /\ At(k, "store")' /\ todo' = [todo EXCEPT ![k] = <<"store">> \o Rest(k)]
      BY <1>2, <2>3, <3>1, NewPlace
    <3>3. mode'[k] = "overlay"
      BY <2>3 DEF WTypeOK
    <3>4. mounts' # <<>> /\ Last(mounts') = "live"
      BY <2>3, StackedMounts DEF WTypeOK
    <3>5. View' = Entries(lower)'
      <4>1. View' = (Entries(lower') \ (upper'.hide \cup upper'.opaque)) \cup upper'.add
        BY <2>1, <2>3, <3>4 DEF View, Entries
      <4>2. upper'.hide = {} /\ upper'.opaque = {} /\ upper'.add = {}
        BY <2>1, <2>2 DEF NoChange
      <4> QED BY <4>1, <4>2 DEF Entries
    <3>6. HereOK(k)'
      BY <3>2, <3>3, <3>5 DEF Next1, HereOK, Unmounted, CleanStart, RemountsOverlay, CommitPrepared
    <3>7. MountKnown' /\ todo[k] # <<>>
      BY <2>1, <3>2, <3>3 DEF MountKnown, At
    <3> QED BY <3>2, <3>6, <3>7, SoloStep
  <2>4. CASE Continue(k, CopySteps \o Rest(k)) /\ UNCHANGED mounts
    <3>1. Next1("fill")
      BY <1>2, <2>1, <2>4, MountPlaced
    <3>2. HereOK(k)'
      BY <2>1, <2>2, <2>4, <3>1
         DEF Next1, HereOK, Unmounted, CleanStart, RemountsOverlay, CommitPrepared, Entries
    <3> QED BY <1>1, <2>1, <2>4, <3>2
  <2> QED BY <2>1, <2>3, <2>4
<1>10. CASE Remount(k)
  <2>1. /\ At(k, "remount") /\ UNCHANGED reg
        /\ \/ mounts' = Append(mounts, "live") /\ Continue(k, Rest(k))
           \/ Continue(k, DegradeSteps \o Rest(k)) /\ UNCHANGED mounts
    BY <1>10 DEF Remount, MountOr
  <2>2. Rest(k) = <<>> /\ Restores(op[k], status[k]) /\ DegradeSteps \o Rest(k) = DegradeSteps
    BY <2>1, RemountPlaced
  <2>3. reg = "overlay"
    BY <2>1 DEF SerialOK, RemountsOverlay
  <2>4. CASE Continue(k, Rest(k))
    <3>1. todo' = [todo EXCEPT ![k] = Rest(k)] /\ todo'[k] = <<>>
      BY <2>2, <2>4, NewPlace
    <3>2. HereOK(k)' /\ MountKnown' /\ todo[k] # <<>>
      BY <2>1, <2>3, <3>1, EndedHere DEF MountKnown, At
    <3> QED BY <3>1, <3>2, SoloStep
  <2>5. CASE Continue(k, DegradeSteps \o Rest(k)) /\ UNCHANGED mounts
    <3>1. Plain(Head(DegradeSteps), Tail(DegradeSteps))
      BY <2>2, FetchedPlaced DEF Plain
    <3> QED BY <2>1, <2>2, <2>5, <3>1, PlainStep
  <2> QED BY <2>1, <2>4, <2>5
<1>11. CASE Unmount(k)
  <2>1. /\ At(k, "umount") /\ UNCHANGED reg /\ Continue(k, Rest(k))
        /\ mounts' # <<>> => mounts # <<>>
    BY <1>11 DEF Unmount
  <2>2. CASE Rest(k) = <<"rmUpper", "mkUpper", "remount">>
    <3>1. reg = "overlay"
      BY <2>1, <2>2 DEF SerialOK, RemountsOverlay
    <3>2. Next1("rmUpper")
      BY <1>2, <2>1, <2>2, StepLists
    <3>3. HereOK(k)'
      BY <2>1, <3>1, <3>2 DEF Next1, HereOK, Unmounted, CleanStart, RemountsOverlay, CommitPrepared
    <3> QED BY <1>1, <2>1, <3>3
  <2>3. CASE Rest(k) = <<"rmRoot", "forget">>
    <3>1. Plain(Head(Rest(k)), Tail(Rest(k)))
      BY <2>3, StepLists DEF Plain
    <3> QED BY <2>1, <3>1, PlainStep
  <2> QED BY <2>1, <2>2, <2>3, AtPlaced DEF Placed
<1>12. CASE RemoveUpper(k)
  <2>1. /\ At(k, "rmUpper") /\ UNCHANGED reg
        /\ \/ /\ upper' = NoDir /\ mounts' = [i \in DOMAIN mounts |-> "dead"]
              /\ Continue(k, Rest(k))
           \/ UNCHANGED mounts /\ Abort(k)
    BY <1>12 DEF RemoveUpper
  <2>2. CASE UNCHANGED mounts /\ Abort(k)
    BY <2>1, <2>2, PlainStep
  <2>3. CASE upper' = NoDir /\ mounts' = [i \in DOMAIN mounts |-> "dead"] /\ Continue(k, Rest(k))
    <3>1. Rest(k) = <<"mkUpper", "remount">> /\ reg = "overlay"
      BY <2>1, AtPlaced DEF Placed, SerialOK, RemountsOverlay
    <3>2. Next1("mkUpper")
      BY <1>2, <2>3, <3>1, StepLists
    <3>3. HereOK(k)'
      BY <2>1, <2>3, <3>1, <3>2
         DEF Next1, HereOK, Unmounted, CleanStart, RemountsOverlay, CommitPrepared
    <3> QED BY <1>1, <1>4, <2>1, <2>3, <3>3
  <2> QED BY <2>1, <2>2, <2>3
<1>13. CASE MakeUpper(k)
  <2>1. /\ At(k, "mkUpper") /\ UNCHANGED reg /\ UNCHANGED mounts
        /\ \/ upper' = (IF upper = NoDir THEN NoChange ELSE upper) /\ Continue(k, Rest(k))
           \/ Abort(k)
    BY <1>13 DEF MakeUpper
  <2>2. CASE Abort(k)
    BY <2>1, <2>2, PlainStep
  <2>3. CASE upper' = (IF upper = NoDir THEN NoChange ELSE upper) /\ Continue(k, Rest(k))
    <3>1. Rest(k) = <<"remount">> /\ reg = "overlay" /\ upper = NoDir
      BY <2>1, AtPlaced DEF Placed, SerialOK, RemountsOverlay, CleanStart
    <3>2. Next1("remount")
      BY <1>2, <2>3, <3>1, StepLists
    <3>3. HereOK(k)'
      BY <2>1, <2>3, <3>1, <3>2
         DEF Next1, HereOK, Unmounted, CleanStart, RemountsOverlay, CommitPrepared
    <3> QED BY <1>1, <2>1, <2>3, <3>3
  <2> QED BY <2>1, <2>2, <2>3
<1>14. CASE RemoveMerged(k)
  <2>1. /\ At(k, "rmMerged") /\ UNCHANGED reg /\ UNCHANGED mounts
        /\ \/ mounts = <<>> /\ merged' = NoDir /\ Continue(k, Rest(k))
           \/ Abort(k)
    BY <1>14 DEF RemoveMerged
  <2>2. CASE Abort(k)
    BY <2>1, <2>2, PlainStep
  <2>3. CASE mounts = <<>> /\ merged' = NoDir /\ Continue(k, Rest(k))
    <3>1. Rest(k) = <<"mkMerged", "fill", "store">>
      BY <2>1, AtPlaced DEF Placed
    <3>2. Next1("mkMerged")
      BY <1>2, <2>3, <3>1, StepLists
    <3>3. HereOK(k)'
      BY <2>1, <2>3, <3>2
         DEF Next1, HereOK, Unmounted, CleanStart, RemountsOverlay, CommitPrepared, Entries
    <3> QED BY <1>1, <2>1, <2>3, <3>3
  <2> QED BY <2>1, <2>2, <2>3
<1>15. CASE MakeMerged(k)
  <2>1. /\ At(k, "mkMerged") /\ UNCHANGED reg /\ UNCHANGED mounts
        /\ \/ merged' = Entries(merged) /\ Continue(k, Rest(k))
           \/ Abort(k)
    BY <1>15 DEF MakeMerged
  <2>2. CASE Abort(k)
    BY <2>1, <2>2, PlainStep
  <2>3. CASE merged' = Entries(merged) /\ Continue(k, Rest(k))
    <3>1. CASE Rest(k) = <<"tool">>
      <4>1. Plain(Head(Rest(k)), Tail(Rest(k)))
        BY <3>1, StepLists DEF Plain
      <4> QED BY <2>1, <2>3, <4>1, PlainStep
    <3>2. CASE Rest(k) = <<"fill", "store">>
      <4>1. Next1("fill")
        BY <1>2, <2>3, <3>2, StepLists
      <4>2. mounts = <<>> /\ Entries(merged) = {}
        BY <2>1, <3>2 DEF SerialOK, Unmounted, CleanStart
      <4>3. HereOK(k)'
        BY <2>1, <2>3, <4>1, <4>2
           DEF Next1, HereOK, Unmounted, CleanStart, RemountsOverlay, CommitPrepared, Entries
      <4> QED BY <1>1, <2>1, <2>3, <4>3
    <3> QED BY <2>1, <3>1, <3>2, AtPlaced DEF Placed
  <2> QED BY <2>1, <2>2, <2>3
<1>16. CASE Clear(k)
  <2>1. /\ At(k, "clear") /\ UNCHANGED reg /\ UNCHANGED mounts
        /\ (SetView({}, {}) /\ Continue(k, Rest(k))) \/ Abort(k)
    BY <1>16 DEF Clear
  <2>2. CASE Abort(k)
    BY <2>1, <2>2, PlainStep
  <2>3. CASE SetView({}, {}) /\ Continue(k, Rest(k))
    <3>1. CASE Rest(k) = <<"fetchRollback">>
      <4>1. Plain(Head(Rest(k)), Tail(Rest(k)))
        BY <3>1, StepLists DEF Plain
      <4> QED BY <2>1, <2>3, <4>1, PlainStep
    <3>2. CASE Rest(k) = <<"fill">>
      <4>1. Next1("fill")
        BY <1>2, <2>3, <3>2, StepLists
      <4>2. mounts = <<>>
        BY <2>1, <3>2 DEF SerialOK, Unmounted
      <4>3. merged' = {}
        BY <2>3, <4>2 DEF SetView
      <4>4. HereOK(k)'
        BY <2>1, <4>1, <4>2, <4>3
           DEF Next1, HereOK, Unmounted, CleanStart, RemountsOverlay, CommitPrepared, Entries
      <4> QED BY <1>1, <2>1, <2>3, <4>4
    <3> QED BY <2>1, <3>1, <3>2, AtPlaced DEF Placed
  <2> QED BY <2>1, <2>2, <2>3
<1>17. CASE Fill(k)
  <2>1. /\ At(k, "fill") /\ UNCHANGED reg /\ UNCHANGED mounts /\ UNCHANGED lower
        /\ (lower # NoDir /\ SetView(View \cup lower, Opaque) /\ Continue(k, Rest(k))) \/ Abort(k)
    BY <1>17 DEF Fill
  <2>2. CASE Abort(k)
    BY <2>1, <2>2, PlainStep
  <2>3. CASE lower # NoDir /\ SetView(View \cup lower, Opaque) /\ Continue(k, Rest(k))
    <3>1. CASE Rest(k) = <<>>
      BY <2>1, <2>3, <3>1, PlainStep
    <3>2. CASE Rest(k) # <<>>
      <4>1. Rest(k) = <<"store">> \o After(op[k]) \/ Rest(k) = <<"store">>
        BY <2>1, <3>2, AtPlaced DEF Placed
      <4>2. Head(Rest(k)) = "store"
        BY <4>1, AfterCases, CreateParts, StepLists
      <4>3. Next1("store")
        BY <1>2, <2>3, <3>2, <4>2
      <4>4. mounts = <<>> /\ Entries(merged) = {}
        BY <2>1 DEF SerialOK, Unmounted, CleanStart
      <4>5. merged' = lower
        BY <2>3, <4>4 DEF SetView, View
      <4>6. View' = Entries(lower)'
        BY <2>1, <2>3, <4>4, <4>5 DEF View, Entries
      <4>7. HereOK(k)'
        BY <2>1, <4>3, <4>4, <4>6
           DEF Next1, HereOK, Unmounted, CleanStart, RemountsOverlay, CommitPrepared
      <4> QED BY <1>1, <2>1, <2>3, <4>7
    <3> QED BY <3>1, <3>2
  <2> QED BY <2>1, <2>2, <2>3
<1>18. CASE RemoveOutput(k)
  <2>1. /\ At(k, "rmOut") /\ UNCHANGED reg /\ UNCHANGED mounts /\ UNCHANGED mode
        /\ (out' = NoOutput /\ Continue(k, Rest(k))) \/ Abort(k)
    BY <1>18 DEF RemoveOutput
  <2>2. CASE Abort(k)
    BY <2>1, <2>2, PlainStep
  <2>3. CASE out' = NoOutput /\ Continue(k, Rest(k))
    <3>1. Rest(k) = <<"copyOut", "manifest">> /\ mode[k] = reg
      BY <2>1, AtPlaced DEF Placed, SerialOK, CommitPrepared
    <3>2. Next1("copyOut")
      BY <1>2, <2>3, <3>1, StepLists
    <3>3. HereOK(k)'
      BY <2>1, <2>3, <3>1, <3>2
         DEF Next1, HereOK, Unmounted, CleanStart, RemountsOverlay, CommitPrepared
    <3> QED BY <1>1, <2>1, <2>3, <3>3
  <2> QED BY <2>1, <2>2, <2>3
<1>19. CASE CopyOutput(k)
  <2> DEFINE src == CommitSource(mode[k])
             kept == IF out = NoDir THEN NoOutput ELSE out
  <2>1. /\ At(k, "copyOut") /\ UNCHANGED reg /\ UNCHANGED mounts /\ UNCHANGED mode
        /\ UNCHANGED lower /\ UNCHANGED upper /\ UNCHANGED merged
        /\ \/ /\ src.dir /\ src.copyable /\ out' = [kept EXCEPT !.files = @ \cup src.files]
              /\ Continue(k, Rest(k))
           \/ Abort(k)
    BY <1>19 DEF CopyOutput
  <2>2. CASE Abort(k)
    BY <2>1, <2>2, PlainStep
  <2>3. CASE /\ src.dir /\ src.copyable /\ out' = [kept EXCEPT !.files = @ \cup src.files]
             /\ Continue(k, Rest(k))
    <3>7. Placed(op[k], status[k], "copyOut", Rest(k)) /\ CommitPrepared(k)
      BY <2>1, AtPlaced DEF SerialOK
    <3>1. Rest(k) = <<"manifest">> /\ mode[k] = reg /\ out = NoOutput
      BY <2>1, <3>7 DEF Placed, CommitPrepared
    <3>2. Next1("manifest")
      BY <1>2, <2>3, <3>1, StepLists
    <3>3. CommitSource(mode[k])' = src
      BY <2>1 DEF CommitSource, View, Entries
    <3>4. out' = [files |-> src.files, manifest |-> NoDir]
      <4>1. kept = [files |-> {}, manifest |-> NoDir]
        BY <3>1 DEF NoOutput
      <4> HIDE DEF src, kept
      <4> QED BY <2>3, <4>1
    <3>5. /\ CommitSource(mode[k])'.dir /\ CommitSource(mode[k])'.copyable
          /\ out' = [files |-> CommitSource(mode[k])'.files, manifest |-> NoDir]
      <4> HIDE DEF src
      <4> QED BY <2>3, <3>3, <3>4
    <3>6. HereOK(k)'
      BY <2>1, <3>1, <3>2, <3>5
         DEF Next1, HereOK, Unmounted, CleanStart, RemountsOverlay, CommitPrepared
    <3> QED BY <1>1, <2>1, <2>3, <3>6
  <2> QED BY <2>1, <2>2, <2>3
<1>20. CASE WriteManifest(k)
  <2>1. /\ At(k, "manifest") /\ UNCHANGED reg /\ UNCHANGED mounts
        /\ Continue(k, Rest(k)) \/ Abort(k)
    BY <1>20 DEF WriteManifest
  <2>2. Rest(k) = <<>>
    BY <2>1, AtPlaced DEF Placed
  <2> QED BY <2>1, <2>2, PlainStep
<1>21. CASE RunTool(k)
  <2>1. At(k, "tool") /\ UNCHANGED reg /\ UNCHANGED mounts
    BY <1>21 DEF RunTool
  <2>2. PICK g \in {"fetchCommit", "fetchRollback"} : todo' = [todo EXCEPT ![k] = <<g>>]
    BY <1>21 DEF RunTool, Continue
  <2>3. todo'[k] = <<g>>
    BY <2>2 DEF WTypeOK
  <2>4. /\ \A h : At(k, h)' => h = g
        /\ Rest(k)' = <<>>
    BY <2>3 DEF At, Rest
  <2>5. HereOK(k)'
    <3>1. Plain(g, <<>>)
      BY DEF Plain
    <3> QED BY <2>4, <3>1, PlainHere
  <2>6. MountKnown' /\ todo[k] # <<>>
    BY <2>1, KnownMount DEF MountKnown, At
  <2> QED BY <2>2, <2>5, <2>6, SoloStep
<1> QED BY <1>5, <1>6, <1>7, <1>8, <1>9, <1>10, <1>11, <1>12, <1>13, <1>14, <1>15, <1>16, <1>17,
           <1>18, <1>19, <1>20, <1>21, <1>22 DEF FileStep

-----------------------------------------------------------------------------
(* No overlay can be mounted; calls may overlap. *)

\* Places that neither lead to a record nor remount anything.
Calm(h, t) ==
    /\ h \notin {"rmUpper", "mkUpper", "remount", "rmMerged", "store", "mount"}
    /\ ~(h = "umount" /\ t = <<"rmUpper", "mkUpper", "remount">>)
    /\ ~(h = "mkMerged" /\ t = <<"fill", "store">>)
    /\ h = "fill" => t = <<>>

\* A step to such a place that leaves the record and the base layer alone.
CalmMove(k) ==
    /\ \E h : At(k, h) /\ h \notin {"rmRoot", "mkDirs", "seed", "forget"}
    /\ \E rest : /\ todo' = [todo EXCEPT ![k] = rest]
                 /\ rest # <<>> => Calm(Head(rest), Tail(rest)) /\ Head(rest) # "seed"
    /\ UNCHANGED mounts /\ UNCHANGED reg /\ UNCHANGED lower /\ UNCHANGED left
    /\ \A j \in Callers : j # k => mode'[j] = mode[j]

\* A call in a calm place asks for nothing and is not about to register anything.
LEMMA CalmHere ==
    ASSUME WTypeOK, NEW k \in Callers, NEW rest, todo' = [todo EXCEPT ![k] = rest],
           rest # <<>> => Calm(Head(rest), Tail(rest))
    PROVE  /\ CopyHere(k)' /\ ~Seeded(k)'
           /\ rest = <<>> \/ Head(rest) # "seed" => ~At(k, "seed")'
<1>1. todo'[k] = rest
  BY DEF WTypeOK
<1>2. /\ \A h : At(k, h)' <=> rest # <<>> /\ Head(rest) = h
      /\ Rest(k)' = Tail(rest)
  BY <1>1 DEF At, Rest
<1> QED BY <1>2 DEF CopyHere, Seeded, Calm

\* In a copy, only a creation leads to the record.
LEMMA CalmOnward ==
    ASSUME WTypeOK, CopyOnly, NEW k \in Callers, NEW h, At(k, h), h \notin {"seed", "fill"}, Rest(k) # <<>>
    PROVE  /\ Calm(Head(Rest(k)), Tail(Rest(k)))
           /\ h # "mkDirs" => Head(Rest(k)) # "seed"
<1> DEFINE t == Rest(k)
           Goal == Calm(Head(t), Tail(t)) /\ (h # "mkDirs" => Head(t) # "seed")
<1>1. Placed(op[k], status[k], h, t)
  BY AtPlaced
<1>2. CopyHere(k)
  BY DEF CopyOnly
<1>3. ASSUME t = After(op[k]) PROVE Goal
  <2>1. /\ Head(t) = "mkMerged" /\ Tail(t) = <<"tool">>
        \/ Head(t) = "clear"
    BY <1>3, AfterCases
  <2>2. <<"tool">> # <<"fill", "store">>
    OBVIOUS
  <2> HIDE DEF t
  <2> QED BY <2>1, <2>2, Zenon DEF Calm
<1>4. ASSUME \/ t = CreateSteps \o After(op[k])
             \/ t = <<"mkDirs", "seed", "mount">> \o After(op[k])
             \/ h = "mkDirs" /\ t = <<"seed", "mount">> \o After(op[k])
      PROVE  Goal
  <2> DEFINE a == After(op[k])
  <2> HIDE DEF t
  <2>2. a \in Seq(StepNames)
    BY AfterCases
  <2> HIDE DEF a
  <2>3. /\ Head(CreateSteps \o a) = "rmRoot"
        /\ Head(<<"mkDirs", "seed", "mount">> \o a) = "mkDirs"
        /\ Head(<<"seed", "mount">> \o a) = "seed"
    BY <2>2, CreateParts
  <2>1. Head(t) \in {"rmRoot", "mkDirs"} \/ (h = "mkDirs" /\ Head(t) = "seed")
    BY <1>4, <2>3, Zenon DEF a
  <2> HIDE DEF t
  <2> QED BY <2>1 DEF Calm
<1>5. ASSUME t \in {<<"tool">>, <<"copyOut", "manifest">>, <<"manifest">>, <<"fetchRollback">>,
                    <<"rmRoot", "forget">>, <<"forget">>, <<"fill">>}
      PROVE  Goal
  <2>1. \/ Head(t) \in {"tool", "copyOut", "manifest", "fetchRollback", "rmRoot", "forget"}
        \/ Head(t) = "fill" /\ Tail(t) = <<>>
    BY <1>5, StepLists
  <2> HIDE DEF t
  <2> QED BY <2>1 DEF Calm
<1>6. /\ h \notin {"rmUpper", "mkUpper", "remount", "rmMerged"}
      /\ ~(h = "umount" /\ t = <<"rmUpper", "mkUpper", "remount">>)
      /\ ~(h = "mkMerged" /\ t = <<"fill", "store">>)
  BY <1>2 DEF CopyHere
<1>8. t # <<>>
  OBVIOUS
<1> HIDE DEF Goal, t
<1>7. Goal
  BY <1>1, <1>8, <1>3, <1>4, <1>5, <1>6 DEF Placed
<1> QED BY <1>7 DEF Goal, t

\* Only the caller that steps can come to ask for more.
LEMMA CopyStep ==
    ASSUME WTypeOK, CopyOnly, NEW k \in Callers, NEW rest, todo' = [todo EXCEPT ![k] = rest],
           mounts' = <<>>, reg' # NoMode => reg' = "copy",
           \A j \in Callers : j # k => mode'[j] = mode[j], CopyHere(k)'
    PROVE  CopyOnly'
<1>1. ASSUME NEW j \in Callers, j # k PROVE CopyHere(j)'
  <2>1. todo'[j] = todo[j] /\ mode'[j] = mode[j]
    BY <1>1 DEF WTypeOK
  <2>2. CopyHere(j)
    BY DEF CopyOnly
  <2> QED BY <2>1, <2>2 DEF CopyHere, At, Rest
<1> QED BY <1>1 DEF CopyOnly

\* The call of another caller goes on making the base layer.
LEMMA MakingKept ==
    ASSUME WTypeOK, NEW j \in Callers, Making(j), todo'[j] = todo[j], left'[j] = left[j],
           Entries(lower) \subseteq Entries(lower')
    PROVE  Making(j)'
<1>1. \A h : At(j, h)' <=> At(j, h)
  BY DEF At
<1>2. Writing(j) => Writing(j)'
  <2> SUFFICES ASSUME Writing(j) PROVE Writing(j)'
    OBVIOUS
  <2>1. At(j, "seed") /\ Base \ Entries(lower) \subseteq left[j]
    BY DEF Writing
  <2>2. Base \ Entries(lower') \subseteq left'[j]
    BY <2>1
  <2> QED BY <1>1, <2>1, <2>2 DEF Writing, Entries
<1> QED BY <1>1, <1>2 DEF Making

\* A workspace with its base layer keeps it while the layer is left alone.
LEMMA SeedKept ==
    ASSUME WTypeOK, SeedOK, NEW k \in Callers, NEW h, At(k, h),
           h \notin {"rmRoot", "mkDirs", "seed", "forget"},
           NEW rest, todo' = [todo EXCEPT ![k] = rest], UNCHANGED lower, UNCHANGED left,
           Seeded(k)' => Seeded(k), ~At(k, "seed")', UNCHANGED reg \/ Seeded(k)
    PROVE  SeedOK'
<1>1. \A j \in Callers : j # k => todo'[j] = todo[j]
  BY DEF WTypeOK
<1>2. \A j \in Callers : j # k => Seeded(j)' = Seeded(j) /\ At(j, "seed")' = At(j, "seed")
  BY <1>1 DEF Seeded, At, Rest
<1>3. CASE lower = Base
  BY <1>3 DEF SeedOK
<1>4. CASE \E j \in Callers : Making(j)
  <2>1. PICK j \in Callers : Making(j)
    BY <1>4
  <2>2. j # k
    BY <2>1 DEF Making, Writing, At
  <2>3. todo'[j] = todo[j] /\ left'[j] = left[j] /\ Entries(lower) \subseteq Entries(lower')
    BY <1>1, <2>2
  <2>4. Making(j)'
    BY <2>1, <2>3, MakingKept
  <2> QED BY <2>4 DEF SeedOK
<1>5. CASE reg = NoMode /\ \A j \in Callers : ~Seeded(j) /\ ~At(j, "seed")
  BY <1>2, <1>5 DEF SeedOK
<1> QED BY <1>3, <1>4, <1>5 DEF SeedOK

\* The steps that neither make nor register a workspace are calm.
LEMMA CalmMoves ==
    ASSUME WTypeOK, CopyOnly, NEW k \in Callers, RecordStep(k) \/ FileStep(k)
    PROVE  \/ CalmMove(k) \/ SetWorkspace(k) \/ Forget(k)
           \/ RemoveRoot(k) \/ RemovePart(k) \/ MakeDirs(k) \/ Seed(k) \/ Mount(k) \/ Fill(k)
<1> DEFINE Kept == UNCHANGED mounts /\ UNCHANGED reg /\ UNCHANGED lower /\ UNCHANGED left
           Others == \A j \in Callers : j # k => mode'[j] = mode[j]
<1>1. ASSUME NEW h, At(k, h), h \notin {"rmRoot", "mkDirs", "seed", "forget"}, Kept, Others, NEW rest,
             Continue(k, rest), rest # <<>> => Calm(Head(rest), Tail(rest)) /\ Head(rest) # "seed"
      PROVE  CalmMove(k)
  BY <1>1 DEF CalmMove, Continue
<1>2. ASSUME NEW h, At(k, h), h \notin {"rmRoot", "mkDirs", "seed", "forget"}, Kept, Others, Abort(k)
      PROVE  CalmMove(k)
  BY <1>2 DEF CalmMove, Abort
<1>3. ASSUME NEW h, At(k, h), h \notin {"rmRoot", "mkDirs", "seed", "forget", "fill"}, Kept, Others,
             Continue(k, Rest(k)) \/ Abort(k)
      PROVE  CalmMove(k)
  BY <1>1, <1>2, <1>3, CalmOnward
<1>4. UNCHANGED mode => Others
  OBVIOUS
<1>5. \A m : mode' = [mode EXCEPT ![k] = m] => Others
  BY DEF WTypeOK
<1>6. mounts = <<>> /\ CopyHere(k)
  BY DEF CopyOnly
<1> HIDE DEF Kept, Others
<1>7. CASE Lookup(k)
  <2>1. At(k, "lookup") /\ Kept /\ Others
    BY <1>4, <1>7 DEF Lookup, dirs, control, Kept
  <2>2. Continue(k, CreateSteps \o Rest(k)) \/ Continue(k, Rest(k))
    BY <1>7, <2>1, LookupPlaced DEF Lookup
  <2>3. /\ Calm(Head(CreateSteps \o Rest(k)), Tail(CreateSteps \o Rest(k)))
        /\ Head(CreateSteps \o Rest(k)) # "seed"
    BY <2>1, LookupPlaced DEF Calm
  <2> QED BY <1>1, <1>3, <2>1, <2>2, <2>3
<1>8. CASE FetchRollback(k)
  <2>1. /\ At(k, "fetchRollback") /\ Kept /\ Others
        /\ (reg = NoMode /\ Abort(k)) \/ (reg # NoMode /\ Continue(k, RollbackSteps(reg)))
    BY <1>5, <1>8 DEF FetchRollback, Fetch, dirs, control, Kept
  <2>2. Restores(op[k], status[k])
    BY <2>1, AtPlaced DEF Placed
  <2>3. reg # NoMode => RollbackSteps(reg) = RestoreSteps
    BY DEF CopyOnly, RollbackSteps
  <2>4. Calm(Head(RestoreSteps), Tail(RestoreSteps)) /\ Head(RestoreSteps) # "seed"
    BY <2>2, FetchedPlaced DEF Calm
  <2> QED BY <1>1, <1>2, <2>1, <2>3, <2>4
<1>9. CASE FetchCommit(k)
  <2>1. /\ At(k, "fetchCommit") /\ Kept /\ Others
        /\ Abort(k) \/ Continue(k, CommitSteps)
    BY <1>5, <1>9 DEF FetchCommit, Fetch, dirs, control, Kept
  <2>2. Commits(op[k], status[k])
    BY <2>1, AtPlaced DEF Placed
  <2>3. Calm(Head(CommitSteps), Tail(CommitSteps)) /\ Head(CommitSteps) # "seed"
    BY <2>2, FetchedPlaced DEF Calm
  <2> QED BY <1>1, <1>2, <2>1, <2>3
<1>10. CASE FetchDestroy(k)
  <2>1. /\ At(k, "fetchDestroy") /\ Kept /\ Others
        /\ Abort(k) \/ Continue(k, DestroySteps(reg))
    BY <1>5, <1>10 DEF FetchDestroy, Fetch, dirs, control, Kept
  <2>2. Destroys(op[k], status[k])
    BY <2>1, AtPlaced DEF Placed
  <2>3. <<"rmRoot", "forget">> # <<"rmUpper", "mkUpper", "remount">>
    OBVIOUS
  <2>4. \/ Head(DestroySteps(reg)) = "umount" /\ Tail(DestroySteps(reg)) = <<"rmRoot", "forget">>
        \/ Head(DestroySteps(reg)) = "rmRoot"
    BY <2>2, FetchedPlaced
  <2>5. Calm(Head(DestroySteps(reg)), Tail(DestroySteps(reg))) /\ Head(DestroySteps(reg)) # "seed"
    BY <2>3, <2>4, Zenon DEF Calm
  <2> QED BY <1>1, <1>2, <2>1, <2>5
<1>11. CASE Snapshot(k)
  BY <1>3, <1>4, <1>11 DEF Snapshot, dirs, control, Kept
<1>12. CASE Unmount(k)
  BY <1>3, <1>4, <1>6, <1>12 DEF Unmount, control, Kept
<1>13. CASE RemoveUpper(k) \/ MakeUpper(k) \/ Remount(k) \/ RemoveMerged(k)
  BY <1>6, <1>13 DEF RemoveUpper, MakeUpper, Remount, MountOr, RemoveMerged, CopyHere
<1>14. CASE MakeMerged(k)
  BY <1>3, <1>4, <1>14 DEF MakeMerged, control, Kept
<1>15. CASE Clear(k)
  BY <1>3, <1>4, <1>15 DEF Clear, control, Kept
<1>16. CASE RemoveOutput(k)
  BY <1>3, <1>4, <1>16 DEF RemoveOutput, control, Kept
<1>17. CASE CopyOutput(k)
  BY <1>3, <1>4, <1>17 DEF CopyOutput, control, Kept
<1>18. CASE WriteManifest(k)
  BY <1>3, <1>4, <1>18 DEF WriteManifest, control, Kept
<1>19. CASE RunTool(k)
  <2>1. At(k, "tool") /\ Kept /\ Others
    BY <1>4, <1>19 DEF RunTool, control, Kept
  <2>2. PICK g \in {"fetchCommit", "fetchRollback"} : todo' = [todo EXCEPT ![k] = <<g>>]
    BY <1>19 DEF RunTool, Continue
  <2>3. Head(<<g>>) = g /\ Tail(<<g>>) = <<>>
    OBVIOUS
  <2>4. Calm(Head(<<g>>), Tail(<<g>>)) /\ Head(<<g>>) # "seed"
    BY <2>3 DEF Calm
  <2>5. \E rest : /\ todo' = [todo EXCEPT ![k] = rest]
                  /\ rest # <<>> => Calm(Head(rest), Tail(rest)) /\ Head(rest) # "seed"
    BY <2>2, <2>3, <2>4, Zenon
  <2>6. \E h : At(k, h) /\ h \notin {"rmRoot", "mkDirs", "seed", "forget"}
    BY <2>1
  <2> QED BY <2>1, <2>5, <2>6, Zenon DEF CalmMove, Kept, Others
<1> QED BY <1>7, <1>8, <1>9, <1>10, <1>11, <1>12, <1>13, <1>14, <1>15, <1>16, <1>17, <1>18, <1>19
        DEF RecordStep, FileStep

\* No call comes to mount or to register an overlay.
LEMMA WCopyStep ==
    ASSUME WTypeOK, CopyOnly, ~setting.overlay, NEW k \in Callers, RecordStep(k) \/ FileStep(k)
    PROVE  CopyOnly'
<1>1. mounts = <<>> /\ (reg # NoMode => reg = "copy") /\ CopyHere(k)
  BY DEF CopyOnly
<1>3. [i \in DOMAIN mounts |-> "dead"] = <<>>
  BY <1>1, DeadMounts DEF WTypeOK
<1>4. UNCHANGED mode => \A j \in Callers : j # k => mode'[j] = mode[j]
  OBVIOUS
\* A step to a calm place that keeps the mounts and the modes.
<1>5. ASSUME mounts' = <<>>, reg' # NoMode => reg' = "copy", UNCHANGED mode, NEW rest,
             todo' = [todo EXCEPT ![k] = rest], rest # <<>> => Calm(Head(rest), Tail(rest))
      PROVE  CopyOnly'
  BY <1>4, <1>5, CalmHere, CopyStep
<1>6. ASSUME NEW h, At(k, h), h \notin {"seed", "fill"}, mounts' = <<>>, reg' # NoMode => reg' = "copy",
             UNCHANGED mode, Continue(k, Rest(k)) \/ Abort(k)
      PROVE  CopyOnly'
  <2>1. CASE Continue(k, Rest(k))
    BY <1>5, <1>6, <2>1, CalmOnward DEF Continue
  <2>2. CASE Abort(k)
    BY <1>5, <1>6, <2>2 DEF Abort
  <2> QED BY <1>6, <2>1, <2>2
<1>7. CASE CalmMove(k)
  <2>1. PICK rest : /\ todo' = [todo EXCEPT ![k] = rest]
                    /\ rest # <<>> => Calm(Head(rest), Tail(rest))
    BY <1>7 DEF CalmMove
  <2>2. /\ mounts' = <<>> /\ (reg' # NoMode => reg' = "copy")
        /\ \A j \in Callers : j # k => mode'[j] = mode[j]
    BY <1>1, <1>7 DEF CalmMove
  <2> QED BY <2>1, <2>2, CalmHere, CopyStep
<1>8. CASE SetWorkspace(k)
  <2>1. At(k, "store") /\ UNCHANGED mounts /\ UNCHANGED mode /\ Continue(k, Rest(k)) /\ reg' = mode[k]
    BY <1>8 DEF SetWorkspace, dirs
  <2>2. mode[k] = "copy"
    BY <1>1, <2>1 DEF CopyHere
  <2> QED BY <1>1, <1>6, <2>1, <2>2
<1>9. CASE Forget(k)
  <2>1. At(k, "forget") /\ UNCHANGED mounts /\ UNCHANGED mode /\ Continue(k, Rest(k)) /\ reg' = NoMode
    BY <1>9 DEF Forget, dirs
  <2> QED BY <1>1, <1>6, <2>1
<1>10. CASE RemoveRoot(k)
  <2>1. /\ At(k, "rmRoot") /\ UNCHANGED reg /\ UNCHANGED mode
        /\ Continue(k, Rest(k)) \/ Abort(k)
        /\ mounts' = [i \in DOMAIN mounts |-> "dead"]
    BY <1>10 DEF RemoveRoot
  <2> QED BY <1>1, <1>3, <1>6, <2>1
<1>15. CASE RemovePart(k)
  BY <1>15 DEF RemovePart, CopyOnly, CopyHere, At, Rest
<1>11. CASE MakeDirs(k)
  <2>1. /\ At(k, "mkDirs") /\ UNCHANGED mounts /\ UNCHANGED reg /\ UNCHANGED mode
        /\ Continue(k, Rest(k)) \/ Abort(k)
    BY <1>11 DEF MakeDirs
  <2> QED BY <1>1, <1>6, <2>1
<1>12. CASE Seed(k)
  <2>1. /\ At(k, "seed") /\ UNCHANGED mounts /\ UNCHANGED reg /\ UNCHANGED mode
        /\ Continue(k, Rest(k)) \/ Continue(k, todo[k]) \/ Abort(k)
    BY <1>12 DEF Seed
  <2>2. CASE Abort(k)
    BY <1>1, <1>5, <2>1, <2>2 DEF Abort
  <2>3. CASE Continue(k, Rest(k))
    <3>1. Rest(k) = <<"mount">> \o After(op[k])
      BY <2>1, AtPlaced DEF Placed
    <3>2. Rest(k) # <<>> /\ Head(Rest(k)) = "mount"
      BY <3>1, AfterCases, CreateParts
    <3>3. /\ todo' = [todo EXCEPT ![k] = Rest(k)]
          /\ \A h : At(k, h)' => h = "mount"
      BY <2>3, <3>2, NewPlace
    <3>4. CopyHere(k)'
      BY <3>3 DEF CopyHere
    <3> QED BY <1>1, <1>4, <2>1, <3>3, <3>4, CopyStep
  <2>4. CASE Continue(k, todo[k])
    <3>1. todo[k] # <<>> /\ Head(todo[k]) = "seed"
      BY <2>1 DEF At
    <3>2. /\ todo' = [todo EXCEPT ![k] = todo[k]]
          /\ \A h : At(k, h)' => h = "seed"
      BY <2>4, <3>1, NewPlace
    <3>3. CopyHere(k)'
      BY <3>2 DEF CopyHere
    <3> QED BY <1>1, <1>4, <2>1, <3>2, <3>3, CopyStep
  <2> QED BY <2>1, <2>2, <2>3, <2>4
<1>13. CASE Mount(k)
  <2>1. /\ At(k, "mount") /\ UNCHANGED mounts /\ UNCHANGED reg
        /\ mode' = [mode EXCEPT ![k] = "copy"] /\ Continue(k, CopySteps \o Rest(k))
    BY <1>13 DEF Mount, MountOr
  <2>2. mode'[k] = "copy" /\ \A j \in Callers : j # k => mode'[j] = mode[j]
    BY <2>1 DEF WTypeOK
  <2>3. CopySteps \o Rest(k) # <<>> /\ Head(CopySteps \o Rest(k)) = "fill"
    BY <2>1, MountPlaced
  <2>4. /\ todo' = [todo EXCEPT ![k] = CopySteps \o Rest(k)]
        /\ \A h : At(k, h)' => h = "fill"
    BY <2>1, <2>3, NewPlace
  <2>5. CopyHere(k)'
    BY <2>2, <2>4 DEF CopyHere
  <2> QED BY <1>1, <2>1, <2>2, <2>4, <2>5, CopyStep
<1>14. CASE Fill(k)
  <2>1. /\ At(k, "fill") /\ UNCHANGED mounts /\ UNCHANGED reg /\ UNCHANGED mode
        /\ Continue(k, Rest(k)) \/ Abort(k)
    BY <1>14 DEF Fill
  <2>2. CASE Abort(k)
    BY <1>1, <1>5, <2>1, <2>2 DEF Abort
  <2>3. CASE Continue(k, Rest(k)) /\ Rest(k) = <<>>
    BY <1>1, <1>5, <2>1, <2>3 DEF Continue
  <2>4. CASE Continue(k, Rest(k)) /\ Rest(k) # <<>>
    <3>1. Rest(k) = <<"store">> \o After(op[k]) \/ Rest(k) = <<"store">>
      BY <2>1, <2>4, AtPlaced DEF Placed
    <3>2. Head(Rest(k)) = "store"
      BY <3>1, AfterCases, CreateParts, StepLists
    <3>3. /\ todo' = [todo EXCEPT ![k] = Rest(k)]
          /\ \A h : At(k, h)' => h = "store"
      BY <2>4, <3>2, NewPlace
    <3>4. mode[k] = "copy"
      BY <1>1, <2>1, <2>4 DEF CopyHere
    <3>5. CopyHere(k)'
      BY <2>1, <3>3, <3>4 DEF CopyHere
    <3> QED BY <1>1, <1>4, <2>1, <3>3, <3>5, CopyStep
  <2> QED BY <2>1, <2>2, <2>3, <2>4
<1> QED BY <1>7, <1>8, <1>9, <1>10, <1>11, <1>12, <1>13, <1>14, <1>15, CalmMoves

\* While no creation is refused, a registered workspace has its base layer, or
\* a call is about to complete it.
LEMMA WSeedStep ==
    ASSUME WTypeOK, CopyOnly, SeedOK, NoLateDestroy, setting.serial => SerialOK,
           ~setting.overlay, ~erred',
           NEW k \in Callers, RecordStep(k) \/ FileStep(k)
    PROVE  SeedOK'
<1>1. ASSUME NEW h \in {"rmRoot", "mkDirs", "seed"}, At(k, h), Abort(k) PROVE FALSE
  BY <1>1 DEF Abort, At
<1>2. mounts = <<>> /\ CopyHere(k)
  BY DEF CopyOnly
<1>3. CASE CalmMove(k)
  <2>1. PICK rest : /\ todo' = [todo EXCEPT ![k] = rest]
                    /\ rest # <<>> => Calm(Head(rest), Tail(rest)) /\ Head(rest) # "seed"
    BY <1>3 DEF CalmMove
  <2>2. PICK h : At(k, h) /\ h \notin {"rmRoot", "mkDirs", "seed", "forget"}
    BY <1>3 DEF CalmMove
  <2>3. ~Seeded(k)' /\ ~At(k, "seed")' /\ UNCHANGED lower /\ UNCHANGED left /\ UNCHANGED reg
    BY <1>3, <2>1, CalmHere DEF CalmMove
  <2> QED BY <2>1, <2>2, <2>3, SeedKept
<1>4. CASE SetWorkspace(k)
  <2>1. /\ At(k, "store") /\ UNCHANGED lower /\ UNCHANGED left /\ Continue(k, Rest(k))
        /\ todo' = [todo EXCEPT ![k] = Rest(k)]
    BY <1>4 DEF SetWorkspace, dirs, control, Continue
  <2>2. Seeded(k)
    BY <2>1 DEF Seeded
  <2>3. Rest(k) = After(op[k]) \/ Rest(k) = <<>>
    BY <2>1, AtPlaced DEF Placed
  <2>4. Rest(k) # <<>> => Head(Rest(k)) # "seed"
    BY <2>3, AfterCases
  <2>5. ~At(k, "seed")'
    BY <2>1, <2>4, NewPlace
  <2> QED BY <2>1, <2>2, <2>5, SeedKept
<1>5. CASE Forget(k)
  <2>1. /\ At(k, "forget") /\ UNCHANGED lower /\ reg' = NoMode
        /\ todo' = [todo EXCEPT ![k] = Rest(k)]
    BY <1>5 DEF Forget, dirs, Continue
  <2>2. Destroys(op[k], status[k]) /\ Rest(k) = <<>>
    BY <2>1, AtPlaced DEF Placed
  <2>3. "destroy" \in setting.ops
    BY <2>2 DEF Destroys, WTypeOK
  <2>4. Alone
    BY <2>3 DEF NoLateDestroy, SerialOK
  <2>5. \A j \in Callers : todo'[j] = <<>>
    BY <2>1, <2>2, <2>4 DEF Alone, WTypeOK, At
  <2>6. \A j \in Callers : ~Seeded(j)' /\ ~At(j, "seed")'
    BY <2>5 DEF Seeded, At
  <2> QED BY <2>1, <2>6 DEF SeedOK
<1>6. CASE RemoveRoot(k)
  <2>1. At(k, "rmRoot") /\ lower' = NoDir /\ Continue(k, Rest(k))
    BY <1>1, <1>2, <1>6 DEF RemoveRoot
  <2>2. Rest(k) = <<"mkDirs", "seed", "mount">> \o After(op[k]) \/ Rest(k) = <<"forget">>
    BY <2>1, AtPlaced DEF Placed
  <2>3. Rest(k) # <<>> /\ Head(Rest(k)) \in {"mkDirs", "forget"}
    <3>1. CASE Rest(k) = <<"mkDirs", "seed", "mount">> \o After(op[k])
      BY <3>1, AfterCases, CreateParts
    <3>2. CASE Rest(k) = <<"forget">>
      BY <3>2, StepLists
    <3> QED BY <2>2, <3>1, <3>2
  <2>4. At(k, "mkDirs")' \/ At(k, "forget")'
    BY <2>1, <2>3, NewPlace
  <2> QED BY <2>1, <2>4 DEF SeedOK, Making
<1>11. CASE RemovePart(k)
  <2>1. At(k, "rmRoot") /\ UNCHANGED todo /\ lower' \in {NoDir, lower} \cup SUBSET Entries(lower)
    BY <1>11 DEF RemovePart
  <2>2. lower' \in {NoDir} \cup SUBSET Base
    BY <2>1 DEF SeedOK, Entries
  <2>3. Making(k)'
    BY <2>1 DEF Making, At
  <2> QED BY <2>2, <2>3 DEF SeedOK
<1>7. CASE MakeDirs(k)
  <2>1. /\ At(k, "mkDirs") /\ lower' = (IF lower = NoDir THEN {} ELSE lower) /\ Continue(k, Rest(k))
        /\ left' = [left EXCEPT ![k] = Base]
    BY <1>1, <1>7 DEF MakeDirs
  <2>2. Rest(k) = <<"seed", "mount">> \o After(op[k])
    BY <2>1, AtPlaced DEF Placed
  <2>3. Rest(k) # <<>> /\ Head(Rest(k)) = "seed"
    BY <2>2, AfterCases, CreateParts
  <2>4. At(k, "seed")'
    BY <2>1, <2>3, NewPlace
  <2>5. left'[k] = Base
    BY <2>1 DEF WTypeOK
  <2>6. Making(k)'
    BY <2>4, <2>5 DEF Making, Writing
  <2>7. lower' \in {NoDir} \cup SUBSET Base
    BY <2>1 DEF SeedOK
  <2> QED BY <2>6, <2>7 DEF SeedOK
<1>8. CASE Seed(k)
  <2>1. At(k, "seed") /\ ~Abort(k) /\ UNCHANGED reg
    BY <1>1, <1>8 DEF Seed
  <2>2. PICK f \in left[k] :
           /\ lower' = Entries(lower) \cup {f}
           /\ left' = [left EXCEPT ![k] = @ \ {f}]
           /\ Continue(k, IF left[k] = {f} THEN Rest(k) ELSE todo[k])
    BY <1>8, <2>1 DEF Seed
  <2>3. left[k] \subseteq Base /\ f \in Base
    BY <2>2 DEF WTypeOK
  <2>4. lower' \in SUBSET Base /\ lower' # NoDir /\ Entries(lower') = lower'
    BY <2>2, <2>3, WorkspaceAssumption DEF SeedOK, Entries
  <2>5. CASE lower = Base
    <3>1. Base # NoDir
      BY WorkspaceAssumption
    <3>2. lower' = Base
      BY <2>2, <2>3, <2>5, <3>1 DEF Entries
    <3> QED BY <3>2 DEF SeedOK
  <2>6. ASSUME NEW j \in Callers, Making(j), j # k PROVE SeedOK'
    <3>1. todo'[j] = todo[j] /\ left'[j] = left[j]
      BY <2>2, <2>6 DEF Continue, WTypeOK
    <3>2. Entries(lower) \subseteq Entries(lower')
      BY <2>2, <2>4
    <3>3. Making(j)'
      BY <2>6, <3>1, <3>2, MakingKept
    <3> QED BY <2>4, <3>3 DEF SeedOK
  <2>7. CASE Making(k)
    <3>1. Base \ Entries(lower) \subseteq left[k]
      BY <2>1, <2>7 DEF Making, Writing, At
    <3>2. CASE left[k] = {f}
      <4>1. lower' = Base
        BY <2>2, <2>4, <3>1, <3>2
      <4> QED BY <4>1 DEF SeedOK
    <3>3. CASE left[k] # {f}
      <4>1. Continue(k, todo[k])
        BY <2>2, <3>3
      <4>2. todo[k] # <<>> /\ Head(todo[k]) = "seed"
        BY <2>1 DEF At
      <4>3. At(k, "seed")'
        BY <4>1, <4>2, NewPlace
      <4>4. left'[k] = left[k] \ {f}
        BY <2>2 DEF WTypeOK
      <4>5. Base \ lower' \subseteq left'[k]
        BY <2>2, <3>1, <4>4
      <4>6. Making(k)'
        BY <2>4, <4>3, <4>5 DEF Making, Writing, Entries
      <4> QED BY <2>4, <4>6 DEF SeedOK
    <3> QED BY <3>2, <3>3
  <2> QED BY <2>1, <2>5, <2>6, <2>7 DEF SeedOK
<1>9. CASE Mount(k)
  <2>1. /\ At(k, "mount") /\ UNCHANGED lower /\ UNCHANGED left /\ UNCHANGED reg
        /\ Continue(k, CopySteps \o Rest(k)) /\ todo' = [todo EXCEPT ![k] = CopySteps \o Rest(k)]
    BY <1>9 DEF Mount, MountOr, Continue, control
  <2>2. Seeded(k)
    BY <2>1 DEF Seeded
  <2>3. ~At(k, "seed")'
    BY <2>1, MountPlaced, NewPlace
  <2> QED BY <2>1, <2>2, <2>3, SeedKept
<1>10. CASE Fill(k)
  <2>1. /\ At(k, "fill") /\ UNCHANGED lower /\ UNCHANGED left /\ UNCHANGED reg
    BY <1>10 DEF Fill, control
  <2>2. CASE Abort(k)
    <3>1. todo' = [todo EXCEPT ![k] = <<>>] /\ ~Seeded(k)' /\ ~At(k, "seed")'
      BY <2>2, CalmHere DEF Abort
    <3> QED BY <2>1, <3>1, SeedKept
  <2>3. CASE Continue(k, Rest(k))
    <3>1. todo' = [todo EXCEPT ![k] = Rest(k)]
      BY <2>3 DEF Continue
    <3>2. CASE Rest(k) = <<>>
      <4>1. ~Seeded(k)' /\ ~At(k, "seed")'
        BY <3>1, <3>2, CalmHere
      <4> QED BY <2>1, <3>1, <4>1, SeedKept
    <3>3. CASE Rest(k) # <<>>
      <4>1. Seeded(k)
        BY <2>1, <3>3 DEF Seeded
      <4>2. Rest(k) = <<"store">> \o After(op[k]) \/ Rest(k) = <<"store">>
        BY <2>1, <3>3, AtPlaced DEF Placed
      <4>3. Head(Rest(k)) = "store"
        BY <4>2, AfterCases, CreateParts, StepLists
      <4>4. ~At(k, "seed")'
        BY <2>3, <4>3, NewPlace
      <4> QED BY <2>1, <3>1, <4>1, <4>4, SeedKept
    <3> QED BY <3>2, <3>3
  <2> QED BY <1>10, <2>2, <2>3 DEF Fill
<1> QED BY <1>3, <1>4, <1>5, <1>6, <1>7, <1>8, <1>9, <1>10, <1>11, CalmMoves

\* A call that begins changes none of this.
LEMMA WBeginCopy ==
    ASSUME WTypeOK, CopyOnly, NEW k \in Callers, Begin(k)
    PROVE  CopyOnly' /\ (SeedOK => SeedOK')
<1>1. PICK o : todo' = [todo EXCEPT ![k] = Program(o)]
  BY DEF Begin
<1>2. /\ todo[k] = <<>> /\ UNCHANGED mounts /\ UNCHANGED reg /\ UNCHANGED lower /\ UNCHANGED left
      /\ mode' = [mode EXCEPT ![k] = NoMode]
  BY DEF Begin, dirs
<1>3. /\ todo'[k] # <<>> /\ todo'[k] = Program(o)
      /\ Head(todo'[k]) \in {"lookup", "fetchRollback", "fetchCommit", "fetchDestroy", "snapshot"}
  BY <1>1, WBeginType DEF WTypeOK
<1>4. CopyHere(k)' /\ ~Seeded(k)' /\ ~At(k, "seed")'
  BY <1>1, <1>3, CalmHere DEF Calm
<1>5. \A j \in Callers : j # k => mode'[j] = mode[j] /\ todo'[j] = todo[j]
  BY <1>1, <1>2 DEF WTypeOK
<1>6. CopyOnly'
  BY <1>1, <1>2, <1>4, <1>5, CopyStep DEF CopyOnly
<1>7. ASSUME SeedOK PROVE SeedOK'
  <2>1. \A j \in Callers : (Seeded(j)' => Seeded(j)) /\ (At(j, "seed")' => At(j, "seed"))
    BY <1>4, <1>5 DEF Seeded, At, Rest
  <2>2. ASSUME NEW j \in Callers, Making(j) PROVE Making(j)'
    <3>1. j # k
      BY <1>2, <2>2 DEF Making, Writing, At
    <3>2. todo'[j] = todo[j] /\ left'[j] = left[j] /\ Entries(lower) \subseteq Entries(lower')
      BY <1>2, <1>5, <3>1
    <3> QED BY <2>2, <3>2, MakingKept
  <2> QED BY <1>2, <1>7, <2>1, <2>2 DEF SeedOK
<1> QED BY <1>6, <1>7

-----------------------------------------------------------------------------
\* Workspaces start out well, and every step keeps the invariant.
THEOREM WorkspaceInvariant == WSpec => []WInv
<1>1. WInit => WInv
  <2> SUFFICES ASSUME WInit PROVE WInv
    OBVIOUS
  <2>1. \A k \in Callers : todo[k] = <<>>
    BY DEF WInit
  <2>2. WTypeOK
    <3>1. todo \in [Callers -> Seq(StepNames)]
      BY StepLists DEF WInit
    <3>2. mounts \in Seq({"live", "dead"})
      BY DEF WInit
    <3> QED BY <2>1, <3>1, <3>2 DEF WInit, WTypeOK
  <2>3. \A k \in Callers : \A h : ~At(k, h)
    BY <2>1 DEF At
  <2>4. mounts = <<>> /\ reg = NoMode /\ lower = NoDir
    BY DEF WInit
  <2>5. SerialOK
    BY <2>1, <2>3, <2>4 DEF SerialOK, Alone, MountKnown, Unmounted, CleanStart, RemountsOverlay, CommitPrepared
  <2>6. CopyOnly /\ SeedOK
    BY <2>3, <2>4 DEF CopyOnly, CopyHere, SeedOK, Seeded
  <2> QED BY <2>2, <2>5, <2>6 DEF WInv
<1>2. WInv /\ [WNext]_wvars => WInv'
  <2> SUFFICES ASSUME WInv, [WNext]_wvars PROVE WInv'
    OBVIOUS
  <2>1. ASSUME NEW k \in Callers, Begin(k) PROVE WInv'
    <3>1. UNCHANGED setting /\ UNCHANGED erred
      BY <2>1 DEF Begin
    <3>2. WTypeOK'
      BY <2>1, WBeginType DEF WInv
    <3>3. setting.serial => SerialOK'
      BY <2>1, WBeginSerial DEF WInv
    <3>4. ~setting.overlay => CopyOnly' /\ (SeedOK => SeedOK')
      BY <2>1, WBeginCopy DEF WInv
    <3>5. NoLateDestroy' = NoLateDestroy
      BY <3>1 DEF NoLateDestroy
    <3> QED BY <3>1, <3>2, <3>3, <3>4, <3>5 DEF WInv
  <2>2. ASSUME NEW k \in Callers, RecordStep(k) \/ FileStep(k) PROVE WInv'
    <3>1. UNCHANGED setting
      BY <2>2 DEF RecordStep, FileStep, Lookup, SetWorkspace, Forget, FetchRollback, FetchCommit,
                  FetchDestroy, Fetch, Snapshot, RemoveRoot, RemovePart, MakeDirs, Seed, Mount, Remount,
                  MountOr, Unmount, RemoveUpper, MakeUpper, RemoveMerged, MakeMerged, Clear, Fill,
                  RemoveOutput, CopyOutput, WriteManifest, RunTool, control
    <3>2. WTypeOK'
      BY <2>2, WRecordType, WFileType DEF WInv
    <3>3. setting.serial => SerialOK'
      BY <2>2, WRecordSerial, WFileSerial DEF WInv
    <3>4. ~setting.overlay => CopyOnly'
      BY <2>2, WCopyStep DEF WInv
    <3>5. NoLateDestroy' = NoLateDestroy
      BY <3>1 DEF NoLateDestroy
    <3>6. ~erred' => ~erred
      <4>1. UNCHANGED erred \/ \E j \in Callers : Abort(j)
        BY <2>2 DEF RecordStep, FileStep, Lookup, SetWorkspace, Forget, FetchRollback, FetchCommit,
                    FetchDestroy, Fetch, Snapshot, RemoveRoot, RemovePart, MakeDirs, Seed, Mount, Remount,
                    MountOr, Unmount, RemoveUpper, MakeUpper, RemoveMerged, MakeMerged, Clear, Fill,
                    RemoveOutput, CopyOutput, WriteManifest, RunTool, Continue
      <4> QED BY <4>1 DEF Abort
    <3>7. ~setting.overlay /\ NoLateDestroy /\ ~erred' => SeedOK'
      BY <2>2, <3>6, WSeedStep DEF WInv
    <3> QED BY <3>1, <3>2, <3>3, <3>4, <3>5, <3>7 DEF WInv
  <2>3. CASE UNCHANGED wvars
    <3>1. /\ WTypeOK' = WTypeOK /\ SerialOK' = SerialOK /\ CopyOnly' = CopyOnly /\ SeedOK' = SeedOK
          /\ NoLateDestroy' = NoLateDestroy /\ UNCHANGED setting /\ UNCHANGED erred
      BY <2>3 DEF wvars, WTypeOK, Standing, SerialOK, Alone, MountKnown, Unmounted, CleanStart,
                  RemountsOverlay, CommitPrepared, CommitSource, View, Entries, CopyOnly, CopyHere,
                  SeedOK, Making, Writing, Seeded, NoLateDestroy, At, Rest
    <3> QED BY <3>1 DEF WInv
  <2> QED BY <2>1, <2>2, <2>3 DEF WNext
<1> QED BY <1>1, <1>2, PTL DEF WSpec

\* DestroyableAtRest, where calls do not overlap and where nothing is mounted:
\* a workspace left mounted is one on record as mounted, so that Destroy
\* unmounts it before it removes its directory.
THEOREM WorkspaceDestroyable == WSpec => [](setting.serial \/ ~setting.overlay => DestroyableAtRest)
<1>1. WInv => (setting.serial \/ ~setting.overlay => DestroyableAtRest)
  <2> SUFFICES ASSUME WInv, setting.serial \/ ~setting.overlay, AtRest, mounts # <<>>
               PROVE  reg = "overlay"
    BY DEF DestroyableAtRest
  <2>1. \A k \in Callers : ~At(k, "store")
    BY DEF AtRest, At
  <2> QED BY <2>1 DEF WInv, SerialOK, MountKnown, CopyOnly
<1> QED BY <1>1, WorkspaceInvariant, PTL

\* CreatesConverge: however many calls find no workspace and make one, removing
\* the files the others write, the registered workspace ends up with the whole
\* base layer, unless a creation was refused or a Destroy overlapped.
THEOREM WorkspaceConverges == WSpec => []CreatesConverge
<1>1. WInv => CreatesConverge
  <2> SUFFICES ASSUME WInv, NoLateDestroy, ~setting.overlay, ~erred, AtRest, reg # NoMode
               PROVE  lower = Base
    BY DEF CreatesConverge
  <2>1. \A k \in Callers : ~Making(k)
    BY DEF AtRest, Making, Writing, At
  <2> QED BY <2>1 DEF WInv, SeedOK
<1> QED BY <1>1, WorkspaceInvariant, PTL

\* The steps that may be the last of a call.
LEMMA LastPlace ==
    ASSUME NEW o, NEW st, NEW h, Placed(o, st, h, <<>>)
    PROVE  h \in {"lookup", "mount", "store", "tool", "fetchCommit", "manifest", "fetchRollback",
                  "remount", "fill", "fetchDestroy", "forget"}
<1>1. After(o) \in Seq(StepNames)
  BY AfterCases
<1> DEFINE a == After(o)
<1>2. /\ CreateSteps \o a # <<>> /\ <<"mkDirs", "seed", "mount">> \o a # <<>>
      /\ <<"seed", "mount">> \o a # <<>> /\ <<"mount">> \o a # <<>>
  BY <1>1, CreateParts
<1>3. /\ <<"tool">> # <<>> /\ <<"copyOut", "manifest">> # <<>> /\ <<"manifest">> # <<>>
      /\ <<"fetchRollback">> # <<>> /\ <<"rmUpper", "mkUpper", "remount">> # <<>>
      /\ <<"mkUpper", "remount">> # <<>> /\ <<"remount">> # <<>> /\ <<"fill">> # <<>>
      /\ <<"mkMerged", "fill", "store">> # <<>> /\ <<"fill", "store">> # <<>>
      /\ <<"rmRoot", "forget">> # <<>> /\ <<"forget">> # <<>>
  BY StepLists
<1> QED BY <1>2, <1>3, Zenon DEF Placed

\* How a call ends that does not report an error.
LEMMA LastSteps ==
    ASSUME WTypeOK, NEW k \in Callers, RecordStep(k) \/ FileStep(k),
           todo'[k] = <<>>, status'[k] # "error"
    PROVE  /\ status[k] = "running" => status'[k] = "ok"
           /\ status[k] = "failed" => status'[k] = "restored"
           /\ status[k] \notin {"running", "failed"} => status'[k] = status[k]
           /\ \/ Lookup(k) /\ Rest(k) = <<>>
              \/ SetWorkspace(k) /\ Rest(k) = <<>>
              \/ Forget(k)
              \/ /\ Remount(k) /\ mounts' = Append(mounts, "live")
                 /\ NoDir \notin {lower, upper, merged}
              \/ Fill(k) /\ Rest(k) = <<>> /\ lower # NoDir /\ SetView(View \cup lower, Opaque)
              \/ WriteManifest(k) /\ out' = [out EXCEPT !.manifest = out.files]
<1> DEFINE Ends == /\ status[k] = "running" => status'[k] = "ok"
                   /\ status[k] = "failed" => status'[k] = "restored"
                   /\ status[k] \notin {"running", "failed"} => status'[k] = status[k]
<1>1. ~Abort(k)
  BY DEF Abort, WTypeOK
<1>2. ASSUME NEW rest, Continue(k, rest) PROVE rest = <<>> /\ Ends
  <2>1. rest = <<>>
    BY <1>2 DEF Continue, WTypeOK
  <2>2. status'[k] = CASE rest = <<>> /\ status[k] = "running" -> "ok"
                       [] rest = <<>> /\ status[k] = "failed" -> "restored"
                       [] OTHER -> status[k]
    BY <1>2 DEF Continue, WTypeOK
  <2> QED BY <2>1, <2>2
<1>3. ASSUME NEW h, At(k, h), Continue(k, Rest(k))
      PROVE  h \in {"lookup", "mount", "store", "tool", "fetchCommit", "manifest", "fetchRollback",
                    "remount", "fill", "fetchDestroy", "forget"}
  BY <1>2, <1>3, AtPlaced, LastPlace
<1> HIDE DEF Ends
<1>4. CASE Lookup(k)
  <2>1. At(k, "lookup")
    BY <1>4 DEF Lookup
  <2>2. Continue(k, CreateSteps \o Rest(k)) \/ Continue(k, Rest(k))
    BY <1>4, <2>1, LookupPlaced DEF Lookup
  <2>3. Continue(k, Rest(k))
    BY <1>2, <2>1, <2>2, LookupPlaced
  <2> QED BY <1>2, <1>4, <2>3 DEF Ends
<1>5. CASE SetWorkspace(k)
  BY <1>2, <1>5 DEF SetWorkspace, Ends
<1>6. CASE Forget(k)
  BY <1>2, <1>6 DEF Forget, Ends
<1>7. CASE FetchRollback(k)
  <2>1. At(k, "fetchRollback") /\ Continue(k, RollbackSteps(reg))
    BY <1>1, <1>7 DEF FetchRollback, Fetch
  <2>2. Restores(op[k], status[k])
    BY <2>1, AtPlaced DEF Placed
  <2> QED BY <1>2, <2>1, <2>2, FetchedPlaced DEF RollbackSteps
<1>8. CASE FetchCommit(k)
  <2>1. At(k, "fetchCommit") /\ Continue(k, CommitSteps)
    BY <1>1, <1>8 DEF FetchCommit, Fetch
  <2>2. Commits(op[k], status[k])
    BY <2>1, AtPlaced DEF Placed
  <2> QED BY <1>2, <2>1, <2>2, FetchedPlaced
<1>9. CASE FetchDestroy(k)
  <2>1. At(k, "fetchDestroy") /\ Continue(k, DestroySteps(reg))
    BY <1>1, <1>9 DEF FetchDestroy, Fetch
  <2>2. Destroys(op[k], status[k])
    BY <2>1, AtPlaced DEF Placed
  <2> QED BY <1>2, <2>1, <2>2, FetchedPlaced
<1>16. CASE RemovePart(k)
  <2>1. todo[k] # <<>> /\ UNCHANGED todo
    BY <1>16 DEF RemovePart, At
  <2> QED BY <2>1
<1>17. CASE Seed(k)
  <2>1. At(k, "seed") /\ (Abort(k) \/ Continue(k, Rest(k)) \/ Continue(k, todo[k])) /\ todo[k] # <<>>
    BY <1>17 DEF Seed, At
  <2> QED BY <1>1, <1>2, <1>3, <2>1
<1>10. CASE Snapshot(k) \/ RemoveRoot(k) \/ MakeDirs(k) \/ Unmount(k) \/ RemoveUpper(k)
            \/ MakeUpper(k) \/ RemoveMerged(k) \/ MakeMerged(k) \/ Clear(k) \/ RemoveOutput(k)
            \/ CopyOutput(k)
  <2>1. PICK h \in {"snapshot", "rmRoot", "mkDirs", "umount", "rmUpper", "mkUpper", "rmMerged",
                    "mkMerged", "clear", "rmOut", "copyOut"} :
           At(k, h) /\ (Abort(k) \/ Continue(k, Rest(k)))
    BY <1>10 DEF Snapshot, RemoveRoot, MakeDirs, Unmount, RemoveUpper, MakeUpper, RemoveMerged,
                 MakeMerged, Clear, RemoveOutput, CopyOutput
  <2> QED BY <1>1, <1>3, <2>1
<1>11. CASE Mount(k)
  <2>1. At(k, "mount") /\ (Continue(k, <<"store">> \o Rest(k)) \/ Continue(k, CopySteps \o Rest(k)))
    BY <1>11 DEF Mount, MountOr
  <2> QED BY <1>2, <2>1, MountPlaced
<1>12. CASE Remount(k)
  <2>1. /\ At(k, "remount")
        /\ \/ /\ mounts' = Append(mounts, "live") /\ NoDir \notin {lower, upper, merged}
              /\ Continue(k, Rest(k))
           \/ Continue(k, DegradeSteps \o Rest(k))
    BY <1>12 DEF Remount, MountOr
  <2>2. DegradeSteps \o Rest(k) # <<>>
    BY <2>1, RemountPlaced, FetchedPlaced
  <2> QED BY <1>2, <1>12, <2>1, <2>2 DEF Ends
<1>13. CASE Fill(k)
  BY <1>1, <1>2, <1>13 DEF Fill, Ends
<1>14. CASE WriteManifest(k)
  BY <1>1, <1>2, <1>14 DEF WriteManifest, Ends
<1>15. CASE RunTool(k)
  <2>1. todo' = [todo EXCEPT ![k] = <<"fetchCommit">>] \/ todo' = [todo EXCEPT ![k] = <<"fetchRollback">>]
    BY <1>15 DEF RunTool, Continue
  <2>2. <<"fetchCommit">> # <<>> /\ <<"fetchRollback">> # <<>>
    OBVIOUS
  <2> QED BY <2>1, <2>2 DEF WTypeOK
<1> QED BY <1>4, <1>5, <1>6, <1>7, <1>8, <1>9, <1>10, <1>11, <1>12, <1>13, <1>14, <1>15,
           <1>16, <1>17 DEF RecordStep, FileStep

\* With calls one at a time, the call that ends is the one that steps.
LEMMA OwnStep ==
    ASSUME SerialOK, [WNext]_wvars, NEW k \in Callers, setting.serial, todo[k] # <<>>, todo'[k] = <<>>
    PROVE  RecordStep(k) \/ FileStep(k)
<1>1. PICK j \in Callers : Begin(j) \/ RecordStep(j) \/ FileStep(j)
  BY DEF WNext, wvars
<1>2. CASE j # k
  <2>1. todo[j] = <<>>
    BY <1>2 DEF SerialOK, Alone
  <2>2. Begin(j)
    BY <1>1, <2>1 DEF RecordStep, FileStep, Lookup, SetWorkspace, Forget, FetchRollback, FetchCommit,
                      FetchDestroy, Fetch, Snapshot, RemoveRoot, RemovePart, MakeDirs, Seed, Mount, Remount,
                      MountOr, Unmount, RemoveUpper, MakeUpper, RemoveMerged, MakeMerged, Clear, Fill,
                      RemoveOutput, CopyOutput, WriteManifest, RunTool, At
  <2> QED BY <2>2 DEF Begin
<1> QED BY <1>1, <1>2 DEF Begin

\* RollbackRestores: a Rollback that reports no error, on its own, after a tool
\* that failed or after the injected fault, leaves exactly the base layer to be
\* seen, when calls do not overlap.
THEOREM WorkspaceRollback == WSpec => RollbackRestores
<1> DEFINE Restored(k) == status'[k] = "restored" \/ (status'[k] = "ok" /\ op[k] \in {"rollback", "rmfault"})
<1>1. ASSUME WInv, [WNext]_wvars, NEW k \in Callers, setting.serial, Ended(k), Restored(k)
      PROVE  View' = Entries(lower')
  <2>1. todo[k] # <<>> /\ todo'[k] = <<>> /\ status'[k] # "error" /\ WTypeOK /\ SerialOK
    BY <1>1 DEF Ended, WInv
  <2>2. RecordStep(k) \/ FileStep(k)
    BY <1>1, <2>1, OwnStep
  <2>3. status[k] = "failed" \/ (status[k] = "running" /\ op[k] \in {"rollback", "rmfault"})
        \/ status[k] \notin {"running", "failed"}
    BY <1>1, <2>1, <2>2, LastSteps
  <2>4. \A h : At(k, h) => Placed(op[k], status[k], h, Rest(k))
    BY <2>1, AtPlaced
  <2>5. After("rmfault") # <<>>
    BY AfterCases, StepLists
  <2>6. CASE Lookup(k) /\ Rest(k) = <<>>
    <3>1. Placed(op[k], status[k], "lookup", <<>>)
      BY <2>4, <2>6 DEF Lookup
    <3> QED BY <2>3, <3>1 DEF Placed, Creates
  <2>7. CASE SetWorkspace(k) /\ Rest(k) = <<>>
    <3>1. At(k, "store") /\ UNCHANGED <<lower, upper, merged, out, mounts>>
      BY <2>7 DEF SetWorkspace, dirs
    <3>2. View' = View /\ UNCHANGED lower
      BY <3>1 DEF View, Entries
    <3>3. View = Entries(lower)
      BY <2>1, <3>1 DEF SerialOK, CleanStart
    <3> QED BY <3>2, <3>3
  <2>8. CASE Forget(k)
    <3>1. Placed(op[k], status[k], "forget", Rest(k))
      BY <2>4, <2>8 DEF Forget
    <3> QED BY <2>3, <3>1 DEF Placed, Destroys
  <2>9. CASE Remount(k) /\ mounts' = Append(mounts, "live") /\ NoDir \notin {lower, upper, merged}
    <3>1. At(k, "remount") /\ UNCHANGED lower /\ UNCHANGED upper
      BY <2>9 DEF Remount, MountOr
    <3>2. mounts' # <<>> /\ Last(mounts') = "live"
      BY <2>1, <2>9, StackedMounts DEF WTypeOK
    <3>3. upper = NoChange
      BY <2>1, <3>1 DEF SerialOK, CleanStart
    <3>4. View' = (Entries(lower') \ (upper'.hide \cup upper'.opaque)) \cup upper'.add
      BY <2>9, <3>1, <3>2 DEF View, Entries
    <3>5. upper'.hide = {} /\ upper'.opaque = {} /\ upper'.add = {}
      BY <3>1, <3>3 DEF NoChange
    <3> QED BY <3>4, <3>5
  <2>10. CASE Fill(k) /\ Rest(k) = <<>> /\ lower # NoDir /\ SetView(View \cup lower, Opaque)
    <3>1. At(k, "fill") /\ UNCHANGED lower /\ UNCHANGED mounts
      BY <2>10 DEF Fill
    <3>2. mounts = <<>> /\ Entries(merged) = {}
      BY <2>1, <3>1 DEF SerialOK, Unmounted, CleanStart
    <3>3. merged' = lower
      BY <2>10, <3>2 DEF SetView, View
    <3> QED BY <2>10, <3>1, <3>2, <3>3 DEF View, Entries
  <2>11. CASE WriteManifest(k)
    <3>1. Placed(op[k], status[k], "manifest", Rest(k))
      BY <2>4, <2>11 DEF WriteManifest
    <3> QED BY <2>3, <3>1 DEF Placed, Commits
  <2> QED BY <2>1, <2>2, <2>6, <2>7, <2>8, <2>9, <2>10, <2>11, LastSteps
<1>2. WInv /\ [WNext]_wvars =>
        [\A k \in Callers :
            /\ setting.serial /\ Ended(k)
            /\ status'[k] = "restored" \/ (status'[k] = "ok" /\ op[k] \in {"rollback", "rmfault"})
            => View' = Entries(lower')]_wvars
  BY <1>1
<1> QED BY <1>2, WorkspaceInvariant, PTL DEF WSpec, RollbackRestores

\* CommitFaithful: a commit or tool.exec that reports success has put exactly
\* what the tool left, or its changes, into the output and its manifest, except
\* the loss of files in a directory that was removed and made again.
THEOREM WorkspaceCommit == WSpec => CommitFaithful
<1>1. ASSUME WInv, [WNext]_wvars, NEW k \in Callers, setting.serial, Ended(k), status'[k] = "ok",
             op[k] \in {"tool", "commit"}, Intact
      PROVE  /\ out'.manifest = out'.files
             /\ View' = out'.files \cup (IF reg = "overlay" THEN Entries(lower') \ Opaque' ELSE {})
  <2>1. todo[k] # <<>> /\ todo'[k] = <<>> /\ status'[k] # "error" /\ WTypeOK /\ SerialOK
    BY <1>1 DEF Ended, WInv
  <2>2. RecordStep(k) \/ FileStep(k)
    BY <1>1, <2>1, OwnStep
  <2>3. status[k] \in {"running", "ok"}
    BY <1>1, <2>1, <2>2, LastSteps DEF WTypeOK
  <2>4. \A h : At(k, h) => Placed(op[k], status[k], h, Rest(k))
    BY <2>1, AtPlaced
  <2>5. After("tool") # <<>> /\ <<"store">> # <<>>
    BY AfterCases, StepLists
  <2>6. CASE Lookup(k) /\ Rest(k) = <<>>
    <3>1. Placed(op[k], status[k], "lookup", <<>>)
      BY <2>4, <2>6 DEF Lookup
    <3> QED BY <1>1, <2>5, <3>1 DEF Placed, Creates
  <2>7. CASE SetWorkspace(k) /\ Rest(k) = <<>>
    <3>1. Placed(op[k], status[k], "store", <<>>)
      BY <2>4, <2>7 DEF SetWorkspace
    <3> QED BY <1>1, <2>3, <2>5, <3>1 DEF Placed, Creates, Restores
  <2>8. CASE Forget(k)
    <3>1. Placed(op[k], status[k], "forget", Rest(k))
      BY <2>4, <2>8 DEF Forget
    <3> QED BY <1>1, <3>1 DEF Placed, Destroys
  <2>9. CASE Remount(k)
    <3>1. Placed(op[k], status[k], "remount", Rest(k))
      BY <2>4, <2>9 DEF Remount, MountOr
    <3> QED BY <1>1, <2>3, <3>1 DEF Placed, Restores
  <2>10. CASE Fill(k) /\ Rest(k) = <<>>
    <3>1. Placed(op[k], status[k], "fill", <<>>)
      BY <2>4, <2>10 DEF Fill
    <3>2. <<"store">> \o After(op[k]) # <<>>
      BY AfterCases, CreateParts
    <3> QED BY <1>1, <2>3, <2>5, <3>1, <3>2 DEF Placed, Restores
  <2>11. CASE WriteManifest(k) /\ out' = [out EXCEPT !.manifest = out.files]
    <3>1. At(k, "manifest") /\ UNCHANGED lower /\ UNCHANGED upper /\ UNCHANGED merged /\ UNCHANGED mounts
      BY <2>11 DEF WriteManifest
    <3> DEFINE src == CommitSource(reg)
    <3>2. src.dir /\ src.copyable /\ out = [files |-> src.files, manifest |-> NoDir]
      BY <2>1, <3>1 DEF SerialOK, CommitPrepared
    <3>3. View' = View /\ Entries(lower') = Entries(lower) /\ Opaque' = Opaque /\ UNCHANGED reg
      BY <2>11, <3>1 DEF WriteManifest, View, Entries, Opaque
    <3>4. View = src.files \cup (IF reg = "overlay" THEN Entries(lower) \ Opaque ELSE {})
      <4>1. CASE reg = "overlay"
        <5>1. mounts # <<>> /\ Last(mounts) = "live"
          BY <1>1, <4>1 DEF Intact
        <5>2. upper # NoDir
          BY <3>2, <4>1 DEF CommitSource
        <5>3. src = [dir |-> TRUE, files |-> upper.add, copyable |-> upper.hide = {} /\ Link \notin upper.add]
          BY <4>1, <5>2 DEF CommitSource
        <5> HIDE DEF src
        <5>4. src.files = upper.add /\ src.copyable = (upper.hide = {} /\ Link \notin upper.add)
          BY <5>3
        <5>6. upper.hide = {}
          BY <3>2, <5>4
        <5>5. View = (Entries(lower) \ (upper.hide \cup upper.opaque)) \cup upper.add
          BY <5>1, <5>2 DEF View
        <5>7. Opaque = upper.opaque
          BY <5>2 DEF Opaque
        <5> QED BY <4>1, <5>4, <5>5, <5>6, <5>7
      <4>2. CASE reg # "overlay"
        <5>1. merged # NoDir
          BY <3>2, <4>2 DEF CommitSource
        <5>2. src = [dir |-> TRUE, files |-> View, copyable |-> Link \notin View]
          BY <4>2, <5>1 DEF CommitSource
        <5>3. src.files = View
          BY <5>2
        <5> HIDE DEF src
        <5> QED BY <4>2, <5>3
      <4> QED BY <4>1, <4>2
    <3> HIDE DEF src
    <3>5. out'.manifest = src.files /\ out'.files = src.files
      BY <2>11, <3>2
    <3> QED BY <3>3, <3>4, <3>5
  <2> QED BY <2>1, <2>2, <2>6, <2>7, <2>8, <2>9, <2>10, <2>11, LastSteps
<1>2. WInv /\ [WNext]_wvars =>
        [\A k \in Callers :
            setting.serial /\ Ended(k) /\ status'[k] = "ok" /\ op[k] \in {"tool", "commit"} /\ Intact
            => /\ out'.manifest = out'.files
               /\ View' = out'.files \cup (IF reg = "overlay" THEN Entries(lower') \ Opaque' ELSE {})]_wvars
  BY <1>1
<1> QED BY <1>2, WorkspaceInvariant, PTL DEF WSpec, CommitFaithful
=============================================================================
