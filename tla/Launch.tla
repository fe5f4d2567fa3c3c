------------------------------- MODULE Launch -------------------------------
(***************************************************************************)
(* The demo requests of the daemon in worker mode (runDemo in              *)
(* internal/api/server.go): each request creates the agents of its task,   *)
(* seeds their context and starts their workers one at a time, each chosen *)
(* by the one scheduler all requests share.                                *)
(*                                                                         *)
(* One action is one critical section of the scheduler or one effect       *)
(* outside it: Select (schedulerCandidates and Select), Publish (sample    *)
(* the pressure and publish the decision), Start worker.  Two requests,    *)
(* the policy endpoint, the pressure endpoint and the software-real demo   *)
(* interleave between them.  What schedulerCandidates reads of a pending   *)
(* agent does not change while it is pending: a worker that was not        *)
(* started has no cgroup, so the cgroup sampler is never consulted, and    *)
(* its page table is what seedContext and runDemoRuntimeEvidence wrote.    *)
(* Pages are named by content, as the store does: two tasks share the      *)
(* pages whose text does not mention the task.                             *)
(***************************************************************************)
EXTENDS Scheduler

CONSTANTS
    Tasks,         \* demo requests
    Readings,      \* what a pressure file of the kernel may show, in permille
    Unreadable,    \* the file cannot be read or parsed
    Throttle       \* the thresholds of the monitor: resource -> permille

ASSUME LaunchAssumption ==
    Readings \subseteq Nat /\ Unreadable \notin Nat /\ Throttle \in [{"cpu", "memory", "io"} -> Nat]

VARIABLE driver   \* driver[t]: where the request of task t is

lvars == <<svars, driver>>

\* The agents of a task, in the order of its DAG.
Specs == <<"planner", "coder", "tester", "reviewer">>

\* What runDemoRuntimeEvidence leaves in the page table of a task's agent: the
\* reviewer writes its feedback.  The fixer that polls it is no agent of the
\* task's list, and the other syscalls mount nothing.
EvidencePages(r) == IF r = "reviewer" THEN {<<"feedback">>} ELSE {}

\* seedContext, then the syscalls of runDemoRuntimeEvidence.
PageTable(t, r) ==
    {<<"system">>, <<"project">>, <<"task">>, <<"scratch", t, r>>} \cup EvidencePages(r)

SoftwarePages == {<<"software-system">>, <<"software-project">>, <<"requirement">>}

\* CreatedAt of the agents of one task: milliseconds that never decrease.
Stamps == {s \in [1..Len(Specs) -> 1..2] : \A i \in 1..(Len(Specs) - 1) : s[i] <= s[i + 1]}

Idle == [step |-> "idle", pending |-> <<>>, selected |-> "none",
         decided |-> <<>>, started |-> <<>>, stamps |-> <<>>]

\* The daemon starts with one policy; clients that run turns with any.
LInit ==
    /\ SInit
    /\ load.client = "demos" => policy = "token-cfs-prefix-affinity"
    /\ driver = [t \in Tasks |-> Idle]

\* The request creates its agents, seeds their context and saves its first
\* checkpoint.
Begin(t, stamps) ==
    /\ driver[t].step = "idle"
    /\ driver' = [driver EXCEPT ![t] =
                    [Idle EXCEPT !.step = "select", !.pending = Specs, !.stamps = stamps]]
    /\ UNCHANGED object

\* A candidate as schedulerCandidates builds it: the registry never charges
\* an agent, and the state is set to READY whatever the agent depends on.
Candidate(t, r) ==
    [id |-> r, vruntime |-> 0, priority |-> 100, pages |-> PageTable(t, r), context |-> {},
     created |-> driver[t].stamps[CHOOSE i \in 1..Len(Specs) : Specs[i] = r],
     memory |-> 0, pids |-> 0, cpu |-> 0, ready |-> TRUE]

schedulerCandidates(t) ==
    [i \in 1..Len(driver[t].pending) |-> Candidate(t, driver[t].pending[i])]

SelectStep(t) ==
    LET pick == selectLocked(policy, schedulerCandidates(t), last, pressure)
    IN  /\ driver[t].step = "select"
        /\ last' = pick.pages
        /\ driver' = [driver EXCEPT ![t].step = "publish", ![t].selected = pick.id,
                                    ![t].decided = Append(@, pick.id)]
        /\ UNCHANGED <<policy, pressure>>

\* pressure.Monitor.Sample: one file that cannot be read degrades the whole
\* sample to zeros; a resource at its threshold asks to throttle.
Sample(file) ==
    IF \E r \in DOMAIN file : file[r] = Unreadable
    THEN [degraded |-> TRUE, avg10 |-> [r \in DOMAIN file |-> 0], throttle |-> FALSE]
    ELSE [degraded |-> FALSE, avg10 |-> file,
          throttle |-> \E r \in DOMAIN file : file[r] >= Throttle[r]]

Samples == {Sample(file) : file \in [DOMAIN Throttle -> Readings \cup {Unreadable}]}

\* sampleSchedulerResourcePressure: the highest of the three replaces every
\* component of the pressure.
Sampled(status) == [NoPressure EXCEPT !.psi = Max(Range(status.avg10))]

\* publishSchedulerDecision: under pressure an event says so, and nothing
\* waits.
Publish(t, status) ==
    /\ driver[t].step = "publish"
    /\ SetResourcePressure(Sampled(status))
    /\ driver' = [driver EXCEPT ![t].step = "start"]

\* Fault: the spec at the head goes, whoever was selected.
PopHead(specs, r) == [spec |-> r, next |-> Tail(specs)]

popSpec(specs, r) ==
    LET at == {i \in 1..Len(specs) : specs[i] = r}
    IN  IF at = {} THEN [spec |-> Head(specs), next |-> Tail(specs)]
        ELSE [spec |-> r, next |-> RemoveAt(specs, Min(at))]

StartWorker(t) ==
    LET pop == popSpec(driver[t].pending, driver[t].selected)
    IN  /\ driver[t].step = "start"
        /\ driver' = [driver EXCEPT ![t].pending = pop.next,
                                    ![t].started = Append(@, pop.spec),
                                    ![t].step = IF pop.next = <<>> THEN "done" ELSE "select"]
        /\ UNCHANGED object

\* Fault: a worker that does not start is put back and tried again.
StartRetries(t) ==
    /\ driver[t].step = "start"
    /\ driver' = [driver EXCEPT ![t].step = "select", ![t].decided = Front(@)]
    /\ UNCHANGED object

\* The worker command does not start: the request fails and the agents still
\* pending are never started.
StartFails(t) ==
    LET pop == popSpec(driver[t].pending, driver[t].selected)
    IN  /\ driver[t].step = "start"
        /\ driver' = [driver EXCEPT ![t].pending = pop.next, ![t].step = "failed"]
        /\ UNCHANGED object

handleSchedulerPolicy(p) ==
    /\ SetPolicy(p)
    /\ UNCHANGED driver

\* GET /api/scheduler/resource-pressure samples and stores.
SamplePressure(status) ==
    /\ SetResourcePressure(Sampled(status))
    /\ UNCHANGED driver

\* scheduleSoftwareRealAgent: a selection from the one agent of that step.
\* Its pages are counted twice, and the only candidate is selected whatever
\* its score.
SoftwareRealSelect ==
    /\ last' = SoftwarePages
    /\ UNCHANGED <<policy, pressure, driver>>

DemoNext ==
    /\ load.client = "demos"
    /\ \/ \E t \in Tasks :
            \/ \E s \in Stamps : Begin(t, s)
            \/ SelectStep(t)
            \/ \E status \in Samples : Publish(t, status)
            \/ StartWorker(t) \/ StartFails(t)
       \/ \E p \in load.policies : handleSchedulerPolicy(p)
       \/ \E status \in Samples : SamplePressure(status)
       \/ SoftwareRealSelect
    /\ UNCHANGED <<avp, running, decision, load>>

LNext == DemoNext \/ (SNext /\ UNCHANGED driver)

LSpec == LInit /\ [][LNext]_lvars

\* The goroutine of a request keeps running: weak fairness of its steps.  A
\* request between Begin and its end always has one enabled, so ENABLED is
\* written as Busy, which TLC evaluates much faster.
Busy(t) == driver[t].step \in {"select", "publish", "start"}
GoroutineRuns(t) ==
    []<>(~Busy(t)) \/ []<><<driver[t].step' # driver[t].step>>_lvars

LFairSpec == LSpec /\ \A t \in Tasks : GoroutineRuns(t)

(***************************************************************************)
(* Properties.                                                             *)
(***************************************************************************)
\* The workers of a task are started in the order of its decisions, none
\* twice, and none is lost: what was started, the worker whose start failed
\* and what is pending are the agents of the task, however the requests and
\* the policy changes interleave (the loop of runDemo with popSpec).
StartedAsDecided ==
    \A t \in Tasks :
      LET d == driver[t] IN
      /\ IsPrefix(d.started, d.decided)
      /\ Len(d.decided) - Len(d.started) \in 0..1
      /\ d.step # "idle" =>
           /\ ToSet(d.decided) \cup ToSet(d.pending) = ToSet(Specs)
           /\ IsInjective(d.decided)
      /\ d.step = "done" => d.started = d.decided /\ Len(d.started) = Len(Specs)

\* Every request ends: its goroutine runs the loop at most once per agent.
DemoEnds ==
    \A t \in Tasks : driver[t].step = "select" ~> driver[t].step \in {"done", "failed"}
=============================================================================
