# TLA+ verification of the AORT-R agent runtime

AORT-R is a Go daemon (`aortd`) that runs LLM agents as worker processes. It
gives each agent a context made of shared pages, a blackboard to exchange page
references, a workspace, a cgroup capsule and a record in a registry, watches
heartbeats, and restores its registry from checkpoints after a restart. This
directory models the parts of it where interleavings, order and failures decide
whether it is right, checks them with TLC and proves the core with TLAPS.
`PROJECT.json` lists the components, the runs, the source lines behind every
definition, the hazards and the theorems.

## 1. Inventory

| Component | State | Operations | Interacts with | What makes it correct |
|---|---|---|---|---|
| Page store `internal/cvm` | pages by content hash (RefCount, owners, pin, codec, access data), page table per agent; one mutex | CreatePage, MountPage, WriteDelta (two critical sections), Materialize, TouchPage, PinPage, ReleasePage, CompressColdPages, EvictColdPages | gateway, server | tables never dangle, owners and tables agree, content survives compression, pins hold, the mount order is stable, reference counts are exact |
| Blackboard `internal/ipc` | log per topic, offset per topic and subscriber | Publish, Poll | gateway | every subscriber gets every message once and in order |
| Syscall gateway `internal/syscall` | record log | context.materialize, context.write_delta, llm.call, ipc.publish, ipc.poll, agent.spawn, agent.report, tool.exec | page store, blackboard, registry, workspace | page ids carried across critical sections stay valid, nothing polled is lost |
| Registry `internal/worker/registry.go` | record per agent: state, PID, LastSeen, paths | CreateAgent, register, heartbeat, report, SetState, SetCapsule, SetWorkspace, RestoreAgent, MarkHeartbeatLost | everything that touches an agent | the task's records keep their ids, no false alarms, kills are not undone by callbacks, dead workers are noticed |
| Worker, UDS server, launcher | process, connection goroutine | register, syscalls, heartbeat; read and dispatch | registry, gateway | see registry |
| API server `internal/api` | tasks, components | runDemo, software-real demo, agent/capsule/workspace actions, recovery, monitor | all | see registry |
| Capsule manager | runtime and PID per agent | Prepare, Freeze, Unfreeze, Kill, Destroy | cgroup files | a failed Prepare degrades, kill reaches the process, a successful Destroy leaves nobody in the cgroup |
| Workspace manager | workspace per agent, directories | Create, Commit, Rollback, Destroy, snapshots | tool.exec, server | base intact, rollback isolated, output not lost |
| Checkpoint store | one JSON file per task and sequence | Save, List, RecoverAll | server | a crash does not lose other tasks |
| Event hub, trace recorder | history (256), subscriber channels; JSONL file | Subscribe, Publish, Append | all | bounded, ordered per subscriber |
| Scheduler | policy, pressure, last agent, decisions | Select, SetPolicy, SetResourcePressure | runDemo | picks a ready candidate, by policy |
| LLM router | providers, fallback | Complete | gateway | fallback on provider errors |
| Trace replay `internal/replay` | none; one pass over a trace | ReplayEvents | trace files | accepts exactly the ordered traces, reports the last status told |
| Supervisor, kernel observer | list of faults, list of executions | Record, ObserveExec | event sink | an announced fault or execution is on record |
| Pressure monitor, sampler | none kept | Sample | scheduler | an unreadable file degrades, thresholds throttle |
| AVP manager, DAG | agent states, dependency edges | used by their own tests only | none in the daemon | not modelled |
| Shared memory, demo runner, config | small | | | see PROJECT.json |
| Experiments, `aortctl`, dashboard | | | | outside the runtime; not modelled |

Hard behaviours: the daemon holds no lock across two components, so a syscall
is a sequence of critical sections that interleave with other calls; the
registration callback runs outside the registry's lock; the registry is changed
by six kinds of goroutine; workers die, freeze and outlive the daemon; recovery
starts after workers may already connect. PROJECT.json lists these as hazards,
each at its line.

## 2. Modules

- `CVM` is the page store: one action per exported method. A page id is a hash
  of the content, so the model uses the content as the id. Codecs are kept
  (`gzipBytes`, `materializedContent`) because nothing but the length of the
  bytes says which one was used.
- `CVMClients` adds concurrent callers and runs WriteDelta as two steps. Init
  chooses whether the callers are `balanced`: give back only what they took, or
  call anything at any time.
- `Delivery` is the abstract specification of the blackboard, one queue per
  subscriber; `Blackboard` is the code's log and offsets, and implements it.
- `Gateway` extends `CVM` with the blackboard's state: a call is the sequence of
  store and blackboard operations the handler performs, and `todo[k]` is what call
  `k` has left. Failing operations end the call or are ignored, as in the code.
- `Registry` holds the registry's operations; `Lifecycle` composes it with the
  worker, its connection goroutine (the registration callback is three steps),
  the two task drivers (`/api/demo/run` and the software-real demo), the HTTP
  handlers (kill and destroy are two steps each), the injected faults, which make
  workspaces for ids the registry never hears of (`FaultIds`), the monitor, and
  crash, restart and recovery of the daemon.
- `Workspace` is one agent's workspace. The manager locks only its map, so a
  call (`tool.exec`, `WorkspaceDir`, the HTTP actions, the injected fault) is the
  sequence `todo[k]` of file system steps it has yet to do, with the record it
  read when it began; steps of concurrent calls interleave and each may fail.
  Removing the directory (`RemovePart`, `RemoveRoot`) and writing the base layer
  (`Seed`, with what is `left[k]` to write) go file by file, since that is where
  overlapping creations meet; the copies and removeChildren, which touch `merged`
  and the output, are one step each. While calls overlap a step on the file system
  may fail without any fault of the machine: an entry is gone, a directory is not
  empty. Directories are sets of files; the upper layer keeps what a tool added and
  what hides base files, a whiteout each or an opaque directory (`Nested` are the
  base files in a directory); overlays stack on `merged` as mounts do. Init chooses the `setting`: whether the machine
  has overlayfs, whether calls overlap, and which calls and faults there are.
- `Checkpoint` is the checkpoint directory, the requests that save into it and
  the recovery at start. Save is a truncation and a write (`StoreOpen`,
  `StoreWrite`); the daemon may be killed between any two steps and a write may fail
  half way. A start lists the files twice, for the report (`RecoverNothing` when that
  ends it) and for the tasks (`Recover`), and either listing may fail.
- `Events` is the hub, the sink behind it, the trace file, the SSE streams and
  the publishers (gateway, supervisor, kernel observer) that record something
  and announce it. A hub operation and an append are each atomic, nothing joins
  them. Init chooses whether the daemon has its worker runtime; without it there is
  one more publisher, the demo runner, whose finished syscalls no gateway handled.
- `Replay` is the loop over a trace file as a fold, next to what it should
  compute; its initial states are the files.
- `SchedPolicy` has the four policies as operators over candidates. Scores are
  integers of thousandths where the code rounds floats to three decimals. The loops
  over the candidates are folds.
  `Scheduler` is the object around them (policy, last agent, pressure) with
  agents that run turns and are charged; `Launch` extends it with the daemon's
  use of the object: `/api/demo/run` requests that share the scheduler, sample
  the pressure and start their workers one decision at a time. Init chooses the
  `load`: clients that run turns or requests, and what they may do.
- `Capsule` is one agent's capsule: the record, the cgroup and its processes,
  every system call a step, the kernel's rules external. Reading `cgroup.procs` and
  signalling what it listed are separate steps, in Kill and in Destroy, so processes
  fork in between and Destroy comes to its retries. Init chooses a kernel with or
  without `cgroup.kill`.
- `LLM` is the router: selection under the lock, the provider asked without it,
  the fallback, cancellation and lost answers.
- `SoftwareReal` is the software-real request as the fixed program it is, over
  the logs, the topic and the checkpoint directory it shares with other requests
  and with the syscalls of the workers.
- `Spawn` composes `Registry` with agent.spawn (look up, create, link to the
  task, each under its own lock) and the demo, which makes the task's id known,
  creates its agents one after another and stores the task in the end. Other calls
  may use the agents' names from the first of these steps on.
- `CVMProofs`, `CVMClientsProofs`, `GatewayProofs`, `LifecycleProofs` (with the
  software-real demo), `ResourcesProofs` (capsule, workspace), `EventsProofs`,
  `ServicesProofs` (checkpoint store, LLM router, trace replay, scheduler and its use
  at launch) and `SyscallProofs` (blackboard, agent.spawn) hold theorems; `MC*`
  modules give constants their values.

Definitions whose comment starts with "Fault:" are deliberately wrong variants
of the definition that follows them. They are used only to see that each
property notices the corresponding bug.

## 3. Runs

| Run | Checks | Bounds |
|---|---|---|
| `cvm_store` | TypeOK, TablesResident, OwnersMatchTables, ContentIntact, RefCountExact, WriteDeltaFindsItsPage, PinnedPageStays, MountOrderStable | contents whose gzip form is shorter than or as long as the plain one; reference, access and clock bounds that allow a page to be shared, released to zero and evicted; two callers, so that one can evict between the two steps of the other's WriteDelta |
| `services` | blackboard: SubscribersAgree, ImplementsDelivery; router: EvidenceHonest, BilledOnce; spawn: SpawnUndoesNothing; replay: ReplayCorrect | logs of up to three messages; two LLM calls under every configuration of key, default, fallback and roles; two connections, three spawn calls, three names, two of them agents the demo has yet to create; all trace files of up to three events with three time stamps, one of them unreadable |
| `gateway` | PublishedStaysResident, PolledGetsMounted, NoStalePageId, NothingEvicted | two concurrent callers, four calls in all |
| `lifecycle` | LTypeOK, HealthyNotFailed, KilledHeldAgainstCallbacks, DeadWorkerNoticed | one agent, one id of an injected fault, timeout of one heartbeat period |
| `lifecycle_completed` | CompletedStays: violated | as `lifecycle` |
| `lifecycle_frozen` | FrozenNotFailed: violated | as `lifecycle` |
| `lifecycle_killed` | KilledStays: violated | as `lifecycle` |
| `resources` | workspace: DestroyableAtRest, CreatesConverge, RollbackRestores, CommitFaithful; capsule: RealMeansConfined, NothingSurvives | overlayfs with calls one at a time: three of all kinds with two failing steps, and four of tool, rollback, commit and destroy with one; no overlayfs with three calls of two overlapping callers. A base of two files, one in a directory, and tools that add a file or a link and delete; three stacked mounts. Two goroutines in the capsule manager, three calls, one failing system call, two forks, two rounds of removal (eight in the code) |
| `demo` | software-real: ResultHonest; checkpoints: ReportHolds, RestoredUnlessTorn | two software-real requests, two syscalls of workers between their steps; two agents, two requests at a time, three tasks, two crashes |
| `checkpoint_torn` | SavedIsRestored: violated | as the checkpoint part of `demo`, two tasks |
| `events` | NoGap, SeenIsRecorded, TraceSound, EventsDelivered | with and without a worker runtime; two publishers, one stream opened twice, history of two, buffer of one, two operations of up to two events each: the history is cut and the buffer overflows |
| `launch` | FairShare, Undominated; StartedAsDecided, DemoEnds | three agents, one that comes and goes, threshold scaled to 2 with turns of up to 2, virtual time up to 5; two policies under pressure out of range with agents that differ in age, pages and load; two requests of four agents, three policies, pressure files idle, over the threshold or unreadable |

`services`, `resources` and `demo` check components that share no state and no lock side
by side: their steps commute, so Init picks the one that moves and the others
stay as they are. `cvm_store`, `launch` and the workspace part of `resources`
check several kinds of client in one run the same way: `balanced`, `load` and
`setting` are chosen by Init and never change, and a property that is promised
to one kind of client only names it.

`NothingEvicted` deserves a remark: the daemon never calls ReleasePage, so the
reference CreatePage takes is never given back and `evict_max_bytes` finds no
candidate. That keeps page ids valid, and means that eviction has no effect in
the daemon. The store's own runs do release and evict.

One agent is enough in `lifecycle` for the properties stated there: they speak
of one agent at a time, and agents meet only in the driver's order of launching
and in the daemon's crash, which affect each agent alike. The timeout of one
period is the tightest under which the timing assumption below allows a worker
to stay silent between two signs of life.

`DestroyableAtRest` holds with any step failing, for calls one at a time; without
overlayfs nothing is ever mounted and it says nothing. `CreatesConverge` is about overlapping
creations without overlayfs, as long as none of them is refused before it has
written its base layer: `erred` remembers that one was. Overlapping creations with
overlayfs, creations that are refused and a Destroy that overlaps are described
under Findings. `RollbackRestores` and `CommitFaithful` are about calls one at a
time, and `CommitFaithful` about a workspace that is `Intact`: an earlier call that
failed may have left a record that says overlay over a directory that is not
mounted, and a tool that then runs in it is committed from an empty upper layer.

`SpawnUndoesNothing` does not claim that agent.spawn is safe: a call that looked for
an agent before it was there creates it anew afterwards, over the record of a worker
that registered meanwhile, and its process id is lost. The property says that this
window is the only one. An agent that is there, that the demo has not yet to create
and that no spawn in progress has missed stays so for good, and its process with it;
and from the moment the task is stored its list only grows.

`KilledHeldAgainstCallbacks` and `KilledStays` divide one question. That KILLED is
the end is what the design says, and `lifecycle_killed` shows that it is not so. What
does hold is that the callbacks, the monitor and the operator's handlers leave a
killed agent alone; the worker's own messages and the task driver, which do not, are
the two exceptions of `KilledHeldAgainstCallbacks`.

`SeenIsRecorded` is about daemons with a worker runtime, `ReportHolds` about starts
whose second listing did not fail (`runtime.recovery_failed` is published when it
does). `ResultHonest` says nothing of the first test of a run: its "failed" also
stands for a tool that never ran.

Symmetry is used for agents, callers, handlers, publishers and subscribers in
safety runs only. Deadlock checking is off where the number of calls, events or
requests is bounded: such a model stops when they are used up, the daemon simply
waits for the next request.

### Fairness and timing

- `Lifecycle`: weak fairness of time, of the monitor's ticker, of what a live
  worker owes, and of the connection goroutine. Nothing obliges a driver or an
  operator to act.
- `Events`: weak fairness of a publisher's next step and of the goroutine that
  writes a stream. Clients may leave, and nobody has to subscribe.
- `Launch`: weak fairness of the goroutine that serves a request, which the Go
  scheduler runs as long as it is not blocked; other requests and endpoints may
  be idle forever. It is written out: infinitely often the request is at an end
  or takes a step.
- Timing: time passes in heartbeat periods (two seconds in the worker). In each
  period a worker that is neither dead nor frozen sends something, and the
  daemon handles what arrived. Between registration and report that something
  is the report itself: the worker's only long step is one tool call, limited
  to the two seconds of one period. `Tick` states this assumption. The
  configured timeout is three periods (6000 ms); the run uses one.

### Findings

- `lifecycle_completed`: `MarkHeartbeatLost` skips only FAILED and KILLED
  agents. A COMPLETED agent whose worker is gone becomes FAILED. The
  software-real demo ends this way: its workers run under the context of the
  request and die with it, one timeout before all its agents turn FAILED. The
  design's state machine (V2.0.md:159-165) and the AVP manager's transition
  table have no way out of COMPLETED.
- `lifecycle_frozen`: freezing an agent writes `cgroup.freeze` and does not
  touch the registry; the frozen worker is silent, and the monitor sets it to
  FAILED, where it stays after unfreezing. V2.0.md:162 describes freezing as
  SUSPENDED, which unfreezing leads back to READY.
- `checkpoint_torn`: a checkpoint is overwritten in place and listing fails as a
  whole on one unreadable file; a crash during one Save makes every later start
  restore no task at all.
- `lifecycle_killed`: registration and report set the state whatever it is. A message
  that the worker sent before it was killed, or the report and the completion of the
  software-real driver, take a KILLED agent to RUNNING, COMPLETED or the report's own
  status. Neither the state machine of V2.0.md:159-165 nor the AVP manager's table
  (avp/manager.go:73-82) has a way out of KILLED.

Observed while modelling, without a run of its own:

- agent.spawn looks a name up and creates it in two steps (api/server.go:1752-1757),
  and the id in the names of a task's agents is published before runDemo creates them
  (api/server.go:293-303). A spawn in between overwrites the record of a worker that
  has registered with one that has no process.
- The injected faults make workspaces for agents the registry never hears of
  (api/server.go:462-520). `POST /api/agents/<id>/destroy` for one of them makes
  SetState store a KILLED record without an AgentID (registry.go:118).
- A creation deletes the directory another one is writing (workspace/manager.go:591).
  One that is refused half way (ENOTEMPTY, a parent directory that is gone), or a
  Destroy that overlaps, can leave the other's registered copy without part of its
  base layer.
- A tool that removes a directory of the base layer and makes it again leaves an
  opaque directory and no whiteout: Commit (workspace/manager.go:201) succeeds, and
  the output does not show that the directory's old files are gone.
- A tool in a copy that leaves a symbolic link out of the runtime root makes every
  later Rollback fail: removeChildren refuses the link (workspace/manager.go:914).
- When the second listing of a start fails (api/server.go:1580-1584), the recovery
  report names tasks that the server does not have.
- Without a worker runtime runDemo publishes the demo runner's `syscall.finished`
  events (api/server.go:274-278), for syscalls that `/api/syscalls` never lists.
- A rollback that fails after it unmounted leaves a record that says
  real-overlayfs over an unmounted directory (workspace/manager.go:239).
- Two calls that create one workspace at a time can leave a degraded-copy record
  over a mounted overlay (api/server.go:1805). Destroy unmounts only what is
  registered as an overlay, and fails on the mount point.
- `schedulerCandidates` offers every pending agent as READY (api/server.go:1416);
  docs/SCHEDULER_DESIGN.md:20 lists dependency readiness among a decision's inputs.
- The checkpoint evidence of the software-real demo lists all checkpoints
  (software_real_demo.go:356); while another request is between truncating and
  writing its own, a run with a complete checkpoint reports none.
- Any ERROR of tool.exec counts as the failing first test (software_real_demo.go:492),
  also one that came before the test was started, so that "failed" is no evidence
  of a test.
- The demo's fixer is spawned before the task is stored, so it does not enter the
  task's agents and DAG (api/server.go:1768).
- The daemon never calls Destroy on a capsule, and keeps workspace records in
  memory only: cgroups of finished agents stay, and so do overlays after a crash.
- runDemo saves its first checkpoint before it launches (api/server.go:306): a
  request that then fails is a recovered task after the next restart.

## 4. Proofs

TLAPS proves the following for every value of the constants that the named
assumptions allow. The assumptions say that bounds are natural numbers, that the
values standing for "none" are not among the real ones, and in `CVMAssumption`
that only the empty content has size zero and contents are finitely many; in
`RegistryAssumption` that the timeout is at least one heartbeat period; in
`EventsAssumption` that the hub remembers at least one event
(256 in the code); in `SpawnAssumption` that the demo has agents and that the fixer is not among
them; in `LifecycleAssumption` that the ids of injected faults are not
those of the task's agents; in `WorkspaceAssumption` that the base layer has a
file and that a tool adds other files than those; in `SchedulerAssumption` that a
client that runs turns has finitely many agents which have run none yet, that a turn
has a bounded number of tokens, and that only agents it named as blockable are ever
not ready. TLC evaluates all of them on the values of the runs. Bounds on calls, events and crashes are in guards only, and no proof uses
how large they are.

Every proof has the same shape: an inductive invariant, a lemma for each action
that keeps it, and the properties as its consequences. Each invariant was checked
by TLC on the component's run before it was proved.

| Module | Proved of the run's properties | What the inductive invariant adds, and why |
|---|---|---|
| `CVMProofs` | TypeOK, TablesResident, OwnersMatchTables, ContentIntact; PinnedPageStays, MountOrderStable (actions) | `IInv`: the four need each other, and `TableEntriesUnique`. Eviction keeps tables resident only because `Without` removes exactly the evicted entries (a strictly increasing choice of kept indices); a compressed page reads back only because its bytes have its own content and a codec the length test recognises; without a duplicate-free table, mounting could disturb the order |
| `CVMClientsProofs` | RefCountExact, WriteDeltaFindsItsPage | `CInv`: the callers' own counts, kept for evicted pages too (nobody believes to hold one), and that a caller between the halves of WriteDelta holds the reference it took. Counting is over the finite sets `References` and `Mounters`, one element more or fewer per step |
| `GatewayProofs` | PublishedStaysResident, PolledGetsMounted, NoStalePageId; NothingEvicted (action) | `GInv`: every resident page has a reference, so no step evicts and the store only grows (`Grows`); `Backed`: each page id on the list of a call is resident, or the call creates it first; a mount whose failure ends the call comes only after creations and mounts, so no other failure can drop it |
| `LifecycleProofs` | LTypeOK, HealthyNotFailed; KilledHeldAgainstCallbacks (action) | `LInv`: at most one message is under way per worker and the registration comes first; an agent of the task that holds a path, a workspace or a pending kill is known to the registry; a record without an AgentID is that of an injected fault; a record with a PID belongs to a worker that registered, in the checkpoint too; a healthy worker was heard of in this period or the last (`Punctual`) |
| `LifecycleProofs`, demo | ResultHonest | `RealInv`: a running request stands at a position of its program of thirty steps (`OnProgram`), and the position says which evidence it has (`Settled`): its reviewer's message on the topic and then polled, the passed test, the one fault; shared counters are at least what they were at its start plus its own. Others only add to logs and topic, and nobody else writes its checkpoint |
| `ResourcesProofs`, capsule | RealMeansConfined, NothingSurvives | `CapsuleInv`: while the worker is outside the cgroup no capsule was ever real and no call believes so; a live worker inside keeps the cgroup from being removed, so what a Prepare wrote stays; a Kill that signals has the worker on its list or the worker is dead; a Destroy removes the cgroup only when it is empty, however often forks make it start again |
| `ResourcesProofs`, workspace | DestroyableAtRest, CreatesConverge (each where it is promised, see below); RollbackRestores, CommitFaithful (actions) | `WInv`: what is left of a call is one of the ends of its program (`Placed`), so at each place it is known what the call has already made or removed. With calls one at a time (`SerialOK`) a mount not on record is the one the running call is about to store, and before a tool or a commit reads, the layers are what its earlier steps left. Without overlayfs (`CopyOnly`) nothing is ever mounted or recorded as mounted; `SeedOK`: the base layer is complete, or a call is under way that will make it so, having what is missing still to write (`Writing`), or nothing is registered and nothing about to be |
| `EventsProofs` | NoGap, SeenIsRecorded, TraceSound | `EventsInv`: the shapes a publisher's remaining plan can have, the demo runner's among them, with how far each of its events is (nowhere, in the hub, in the trace); different publishers have different calls; the history is the end of the log; a channel together with what was written is the log from the stream's beginning |
| `ServicesProofs`, stores | ReportHolds, RestoredUnlessTorn (action); EvidenceHonest, BilledOnce | `CheckpointInv`: all ids in files, report and requests are ids the clock has passed, and a request's own is not in the report. `RouterInv`: a call at its fallback asks another provider than before, so at most one of the two was the API |
| `ServicesProofs`, replay | ReplayCorrect | `KeptAt`: after `i` events the loop has kept exactly the good ones of them, or stopped at the first bad one; by induction over the position, for a file of any length. Ordered neighbours make an ordered file |
| `ServicesProofs`, launch | StartedAsDecided | `DriverInv`: a request has its agents divided between the started, the one decided and the pending ones (`Settled`, `Underway`, `Ended`). It needs that every policy selects one of the candidates it is given, and that removing it takes out one entry and no other (`PopSelected`) |
| `ServicesProofs`, scheduler | FairShare, Undominated | `SchedInv`, and for FairShare `Behind`: the agent whose turn it is was at most the threshold ahead of every agent that is always ready, and a charge adds at most `MaxStep`. Always-ready agents are among the candidates of every selection, since an order of the agents leaves none out. For Undominated: the loop returns the greatest rounded score, rounding keeps order, and a dominating candidate has a score greater by enough to survive it |
| `SyscallProofs` | SubscribersAgree, ImplementsDelivery (refinement), the blackboard's TypeOK; SpawnUndoesNothing (action) | what a subscriber has been handed is the log up to its offset (`SplitJoin`, `AppendUnread`). `SpawnInv` is little more than the types and that the server has no task before the demo stores it: `Settled` carries itself, since a call that looks an agent up now finds it, and one that missed it is excluded by definition |

HealthyNotFailed is proved from the timing assumption that `Tick` states (section
3, Fairness and timing), which is part of the specification; no proof uses
fairness. The invariants are proved for the unfair part of each specification and
so hold with any scheduling.

Folds. The loops of the replay and of the policies are `FoldLeft`, whose definition
chooses a recursive function. `ServicesProofs` proves that such a function exists and
that it is the loop (`Loop`, `LoopTable`), by least counterexample over the
natural numbers, and then an invariant of each loop over its position. So
ReplayCorrect, FairShare, Undominated and StartedAsDecided hold for files and
candidate lists of any length.

Side conditions of the workspace theorems. `WorkspaceDestroyable` is for calls one
at a time or machines without overlayfs: overlapping creations with overlayfs can leave
a mount that is not on record (section 3, Findings). `WorkspaceConverges` leaves out a
Destroy that overlaps other calls, which can remove the directories and the record after
another call has written the base layer and before that call stores its record, and
creations that were refused before they had written theirs. Both are conditions of
`CreatesConverge` itself, and both are needed: without either TLC finds a copy that is
registered without its base layer.

Undominated is proved of the model's exact thousandths; that rounding a
float to three decimals agrees with them is not part of the model.

Only model-checked, being out of the prover's reach:

- Liveness: DeadWorkerNoticed, EventsDelivered, DemoEnds.

Every other property of a passing run is stated by a theorem.

No module uses recursive operators.

## 5. Not modelled

What could come next: launching by the DAG once the daemon does so, and overlapping
calls on a mounted workspace once the manager locks a workspace rather than its map.

Not modelled, with the reason:

- The AVP manager and the DAG are used by their own tests only; the daemon keeps
  agents in the registry and launches without the DAG.
- `RunRMFaultDemo` and `ProbeOverlay` run the workspace operations one after the
  other on a manager of their own; the injected fault on the daemon's workspaces
  is in `Workspace`.
- The cgroup sampler: the daemon samples pending agents only, which have no
  cgroup yet, so the branch that reads cgroup files is never taken there.
  `ChargeTokens` is called by tests only; `Scheduler` has it because the policies
  are meaningless without it, `Launch` does not.
- Shared memory and eBPF programs are sequences of system calls without state of
  their own; the demo runner builds a fixed result, of which `Events` has the
  finished syscalls it publishes.
- Deadlines and timeouts of the software-real request: each wait may end well or
  give up at any moment, so nothing is claimed about how long it takes.
- Read-only HTTP handlers, evidence reports, statistics, HTTP and JSON encoding,
  `aortctl`, the dashboard and the experiments (benchmarks over the components)
  are left out for good. Registry fields that are only copied (paths, roles,
  priorities) are dropped from records.
