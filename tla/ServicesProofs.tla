--------------------------- MODULE ServicesProofs ---------------------------
(***************************************************************************)
(* Proofs about services of the daemon that have no state in common: the   *)
(* checkpoint store with the recovery at startup, the LLM router, the      *)
(* replay of traces, and the scheduler with the demo requests that use it. *)
(***************************************************************************)
EXTENDS Checkpoint, LLM, Replay, Launch,
        WellFoundedInduction, SequenceTheorems, FiniteSetTheorems, TLAPS

(***************************************************************************)
(* The checkpoint store, for any number of agents, handlers, tasks and     *)
(* crashes.  A report holds as long as no later task takes the id of a     *)
(* reported one: ids come from a clock that never goes back, every saved   *)
(* or reported id is one the clock has passed, and a request in progress   *)
(* has an id that is not in the report.                                    *)
(***************************************************************************)
Requests == [task : Nat, agents : Snapshots, step : {"open", "write", "launch"}]

CheckpointTypeOK ==
    /\ up \in BOOLEAN
    /\ clock \in Nat
    /\ run \in [Handlers -> Requests \cup {NoRun}]

\* A daemon that is down serves nobody.
DownIsIdle == ~up => \A h \in Handlers : run[h] = NoRun

IdsUsed ==
    /\ DOMAIN disk \subseteq 1..clock
    /\ DOMAIN report \subseteq 1..clock

\* What a request saves and runs is not a task of the report.
RunsAreNew ==
    \A h \in Handlers : run[h] # NoRun => run[h].task \in 1..clock \ DOMAIN report

CheckpointInv ==
    /\ CheckpointTypeOK
    /\ DownIsIdle
    /\ IdsUsed
    /\ RunsAreNew
    /\ ReportHolds

(***************************************************************************)
(* The LLM router, for any number of calls and any configuration.  A call  *)
(* that goes to the fallback goes to another provider than the one it      *)
(* asked before, so only one of the two can have been the API.             *)
(***************************************************************************)
\* A call has the fields of a request and a reply.
WellFormed(r) ==
    /\ r = [step |-> r.step, provider |-> r.provider, role |-> r.role, name |-> r.name,
            fallback |-> r.fallback, reply |-> r.reply]
    /\ r.step \in {"new", "ask", "fallback", "done", "error"}
    /\ r.step \in {"ask", "fallback"} => r.name \in Registered

RouterTypeOK ==
    /\ llmCall = [c \in Calls |-> llmCall[c]]
    /\ \A c \in Calls : WellFormed(llmCall[c])
    /\ answers \in [Calls -> Nat]

\* The fallback is asked only where it can answer as another provider.
FallbackIsOther == \A c \in Calls : llmCall[c].step = "fallback" => HasFallback(c)

\* How often the API can have answered by now.
BilledSoFar ==
    \A c \in Calls :
      /\ llmCall[c].step \in {"new", "ask"} => answers[c] = 0
      /\ llmCall[c].step = "fallback" /\ llmCall[c].name # "deepseek" => answers[c] = 0

RouterInv ==
    /\ RouterTypeOK
    /\ FallbackIsOther
    /\ BilledSoFar
    /\ BilledOnce
    /\ EvidenceHonest

-----------------------------------------------------------------------------
(* The checkpoint store: one lemma for each action. *)

\* A task that is created has an id the clock has not shown before.
LEMMA CreateTaskInv ==
    ASSUME CheckpointInv, NEW h \in Handlers, CreateTask(h)
    PROVE  CheckpointInv'
<1>1. /\ CheckpointTypeOK /\ DownIsIdle /\ IdsUsed /\ RunsAreNew /\ ReportHolds
      /\ up /\ UNCHANGED <<up, disk, tasks, report, failed>> /\ clock' = clock + 1 /\ clock \in Nat
  BY DEF CheckpointInv, CheckpointTypeOK, CreateTask
<1>2. PICK r \in Requests : run' = [run EXCEPT ![h] = r] /\ r.task = clock + 1
  <2>1. PICK snapshot \in Snapshots :
          run' = [run EXCEPT ![h] = [task |-> clock + 1, agents |-> snapshot, step |-> "open"]]
    BY DEF CreateTask, NewTask
  <2>2. [task |-> clock + 1, agents |-> snapshot, step |-> "open"] \in Requests
    BY <1>1 DEF Requests
  <2> QED BY <2>1, <2>2
<1>3. CheckpointTypeOK'
  BY <1>1, <1>2 DEF CheckpointTypeOK
<1>4. IdsUsed'
  BY <1>1 DEF IdsUsed
<1>5. RunsAreNew'
  <2>1. clock + 1 \in 1..clock' /\ clock + 1 \notin DOMAIN report
    BY <1>1 DEF IdsUsed
  <2>2. \A g \in Handlers : run'[g] = IF g = h THEN r ELSE run[g]
    BY <1>1, <1>2 DEF CheckpointTypeOK
  <2> QED BY <1>1, <1>2, <2>1, <2>2 DEF RunsAreNew
<1>6. DownIsIdle' /\ ReportHolds'
  BY <1>1 DEF DownIsIdle, ReportHolds
<1> QED BY <1>3, <1>4, <1>5, <1>6 DEF CheckpointInv

\* A step of a request keeps its task and puts nothing but its own file.
LEMMA SaveStepInv ==
    ASSUME CheckpointInv, NEW h \in Handlers, up, run[h] # NoRun,
           NEW s \in {"write", "launch"}, Step(h, s),
           disk' = disk \/ \E v : disk' = Put(disk, run[h].task, v),
           UNCHANGED <<up, tasks, report, failed, clock>>
    PROVE  CheckpointInv'
<1>1. CheckpointTypeOK /\ DownIsIdle /\ IdsUsed /\ RunsAreNew /\ ReportHolds
  BY DEF CheckpointInv
<1>2. run[h] \in Requests /\ run[h].task \in 1..clock
  BY <1>1 DEF CheckpointTypeOK, RunsAreNew
<1>3. PICK r \in Requests : run' = [run EXCEPT ![h] = r] /\ r.task = run[h].task
  <2>1. [run[h] EXCEPT !.step = s] \in Requests /\ [run[h] EXCEPT !.step = s].task = run[h].task
    BY <1>2 DEF Requests
  <2> QED BY <2>1 DEF Step
<1>4. CheckpointTypeOK'
  BY <1>1, <1>3 DEF CheckpointTypeOK
<1>5. IdsUsed'
  <2>1. DOMAIN disk' \subseteq DOMAIN disk \cup {run[h].task}
    BY DEF Put
  <2> QED BY <1>1, <1>2, <2>1 DEF IdsUsed
<1>6. RunsAreNew'
  <2>1. \A g \in Handlers : run'[g] = IF g = h THEN r ELSE run[g]
    BY <1>1, <1>3 DEF CheckpointTypeOK
  <2> QED BY <1>1, <1>3, <2>1 DEF RunsAreNew
<1>7. DownIsIdle' /\ ReportHolds'
  BY <1>1 DEF DownIsIdle, ReportHolds
<1> QED BY <1>4, <1>5, <1>6, <1>7 DEF CheckpointInv

\* The file of the task is truncated, or cannot be opened.
LEMMA SaveOpenInv ==
    ASSUME CheckpointInv, NEW h \in Handlers, StoreOpen(h)
    PROVE  CheckpointInv'
<1>1. up /\ run[h] # NoRun /\ UNCHANGED <<up, tasks, report, failed, clock>>
  BY DEF StoreOpen
<1>2. CASE disk' = Put(disk, run[h].task, Torn) /\ Step(h, "write")
  BY <1>1, <1>2, SaveStepInv
<1>3. CASE UNCHANGED disk /\ Step(h, "launch")
  BY <1>1, <1>3, SaveStepInv
<1> QED BY <1>2, <1>3 DEF StoreOpen

\* The snapshot is written into it, or the write fails.
LEMMA SaveWriteInv ==
    ASSUME CheckpointInv, NEW h \in Handlers, StoreWrite(h)
    PROVE  CheckpointInv'
<1>1. /\ up /\ run[h] # NoRun /\ UNCHANGED <<up, tasks, report, failed, clock>> /\ Step(h, "launch")
      /\ disk' = Put(disk, run[h].task, run[h].agents) \/ disk' = disk
  BY DEF StoreWrite
<1> QED BY <1>1, SaveStepInv

\* A task that is launched replaces none that the report is about.
LEMMA LaunchInv ==
    ASSUME CheckpointInv, NEW h \in Handlers, Launch(h)
    PROVE  CheckpointInv'
<1>1. /\ CheckpointTypeOK /\ DownIsIdle /\ IdsUsed /\ RunsAreNew /\ ReportHolds
      /\ up /\ run[h] # NoRun /\ run' = [run EXCEPT ![h] = NoRun]
      /\ UNCHANGED <<up, disk, report, failed, clock>>
  BY DEF CheckpointInv, Launch
<1>2. CheckpointTypeOK' /\ IdsUsed' /\ DownIsIdle'
  BY <1>1 DEF CheckpointTypeOK, IdsUsed, DownIsIdle
<1>3. RunsAreNew'
  <2>1. \A g \in Handlers : run'[g] = IF g = h THEN NoRun ELSE run[g]
    BY <1>1 DEF CheckpointTypeOK
  <2> QED BY <1>1, <2>1 DEF RunsAreNew
<1>4. ReportHolds'
  <2>1. ASSUME NEW t \in DOMAIN report
        PROVE  (t \in DOMAIN tasks => t \in DOMAIN tasks' /\ tasks'[t] = tasks[t])
    <3>1. t # run[h].task
      BY <1>1 DEF RunsAreNew
    <3> QED BY <3>1 DEF Launch, Put
  <2> QED BY <1>1, <2>1 DEF ReportHolds
<1> QED BY <1>2, <1>3, <1>4 DEF CheckpointInv

\* A crash leaves the files and the time, and nothing else.
LEMMA CrashInv ==
    ASSUME CheckpointInv, Crash
    PROVE  CheckpointInv'
<1>1. /\ CheckpointTypeOK /\ IdsUsed /\ ~up' /\ up' = FALSE /\ DOMAIN report' = {}
      /\ run' = [h \in Handlers |-> NoRun] /\ UNCHANGED <<disk, clock>>
  BY DEF CheckpointInv, Crash, NoTasks
<1> QED BY <1>1 DEF CheckpointInv, CheckpointTypeOK, DownIsIdle, IdsUsed, RunsAreNew, ReportHolds

\* The report and the tasks, which two functions make from the same snapshot,
\* agree on its status and on the agents that are ready and completed.
LEMMA ReportMatches ==
    ASSUME NEW snapshot
    PROVE  LET r == summarizeRecovery(snapshot)
               t == taskFromSnapshot(snapshot, r.status)
           IN  /\ t.status = r.status
               /\ r.ready = {a \in Agents : t.agents[a] = "READY"}
               /\ r.completed = {a \in Agents : t.agents[a] = "COMPLETED"}
BY DEF summarizeRecovery, taskFromSnapshot, isTerminal, isRecoveredTerminal

\* A start whose first listing fails or finds nothing reports nothing.
LEMMA RecoverNothingInv ==
    ASSUME CheckpointInv, RecoverNothing
    PROVE  CheckpointInv'
<1>1. /\ CheckpointTypeOK /\ DownIsIdle /\ IdsUsed /\ ~up /\ up' = TRUE /\ DOMAIN report' = {}
      /\ UNCHANGED <<disk, run, clock>>
  BY DEF CheckpointInv, RecoverNothing, NoTasks
<1> QED BY <1>1 DEF CheckpointInv, CheckpointTypeOK, DownIsIdle, IdsUsed, RunsAreNew, ReportHolds

\* Recover reports every file and restores what it reports, unless the second
\* listing fails, which is published as a failed recovery.
LEMMA RecoverInv ==
    ASSUME CheckpointInv, Recover
    PROVE  CheckpointInv'
<1>1. /\ CheckpointTypeOK /\ DownIsIdle /\ IdsUsed /\ ~up /\ up' = TRUE
      /\ UNCHANGED <<disk, run, clock>>
  BY DEF CheckpointInv, Recover
<1>2. DOMAIN report' \subseteq DOMAIN disk
  BY DEF Recover, RecoverAll
<1>3. \A t \in DOMAIN report' : report'[t] = summarizeRecovery(disk[t])
  BY DEF Recover, RecoverAll
<1>4. ~failed' => /\ DOMAIN tasks' = DOMAIN report'
                  /\ \A t \in DOMAIN report' : tasks'[t] = taskFromSnapshot(disk[t], report'[t].status)
  BY DEF Recover
<1>5. ReportHolds'
  BY <1>3, <1>4, ReportMatches DEF ReportHolds
<1>6. CheckpointTypeOK' /\ DownIsIdle' /\ IdsUsed' /\ RunsAreNew'
  BY <1>1, <1>2 DEF CheckpointTypeOK, DownIsIdle, IdsUsed, RunsAreNew
<1> QED BY <1>5, <1>6 DEF CheckpointInv

\* In every reachable state of the store the invariant holds.
THEOREM CheckpointInvariant == CSpec => []CheckpointInv
<1>1. CInit => CheckpointInv
  BY DEF CInit, NoTasks, CheckpointInv, CheckpointTypeOK, DownIsIdle, IdsUsed, RunsAreNew, ReportHolds
<1>2. CheckpointInv /\ [CNext]_cvars => CheckpointInv'
  <2> SUFFICES ASSUME CheckpointInv, [CNext]_cvars PROVE CheckpointInv'
    OBVIOUS
  <2>1. CASE CNext
    BY <2>1, CreateTaskInv, SaveOpenInv, SaveWriteInv, LaunchInv, CrashInv, RecoverNothingInv, RecoverInv DEF CNext
  <2>2. CASE UNCHANGED cvars
    BY <2>2 DEF cvars, CheckpointInv, CheckpointTypeOK, DownIsIdle, IdsUsed, RunsAreNew, ReportHolds
  <2> QED BY <2>1, <2>2
<1> QED BY <1>1, <1>2, PTL DEF CSpec

\* Unless a failed recovery was published, what the recovery report says of a
\* task stays true of the task the server holds, through every later request: no
\* later task takes a reported id.
THEOREM CheckpointReportHolds == CSpec => []ReportHolds
<1>1. CheckpointInv => ReportHolds
  BY DEF CheckpointInv
<1> QED BY <1>1, CheckpointInvariant, PTL

\* A daemon that starts with no torn file and can read them all restores every
\* saved task: recoverFromCheckpoints is the only thing that brings it up.
THEOREM CheckpointRestoredUnlessTorn == CSpec => RestoredUnlessTorn
<1>1. [CNext]_cvars =>
        [Started /\ Saved = DOMAIN disk /\ ~broken' => ~failed' /\ Saved \subseteq DOMAIN tasks']_cvars
  <2> SUFFICES ASSUME CNext, Started, Saved = DOMAIN disk, ~broken'
               PROVE  ~failed' /\ Saved \subseteq DOMAIN tasks'
    OBVIOUS
  <2>1. RecoverNothing \/ Recover
    BY DEF CNext, Started, CreateTask, StoreOpen, StoreWrite, Launch, Crash
  <2>2. Readable
    BY DEF Saved, Readable
  <2>3. CASE RecoverNothing
    BY <2>2, <2>3 DEF RecoverNothing, Saved, NoTasks
  <2>4. CASE Recover
    BY <2>4 DEF Recover, RecoverAll
  <2> QED BY <2>1, <2>3, <2>4
<1> QED BY <1>1, PTL DEF CSpec, RestoredUnlessTorn

-----------------------------------------------------------------------------
(* The LLM router: one lemma for each action. *)

\* A call that changes leaves the others as they are.
LEMMA OthersStay ==
    ASSUME RouterInv, NEW c \in Calls, NEW r, WellFormed(r), llmCall' = [llmCall EXCEPT ![c] = r],
           UNCHANGED config, answers' \in [Calls -> Nat],
           \A d \in Calls : d # c => answers'[d] = answers[d],
           r.step = "fallback" => r.fallback \in Registered /\ r.fallback # r.name,
           r.step \in {"new", "ask"} => answers'[c] = 0,
           r.step = "fallback" /\ r.name # "deepseek" => answers'[c] = 0,
           answers'[c] <= 1,
           r.step = "done" =>
             /\ r.reply.evidence = "real-api" => r.reply.text = "api"
             /\ r.reply.text # Text(r.name) => r.reply.fallback /\ r.reply.from = r.name
             /\ r.reply.fallback => r.name # r.reply.provider
    PROVE  RouterInv'
<1>1. \A d \in Calls : llmCall'[d] = IF d = c THEN r ELSE llmCall[d]
  BY DEF RouterInv, RouterTypeOK
<1>2. RouterTypeOK'
  BY <1>1 DEF RouterInv, RouterTypeOK
<1>3. FallbackIsOther'
  BY <1>1 DEF RouterInv, FallbackIsOther, HasFallback
<1>4. BilledSoFar' /\ BilledOnce'
  BY <1>1 DEF RouterInv, BilledSoFar, BilledOnce
<1>5. EvidenceHonest'
  BY <1>1 DEF RouterInv, EvidenceHonest
<1> QED BY <1>2, <1>3, <1>4, <1>5 DEF RouterInv

\* A call that selects its provider has been answered by nobody.
LEMMA SelectInv ==
    ASSUME RouterInv, NEW c \in Calls, NEW p, NEW role, selectProvider(c, p, role)
    PROVE  RouterInv'
<1>1. PICK r : /\ llmCall' = [llmCall EXCEPT ![c] = r]
               /\ r = [Unasked EXCEPT !.step = IF Name(p, role) \in Registered
                                               THEN "ask" ELSE "error",
                                      !.provider = p, !.role = role,
                                      !.name = Name(p, role), !.fallback = config.fallback]
  BY DEF selectProvider
<1>2. WellFormed(r) /\ r.step \in {"ask", "error"}
  BY <1>1 DEF Unasked, WellFormed
<1>3. answers[c] = 0 /\ answers \in [Calls -> Nat] /\ UNCHANGED <<config, answers>>
  BY DEF RouterInv, RouterTypeOK, BilledSoFar, selectProvider
<1>4. llmCall' = [llmCall EXCEPT ![c] = r]
  BY <1>1
<1>5. /\ answers' \in [Calls -> Nat] /\ \A d \in Calls : d # c => answers'[d] = answers[d]
      /\ answers'[c] = 0 /\ answers'[c] <= 1 /\ UNCHANGED config
      /\ r.step # "fallback" /\ r.step # "done"
  BY <1>2, <1>3
<1> QED BY <1>2, <1>4, <1>5, OthersStay

\* What a provider's own answer says of itself.
LEMMA ReplyFields ==
    ASSUME NEW name
    PROVE  /\ Reply(name).text = Text(name) /\ ~Reply(name).fallback
           /\ Reply(name).provider = name
           /\ Reply(name).evidence = "real-api" => Reply(name).text = "api"
BY DEF Reply, NoReply, Text

\* The selected provider answers, fails, or its answer is lost.
LEMMA AskInv ==
    ASSUME RouterInv, NEW c \in Calls, NEW ok \in BOOLEAN, NEW lost \in BOOLEAN, Ask(c, ok, lost)
    PROVE  RouterInv'
<1>1. PICK step, reply :
        /\ step = CASE ok /\ ~lost -> "done" [] HasFallback(c) -> "fallback" [] OTHER -> "error"
        /\ reply = IF ok /\ ~lost THEN Reply(llmCall[c].name) ELSE NoReply
  OBVIOUS
<1>2. /\ step \in {"done", "fallback", "error"} /\ (step = "fallback" => HasFallback(c))
      /\ step = "done" => reply = Reply(llmCall[c].name)
  BY <1>1
<1>3. PICK r : /\ r = [llmCall[c] EXCEPT !.step = step, !.reply = reply]
               /\ llmCall' = [llmCall EXCEPT ![c] = r]
  <2>1. llmCall' = [llmCall EXCEPT ![c].step = step, ![c].reply = reply]
    BY <1>1, Zenon DEF Ask
  <2> QED BY <2>1
<1>4. /\ WellFormed(llmCall[c]) /\ llmCall[c].step = "ask"
      /\ answers[c] = 0 /\ answers \in [Calls -> Nat]
  BY DEF RouterInv, RouterTypeOK, BilledSoFar, Ask
<1>5. /\ r.step = step /\ r.reply = reply /\ WellFormed(r)
      /\ r.name = llmCall[c].name /\ r.fallback = llmCall[c].fallback
  BY <1>2, <1>3, <1>4 DEF WellFormed
<1>6. /\ answers' \in [Calls -> Nat] /\ \A d \in Calls : d # c => answers'[d] = answers[d]
      /\ answers'[c] <= 1 /\ (llmCall[c].name # "deepseek" => answers'[c] = 0)
      /\ UNCHANGED config
  BY <1>4 DEF Ask, Billed
<1>7. step = "done" =>
        /\ reply.evidence = "real-api" => reply.text = "api"
        /\ reply.text = Text(llmCall[c].name) /\ ~reply.fallback
  <2>1. PICK name : name = llmCall[c].name
    OBVIOUS
  <2>2. step = "done" => reply = Reply(name)
    BY <1>2, <2>1
  <2>3. /\ Reply(name).text = Text(name) /\ ~Reply(name).fallback
        /\ Reply(name).evidence = "real-api" => Reply(name).text = "api"
    BY ReplyFields
  <2> QED BY <2>1, <2>2, <2>3
<1> QED BY <1>2, <1>3, <1>5, <1>6, <1>7, OthersStay DEF HasFallback

\* What Complete makes of the fallback's answer.
LEMMA MarkedFields ==
    ASSUME NEW c
    PROVE  /\ Marked(c).fallback = TRUE /\ Marked(c).from = llmCall[c].name
           /\ Marked(c).evidence = "mock" /\ Marked(c).provider = llmCall[c].fallback
BY DEF Marked, Reply, NoReply

\* The fallback is another provider, asked once.
LEMMA AskFallbackInv ==
    ASSUME RouterInv, NEW c \in Calls, NEW ok \in BOOLEAN, AskFallback(c, ok)
    PROVE  RouterInv'
<1>1. PICK step, reply : /\ step = IF ok THEN "done" ELSE "error"
                         /\ reply = IF ok THEN Marked(c) ELSE NoReply
  OBVIOUS
<1>2. step \in {"done", "error"} /\ (step = "done" => reply = Marked(c))
  BY <1>1
<1>3. PICK r : /\ r = [llmCall[c] EXCEPT !.step = step, !.reply = reply]
               /\ llmCall' = [llmCall EXCEPT ![c] = r]
  BY <1>1 DEF AskFallback
<1>4. /\ WellFormed(llmCall[c]) /\ llmCall[c].step = "fallback" /\ HasFallback(c)
      /\ answers \in [Calls -> Nat] /\ answers[c] <= 1
      /\ llmCall[c].name # "deepseek" => answers[c] = 0
  BY DEF RouterInv, RouterTypeOK, BilledSoFar, BilledOnce, FallbackIsOther, AskFallback
<1>5. /\ r.step = step /\ r.reply = reply /\ WellFormed(r)
      /\ r.name = llmCall[c].name /\ r.fallback = llmCall[c].fallback
  BY <1>2, <1>3, <1>4 DEF WellFormed
<1>6. /\ answers' \in [Calls -> Nat] /\ \A d \in Calls : d # c => answers'[d] = answers[d]
      /\ answers'[c] <= 1 /\ UNCHANGED config
  BY <1>4 DEF AskFallback, Billed, HasFallback
<1>7. r.step = "done" =>
        /\ r.reply.evidence = "mock" /\ r.reply.fallback /\ r.reply.from = r.name
        /\ r.name # r.reply.provider
  BY <1>2, <1>4, <1>5, MarkedFields DEF HasFallback
<1> QED BY <1>2, <1>3, <1>5, <1>6, <1>7, OthersStay

\* In every reachable state of the router the invariant holds.
THEOREM RouterInvariant == LLMSpec => []RouterInv
<1>1. LLMInit => RouterInv
  <2> SUFFICES ASSUME LLMInit PROVE RouterInv
    OBVIOUS
  <2>1. WellFormed(Unasked) /\ Unasked.step = "new"
    BY DEF WellFormed, Unasked
  <2>2. /\ \A c \in Calls : llmCall[c] = Unasked /\ answers[c] = 0
        /\ llmCall = [c \in Calls |-> llmCall[c]] /\ answers \in [Calls -> Nat]
    BY DEF LLMInit
  <2> QED BY <2>1, <2>2 DEF RouterInv, RouterTypeOK, FallbackIsOther, BilledSoFar, BilledOnce,
       EvidenceHonest
<1>2. RouterInv /\ [LLMNext]_llmvars => RouterInv'
  <2> SUFFICES ASSUME RouterInv, [LLMNext]_llmvars PROVE RouterInv'
    OBVIOUS
  <2>1. ASSUME NEW c \in Calls, NEW p, NEW r, selectProvider(c, p, r)
        PROVE  RouterInv'
    BY <2>1, SelectInv
  <2>2. ASSUME NEW c \in Calls, NEW ok \in BOOLEAN, NEW lost \in BOOLEAN,
               Ask(c, ok, lost) \/ AskFallback(c, ok)
        PROVE  RouterInv'
    BY <2>2, AskInv, AskFallbackInv
  <2>3. ASSUME UNCHANGED <<config, llmCall, answers>>
        PROVE  RouterInv'
    BY <2>3 DEF RouterInv, RouterTypeOK, FallbackIsOther, HasFallback, BilledSoFar, BilledOnce,
       EvidenceHonest
  <2> QED BY <2>1, <2>2, <2>3 DEF LLMNext, Cancel, llmvars
<1> QED BY <1>1, <1>2, PTL DEF LLMSpec

\* No answer is labelled as more than it is, whichever provider failed, was
\* cancelled or answered in the other's place.
THEOREM RouterEvidenceHonest == LLMSpec => []EvidenceHonest
<1>1. RouterInv => EvidenceHonest
  BY DEF RouterInv
<1> QED BY <1>1, RouterInvariant, PTL

\* No call is answered by the API twice: Complete asks a fallback only if it is
\* another provider than the one whose answer may have been lost.
THEOREM RouterBilledOnce == LLMSpec => []BilledOnce
<1>1. RouterInv => BilledOnce
  BY DEF RouterInv
<1> QED BY <1>1, RouterInvariant, PTL

-----------------------------------------------------------------------------
(***************************************************************************)
(* Folds.                                                                  *)
(*                                                                         *)
(* The loops of the code over a slice are folds of SequencesExt, which     *)
(* recurse over the sets of indexes.  A table of their values exists, so   *)
(* a fold is the last of the values the loop goes through.                 *)
(***************************************************************************)
\* A set of naturals has a least element.
LEMMA NatLeast ==
    ASSUME NEW T \in SUBSET Nat, T # {}
    PROVE  \E n \in T : \A m \in T : n <= m
<1> DEFINE R == {ss \in Nat \X Nat : ss[1] < ss[2]}
<1>1. IsWellFoundedOn(R, Nat)
  BY NatLessThanWellFounded, Zenon DEF OpToRel
<1>2. PICK x \in T : \A y \in T : ~(<<y, x>> \in R)
  <2> HIDE DEF R
  <2> QED BY <1>1, WFMin
<1>3. ASSUME NEW y \in T, y < x PROVE FALSE
  <2>1. <<y, x>> \in Nat \X Nat /\ <<y, x>>[1] = y /\ <<y, x>>[2] = x
    OBVIOUS
  <2>2. <<y, x>> \in R
    BY <1>3, <2>1, Zenon DEF R
  <2> QED BY <1>2, <2>2
<1> QED BY <1>3

\* Induction up to a bound.
LEMMA UpTo ==
    ASSUME NEW n \in Nat, NEW S, 0 \in S, \A k \in 0..n : k < n /\ k \in S => k + 1 \in S
    PROVE  \A k \in 0..n : k \in S
<1> SUFFICES ASSUME NEW k \in 0..n, k \notin S PROVE FALSE
  OBVIOUS
<1> DEFINE T == {i \in 0..n : i \notin S}
<1>1. T \in SUBSET Nat /\ T # {}
  OBVIOUS
<1>2. PICK m \in T : \A i \in T : m <= i
  <2> HIDE DEF T
  <2> QED BY <1>1, NatLeast
<1>3. m \in 0..n /\ m \notin S /\ m # 0
  OBVIOUS
<1>4. m - 1 \in 0..n /\ m - 1 < n /\ (m - 1) + 1 = m /\ ~(m <= m - 1)
  BY <1>3
<1>5. m - 1 \in S
  BY <1>2, <1>4
<1> QED BY <1>3, <1>4, <1>5

\* The greatest of a set that has the upper bound.
LEMMA MaxTop ==
    ASSUME NEW n \in Nat, NEW t \in SUBSET (1..n), n \in t
    PROVE  Max(t) = n
<1>1. \A y \in t : n >= y
  OBVIOUS
<1>2. ASSUME NEW x \in t, \A y \in t : x >= y PROVE x = n
  <2>1. x \in 1..n /\ x >= n
    BY <1>2
  <2> QED BY <2>1
<1> QED BY <1>1, <1>2 DEF Max

\* A nonempty set of indexes has a greatest one.
LEMMA MaxIn ==
    ASSUME NEW n \in Nat, NEW t \in SUBSET (1..n), t # {}
    PROVE  Max(t) \in t
<1> DEFINE T == {n - x : x \in t}
<1>1. T \in SUBSET Nat /\ T # {}
  <2>1. ASSUME NEW x \in t PROVE n - x \in Nat
    <3>1. x \in 1..n
      OBVIOUS
    <3> QED BY <3>1
  <2>2. PICK x : x \in t
    OBVIOUS
  <2>3. n - x \in T
    BY <2>2
  <2> QED BY <2>1, <2>3
<1>2. PICK m \in T : \A k \in T : m <= k
  <2> HIDE DEF T
  <2> QED BY <1>1, NatLeast
<1>3. PICK x \in t : m = n - x
  OBVIOUS
<1>4. ASSUME NEW y \in t PROVE x >= y
  <2>1. n - y \in T /\ x \in 1..n /\ y \in 1..n
    OBVIOUS
  <2>2. n - x <= n - y
    BY <1>2, <1>3, <2>1
  <2> QED BY <2>1, <2>2
<1> QED BY <1>4 DEF Max

\* A loop over the first n elements of s that starts with base and goes from
\* a to h[a][b] at element b.
Loop(A, B, base, n, s, h) ==
    base \in A /\ n \in Nat /\ s \in [1..n -> B] /\ h \in [A -> [B -> A]]

\* Its values on the sets of indexes.
LoopTable(it, A, base, n, s, h) ==
    /\ it \in [SUBSET (1..n) -> A]
    /\ \A t \in SUBSET (1..n) : it[t] = IF t = {} THEN base ELSE h[it[t \ {Max(t)}]][s[Max(t)]]

\* The values of a fold on the subsets of its indexes exist.
LEMMA FoldTable ==
    ASSUME NEW A, NEW B, NEW base, NEW n, NEW s, NEW h, Loop(A, B, base, n, s, h)
    PROVE  \E it : LoopTable(it, A, base, n, s, h)
<1>0. base \in A /\ n \in Nat /\ s \in [1..n -> B] /\ h \in [A -> [B -> A]]
  BY DEF Loop
<1> DEFINE Table(k, it) ==
             \A t \in SUBSET (1..k) : it[t] = IF t = {} THEN base ELSE h[it[t \ {Max(t)}]][s[Max(t)]]
           S == {k \in 0..n : \E it \in [SUBSET (1..k) -> A] : Table(k, it)}
<1>1. 0 \in S
  <2> DEFINE it == [t \in SUBSET (1..0) |-> base]
  <2>1. \A t \in SUBSET (1..0) : t = {}
    OBVIOUS
  <2>2. it \in [SUBSET (1..0) -> A] /\ \A t \in SUBSET (1..0) : it[t] = base
    BY <1>0
  <2> HIDE DEF it
  <2>3. Table(0, it)
    BY <2>1, <2>2, Zenon
  <2>4. 0 \in 0..n
    BY <1>0
  <2> HIDE DEF Table
  <2> QED BY <2>2, <2>3, <2>4
<1>2. ASSUME NEW k \in 0..n, k < n, k \in S PROVE k + 1 \in S
  <2>1. PICK it \in [SUBSET (1..k) -> A] : Table(k, it)
    BY <1>2
  <2> DEFINE j == k + 1
             longer == [t \in SUBSET (1..j) |-> IF j \in t THEN h[it[t \ {j}]][s[j]] ELSE it[t]]
  <2>2. j \in 0..n /\ j \in 1..n /\ j \in Nat /\ s[j] \in B /\ j \notin 1..k
    BY <1>0, <1>2
  <2>3. ASSUME NEW t \in SUBSET (1..j) PROVE t \ {j} \in SUBSET (1..k) /\ (j \notin t => t \in SUBSET (1..k))
    OBVIOUS
  <2>8. ASSUME NEW t \in SUBSET (1..k) PROVE t \in SUBSET (1..j) /\ j \notin t
    OBVIOUS
  <2>9. ASSUME NEW t \in SUBSET (1..j), j \in t PROVE Max(t) = j
    BY <2>2, <2>9, MaxTop
  <2> HIDE DEF j
  <2>4. longer \in [SUBSET (1..j) -> A]
    <3>1. ASSUME NEW t \in SUBSET (1..j) PROVE (IF j \in t THEN h[it[t \ {j}]][s[j]] ELSE it[t]) \in A
      <4>1. CASE j \in t
        <5>1. t \ {j} \in SUBSET (1..k)
          BY <2>3
        <5>2. PICK v \in A : v = it[t \ {j}]
          BY <5>1
        <5>3. PICK w \in [B -> A] : w = h[v]
          BY <1>0
        <5>4. w[s[j]] \in A
          BY <2>2
        <5> QED BY <4>1, <5>2, <5>3, <5>4, Zenon
      <4>2. CASE j \notin t
        <5>1. t \in SUBSET (1..k)
          BY <2>3, <4>2
        <5> QED BY <4>2, <5>1
      <4> QED BY <4>1, <4>2
    <3> QED BY <3>1
  <2>5. /\ \A t \in SUBSET (1..j) : longer[t] = IF j \in t THEN h[it[t \ {j}]][s[j]] ELSE it[t]
    OBVIOUS
  <2>10. ASSUME NEW t \in SUBSET (1..k) PROVE longer[t] = it[t]
    BY <2>5, <2>8
  <2> HIDE DEF longer, Table
  <2>6. Table(j, longer)
    <3> SUFFICES ASSUME NEW t \in SUBSET (1..j)
                 PROVE  longer[t] = IF t = {} THEN base ELSE h[longer[t \ {Max(t)}]][s[Max(t)]]
      BY Zenon DEF Table
    <3>1. CASE j \in t
      <4>1. Max(t) = j /\ t # {} /\ t \ {j} \in SUBSET (1..k)
        BY <2>3, <2>9, <3>1
      <4>2. longer[t] = h[it[t \ {j}]][s[j]] /\ longer[t \ {j}] = it[t \ {j}]
        BY <2>5, <2>10, <3>1, <4>1
      <4> QED BY <4>1, <4>2, Zenon
    <3>2. CASE j \notin t
      <4>1. t \in SUBSET (1..k) /\ t \ {Max(t)} \in SUBSET (1..k)
        BY <2>3, <3>2
      <4>2. longer[t] = it[t] /\ longer[t \ {Max(t)}] = it[t \ {Max(t)}]
        BY <2>10, <4>1
      <4>3. it[t] = IF t = {} THEN base ELSE h[it[t \ {Max(t)}]][s[Max(t)]]
        BY <2>1, <4>1, Zenon DEF Table
      <4> QED BY <4>2, <4>3, Zenon
    <3> QED BY <3>1, <3>2
  <2>7. j \in S
    BY <2>2, <2>4, <2>6
  <2> QED BY <2>7 DEF j
<1> HIDE DEF S
<1>3. n \in S
  <2>1. n \in 0..n
    BY <1>0
  <2> QED BY <1>0, <1>1, <1>2, <2>1, UpTo
<1> QED BY <1>3, Zenon DEF S, LoopTable

\* The index sets of the prefixes.
LEMMA PrefixIndexes ==
    ASSUME NEW n \in Nat, NEW i \in 1..n
    PROVE  /\ 1..i \in SUBSET (1..n) /\ 1..i # {} /\ Max(1..i) = i /\ (1..i) \ {i} = 1..(i - 1)
<1>1. (1..i) \in SUBSET (1..n) /\ (1..i) # {} /\ i \in 1..i /\ i \in Nat
  OBVIOUS
<1>2. Max(1..i) = i
  BY <1>1, MaxTop
<1>3. (1..i) \ {i} = 1..(i - 1)
  OBVIOUS
<1> QED BY <1>1, <1>2, <1>3, Zenon

-----------------------------------------------------------------------------
(***************************************************************************)
(* The replay of a trace.                                                  *)
(***************************************************************************)
TraceStates ==
    [first : BOOLEAN, previous : Nat, original : Texts \cup {NoText, "unknown", "completed", "failed"},
     divergence : BOOLEAN]

\* The recursive table behind the fold of ReplayEvents.
ReplayTable(s) ==
    CHOOSE iter : iter = [t \in SUBSET DOMAIN s |->
                            IF t = {} THEN Unread ELSE ReplayEvent(iter[t \ {Max(t)}], s[Max(t)])]

\* A step of the loop keeps the types.
LEMMA ReplayEventType ==
    ASSUME NEW r \in TraceStates, NEW e \in TraceEvents
    PROVE  ReplayEvent(r, e) \in TraceStates
<1>1. e.time \in Nat
  BY ReplayAssumption DEF TraceEvents
<1>2. statusFromEvent(e) \in Texts \cup {NoText, "unknown", "completed", "failed"}
  BY DEF statusFromEvent, TraceEvents
<1>3. NextStatus(r, e) \in Texts \cup {NoText, "unknown", "completed", "failed"}
  BY <1>2 DEF NextStatus, TraceStates
<1>4. PICK x : x = NextStatus(r, e)
  OBVIOUS
<1>5. [r EXCEPT !.first = FALSE, !.previous = e.time, !.original = x] \in TraceStates
  BY <1>1, <1>3, <1>4 DEF TraceStates
<1>6. [r EXCEPT !.divergence = TRUE] \in TraceStates
  BY DEF TraceStates
<1> QED BY <1>4, <1>5, <1>6 DEF ReplayEvent, diverged

\* The loop of ReplayEvents goes through a state for every prefix.
LEMMA ReplayLoop ==
    ASSUME NEW s \in Seq(TraceEvents)
    PROVE  \E g \in [0..Len(s) -> TraceStates] :
              /\ g[0] = Unread
              /\ \A i \in 1..Len(s) : g[i] = ReplayEvent(g[i - 1], s[i])
              /\ FoldLeft(ReplayEvent, Unread, s) = g[Len(s)]
<1>1. PICK n \in Nat : n = Len(s) /\ DOMAIN s = 1..n /\ s \in [1..n -> TraceEvents]
  BY LenProperties
<1>2. Unread \in TraceStates
  BY DEF Unread, TraceStates
<1> DEFINE h == [r \in TraceStates |-> [e \in TraceEvents |-> ReplayEvent(r, e)]]
<1>3. h \in [TraceStates -> [TraceEvents -> TraceStates]]
  BY ReplayEventType
<1>4. ASSUME NEW r \in TraceStates, NEW e \in TraceEvents PROVE h[r][e] = ReplayEvent(r, e)
  OBVIOUS
<1> HIDE DEF h
<1>5. PICK it : /\ it \in [SUBSET (1..n) -> TraceStates]
                /\ \A t \in SUBSET (1..n) :
                      it[t] = IF t = {} THEN Unread ELSE h[it[t \ {Max(t)}]][s[Max(t)]]
  <2>1. Loop(TraceStates, TraceEvents, Unread, n, s, h)
    BY <1>1, <1>2, <1>3 DEF Loop
  <2>2. PICK it : LoopTable(it, TraceStates, Unread, n, s, h)
    BY <2>1, FoldTable, Zenon
  <2> QED BY <2>2, Zenon DEF LoopTable
<1>6. it = [t \in SUBSET DOMAIN s |-> IF t = {} THEN Unread ELSE ReplayEvent(it[t \ {Max(t)}], s[Max(t)])]
  <2>1. ASSUME NEW t \in SUBSET (1..n)
        PROVE  it[t] = IF t = {} THEN Unread ELSE ReplayEvent(it[t \ {Max(t)}], s[Max(t)])
    <3>1. CASE t = {}
      BY <1>5, <3>1, Zenon
    <3>2. CASE t # {}
      <4>1. Max(t) \in t
        BY <1>1, <3>2, MaxIn
      <4>2. s[Max(t)] \in TraceEvents /\ it[t \ {Max(t)}] \in TraceStates
        BY <1>1, <1>5, <4>1
      <4>3. it[t] = h[it[t \ {Max(t)}]][s[Max(t)]]
        BY <1>5, <3>2, Zenon
      <4> QED BY <1>4, <3>2, <4>2, <4>3, Zenon
    <3> QED BY <3>1, <3>2
  <2> QED BY <1>1, <1>5, <2>1, Zenon
<1>7. PICK f : /\ f = ReplayTable(s)
               /\ f = [t \in SUBSET DOMAIN s |->
                         IF t = {} THEN Unread ELSE ReplayEvent(f[t \ {Max(t)}], s[Max(t)])]
  BY <1>6, Zenon DEF ReplayTable
<1>8. FoldLeft(ReplayEvent, Unread, s) = f[1..n]
  BY <1>1, <1>7, Zenon DEF FoldLeft, MapThenFoldSet, ReplayTable
<1>9. f[{}] = Unread /\ \A i \in 1..n : f[1..i] = ReplayEvent(f[1..(i - 1)], s[i])
  <2>1. f[{}] = Unread
    BY <1>7
  <2>2. ASSUME NEW i \in 1..n PROVE f[1..i] = ReplayEvent(f[1..(i - 1)], s[i])
    <3>1. /\ (1..i) \in SUBSET (1..n) /\ (1..i) # {} /\ Max(1..i) = i /\ (1..i) \ {i} = 1..(i - 1)
      BY PrefixIndexes
    <3>2. f[1..i] = ReplayEvent(f[(1..i) \ {Max(1..i)}], s[Max(1..i)])
      BY <1>1, <1>7, <3>1, Zenon
    <3> QED BY <3>1, <3>2, Zenon
  <2> QED BY <2>1, <2>2
<1> DEFINE S == {k \in 0..n : f[1..k] \in TraceStates}
<1>10. 0 \in S
  <2>1. 1..0 = {} /\ 0 \in 0..n
    OBVIOUS
  <2> QED BY <1>2, <1>9, <2>1
<1>11. ASSUME NEW k \in 0..n, k < n, k \in S PROVE k + 1 \in S
  <2>1. k + 1 \in 1..n /\ k + 1 \in 0..n /\ (k + 1) - 1 = k /\ f[1..k] \in TraceStates
    BY <1>11
  <2>2. f[1..(k + 1)] = ReplayEvent(f[1..k], s[k + 1]) /\ s[k + 1] \in TraceEvents
    BY <1>1, <1>9, <2>1
  <2>3. f[1..(k + 1)] \in TraceStates
    BY <2>1, <2>2, ReplayEventType
  <2> QED BY <2>1, <2>3
<1>12. \A k \in 0..n : f[1..k] \in TraceStates
  <2>1. \A k \in 0..n : k \in S
    <3> HIDE DEF S
    <3> QED BY <1>10, <1>11, UpTo
  <2> QED BY <2>1
<1> DEFINE g == [i \in 0..n |-> f[1..i]]
<1>13. g \in [0..n -> TraceStates] /\ \A i \in 0..n : g[i] = f[1..i]
  BY <1>12
<1> HIDE DEF g
<1>14. g[0] = Unread
  <2>1. 1..0 = {} /\ 0 \in 0..n
    OBVIOUS
  <2> QED BY <1>9, <1>13, <2>1
<1>15. ASSUME NEW i \in 1..n PROVE g[i] = ReplayEvent(g[i - 1], s[i])
  <2>1. i \in 0..n /\ i - 1 \in 0..n
    OBVIOUS
  <2> QED BY <1>9, <1>13, <2>1
<1>16. FoldLeft(ReplayEvent, Unread, s) = g[n]
  <2>1. n \in 0..n
    OBVIOUS
  <2> QED BY <1>8, <1>13, <2>1
<1> QED BY <1>1, <1>13, <1>14, <1>15, <1>16

\* An event whose stamp cannot be read or is before that of its neighbour.
BadAt(s, k) == s[k].time = Unparsable \/ (k > 1 /\ s[k].time < s[k - 1].time)

\* What the loop has kept after i events of s.
KeptAt(s, i, r) ==
    /\ r.divergence <=> \E k \in 1..i : BadAt(s, k)
    /\ ~r.divergence =>
         /\ r.first <=> i = 0
         /\ i > 0 => r.previous = s[i].time
         /\ \/ r.original = "unknown" /\ \A k \in 1..i : statusFromEvent(s[k]) = NoText
            \/ \E k \in 1..i : /\ statusFromEvent(s[k]) # NoText /\ r.original = statusFromEvent(s[k])
                               /\ \A m \in 1..i : m > k => statusFromEvent(s[m]) = NoText

\* The indexes up to the next one.
LEMMA NextIndex ==
    ASSUME NEW k \in Nat
    PROVE  /\ \A m : m \in 1..(k + 1) <=> m \in 1..k \/ m = k + 1
           /\ \A m \in 1..k : ~(m > k + 1) /\ k + 1 > m
           /\ ~(k + 1 > k + 1) /\ (k + 1 > 1 <=> k # 0) /\ (k + 1) - 1 = k /\ k + 1 # 0 /\ k + 1 > 0
           /\ (k # 0 <=> k > 0)
<1> QED OBVIOUS

\* One more event.
LEMMA KeptNext ==
    ASSUME NEW s \in Seq(TraceEvents), NEW k \in Nat, k + 1 \in 1..Len(s), NEW r \in TraceStates,
           KeptAt(s, k, r)
    PROVE  KeptAt(s, k + 1, ReplayEvent(r, s[k + 1]))
<1>1. PICK j : j = k + 1
  OBVIOUS
<1>2. /\ \A m : m \in 1..j <=> m \in 1..k \/ m = j
      /\ \A m \in 1..k : ~(m > j) /\ j > m
      /\ ~(j > j) /\ (j > 1 <=> k # 0) /\ j - 1 = k /\ j # 0 /\ j > 0 /\ (k # 0 <=> k > 0)
  BY <1>1, NextIndex
<1>3. PICK e : e = s[j]
  OBVIOUS
<1>4. e \in TraceEvents
  BY <1>1, <1>3
<1>5. PICK x : x = statusFromEvent(e)
  OBVIOUS
<1>6. CASE r.divergence
  <2>1. ReplayEvent(r, e) = r
    BY <1>6 DEF ReplayEvent
  <2>2. \E m \in 1..j : BadAt(s, m)
    BY <1>2, <1>6, Zenon DEF KeptAt
  <2> QED BY <1>1, <1>3, <1>6, <2>1, <2>2, Zenon DEF KeptAt
<1>7. CASE ~r.divergence
  <2>1. /\ \A m \in 1..k : ~BadAt(s, m)
        /\ (r.first <=> k = 0) /\ (k > 0 => r.previous = s[k].time)
    BY <1>7, Zenon DEF KeptAt
  <2>2. BadAt(s, j) <=> e.time = Unparsable \/ OutOfOrder(r, e)
    BY <1>2, <1>3, <2>1, Zenon DEF BadAt, OutOfOrder
  <2>3. CASE BadAt(s, j)
    <3>1. ReplayEvent(r, e) = diverged(r)
      BY <1>7, <2>2, <2>3 DEF ReplayEvent
    <3>2. diverged(r).divergence
      BY DEF diverged, TraceStates
    <3>3. \E m \in 1..j : BadAt(s, m)
      BY <1>2, <2>3, Zenon
    <3> QED BY <1>1, <1>3, <3>1, <3>2, <3>3, Zenon DEF KeptAt
  <2>4. CASE ~BadAt(s, j)
    <3>1. PICK q : q = [r EXCEPT !.first = FALSE, !.previous = e.time, !.original = NextStatus(r, e)]
      OBVIOUS
    <3>2. ReplayEvent(r, e) = q
      BY <1>7, <2>2, <2>4, <3>1 DEF ReplayEvent
    <3>3. PICK y : y = NextStatus(r, e)
      OBVIOUS
    <3>4. /\ q.first = FALSE /\ q.previous = e.time /\ q.original = y /\ q.divergence = FALSE
      BY <1>7, <3>1, <3>3 DEF TraceStates
    <3>5. ~ \E m \in 1..j : BadAt(s, m)
      BY <1>2, <2>1, <2>4, Zenon
    <3>6. \/ y = "unknown" /\ \A m \in 1..j : statusFromEvent(s[m]) = NoText
          \/ \E m \in 1..j : /\ statusFromEvent(s[m]) # NoText /\ y = statusFromEvent(s[m])
                             /\ \A l \in 1..j : l > m => statusFromEvent(s[l]) = NoText
      <4>1. CASE x # NoText
        <5>1. y = x
          BY <1>5, <3>3, <4>1 DEF NextStatus
        <5>2. j \in 1..j /\ \A l \in 1..j : ~(l > j)
          BY <1>2, Zenon
        <5> QED BY <1>3, <1>5, <4>1, <5>1, <5>2, Zenon
      <4>2. CASE x = NoText
        <5>1. y = r.original
          BY <1>5, <3>3, <4>2 DEF NextStatus
        <5>2. statusFromEvent(s[j]) = NoText
          BY <1>3, <1>5, <4>2, Zenon
        <5>3. CASE r.original = "unknown" /\ \A m \in 1..k : statusFromEvent(s[m]) = NoText
          BY <1>2, <5>1, <5>2, <5>3, Zenon
        <5>4. ASSUME NEW m \in 1..k, statusFromEvent(s[m]) # NoText, r.original = statusFromEvent(s[m]),
                     \A l \in 1..k : l > m => statusFromEvent(s[l]) = NoText
              PROVE  \E i \in 1..j : /\ statusFromEvent(s[i]) # NoText /\ y = statusFromEvent(s[i])
                                     /\ \A l \in 1..j : l > i => statusFromEvent(s[l]) = NoText
          <6>1. m \in 1..j
            BY <1>2, Zenon
          <6>2. \A l \in 1..j : l > m => statusFromEvent(s[l]) = NoText
            BY <1>2, <5>2, <5>4, Zenon
          <6> QED BY <5>1, <5>4, <6>1, <6>2, Zenon
        <5> QED BY <1>7, <5>3, <5>4, Zenon DEF KeptAt
      <4> QED BY <4>1, <4>2
    <3>7. KeptAt(s, j, q)
      BY <1>2, <1>3, <3>4, <3>5, <3>6, Zenon DEF KeptAt
    <3> QED BY <1>1, <1>3, <3>2, <3>7, Zenon
  <2> QED BY <2>3, <2>4
<1> QED BY <1>6, <1>7

\* What the loop keeps of the whole trace.
LEMMA KeptAtEnd ==
    ASSUME NEW s \in Seq(TraceEvents)
    PROVE  /\ FoldLeft(ReplayEvent, Unread, s) \in TraceStates
           /\ KeptAt(s, Len(s), FoldLeft(ReplayEvent, Unread, s))
<1>1. PICK n \in Nat : n = Len(s)
  OBVIOUS
<1>2. PICK g \in [0..n -> TraceStates] :
        /\ g[0] = Unread
        /\ \A i \in 1..n : g[i] = ReplayEvent(g[i - 1], s[i])
        /\ FoldLeft(ReplayEvent, Unread, s) = g[n]
  BY <1>1, ReplayLoop, Zenon
<1> DEFINE S == {k \in 0..n : KeptAt(s, k, g[k])}
<1>3. 0 \in S
  <2>1. 0 \in 0..n /\ (\A k : k \notin 1..0) /\ ~(0 > 0)
    OBVIOUS
  <2>2. Unread.divergence = FALSE /\ Unread.first = TRUE /\ Unread.original = "unknown"
    BY DEF Unread
  <2>3. KeptAt(s, 0, Unread)
    BY <2>1, <2>2, Zenon DEF KeptAt
  <2> QED BY <1>2, <2>1, <2>3
<1>4. ASSUME NEW k \in 0..n, k < n, k \in S PROVE k + 1 \in S
  <2>1. k \in Nat /\ k + 1 \in 1..n /\ k + 1 \in 0..n /\ (k + 1) - 1 = k
    BY <1>4
  <2>2. KeptAt(s, k, g[k]) /\ g[k] \in TraceStates
    BY <1>2, <1>4
  <2>3. KeptAt(s, k + 1, ReplayEvent(g[k], s[k + 1]))
    BY <1>1, <2>1, <2>2, KeptNext, Zenon
  <2>4. g[k + 1] = ReplayEvent(g[k], s[k + 1])
    BY <1>2, <2>1, Zenon
  <2> QED BY <2>1, <2>3, <2>4
<1>5. \A k \in 0..n : k \in S
  <2> HIDE DEF S
  <2> QED BY <1>3, <1>4, UpTo
<1>6. n \in 0..n
  OBVIOUS
<1> QED BY <1>1, <1>2, <1>5, <1>6

\* Neighbours in order are in order as a whole.
LEMMA NeighboursOrdered ==
    ASSUME NEW s \in Seq(TraceEvents)
    PROVE  Ordered(s) <=> ~ \E k \in 1..Len(s) : BadAt(s, k)
<1>1. PICK n \in Nat : n = Len(s) /\ DOMAIN s = 1..n
  OBVIOUS
<1>2. \A k \in 1..n : s[k].time \in Nat
  <2>1. \A e \in TraceEvents : e.time \in Nat
    BY ReplayAssumption DEF TraceEvents
  <2> QED BY <1>1, <2>1
<1>3. ASSUME Ordered(s), NEW k \in 1..n, BadAt(s, k) PROVE FALSE
  <2>1. s[k].time # Unparsable
    BY <1>1, <1>3 DEF Ordered
  <2>2. k > 1 /\ s[k].time < s[k - 1].time
    BY <1>3, <2>1, Zenon DEF BadAt
  <2>3. k - 1 \in 1..n /\ k - 1 < k
    BY <2>2
  <2>4. s[k - 1].time <= s[k].time
    BY <1>1, <1>3, <2>3, Zenon DEF Ordered
  <2> QED BY <1>2, <2>2, <2>3, <2>4
<1>4. ASSUME \A k \in 1..n : ~BadAt(s, k) PROVE Ordered(s)
  <2> DEFINE S == {k \in 0..n : \A m \in 1..k : s[m].time <= s[k].time}
  <2>1. 0 \in S
    OBVIOUS
  <2>2. ASSUME NEW k \in 0..n, k < n, k \in S PROVE k + 1 \in S
    <3>1. k + 1 \in 1..n /\ k + 1 \in 0..n /\ (k + 1) - 1 = k /\ (k # 0 => k \in 1..n /\ k + 1 > 1)
      BY <2>2
    <3>2. ASSUME k # 0 PROVE s[k].time <= s[k + 1].time
      <4>1. ~(s[k + 1].time < s[k].time)
        BY <1>4, <3>1, <3>2, Zenon DEF BadAt
      <4> QED BY <1>2, <3>1, <3>2, <4>1
    <3>3. ASSUME NEW m \in 1..(k + 1) PROVE s[m].time <= s[k + 1].time
      <4>1. CASE m = k + 1
        BY <1>2, <3>1, <4>1
      <4>2. CASE m # k + 1
        <5>1. m \in 1..k /\ m \in 1..n /\ k # 0
          BY <4>2, <3>1
        <5>2. s[m].time <= s[k].time
          BY <2>2, <5>1
        <5> QED BY <1>2, <3>1, <3>2, <5>1, <5>2
      <4> QED BY <4>1, <4>2
    <3> QED BY <3>1, <3>3
  <2>3. \A k \in 0..n : k \in S
    <3> HIDE DEF S
    <3> QED BY <2>1, <2>2, UpTo
  <2>4. ASSUME NEW k \in 1..n PROVE s[k].time # Unparsable
    BY <1>4, Zenon DEF BadAt
  <2>5. ASSUME NEW k \in 1..n, NEW m \in 1..n, m < k PROVE s[m].time <= s[k].time
    <3>1. k \in 0..n /\ m \in 1..k
      BY <2>5
    <3> QED BY <2>3, <3>1
  <2> QED BY <1>1, <2>4, <2>5, Zenon DEF Ordered
<1> QED BY <1>1, <1>3, <1>4, Zenon

\* One pass over the events finds every trace that is out of order or has an
\* unreadable stamp, and reports the last status told, for traces of any length
\* (ReplayEvents).
THEOREM ReplayIsCorrect ==
    ASSUME file \in Seq(TraceEvents)
    PROVE  ReplayCorrect
<1>1. PICK r \in TraceStates : r = FoldLeft(ReplayEvent, Unread, file) /\ KeptAt(file, Len(file), r)
  BY KeptAtEnd
<1>2. PICK n \in Nat : n = Len(file) /\ DOMAIN file = 1..n
  OBVIOUS
<1>3. /\ ReplayEvents(file).success = ~r.divergence
      /\ ~r.divergence => ReplayEvents(file).final =
                            IF r.original = "unknown" /\ file # <<>> THEN "completed" ELSE r.original
  BY <1>1 DEF ReplayEvents
<1>4. Ordered(file) <=> ~r.divergence
  BY <1>1, NeighboursOrdered, Zenon DEF KeptAt
<1>5. ASSUME ~r.divergence
      PROVE  Told(file) = IF r.original = "unknown" /\ file # <<>> THEN "completed" ELSE r.original
  <2> DEFINE telling == {i \in DOMAIN file : statusFromEvent(file[i]) # NoText}
  <2>1. CASE r.original = "unknown" /\ \A k \in 1..n : statusFromEvent(file[k]) = NoText
    <3>1. telling = {}
      BY <1>2, <2>1
    <3> QED BY <2>1, <3>1, Zenon DEF Told
  <2>2. ASSUME NEW k \in 1..n, statusFromEvent(file[k]) # NoText, r.original = statusFromEvent(file[k]),
               \A m \in 1..n : m > k => statusFromEvent(file[m]) = NoText
        PROVE  Told(file) = IF r.original = "unknown" /\ file # <<>> THEN "completed" ELSE r.original
    <3>1. k \in telling
      BY <1>2, <2>2
    <3>2. ASSUME NEW m \in telling PROVE m <= k
      <4>1. m \in 1..n /\ ~(m > k)
        BY <1>2, <2>2, <3>2
      <4> QED BY <4>1
    <3>3. ASSUME NEW i \in telling, \A m \in telling : m <= i PROVE i = k
      <4>1. i \in 1..n /\ k <= i /\ i <= k
        BY <1>2, <3>1, <3>2, <3>3
      <4> QED BY <4>1
    <3>4. (CHOOSE i \in telling : \A m \in telling : m <= i) = k
      <4> HIDE DEF telling
      <4> QED BY <3>1, <3>2, <3>3, Zenon
    <3>5. telling # {}
      BY <3>1
    <3> QED BY <2>2, <3>4, <3>5, Zenon DEF Told
  <2> QED BY <1>1, <1>2, <1>5, <2>1, <2>2, Zenon DEF KeptAt
<1> QED BY <1>3, <1>4, <1>5, Zenon DEF ReplayCorrect

(***************************************************************************)
(* The policies of the scheduler.                                          *)
(***************************************************************************)
\* Candidates whose fields are compared as naturals.
Comparable(E) == \A c \in E : c.vruntime \in Nat /\ c.created \in Nat

\* The least of a set of naturals.
LEMMA MinIn ==
    ASSUME NEW t \in SUBSET Nat, t # {}
    PROVE  Min(t) \in t /\ \A y \in t : Min(t) <= y
<1>1. PICK x \in t : \A y \in t : x <= y
  BY NatLeast
<1> QED BY <1>1 DEF Min

\* Some index has the least value of a field.
LEMMA LeastIn ==
    ASSUME NEW cs, NEW key, NEW among \in SUBSET Nat, among # {}, \A i \in among : cs[i][key] \in Nat
    PROVE  Least(cs, among, key) # {} /\ Least(cs, among, key) \subseteq among
<1> DEFINE T == {cs[i][key] : i \in among}
<1>1. T \in SUBSET Nat /\ T # {}
  OBVIOUS
<1>2. PICK x \in T : \A y \in T : x <= y
  <2> HIDE DEF T
  <2> QED BY <1>1, NatLeast
<1>3. PICK i \in among : x = cs[i][key]
  OBVIOUS
<1>4. \A j \in among : cs[i][key] <= cs[j][key]
  BY <1>2, <1>3
<1> QED BY <1>4 DEF Least

\* fifo selects one of the candidates.
LEMMA FifoIn ==
    ASSUME NEW E, Comparable(E), NEW cs \in Seq(E), cs # <<>>
    PROVE  fifo(cs) \in ToSet(cs)
<1> DEFINE S == Least(cs, DOMAIN cs, "created")
<1>1. DOMAIN cs \in SUBSET Nat /\ DOMAIN cs # {} /\ \A i \in DOMAIN cs : cs[i].created \in Nat
  <2>1. DOMAIN cs = 1..Len(cs) /\ Len(cs) \in Nat /\ Len(cs) # 0 /\ \A i \in DOMAIN cs : cs[i] \in E
    BY EmptySeq
  <2>2. 1 \in 1..Len(cs)
    BY <2>1
  <2> QED BY <2>1, <2>2 DEF Comparable
<1>2. S # {} /\ S \subseteq DOMAIN cs
  BY <1>1, LeastIn
<1>3. Min(S) \in DOMAIN cs
  <2> HIDE DEF S
  <2> QED BY <1>1, <1>2, MinIn
<1> QED BY <1>3 DEF fifo, ToSet

\* minVRuntime selects a candidate no other is behind.
LEMMA MinVRuntimeIn ==
    ASSUME NEW E, Comparable(E), NEW cs \in Seq(E), cs # <<>>
    PROVE  /\ minVRuntime(cs) \in ToSet(cs)
           /\ \A c \in ToSet(cs) : minVRuntime(cs).vruntime <= c.vruntime
<1> DEFINE R == Least(cs, DOMAIN cs, "vruntime")
           S == Least(cs, R, "created")
<1>1. /\ DOMAIN cs \in SUBSET Nat /\ DOMAIN cs # {}
      /\ \A i \in DOMAIN cs : cs[i].created \in Nat /\ cs[i].vruntime \in Nat
  <2>1. DOMAIN cs = 1..Len(cs) /\ Len(cs) \in Nat /\ Len(cs) # 0 /\ \A i \in DOMAIN cs : cs[i] \in E
    BY EmptySeq
  <2>2. 1 \in 1..Len(cs)
    BY <2>1
  <2> QED BY <2>1, <2>2 DEF Comparable
<1>2. R # {} /\ R \subseteq DOMAIN cs
  BY <1>1, LeastIn
<1>3. S # {} /\ S \subseteq R
  <2> HIDE DEF R
  <2> QED BY <1>1, <1>2, LeastIn
<1>4. Min(S) \in S
  <2>1. S \in SUBSET Nat
    BY <1>1, <1>2, <1>3, Zenon
  <2> HIDE DEF S
  <2> QED BY <1>3, <2>1, MinIn
<1>5. PICK m : m = Min(S) /\ m \in R /\ m \in DOMAIN cs
  BY <1>2, <1>3, <1>4, Zenon
<1>6. minVRuntime(cs) = cs[m]
  BY <1>5, Zenon DEF minVRuntime
<1>7. \A j \in DOMAIN cs : cs[m].vruntime <= cs[j].vruntime
  BY <1>5, Zenon DEF Least
<1> QED BY <1>5, <1>6, <1>7 DEF ToSet

\* What a table says of the prefixes, and the states the loop goes through.
OnPrefixes(f, A, base, n, s, h) ==
    /\ f[{}] = base
    /\ \A i \in 1..n : f[1..(i - 1)] \in A => f[1..i] = h[f[1..(i - 1)]][s[i]]

LoopStates(g, f, A, base, n, s, h) ==
    /\ g \in [0..n -> A] /\ g[0] = base /\ g[n] = f[1..n]
    /\ \A i \in 1..n : g[i - 1] \in A /\ g[i] = h[g[i - 1]][s[i]]

\* A loop with a table goes through states.
LEMMA LoopRuns ==
    ASSUME NEW A, NEW B, NEW base, NEW n, NEW s, NEW h, NEW f, Loop(A, B, base, n, s, h),
           OnPrefixes(f, A, base, n, s, h)
    PROVE  \E g : LoopStates(g, f, A, base, n, s, h)
<1>0. /\ f[{}] = base
      /\ \A i \in 1..n : f[1..(i - 1)] \in A => f[1..i] = h[f[1..(i - 1)]][s[i]]
  BY Zenon DEF OnPrefixes
<1>1. base \in A /\ n \in Nat /\ s \in [1..n -> B] /\ h \in [A -> [B -> A]]
  BY DEF Loop
<1> DEFINE S == {k \in 0..n : f[1..k] \in A}
<1>2. 0 \in S
  <2>1. 1..0 = {} /\ 0 \in 0..n
    BY <1>1
  <2> QED BY <1>0, <1>1, <2>1
<1>3. ASSUME NEW k \in 0..n, k < n, k \in S PROVE k + 1 \in S
  <2>1. k + 1 \in 1..n /\ k + 1 \in 0..n /\ (k + 1) - 1 = k /\ f[1..k] \in A
    BY <1>1, <1>3
  <2>2. f[1..(k + 1)] = h[f[1..k]][s[k + 1]] /\ s[k + 1] \in B
    BY <1>0, <1>1, <2>1
  <2>3. PICK v \in A : v = f[1..k]
    BY <2>1
  <2>4. PICK w \in [B -> A] : w = h[v]
    BY <1>1
  <2>5. w[s[k + 1]] \in A
    BY <2>2
  <2>6. f[1..(k + 1)] \in A
    BY <2>2, <2>3, <2>4, <2>5, Zenon
  <2> QED BY <2>1, <2>6
<1>4. \A k \in 0..n : f[1..k] \in A
  <2>1. \A k \in 0..n : k \in S
    <3> HIDE DEF S
    <3> QED BY <1>1, <1>2, <1>3, UpTo
  <2> QED BY <2>1
<1> DEFINE g == [i \in 0..n |-> f[1..i]]
<1>5. g \in [0..n -> A] /\ \A i \in 0..n : g[i] = f[1..i]
  BY <1>4
<1> HIDE DEF g
<1>6. g[0] = base /\ g[n] = f[1..n]
  <2>1. 1..0 = {} /\ 0 \in 0..n /\ n \in 0..n
    BY <1>1
  <2> QED BY <1>0, <1>5, <2>1
<1>7. ASSUME NEW i \in 1..n PROVE g[i - 1] \in A /\ g[i] = h[g[i - 1]][s[i]]
  <2>1. i \in 0..n /\ i - 1 \in 0..n
    BY <1>1
  <2> QED BY <1>0, <1>4, <1>5, <2>1
<1> QED BY <1>5, <1>6, <1>7, Zenon DEF LoopStates

\* The recursive table behind the fold of selectPrefixAffinity.
WarmTable(s, base, lastPages) ==
    CHOOSE iter : iter = [t \in SUBSET DOMAIN s |->
        IF t = {} THEN base ELSE Warmer(iter[t \ {Max(t)}], s[Max(t)], base, lastPages)]

WarmFold(s, base, lastPages) ==
    FoldLeft(LAMBDA best, c : Warmer(best, c, base, lastPages), base, s)

WarmRun(E, s, base, lastPages) ==
    \E g \in [0..Len(s) -> E] :
        /\ g[0] = base
        /\ \A i \in 1..Len(s) : g[i - 1] \in E /\ g[i] = Warmer(g[i - 1], s[i], base, lastPages)
        /\ WarmFold(s, base, lastPages) = g[Len(s)]

\* The loop of selectPrefixAffinity.
LEMMA WarmLoop ==
    ASSUME NEW E, NEW s \in Seq(E), NEW base \in E, NEW lastPages
    PROVE  WarmRun(E, s, base, lastPages)
<1>1. PICK n \in Nat : n = Len(s) /\ DOMAIN s = 1..n /\ s \in [1..n -> E]
  BY LenProperties
<1> DEFINE h == [b \in E |-> [c \in E |-> Warmer(b, c, base, lastPages)]]
<1>3. h \in [E -> [E -> E]]
  BY DEF Warmer
<1>4. ASSUME NEW b \in E, NEW c \in E PROVE h[b][c] = Warmer(b, c, base, lastPages)
  OBVIOUS
<1> HIDE DEF h
<1>5. Loop(E, E, base, n, s, h)
  BY <1>1, <1>3 DEF Loop
<1>6. PICK it : LoopTable(it, E, base, n, s, h)
  BY <1>5, FoldTable, Zenon
<1>7. it = [t \in SUBSET DOMAIN s |->
              IF t = {} THEN base ELSE Warmer(it[t \ {Max(t)}], s[Max(t)], base, lastPages)]
  <2>0. /\ it \in [SUBSET (1..n) -> E]
        /\ \A t \in SUBSET (1..n) : it[t] = IF t = {} THEN base ELSE h[it[t \ {Max(t)}]][s[Max(t)]]
    BY <1>6, Zenon DEF LoopTable
  <2>1. ASSUME NEW t \in SUBSET (1..n)
        PROVE  it[t] = IF t = {} THEN base ELSE Warmer(it[t \ {Max(t)}], s[Max(t)], base, lastPages)
    <3>1. CASE t = {}
      BY <2>0, <3>1, Zenon
    <3>2. CASE t # {}
      <4>1. Max(t) \in t
        BY <1>1, <3>2, MaxIn
      <4>2. s[Max(t)] \in E /\ it[t \ {Max(t)}] \in E
        BY <1>1, <2>0, <4>1
      <4>3. it[t] = h[it[t \ {Max(t)}]][s[Max(t)]]
        BY <2>0, <3>2, Zenon
      <4> QED BY <1>4, <3>2, <4>2, <4>3, Zenon
    <3> QED BY <3>1, <3>2
  <2> QED BY <1>1, <2>0, <2>1, Zenon
<1>8. PICK f : /\ f = WarmTable(s, base, lastPages)
               /\ f = [t \in SUBSET DOMAIN s |->
                         IF t = {} THEN base ELSE Warmer(f[t \ {Max(t)}], s[Max(t)], base, lastPages)]
  BY <1>7, Zenon DEF WarmTable
<1>9. WarmFold(s, base, lastPages) = f[1..n]
  BY <1>1, <1>8, Zenon DEF FoldLeft, MapThenFoldSet, WarmTable, WarmFold
<1>10. f[{}] = base
  BY <1>8
<1>11. ASSUME NEW i \in 1..n, f[1..(i - 1)] \in E PROVE f[1..i] = h[f[1..(i - 1)]][s[i]]
  <2>1. /\ (1..i) \in SUBSET (1..n) /\ (1..i) # {} /\ Max(1..i) = i /\ (1..i) \ {i} = 1..(i - 1)
    BY PrefixIndexes
  <2>2. f[1..i] = Warmer(f[(1..i) \ {Max(1..i)}], s[Max(1..i)], base, lastPages)
    BY <1>1, <1>8, <2>1, Zenon
  <2>3. s[i] \in E
    BY <1>1
  <2> QED BY <1>4, <1>11, <2>1, <2>2, <2>3, Zenon
<1>12. PICK g \in [0..n -> E] : /\ g[0] = base /\ g[n] = f[1..n]
                                /\ \A i \in 1..n : g[i - 1] \in E /\ g[i] = h[g[i - 1]][s[i]]
  <2>1. OnPrefixes(f, E, base, n, s, h)
    BY <1>10, <1>11, Zenon DEF OnPrefixes
  <2>2. PICK g : LoopStates(g, f, E, base, n, s, h)
    BY <1>5, <2>1, LoopRuns, Zenon
  <2> QED BY <2>2, Zenon DEF LoopStates
<1>13. ASSUME NEW i \in 1..n PROVE g[i - 1] \in E /\ g[i] = Warmer(g[i - 1], s[i], base, lastPages)
  <2>1. s[i] \in E
    BY <1>1
  <2> QED BY <1>4, <1>12, <2>1, Zenon
<1> QED BY <1>1, <1>9, <1>12, <1>13, Zenon DEF WarmRun

\* The recursive table behind the fold of selectResourceAware.
BetterTable(s, base, lastPages, pr) ==
    CHOOSE iter : iter = [t \in SUBSET DOMAIN s |->
        IF t = {} THEN base ELSE Better(iter[t \ {Max(t)}], s[Max(t)], lastPages, pr)]

BetterFold(s, base, lastPages, pr) ==
    FoldLeft(LAMBDA best, c : Better(best, c, lastPages, pr), base, s)

BetterRun(E, s, base, lastPages, pr) ==
    \E g \in [0..Len(s) -> E] :
        /\ g[0] = base
        /\ \A i \in 1..Len(s) : g[i - 1] \in E /\ g[i] = Better(g[i - 1], s[i], lastPages, pr)
        /\ BetterFold(s, base, lastPages, pr) = g[Len(s)]

\* The loop of selectResourceAware.
LEMMA BetterLoop ==
    ASSUME NEW E, NEW s \in Seq(E), NEW base \in E, NEW lastPages, NEW pr
    PROVE  BetterRun(E, s, base, lastPages, pr)
<1>1. PICK n \in Nat : n = Len(s) /\ DOMAIN s = 1..n /\ s \in [1..n -> E]
  BY LenProperties
<1> DEFINE h == [b \in E |-> [c \in E |-> Better(b, c, lastPages, pr)]]
<1>3. h \in [E -> [E -> E]]
  BY DEF Better
<1>4. ASSUME NEW b \in E, NEW c \in E PROVE h[b][c] = Better(b, c, lastPages, pr)
  OBVIOUS
<1> HIDE DEF h
<1>5. Loop(E, E, base, n, s, h)
  BY <1>1, <1>3 DEF Loop
<1>6. PICK it : LoopTable(it, E, base, n, s, h)
  BY <1>5, FoldTable, Zenon
<1>7. it = [t \in SUBSET DOMAIN s |->
              IF t = {} THEN base ELSE Better(it[t \ {Max(t)}], s[Max(t)], lastPages, pr)]
  <2>0. /\ it \in [SUBSET (1..n) -> E]
        /\ \A t \in SUBSET (1..n) : it[t] = IF t = {} THEN base ELSE h[it[t \ {Max(t)}]][s[Max(t)]]
    BY <1>6, Zenon DEF LoopTable
  <2>1. ASSUME NEW t \in SUBSET (1..n)
        PROVE  it[t] = IF t = {} THEN base ELSE Better(it[t \ {Max(t)}], s[Max(t)], lastPages, pr)
    <3>1. CASE t = {}
      BY <2>0, <3>1, Zenon
    <3>2. CASE t # {}
      <4>1. Max(t) \in t
        BY <1>1, <3>2, MaxIn
      <4>2. s[Max(t)] \in E /\ it[t \ {Max(t)}] \in E
        BY <1>1, <2>0, <4>1
      <4>3. it[t] = h[it[t \ {Max(t)}]][s[Max(t)]]
        BY <2>0, <3>2, Zenon
      <4> QED BY <1>4, <3>2, <4>2, <4>3, Zenon
    <3> QED BY <3>1, <3>2
  <2> QED BY <1>1, <2>0, <2>1, Zenon
<1>8. PICK f : /\ f = BetterTable(s, base, lastPages, pr)
               /\ f = [t \in SUBSET DOMAIN s |->
                         IF t = {} THEN base ELSE Better(f[t \ {Max(t)}], s[Max(t)], lastPages, pr)]
  BY <1>7, Zenon DEF BetterTable
<1>9. BetterFold(s, base, lastPages, pr) = f[1..n]
  BY <1>1, <1>8, Zenon DEF FoldLeft, MapThenFoldSet, BetterTable, BetterFold
<1>10. f[{}] = base
  BY <1>8
<1>11. ASSUME NEW i \in 1..n, f[1..(i - 1)] \in E PROVE f[1..i] = h[f[1..(i - 1)]][s[i]]
  <2>1. /\ (1..i) \in SUBSET (1..n) /\ (1..i) # {} /\ Max(1..i) = i /\ (1..i) \ {i} = 1..(i - 1)
    BY PrefixIndexes
  <2>2. f[1..i] = Better(f[(1..i) \ {Max(1..i)}], s[Max(1..i)], lastPages, pr)
    BY <1>1, <1>8, <2>1, Zenon
  <2>3. s[i] \in E
    BY <1>1
  <2> QED BY <1>4, <1>11, <2>1, <2>2, <2>3, Zenon
<1>12. PICK g \in [0..n -> E] : /\ g[0] = base /\ g[n] = f[1..n]
                                /\ \A i \in 1..n : g[i - 1] \in E /\ g[i] = h[g[i - 1]][s[i]]
  <2>1. OnPrefixes(f, E, base, n, s, h)
    BY <1>10, <1>11, Zenon DEF OnPrefixes
  <2>2. PICK g : LoopStates(g, f, E, base, n, s, h)
    BY <1>5, <2>1, LoopRuns, Zenon
  <2> QED BY <2>2, Zenon DEF LoopStates
<1>13. ASSUME NEW i \in 1..n PROVE g[i - 1] \in E /\ g[i] = Better(g[i - 1], s[i], lastPages, pr)
  <2>1. s[i] \in E
    BY <1>1
  <2> QED BY <1>4, <1>12, <2>1, Zenon
<1> QED BY <1>1, <1>9, <1>12, <1>13, Zenon DEF BetterRun

\* The recursive table behind the fold of readyAgents.
GatherTable(s, base) ==
    CHOOSE iter : iter = [t \in SUBSET DOMAIN s |->
        IF t = {} THEN base ELSE Gather(iter[t \ {Max(t)}], s[Max(t)])]

GatherFold(s, base) == FoldLeft(Gather, base, s)

GatherRun(Q, s, base) ==
    \E g \in [0..Len(s) -> Q] :
        /\ g[0] = base
        /\ \A i \in 1..Len(s) : g[i - 1] \in Q /\ g[i] = Gather(g[i - 1], s[i])
        /\ GatherFold(s, base) = g[Len(s)]

\* The loop of readyAgents.
LEMMA GatherLoop ==
    ASSUME NEW E, NEW s \in Seq(E), NEW Q, Q = Seq(E), NEW base, base \in Q
    PROVE  GatherRun(Q, s, base)
<1>1. PICK n \in Nat : n = Len(s) /\ DOMAIN s = 1..n /\ s \in [1..n -> E]
  BY LenProperties
<1>2. ASSUME NEW b \in Q, NEW c \in E PROVE Gather(b, c) \in Q
  BY DEF Gather
<1> DEFINE h == [b \in Q |-> [c \in E |-> Gather(b, c)]]
<1>3. h \in [Q -> [E -> Q]]
  BY <1>2
<1>4. ASSUME NEW b \in Q, NEW c \in E PROVE h[b][c] = Gather(b, c)
  OBVIOUS
<1> HIDE DEF h
<1>5. Loop(Q, E, base, n, s, h)
  BY <1>1, <1>3 DEF Loop
<1>6. PICK it : LoopTable(it, Q, base, n, s, h)
  BY <1>5, FoldTable, Zenon
<1>7. it = [t \in SUBSET DOMAIN s |->
              IF t = {} THEN base ELSE Gather(it[t \ {Max(t)}], s[Max(t)])]
  <2>0. /\ it \in [SUBSET (1..n) -> Q]
        /\ \A t \in SUBSET (1..n) : it[t] = IF t = {} THEN base ELSE h[it[t \ {Max(t)}]][s[Max(t)]]
    BY <1>6, Zenon DEF LoopTable
  <2>1. ASSUME NEW t \in SUBSET (1..n)
        PROVE  it[t] = IF t = {} THEN base ELSE Gather(it[t \ {Max(t)}], s[Max(t)])
    <3>1. CASE t = {}
      BY <2>0, <3>1, Zenon
    <3>2. CASE t # {}
      <4>1. Max(t) \in t
        BY <1>1, <3>2, MaxIn
      <4>2. s[Max(t)] \in E /\ it[t \ {Max(t)}] \in Q
        BY <1>1, <2>0, <4>1
      <4>3. it[t] = h[it[t \ {Max(t)}]][s[Max(t)]]
        BY <2>0, <3>2, Zenon
      <4> QED BY <1>4, <3>2, <4>2, <4>3, Zenon
    <3> QED BY <3>1, <3>2
  <2> QED BY <1>1, <2>0, <2>1, Zenon
<1>8. PICK f : /\ f = GatherTable(s, base)
               /\ f = [t \in SUBSET DOMAIN s |->
                         IF t = {} THEN base ELSE Gather(f[t \ {Max(t)}], s[Max(t)])]
  BY <1>7, Zenon DEF GatherTable
<1>9. GatherFold(s, base) = f[1..n]
  BY <1>1, <1>8, Zenon DEF FoldLeft, MapThenFoldSet, GatherTable, GatherFold
<1>10. f[{}] = base
  BY <1>8
<1>11. ASSUME NEW i \in 1..n, f[1..(i - 1)] \in Q PROVE f[1..i] = h[f[1..(i - 1)]][s[i]]
  <2>1. /\ (1..i) \in SUBSET (1..n) /\ (1..i) # {} /\ Max(1..i) = i /\ (1..i) \ {i} = 1..(i - 1)
    BY PrefixIndexes
  <2>2. f[1..i] = Gather(f[(1..i) \ {Max(1..i)}], s[Max(1..i)])
    BY <1>1, <1>8, <2>1, Zenon
  <2>3. s[i] \in E
    BY <1>1
  <2>4. f[1..i] = Gather(f[1..(i - 1)], s[i])
    BY <2>1, <2>2, Zenon
  <2>5. PICK v : v = f[1..(i - 1)] /\ v \in Q
    BY <1>11, Zenon
  <2>6. h[v][s[i]] = Gather(v, s[i])
    BY <1>4, <2>3, <2>5, Zenon
  <2> QED BY <2>4, <2>5, <2>6, Zenon
<1>12. PICK g \in [0..n -> Q] : /\ g[0] = base /\ g[n] = f[1..n]
                                /\ \A i \in 1..n : g[i - 1] \in Q /\ g[i] = h[g[i - 1]][s[i]]
  <2>1. OnPrefixes(f, Q, base, n, s, h)
    BY <1>10, <1>11, Zenon DEF OnPrefixes
  <2>2. PICK g : LoopStates(g, f, Q, base, n, s, h)
    BY <1>5, <2>1, LoopRuns, Zenon
  <2> QED BY <2>2, Zenon DEF LoopStates
<1>13. ASSUME NEW i \in 1..n PROVE g[i - 1] \in Q /\ g[i] = Gather(g[i - 1], s[i])
  <2>1. s[i] \in E
    BY <1>1
  <2> QED BY <1>4, <1>12, <2>1, Zenon
<1> QED BY <1>1, <1>9, <1>12, <1>13, Zenon DEF GatherRun

\* Appending adds one element.
LEMMA ToSetAppend ==
    ASSUME NEW E, NEW q \in Seq(E), NEW c \in E
    PROVE  ToSet(Append(q, c)) = ToSet(q) \cup {c}
<1>1. PICK n \in Nat : n = Len(q) /\ DOMAIN q = 1..n
  BY LenProperties
<1>2. PICK r : r = Append(q, c)
  OBVIOUS
<1>3. DOMAIN r = 1..(n + 1) /\ r[n + 1] = c /\ \A i \in 1..n : r[i] = q[i]
  <2>1. r \in Seq(E) /\ Len(r) = n + 1 /\ r[n + 1] = c /\ \A i \in 1..n : r[i] = q[i]
    BY <1>1, <1>2, AppendProperties
  <2> QED BY <2>1, LenProperties
<1>4. 1..(n + 1) = (1..n) \cup {n + 1}
  OBVIOUS
<1>5. {r[i] : i \in 1..(n + 1)} = {q[i] : i \in 1..n} \cup {c}
  BY <1>3, <1>4, Zenon
<1> QED BY <1>1, <1>2, <1>3, <1>5 DEF ToSet

\* readyAgents keeps exactly the candidates that are ready.
LEMMA ReadyAgents ==
    ASSUME NEW E, NEW s \in Seq(E)
    PROVE  readyAgents(s) \in Seq(E) /\ ToSet(readyAgents(s)) = {c \in ToSet(s) : c.ready}
<1>1. PICK n \in Nat : n = Len(s) /\ DOMAIN s = 1..n /\ s \in [1..n -> E]
  BY LenProperties
<1>2. PICK g \in [0..n -> Seq(E)] :
        /\ g[0] = <<>>
        /\ \A i \in 1..n : g[i - 1] \in Seq(E) /\ g[i] = Gather(g[i - 1], s[i])
        /\ readyAgents(s) = g[n]
  <2>1. PICK base, Q : base = <<>> /\ base \in Q /\ Q = Seq(E)
    <3>1. <<>> \in Seq(E)
      OBVIOUS
    <3> QED BY <3>1, Zenon
  <2>2. PICK g \in [0..Len(s) -> Q] :
          /\ g[0] = base
          /\ \A i \in 1..Len(s) : g[i - 1] \in Q /\ g[i] = Gather(g[i - 1], s[i])
          /\ GatherFold(s, base) = g[Len(s)]
    <3>1. GatherRun(Q, s, base)
      BY <2>1, GatherLoop, Zenon
    <3> QED BY <3>1, Zenon DEF GatherRun
  <2>3. readyAgents(s) = GatherFold(s, <<>>)
    BY Zenon DEF readyAgents, GatherFold
  <2> QED BY <1>1, <2>1, <2>2, <2>3, Zenon
<1> DEFINE S == {k \in 0..n : ToSet(g[k]) = {s[i] : i \in {m \in 1..k : s[m].ready}}}
<1>3. 0 \in S
  <2>1. 0 \in 0..n /\ 1..0 = {} /\ DOMAIN <<>> = {}
    OBVIOUS
  <2> QED BY <1>2, <2>1 DEF ToSet
<1>4. ASSUME NEW k \in 0..n, k < n, k \in S PROVE k + 1 \in S
  <2>1. k + 1 \in 1..n /\ k + 1 \in 0..n /\ (k + 1) - 1 = k
    BY <1>4
  <2>2. g[k + 1] = Gather(g[k], s[k + 1]) /\ g[k] \in Seq(E) /\ s[k + 1] \in E
    BY <1>1, <1>2, <2>1
  <2>3. PICK q \in Seq(E) : q = g[k]
    BY <2>2
  <2>4. ASSUME NEW c \in E PROVE ToSet(Append(q, c)) = ToSet(q) \cup {c}
    BY ToSetAppend
  <2>5. ToSet(q) = {s[i] : i \in {m \in 1..k : s[m].ready}}
    BY <1>4, <2>3
  <2>6. CASE s[k + 1].ready
    <3>1. {m \in 1..(k + 1) : s[m].ready} = {m \in 1..k : s[m].ready} \cup {k + 1}
      BY <2>6
    <3>2. ToSet(g[k + 1]) = ToSet(q) \cup {s[k + 1]}
      BY <2>2, <2>3, <2>4, <2>6 DEF Gather
    <3> QED BY <2>1, <2>5, <3>1, <3>2
  <2>7. CASE ~s[k + 1].ready
    <3>1. {m \in 1..(k + 1) : s[m].ready} = {m \in 1..k : s[m].ready}
      BY <2>7
    <3>2. ToSet(g[k + 1]) = ToSet(q)
      BY <2>2, <2>3, <2>7 DEF Gather
    <3> QED BY <2>1, <2>5, <3>1, <3>2
  <2> QED BY <2>6, <2>7
<1>5. \A k \in 0..n : k \in S
  <2> HIDE DEF S
  <2> QED BY <1>3, <1>4, UpTo
<1>6. n \in 0..n
  OBVIOUS
<1>7. ToSet(readyAgents(s)) = {s[i] : i \in {m \in 1..n : s[m].ready}} /\ readyAgents(s) \in Seq(E)
  BY <1>2, <1>5, <1>6
<1> QED BY <1>1, <1>7 DEF ToSet

\* A sequence is one of its own elements.
LEMMA OwnElements ==
    ASSUME NEW E, NEW s \in Seq(E)
    PROVE  s \in Seq(ToSet(s)) /\ ToSet(s) \subseteq E
<1> QED BY DEF ToSet

\* The selected candidate shares the warmest pages near the minimum.
LEMMA AffinityIn ==
    ASSUME NEW E, Comparable(E), NEW cs \in Seq(E), cs # <<>>, NEW lastPages, Threshold \in Nat
    PROVE  /\ selectPrefixAffinity(cs, lastPages) \in ToSet(cs)
           /\ \A c \in ToSet(cs) : selectPrefixAffinity(cs, lastPages).vruntime <= c.vruntime + Threshold
<1> DEFINE F == ToSet(cs)
           base == minVRuntime(cs)
<1>1. cs \in Seq(F) /\ F \subseteq E
  BY OwnElements
<1>2. base \in F /\ \A c \in F : base.vruntime <= c.vruntime
  BY MinVRuntimeIn
<1>3. \A c \in F : c.vruntime \in Nat
  BY <1>1 DEF Comparable
<1>4. PICK n \in Nat : n = Len(cs) /\ cs \in [1..n -> F]
  BY <1>1, LenProperties
<1>5. PICK g \in [0..n -> F] :
        /\ g[0] = base
        /\ \A i \in 1..n : g[i - 1] \in F /\ g[i] = Warmer(g[i - 1], cs[i], base, lastPages)
        /\ WarmFold(cs, base, lastPages) = g[n]
  <2>1. PICK b : b = minVRuntime(cs) /\ b \in F
    BY <1>2, Zenon
  <2>2. PICK g \in [0..Len(cs) -> F] :
          /\ g[0] = b
          /\ \A i \in 1..Len(cs) : g[i - 1] \in F /\ g[i] = Warmer(g[i - 1], cs[i], b, lastPages)
          /\ WarmFold(cs, b, lastPages) = g[Len(cs)]
    <3> HIDE DEF F
    <3>1. WarmRun(F, cs, b, lastPages)
      BY <1>1, <2>1, WarmLoop, Zenon
    <3> QED BY <3>1, Zenon DEF WarmRun
  <2> QED BY <1>4, <2>1, <2>2, Zenon
<1>6. selectPrefixAffinity(cs, lastPages) = g[n]
  BY <1>5, Zenon DEF selectPrefixAffinity, WarmFold
<1> HIDE DEF F, base
<1> DEFINE S == {k \in 0..n : g[k].vruntime <= base.vruntime + Threshold}
<1>7. 0 \in S
  <2>1. 0 \in 0..n
    OBVIOUS
  <2>2. PICK w \in Nat : w = base.vruntime
    BY <1>2, <1>3
  <2>3. w <= w + Threshold
    OBVIOUS
  <2> QED BY <1>5, <2>1, <2>2, <2>3
<1>8. ASSUME NEW k \in 0..n, k < n, k \in S PROVE k + 1 \in S
  <2>1. k + 1 \in 1..n /\ k + 1 \in 0..n /\ (k + 1) - 1 = k
    BY <1>8
  <2>2. g[k + 1] = Warmer(g[k], cs[k + 1], base, lastPages) /\ cs[k + 1] \in F /\ g[k] \in F
    BY <1>4, <1>5, <2>1
  <2>3. CASE g[k + 1] = g[k]
    BY <1>8, <2>1, <2>3
  <2>4. CASE g[k + 1] # g[k]
    <3>1. g[k + 1] = cs[k + 1] /\ vruntimeDistance(cs[k + 1].vruntime, base.vruntime) <= Threshold
      BY <2>2, <2>4, Zenon DEF Warmer
    <3>2. PICK v \in Nat : v = cs[k + 1].vruntime
      BY <1>3, <2>2
    <3>3. PICK w \in Nat : w = base.vruntime
      BY <1>2, <1>3
    <3>4. vruntimeDistance(v, w) <= Threshold
      BY <3>1, <3>2, <3>3, Zenon
    <3>5. v <= w + Threshold
      BY <3>4 DEF vruntimeDistance
    <3> QED BY <2>1, <3>1, <3>2, <3>3, <3>5
  <2> QED BY <2>3, <2>4
<1>9. \A k \in 0..n : k \in S
  <2> HIDE DEF S
  <2> QED BY <1>7, <1>8, UpTo
<1>10. n \in 0..n
  OBVIOUS
<1>11. g[n] \in F /\ n \in S
  BY <1>5, <1>9, <1>10
<1>12. ASSUME NEW c \in F PROVE g[n].vruntime <= c.vruntime + Threshold
  <2>1. PICK x \in Nat, y \in Nat, z \in Nat : x = g[n].vruntime /\ y = base.vruntime /\ z = c.vruntime
    BY <1>2, <1>3, <1>11
  <2>2. x <= y + Threshold /\ y <= z
    BY <1>2, <1>11, <2>1
  <2>3. x <= z + Threshold
    BY <2>2
  <2> QED BY <2>1, <2>3
<1> QED BY <1>6, <1>11, <1>12 DEF F

\* The resource aware policy selects one of the candidates.
LEMMA ResourceAwareIn ==
    ASSUME NEW E, NEW cs \in Seq(E), cs # <<>>, NEW lastPages, NEW pr
    PROVE  selectResourceAware(cs, lastPages, pr) \in ToSet(cs)
<1>1. cs \in Seq(ToSet(cs))
  BY OwnElements
<1>2. PICK F, b : F = ToSet(cs) /\ b = Head(cs) /\ b \in F
  <2>1. PICK n \in Nat : n = Len(cs) /\ n # 0 /\ DOMAIN cs = 1..n
    BY EmptySeq
  <2>2. 1 \in DOMAIN cs /\ Head(cs) = cs[1]
    BY <2>1
  <2>3. Head(cs) \in ToSet(cs)
    BY <2>2 DEF ToSet
  <2> QED BY <2>3, Zenon
<1>3. BetterRun(F, cs, b, lastPages, pr)
  <2>1. cs \in Seq(F) /\ b \in F
    BY <1>1, <1>2, Zenon
  <2> QED BY <2>1, BetterLoop, Zenon
<1>4. PICK g \in [0..Len(cs) -> F] : BetterFold(cs, b, lastPages, pr) = g[Len(cs)]
  BY <1>3, Zenon DEF BetterRun
<1>5. Len(cs) \in 0..Len(cs)
  OBVIOUS
<1>6. g[Len(cs)] \in F
  BY <1>4, <1>5, Zenon
<1>7. selectResourceAware(cs, lastPages, pr) = BetterFold(cs, Head(cs), lastPages, pr)
  BY Zenon DEF selectResourceAware, BetterFold
<1> QED BY <1>2, <1>4, <1>6, <1>7, Zenon

\* Whatever the policy, the selected agent is one of the candidates.
LEMMA SelectIn ==
    ASSUME NEW E, Comparable(E), NEW cs \in Seq(E), cs # <<>>, NEW p, NEW lastPages, NEW pr, Threshold \in Nat
    PROVE  selectLocked(p, cs, lastPages, pr) \in ToSet(cs)
<1>1. minVRuntime(cs) \in ToSet(cs)
  BY MinVRuntimeIn
<1>2. selectPrefixAffinity(cs, lastPages) \in ToSet(cs)
  BY AffinityIn
<1>3. selectResourceAware(cs, lastPages, pr) \in ToSet(cs)
  BY ResourceAwareIn
<1>4. fifo(cs) \in ToSet(cs)
  BY FifoIn
<1> QED BY <1>1, <1>2, <1>3, <1>4 DEF selectLocked

\* The score of a candidate, and the order of Better: no worse a score, and
\* of equal scores no younger.
Score(c, lastPages, pr) == resourceAwareScore(c, Shared(c, lastPages), pr)
Scored(E, lastPages, pr) == \A c \in E : Score(c, lastPages, pr) \in Int /\ c.created \in Nat
AtLeast(b, c, lastPages, pr) ==
    \/ Score(b, lastPages, pr) > Score(c, lastPages, pr)
    \/ Score(b, lastPages, pr) = Score(c, lastPages, pr) /\ b.created <= c.created

\* Better keeps a candidate at least as good as both.
LEMMA BetterKeeps ==
    ASSUME NEW E, NEW lastPages, NEW pr, Scored(E, lastPages, pr), NEW b \in E, NEW c \in E
    PROVE  /\ AtLeast(Better(b, c, lastPages, pr), b, lastPages, pr)
           /\ AtLeast(Better(b, c, lastPages, pr), c, lastPages, pr)
<1>1. PICK x \in Int, y \in Int, k \in Nat, l \in Nat :
        /\ x = Score(b, lastPages, pr) /\ y = Score(c, lastPages, pr)
        /\ k = b.created /\ l = c.created
  BY DEF Scored
<1>2. Better(b, c, lastPages, pr) = IF y > x \/ (y = x /\ l < k) THEN c ELSE b
  <2>1. Better(b, c, lastPages, pr) =
          IF \/ Score(c, lastPages, pr) > Score(b, lastPages, pr)
             \/ Score(c, lastPages, pr) = Score(b, lastPages, pr) /\ c.created < b.created
          THEN c ELSE b
    BY Zenon DEF Better, Score
  <2> QED BY <1>1, <2>1
<1>3. CASE y > x \/ (y = x /\ l < k)
  <2>1. Better(b, c, lastPages, pr) = c
    BY <1>2, <1>3, Zenon
  <2>2. (y > x \/ (y = x /\ l <= k)) /\ (y > y \/ (y = y /\ l <= l))
    BY <1>3
  <2> QED BY <1>1, <2>1, <2>2, Zenon DEF AtLeast
<1>4. CASE ~(y > x \/ (y = x /\ l < k))
  <2>1. Better(b, c, lastPages, pr) = b
    BY <1>2, <1>4, Zenon
  <2>2. x > y \/ (x = y /\ k <= l)
    BY <1>4
  <2>3. x = x /\ k <= k
    OBVIOUS
  <2> QED BY <1>1, <2>1, <2>2, <2>3 DEF AtLeast
<1> QED BY <1>3, <1>4

\* The order is transitive.
LEMMA AtLeastTransitive ==
    ASSUME NEW E, NEW lastPages, NEW pr, Scored(E, lastPages, pr), NEW b \in E, NEW c \in E, NEW d \in E,
           AtLeast(b, c, lastPages, pr), AtLeast(c, d, lastPages, pr)
    PROVE  AtLeast(b, d, lastPages, pr)
<1>1. PICK x \in Int, y \in Int, z \in Int :
        x = Score(b, lastPages, pr) /\ y = Score(c, lastPages, pr) /\ z = Score(d, lastPages, pr)
  BY DEF Scored
<1>2. PICK k \in Nat, l \in Nat, m \in Nat : k = b.created /\ l = c.created /\ m = d.created
  BY DEF Scored
<1>3. (x > y \/ (x = y /\ k <= l)) /\ (y > z \/ (y = z /\ l <= m))
  BY <1>1, <1>2 DEF AtLeast
<1>4. x > z \/ (x = z /\ k <= m)
  BY <1>3
<1> QED BY <1>1, <1>2, <1>4 DEF AtLeast

\* The resource aware policy selects a candidate at least as good as every other.
LEMMA ResourceAwareBest ==
    ASSUME NEW E, NEW cs \in Seq(E), cs # <<>>, NEW lastPages, NEW pr, Scored(E, lastPages, pr)
    PROVE  \A c \in ToSet(cs) : AtLeast(selectResourceAware(cs, lastPages, pr), c, lastPages, pr)
<1>1. PICK n \in Nat : n = Len(cs) /\ n # 0 /\ DOMAIN cs = 1..n /\ cs \in [1..n -> E]
  BY EmptySeq
<1>2. PICK b : b = Head(cs) /\ b \in E
  <2>1. 1 \in 1..n /\ Head(cs) = cs[1]
    BY <1>1
  <2> QED BY <1>1, <2>1
<1>3. BetterRun(E, cs, b, lastPages, pr)
  BY <1>2, BetterLoop, Zenon
<1>4. PICK g \in [0..n -> E] :
        /\ \A i \in 1..n : g[i - 1] \in E /\ g[i] = Better(g[i - 1], cs[i], lastPages, pr)
        /\ BetterFold(cs, b, lastPages, pr) = g[n]
  BY <1>1, <1>3, Zenon DEF BetterRun
<1> DEFINE S == {k \in 0..n : \A i \in 1..k : AtLeast(g[k], cs[i], lastPages, pr)}
<1>5. 0 \in S
  <2>1. 0 \in 0..n /\ 1..0 = {}
    OBVIOUS
  <2> QED BY <2>1
<1>6. ASSUME NEW k \in 0..n, k < n, k \in S PROVE k + 1 \in S
  <2>1. k + 1 \in 1..n /\ k + 1 \in 0..n /\ (k + 1) - 1 = k
    BY <1>6
  <2>2. g[k] \in E /\ cs[k + 1] \in E /\ g[k + 1] \in E /\ g[k + 1] = Better(g[k], cs[k + 1], lastPages, pr)
    BY <1>1, <1>4, <2>1
  <2>3. AtLeast(g[k + 1], g[k], lastPages, pr) /\ AtLeast(g[k + 1], cs[k + 1], lastPages, pr)
    BY <2>2, BetterKeeps, Zenon
  <2>4. ASSUME NEW i \in 1..(k + 1) PROVE AtLeast(g[k + 1], cs[i], lastPages, pr)
    <3>1. CASE i = k + 1
      BY <2>3, <3>1, Zenon
    <3>2. CASE i # k + 1
      <4>1. i \in 1..k /\ i \in 1..n
        BY <2>1, <3>2
      <4>2. AtLeast(g[k], cs[i], lastPages, pr) /\ cs[i] \in E
        BY <1>1, <1>6, <4>1
      <4> QED BY <2>2, <2>3, <4>2, AtLeastTransitive, Zenon
    <3> QED BY <3>1, <3>2
  <2> QED BY <2>1, <2>4
<1>7. \A k \in 0..n : k \in S
  <2> HIDE DEF S
  <2> QED BY <1>5, <1>6, UpTo
<1>8. n \in 0..n
  OBVIOUS
<1>9. \A i \in 1..n : AtLeast(g[n], cs[i], lastPages, pr)
  BY <1>7, <1>8
<1>10. selectResourceAware(cs, lastPages, pr) = g[n]
  BY <1>2, <1>4, Zenon DEF selectResourceAware, BetterFold
<1> QED BY <1>1, <1>9, <1>10, Zenon DEF ToSet

(***************************************************************************)
(* Sequences without repetition.                                           *)
(***************************************************************************)
\* Appending what is not there keeps a sequence without repetition, and the
\* sequence is a prefix of the result.
LEMMA AppendFresh ==
    ASSUME NEW R, NEW q \in Seq(R), NEW c \in R
    PROVE  /\ Append(q, c) \in Seq(R) /\ Len(Append(q, c)) = Len(q) + 1
           /\ IsPrefix(q, q) /\ IsPrefix(q, Append(q, c))
           /\ IsInjective(q) /\ c \notin ToSet(q) => IsInjective(Append(q, c))
<1>1. PICK n \in Nat : n = Len(q) /\ DOMAIN q = 1..n
  BY LenProperties
<1>2. PICK r : r = Append(q, c) /\ r \in Seq(R) /\ Len(r) = n + 1
  BY <1>1, AppendProperties
<1>3. DOMAIN r = 1..(n + 1) /\ r[n + 1] = c /\ \A i \in 1..n : r[i] = q[i]
  <2>1. r[n + 1] = c /\ \A i \in 1..n : r[i] = q[i]
    BY <1>1, <1>2, AppendProperties
  <2> QED BY <1>2, <2>1, LenProperties
<1>4. IsPrefix(q, q)
  BY DEF IsPrefix
<1>5. IsPrefix(q, r)
  <2>1. Len(q) <= Len(r)
    BY <1>1, <1>2
  <2>2. SubSeq(q, 1, n) = SubSeq(r, 1, n)
    BY <1>1, <1>2, <1>3
  <2> QED BY <1>1, <2>1, <2>2 DEF IsPrefix
<1>6. ASSUME IsInjective(q), c \notin ToSet(q) PROVE IsInjective(r)
  <2>1. \A i \in 1..n : q[i] # c
    BY <1>1, <1>6 DEF ToSet
  <2>2. \A i, j \in 1..n : q[i] = q[j] => i = j
    BY <1>1, <1>6 DEF IsInjective
  <2>3. ASSUME NEW i \in 1..(n + 1), NEW j \in 1..(n + 1), r[i] = r[j] PROVE i = j
    <3>1. (i \in 1..n \/ i = n + 1) /\ (j \in 1..n \/ j = n + 1)
      OBVIOUS
    <3> QED BY <1>3, <2>1, <2>2, <2>3, <3>1, Zenon
  <2> QED BY <1>3, <2>3 DEF IsInjective
<1> QED BY <1>1, <1>2, <1>4, <1>5, <1>6

\* popSpec takes the selected spec out and leaves the others.
LEMMA PopSelected ==
    ASSUME NEW R, NEW q \in Seq(R), IsInjective(q), NEW c \in ToSet(q)
    PROVE  /\ popSpec(q, c).spec = c /\ popSpec(q, c).next \in Seq(R)
           /\ Len(popSpec(q, c).next) = Len(q) - 1
           /\ ToSet(popSpec(q, c).next) = ToSet(q) \ {c}
           /\ IsInjective(popSpec(q, c).next)
<1>1. PICK n \in Nat : n = Len(q) /\ DOMAIN q = 1..n /\ q \in [1..n -> R]
  BY LenProperties
<1> DEFINE at == {i \in 1..Len(q) : q[i] = c}
<1>2. at \in SUBSET Nat /\ at # {}
  BY <1>1 DEF ToSet
<1>3. PICK m : m = Min(at) /\ m \in at
  <2> HIDE DEF at
  <2> QED BY <1>2, MinIn
<1>4. m \in 1..n /\ q[m] = c
  BY <1>1, <1>3
<1>5. popSpec(q, c) = [spec |-> c, next |-> RemoveAt(q, m)]
  BY <1>2, <1>3, Zenon DEF popSpec
<1>6. PICK x : x = RemoveAt(q, m)
  OBVIOUS
<1>7. /\ x \in Seq(R) /\ Len(x) = n - 1
      /\ \A i \in 1..(n - 1) : x[i] = IF i < m THEN q[i] ELSE q[i + 1]
  <2>1. PICK a \in Seq(R) : a = SubSeq(q, 1, m - 1) /\ Len(a) = m - 1 /\ \A i \in 1..(m - 1) : a[i] = q[i]
    <3>1. \A i \in 1..(m - 1) : q[i] \in R
      BY <1>1, <1>4
    <3>2. 1 \in Int /\ m - 1 \in Int /\ (m - 1) - 1 + 1 = m - 1 /\ (1 <= m - 1 \/ m - 1 = 0)
      BY <1>4
    <3>3. PICK a : a = SubSeq(q, 1, m - 1)
      OBVIOUS
    <3>4. /\ a \in Seq(R) /\ Len(a) = IF 1 <= m - 1 THEN (m - 1) - 1 + 1 ELSE 0
          /\ \A i \in 1..((m - 1) - 1 + 1) : a[i] = q[1 + i - 1]
      BY <3>1, <3>2, <3>3, SubSeqProperties
    <3>5. Len(a) = m - 1 /\ \A i \in 1..(m - 1) : a[i] = q[i]
      BY <3>2, <3>4
    <3> QED BY <3>3, <3>4, <3>5
  <2>2. PICK b \in Seq(R) : b = SubSeq(q, m + 1, n) /\ Len(b) = n - m /\ \A i \in 1..(n - m) : b[i] = q[m + i]
    <3>1. \A i \in (m + 1)..n : q[i] \in R
      BY <1>1, <1>4
    <3>2. m + 1 \in Int /\ n \in Int /\ n - (m + 1) + 1 = n - m /\ (m + 1 <= n \/ n - m = 0)
      BY <1>4
    <3>3. PICK b : b = SubSeq(q, m + 1, n)
      OBVIOUS
    <3>4. /\ b \in Seq(R) /\ Len(b) = IF m + 1 <= n THEN n - (m + 1) + 1 ELSE 0
          /\ \A i \in 1..(n - (m + 1) + 1) : b[i] = q[m + 1 + i - 1]
      BY <3>1, <3>2, <3>3, SubSeqProperties
    <3>5. Len(b) = n - m /\ \A i \in 1..(n - m) : b[i] = q[m + i]
      <4>1. \A i \in 1..(n - m) : m + 1 + i - 1 = m + i
        BY <1>4
      <4> QED BY <3>2, <3>4, <4>1
    <3> QED BY <3>3, <3>4, <3>5
  <2>3. x = a \o b
    BY <1>1, <1>6, <2>1, <2>2 DEF RemoveAt
  <2>4. /\ x \in Seq(R) /\ Len(x) = Len(a) + Len(b)
        /\ \A i \in 1..(Len(a) + Len(b)) : x[i] = IF i <= Len(a) THEN a[i] ELSE b[i - Len(a)]
    BY <2>3, ConcatProperties
  <2>5. Len(x) = n - 1 /\ \A i \in 1..(n - 1) : x[i] = IF i <= m - 1 THEN a[i] ELSE b[i - (m - 1)]
    <3>1. (m - 1) + (n - m) = n - 1
      BY <1>4
    <3>2. Len(a) = m - 1 /\ Len(b) = n - m
      BY <2>1, <2>2, Zenon
    <3>3. Len(a) + Len(b) = n - 1
      BY <3>1, <3>2, Zenon
    <3> QED BY <2>4, <3>2, <3>3, Zenon
  <2>6. ASSUME NEW i \in 1..(n - 1) PROVE x[i] = IF i < m THEN q[i] ELSE q[i + 1]
    <3>1. CASE i < m
      BY <1>4, <2>1, <2>5, <3>1
    <3>2. CASE ~(i < m)
      <4>1. PICK k \in 1..(n - m) : k = i - (m - 1) /\ m + k = i + 1 /\ ~(i <= m - 1)
        BY <1>4, <3>2
      <4>2. x[i] = b[k] /\ b[k] = q[m + k]
        BY <2>2, <2>5, <4>1
      <4> QED BY <3>2, <4>1, <4>2
    <3> QED BY <3>1, <3>2
  <2> QED BY <2>4, <2>5, <2>6
<1>8. DOMAIN x = 1..(n - 1)
  BY <1>1, <1>7, LenProperties
<1>9. \A i, j \in 1..n : q[i] = q[j] => i = j
  BY <1>1 DEF IsInjective
<1>10. IsInjective(x)
  <2>1. ASSUME NEW i \in 1..(n - 1), NEW j \in 1..(n - 1), x[i] = x[j] PROVE i = j
    <3>1. i \in 1..n /\ i + 1 \in 1..n /\ j \in 1..n /\ j + 1 \in 1..n
      BY <1>1
    <3>2. x[i] = (IF i < m THEN q[i] ELSE q[i + 1]) /\ x[j] = (IF j < m THEN q[j] ELSE q[j + 1])
      BY <1>7
    <3>3. CASE i < m /\ j < m
      BY <1>9, <2>1, <3>1, <3>2, <3>3
    <3>4. CASE i < m /\ ~(j < m)
      <4>1. i = j + 1
        BY <1>9, <2>1, <3>1, <3>2, <3>4
      <4> QED BY <1>4, <3>4, <4>1
    <3>5. CASE ~(i < m) /\ j < m
      <4>1. i + 1 = j
        BY <1>9, <2>1, <3>1, <3>2, <3>5
      <4> QED BY <1>4, <3>5, <4>1
    <3>6. CASE ~(i < m) /\ ~(j < m)
      <4>1. i + 1 = j + 1
        BY <1>9, <2>1, <3>1, <3>2, <3>6
      <4> QED BY <4>1
    <3> QED BY <3>3, <3>4, <3>5, <3>6
  <2> QED BY <1>8, <2>1 DEF IsInjective
<1>11. ToSet(x) = ToSet(q) \ {c}
  <2>1. ASSUME NEW i \in 1..(n - 1) PROVE x[i] \in ToSet(q) \ {c}
    <3>1. PICK j \in 1..n : x[i] = q[j] /\ j # m
      <4>1. CASE i < m
        BY <1>1, <1>4, <1>7, <4>1
      <4>2. CASE ~(i < m)
        <5>1. i + 1 \in 1..n /\ i + 1 # m /\ x[i] = q[i + 1]
          BY <1>1, <1>4, <1>7, <4>2
        <5> QED BY <5>1
      <4> QED BY <4>1, <4>2
    <3>2. q[j] # c
      BY <1>4, <1>9, <3>1
    <3> QED BY <1>1, <3>1, <3>2 DEF ToSet
  <2>2. ASSUME NEW j \in 1..n, q[j] # c PROVE \E i \in 1..(n - 1) : x[i] = q[j]
    <3>1. j # m
      BY <1>4, <2>2
    <3>2. CASE j < m
      <4>1. j \in 1..(n - 1) /\ x[j] = q[j]
        BY <1>4, <1>7, <3>2
      <4> QED BY <4>1
    <3>3. CASE j > m
      <4>1. j - 1 \in 1..(n - 1) /\ ~(j - 1 < m) /\ (j - 1) + 1 = j
        BY <1>4, <3>3
      <4>2. x[j - 1] = q[j]
        BY <1>7, <4>1
      <4> QED BY <4>1, <4>2
    <3> QED BY <1>4, <3>1, <3>2, <3>3
  <2> QED BY <1>1, <1>8, <2>1, <2>2 DEF ToSet
<1>12. popSpec(q, c).spec = c /\ popSpec(q, c).next = x
  BY <1>5, <1>6
<1> QED BY <1>1, <1>7, <1>10, <1>11, <1>12, Zenon

(***************************************************************************)
(* The demo requests: a decision is carried out before the next one, and   *)
(* the agents of a task are divided between those decided and those        *)
(* pending.                                                                *)
(***************************************************************************)
Roles == ToSet(Specs)

DriverType ==
    [step : {"idle", "select", "publish", "start", "done", "failed"}, pending : Seq(Roles),
     selected : Roles \cup {"none"}, decided : Seq(Roles), started : Seq(Roles),
     stamps : Stamps \cup {<<>>}]

\* Between two turns of the loop: nothing decided is left to start.
Settled(d) ==
    /\ d.decided = d.started
    /\ ToSet(d.started) \cap ToSet(d.pending) = {}
    /\ ToSet(d.started) \cup ToSet(d.pending) = Roles
    /\ Len(d.started) + Len(d.pending) = Len(Specs)

\* Within one turn: the selected agent is decided and still pending.
Underway(d) ==
    /\ d.selected \in ToSet(d.pending)
    /\ d.decided = Append(d.started, d.selected)
    /\ ToSet(d.started) \cap ToSet(d.pending) = {}
    /\ ToSet(d.started) \cup ToSet(d.pending) = Roles
    /\ Len(d.started) + Len(d.pending) = Len(Specs)

\* The turn that ended the loop: its agent is neither pending nor started.
Ended(d) ==
    /\ d.selected \in Roles
    /\ d.decided = Append(d.started, d.selected)
    /\ ToSet(d.decided) \cup ToSet(d.pending) = Roles

DriverOK(d) ==
    /\ d \in DriverType
    /\ d.step = "idle" => d = Idle
    /\ d.step # "idle" => /\ d.stamps \in Stamps
                          /\ IsInjective(d.pending) /\ IsInjective(d.decided)
    /\ d.step = "select" => d.pending # <<>> /\ Settled(d)
    /\ d.step = "done" => d.pending = <<>> /\ Settled(d)
    /\ d.step \in {"publish", "start"} => Underway(d)
    /\ d.step = "failed" => Ended(d)

DriverInv ==
    /\ DOMAIN driver = Tasks /\ driver = [t \in Tasks |-> driver[t]]
    /\ \A t \in Tasks : DriverOK(driver[t])

\* The specs of a task.
LEMMA SpecsOK ==
    /\ Specs \in Seq(Roles) /\ Len(Specs) = 4 /\ IsInjective(Specs) /\ Specs # <<>>
    /\ Roles = {"planner", "coder", "tester", "reviewer"}
<1>1. Len(Specs) = 4 /\ DOMAIN Specs = 1..4 /\ 1..4 = {1, 2, 3, 4}
  BY DEF Specs
<1>2. Specs[1] = "planner" /\ Specs[2] = "coder" /\ Specs[3] = "tester" /\ Specs[4] = "reviewer"
  BY DEF Specs
<1>3. Roles = {"planner", "coder", "tester", "reviewer"}
  BY <1>1, <1>2 DEF Roles, ToSet
<1>4. Specs \in Seq(Roles)
  BY <1>3 DEF Specs
<1>5. IsInjective(Specs)
  BY <1>1, <1>2 DEF IsInjective
<1> QED BY <1>1, <1>3, <1>4, <1>5

\* The agent the scheduler selects for a request is one of its pending agents.
LEMMA SelectedPending ==
    ASSUME NEW t \in Tasks, DriverOK(driver[t]), driver[t].step = "select", Threshold \in Nat
    PROVE  selectLocked(policy, schedulerCandidates(t), last, pressure).id \in ToSet(driver[t].pending)
<1>1. PICK q \in Seq(Roles) : q = driver[t].pending /\ q # <<>>
  BY DEF DriverOK, DriverType
<1>2. PICK s \in [1..4 -> 1..2] : s = driver[t].stamps
  BY SpecsOK DEF DriverOK, Stamps
<1> DEFINE E == {Candidate(t, r) : r \in Roles}
           cs == schedulerCandidates(t)
<1>3. Comparable(E)
  <2>1. ASSUME NEW r \in Roles PROVE Candidate(t, r).vruntime \in Nat /\ Candidate(t, r).created \in Nat
    <3>1. PICK i \in 1..4 : i = CHOOSE k \in 1..Len(Specs) : Specs[k] = r
      <4>1. \E k \in 1..4 : Specs[k] = r
        BY SpecsOK DEF Roles, ToSet
      <4> QED BY <4>1, SpecsOK
    <3>2. Candidate(t, r).created = s[i] /\ Candidate(t, r).vruntime = 0
      BY <1>2, <3>1 DEF Candidate
    <3> QED BY <3>2
  <2> QED BY <2>1 DEF Comparable
<1>4. PICK n \in Nat : n = Len(q) /\ n # 0 /\ q \in [1..n -> Roles] /\ DOMAIN q = 1..n
  BY <1>1, EmptySeq
<1>5. cs = [i \in 1..n |-> Candidate(t, q[i])]
  BY <1>1, <1>4, Zenon DEF schedulerCandidates
<1>6. cs \in Seq(E) /\ DOMAIN cs = 1..n /\ cs # <<>>
  <2>1. \A i \in 1..n : Candidate(t, q[i]) \in E
    BY <1>4
  <2> HIDE DEF E, cs
  <2> QED BY <1>4, <1>5, <2>1
<1>7. selectLocked(policy, cs, last, pressure) \in ToSet(cs)
  <2> HIDE DEF E, cs
  <2> QED BY <1>3, <1>6, SelectIn
<1>8. PICK i \in 1..n : selectLocked(policy, cs, last, pressure) = Candidate(t, q[i])
  <2> HIDE DEF E, cs
  <2> QED BY <1>5, <1>6, <1>7 DEF ToSet
<1>9. Candidate(t, q[i]).id = q[i]
  BY DEF Candidate
<1> QED BY <1>1, <1>4, <1>8, <1>9 DEF ToSet

\* A request that begins.
LEMMA BeginOK ==
    ASSUME NEW s \in Stamps
    PROVE  DriverOK([Idle EXCEPT !.step = "select", !.pending = Specs, !.stamps = s])
<1>0. PICK e, q : e = <<>> /\ e \in Seq(Roles) /\ q = Specs /\ q \in Seq(Roles)
  <2>1. <<>> \in Seq(Roles)
    OBVIOUS
  <2> QED BY <2>1, SpecsOK, Zenon
<1>1. PICK x : x = [step |-> "select", pending |-> q, selected |-> "none",
                    decided |-> e, started |-> e, stamps |-> s]
  OBVIOUS
<1>2. /\ x.step = "select" /\ x.pending = Specs /\ x.decided = <<>> /\ x.started = <<>> /\ x.stamps = s
  <2>1. x.step = "select" /\ x.pending = q /\ x.decided = e /\ x.started = e /\ x.stamps = s
    BY <1>1
  <2> QED BY <1>0, <2>1, Zenon
<1>3. ToSet(<<>>) = {} /\ IsInjective(<<>>) /\ Len(<<>>) = 0 /\ <<>> \in Seq(Roles)
  BY DEF ToSet, IsInjective
<1>4. x \in DriverType
  <2>1. e \in Seq(Roles) /\ q \in Seq(Roles)
    BY <1>0, Zenon
  <2> QED BY <1>1, <2>1 DEF DriverType
<1>5. Settled(x)
  <2>1. 0 + 4 = 4
    OBVIOUS
  <2>2. ToSet(<<>>) \cap Roles = {} /\ ToSet(<<>>) \cup Roles = Roles
    BY <1>3
  <2>3. Len(<<>>) + Len(Specs) = Len(Specs)
    BY <1>3, <2>1, SpecsOK, Zenon
  <2> QED BY <1>2, <2>2, <2>3, Zenon DEF Settled, Roles
<1>6. DriverOK(x)
  BY <1>2, <1>3, <1>4, <1>5, SpecsOK DEF DriverOK
<1>7. [Idle EXCEPT !.step = "select", !.pending = Specs, !.stamps = s] = x
  <2>1. PICK y : y = [Idle EXCEPT !.step = "select", !.pending = Specs, !.stamps = s]
    OBVIOUS
  <2>2. y = [step |-> "select", pending |-> q, selected |-> "none",
             decided |-> e, started |-> e, stamps |-> s]
    BY <1>0, <2>1 DEF Idle
  <2> QED BY <1>1, <2>1, <2>2, Zenon
<1> QED BY <1>6, <1>7, Zenon

\* A decision: the selected agent joins the decided ones.
LEMMA SelectOK ==
    ASSUME NEW d, DriverOK(d), d.step = "select", NEW p \in ToSet(d.pending),
           NEW x, x = [d EXCEPT !.step = "publish", !.selected = p, !.decided = Append(d.decided, p)]
    PROVE  DriverOK(x)
<1>1. d \in DriverType /\ Settled(d) /\ IsInjective(d.pending) /\ IsInjective(d.decided) /\ d.stamps \in Stamps
  BY DEF DriverOK
<1>2. d.pending \in Seq(Roles) /\ d.decided \in Seq(Roles) /\ d.started \in Seq(Roles)
  BY <1>1 DEF DriverType
<1>3. p \in Roles /\ p \notin ToSet(d.decided)
  BY <1>1, Zenon DEF Settled
<1>4. /\ x.step = "publish" /\ x.selected = p /\ x.decided = Append(d.decided, p)
      /\ x.pending = d.pending /\ x.started = d.started /\ x.stamps = d.stamps
  BY <1>1 DEF DriverType
<1>5. Append(d.decided, p) \in Seq(Roles) /\ IsInjective(Append(d.decided, p))
  BY <1>1, <1>2, <1>3, AppendFresh
<1>6. x \in DriverType
  BY <1>1, <1>3, <1>5 DEF DriverType
<1>7. Underway(x)
  BY <1>1, <1>4, Zenon DEF Underway, Settled
<1> QED BY <1>1, <1>4, <1>5, <1>6, <1>7, Zenon DEF DriverOK

\* Publishing the decision changes none of it.
LEMMA PublishOK ==
    ASSUME NEW d, DriverOK(d), d.step = "publish", NEW x, x = [d EXCEPT !.step = "start"]
    PROVE  DriverOK(x)
<1>1. /\ d \in DriverType /\ Underway(d) /\ IsInjective(d.pending) /\ IsInjective(d.decided)
      /\ d.stamps \in Stamps
  BY DEF DriverOK
<1>2. /\ x.step = "start" /\ x.selected = d.selected /\ x.decided = d.decided
      /\ x.pending = d.pending /\ x.started = d.started /\ x.stamps = d.stamps
  BY <1>1 DEF DriverType
<1>3. x \in DriverType
  BY <1>1 DEF DriverType
<1>4. Underway(x)
  BY <1>1, <1>2, Zenon DEF Underway
<1> QED BY <1>1, <1>2, <1>3, <1>4, Zenon DEF DriverOK

\* What a turn of the loop takes out of the pending agents.
LEMMA PopUnderway ==
    ASSUME NEW d, DriverOK(d), d.step = "start", NEW pop, pop = popSpec(d.pending, d.selected)
    PROVE  /\ pop.spec = d.selected /\ pop.spec \in Roles /\ pop.next \in Seq(Roles) /\ IsInjective(pop.next)
           /\ Len(pop.next) = Len(d.pending) - 1
           /\ ToSet(pop.next) = ToSet(d.pending) \ {d.selected}
           /\ d.decided = Append(d.started, d.selected)
           /\ ToSet(d.decided) = ToSet(d.started) \cup {d.selected}
           /\ Len(d.decided) = Len(d.started) + 1
<1>1. d \in DriverType /\ Underway(d) /\ IsInjective(d.pending)
  BY DEF DriverOK
<1>2. PICK q \in Seq(Roles), c \in Roles, s \in Seq(Roles) :
        q = d.pending /\ c \in ToSet(q) /\ c = d.selected /\ s = d.started /\ d.decided = Append(s, c)
  BY <1>1 DEF DriverType, Underway
<1>3. IsInjective(q) /\ pop = popSpec(q, c) /\ c \in Roles
  BY <1>1, <1>2, Zenon DEF Underway
<1>4. ToSet(Append(s, c)) = ToSet(s) \cup {c} /\ Len(Append(s, c)) = Len(s) + 1
  BY <1>3, ToSetAppend, AppendFresh
<1>5. /\ pop.spec = c /\ pop.next \in Seq(Roles) /\ IsInjective(pop.next)
      /\ Len(pop.next) = Len(q) - 1 /\ ToSet(pop.next) = ToSet(q) \ {c}
  <2>1. c \in ToSet(q) /\ IsInjective(q)
    BY <1>2, <1>3, Zenon
  <2>2. /\ popSpec(q, c).spec = c /\ popSpec(q, c).next \in Seq(Roles) /\ IsInjective(popSpec(q, c).next)
        /\ Len(popSpec(q, c).next) = Len(q) - 1 /\ ToSet(popSpec(q, c).next) = ToSet(q) \ {c}
    BY <2>1, PopSelected
  <2> QED BY <1>3, <2>2, Zenon
<1> QED BY <1>2, <1>3, <1>4, <1>5, Zenon

\* A worker that starts: the loop goes on, or has started every agent.
LEMMA StartOK ==
    ASSUME NEW d, DriverOK(d), d.step = "start", NEW pop, pop = popSpec(d.pending, d.selected),
           NEW after, after = (IF pop.next = <<>> THEN "done" ELSE "select"),
           NEW x, x = [d EXCEPT !.pending = pop.next, !.started = Append(d.started, pop.spec), !.step = after]
    PROVE  DriverOK(x)
<1>1. /\ d \in DriverType /\ Underway(d) /\ IsInjective(d.decided) /\ d.stamps \in Stamps
  BY DEF DriverOK
<1>2. /\ pop.spec = d.selected /\ pop.spec \in Roles /\ pop.next \in Seq(Roles) /\ IsInjective(pop.next)
      /\ Len(pop.next) = Len(d.pending) - 1
      /\ ToSet(pop.next) = ToSet(d.pending) \ {d.selected}
      /\ d.decided = Append(d.started, d.selected)
      /\ ToSet(d.decided) = ToSet(d.started) \cup {d.selected}
      /\ Len(d.decided) = Len(d.started) + 1
  BY PopUnderway, Zenon
<1>3. /\ x.step = (IF pop.next = <<>> THEN "done" ELSE "select") /\ x.selected = d.selected
      /\ x.decided = d.decided /\ x.pending = pop.next /\ x.started = Append(d.started, pop.spec)
      /\ x.stamps = d.stamps
  BY <1>1 DEF DriverType
<1>4. x.started = d.decided
  BY <1>2, <1>3, Zenon
<1>5. x \in DriverType
  <2>1. d.decided \in Seq(Roles) /\ Append(d.started, pop.spec) = d.decided
    BY <1>1, <1>2 DEF DriverType
  <2> QED BY <1>1, <1>2, <2>1 DEF DriverType
<1>6. Settled(x)
  <2>1. /\ d.selected \in ToSet(d.pending) /\ ToSet(d.started) \cap ToSet(d.pending) = {}
        /\ ToSet(d.started) \cup ToSet(d.pending) = Roles
        /\ Len(d.started) + Len(d.pending) = Len(Specs)
    BY <1>1, Zenon DEF Underway
  <2>2. PICK k \in Nat, l \in Nat : k = Len(d.started) /\ l = Len(d.pending)
    BY <1>1 DEF DriverType
  <2>3. (k + 1) + (l - 1) = k + l
    OBVIOUS
  <2>4. Len(d.decided) + Len(pop.next) = Len(Specs)
    BY <1>2, <2>1, <2>2, <2>3, Zenon
  <2>5. ToSet(d.decided) \cap ToSet(pop.next) = {} /\ ToSet(d.decided) \cup ToSet(pop.next) = Roles
    BY <1>2, <2>1
  <2> QED BY <1>3, <1>4, <2>4, <2>5, Zenon DEF Settled
<1>7. CASE pop.next = <<>>
  <2>1. x.step = "done" /\ x.pending = <<>>
    BY <1>3, <1>7, Zenon
  <2> QED BY <1>1, <1>2, <1>3, <1>5, <1>6, <2>1 DEF DriverOK
<1>8. CASE pop.next # <<>>
  <2>1. x.step = "select" /\ x.pending # <<>>
    BY <1>3, <1>8, Zenon
  <2> QED BY <1>1, <1>2, <1>3, <1>5, <1>6, <2>1 DEF DriverOK
<1> QED BY <1>7, <1>8

\* A worker that does not start ends the loop.
LEMMA FailOK ==
    ASSUME NEW d, DriverOK(d), d.step = "start", NEW pop, pop = popSpec(d.pending, d.selected),
           NEW x, x = [d EXCEPT !.pending = pop.next, !.step = "failed"]
    PROVE  DriverOK(x)
<1>1. /\ d \in DriverType /\ Underway(d) /\ IsInjective(d.decided) /\ d.stamps \in Stamps
  BY DEF DriverOK
<1>2. /\ pop.spec = d.selected /\ pop.spec \in Roles /\ pop.next \in Seq(Roles) /\ IsInjective(pop.next)
      /\ ToSet(pop.next) = ToSet(d.pending) \ {d.selected}
      /\ d.decided = Append(d.started, d.selected)
      /\ ToSet(d.decided) = ToSet(d.started) \cup {d.selected}
  BY PopUnderway, Zenon
<1>3. /\ x.step = "failed" /\ x.selected = d.selected /\ x.decided = d.decided
      /\ x.pending = pop.next /\ x.started = d.started /\ x.stamps = d.stamps
  BY <1>1 DEF DriverType
<1>4. x \in DriverType
  BY <1>1, <1>2 DEF DriverType
<1>5. Ended(x)
  <2>1. ToSet(d.started) \cup ToSet(d.pending) = Roles
    BY <1>1, Zenon DEF Underway
  <2>2. ToSet(d.decided) \cup ToSet(pop.next) = Roles
    BY <1>2, <2>1
  <2> QED BY <1>2, <1>3, <2>2, Zenon DEF Ended
<1> QED BY <1>1, <1>2, <1>3, <1>4, <1>5 DEF DriverOK

\* A request that changes to a good state leaves the others as they are.
LEMMA OneDriver ==
    ASSUME DriverInv, NEW t \in Tasks, NEW x, DriverOK(x), driver' = [driver EXCEPT ![t] = x]
    PROVE  DriverInv'
<1>1. driver' = [u \in Tasks |-> IF u = t THEN x ELSE driver[u]]
  BY DEF DriverInv
<1>2. ASSUME NEW u \in Tasks PROVE DriverOK(driver'[u])
  <2>1. CASE u = t
    BY <1>1, <2>1, Zenon
  <2>2. CASE u # t
    BY <1>1, <2>2, Zenon DEF DriverInv
  <2> QED BY <2>1, <2>2
<1>3. DOMAIN driver' = Tasks /\ driver' = [u \in Tasks |-> driver'[u]]
  BY <1>1
<1> QED BY <1>2, <1>3, Zenon DEF DriverInv

\* The requests stay in order.
THEOREM DriverInvariant == LSpec => []DriverInv
<1>1. LInit => DriverInv
  <2> SUFFICES ASSUME LInit PROVE DriverInv
    OBVIOUS
  <2>1. DriverOK(Idle)
    <3>1. PICK e : e = <<>> /\ e \in Seq(Roles)
      <4>1. <<>> \in Seq(Roles)
        OBVIOUS
      <4> QED BY <4>1, Zenon
    <3>2. PICK x : x = [step |-> "idle", pending |-> e, selected |-> "none",
                        decided |-> e, started |-> e, stamps |-> e] /\ x = Idle
      BY <3>1 DEF Idle
    <3>3. x.step = "idle" /\ x \in DriverType
      <4>1. e \in Stamps \cup {<<>>}
        BY <3>1, Zenon
      <4> QED BY <3>1, <3>2, <4>1 DEF DriverType
    <3> QED BY <3>2, <3>3 DEF DriverOK
  <2>2. driver = [t \in Tasks |-> Idle]
    BY DEF LInit
  <2> QED BY <2>1, <2>2 DEF DriverInv
<1>2. DriverInv /\ [LNext]_lvars => DriverInv'
  <2> SUFFICES ASSUME DriverInv, [LNext]_lvars PROVE DriverInv'
    OBVIOUS
  <2>0. driver = [t \in Tasks |-> driver[t]] /\ DOMAIN driver = Tasks /\ \A t \in Tasks : DriverOK(driver[t])
    BY DEF DriverInv
  <2>1. ASSUME NEW t \in Tasks, NEW s \in Stamps, Begin(t, s) PROVE DriverInv'
    <3>1. PICK x : /\ x = [Idle EXCEPT !.step = "select", !.pending = Specs, !.stamps = s]
                   /\ driver' = [driver EXCEPT ![t] = x]
      BY <2>1, Zenon DEF Begin
    <3> QED BY <3>1, BeginOK, OneDriver, Zenon
  <2>2. ASSUME NEW t \in Tasks, SelectStep(t) PROVE DriverInv'
    <3>1. PICK p : /\ p = selectLocked(policy, schedulerCandidates(t), last, pressure).id
                   /\ driver' = [driver EXCEPT ![t].step = "publish", ![t].selected = p,
                                               ![t].decided = Append(@, p)]
      BY <2>2, Zenon DEF SelectStep
    <3>2. p \in ToSet(driver[t].pending)
      BY <2>0, <2>2, <3>1, SelectedPending, SchedulerAssumption DEF SelectStep
    <3>3. PICK x : x = [driver[t] EXCEPT !.step = "publish", !.selected = p, !.decided = Append(driver[t].decided, p)]
      OBVIOUS
    <3>4. driver' = [driver EXCEPT ![t] = x]
      BY <2>0, <3>1, <3>3
    <3>5. DriverOK(x)
      BY <2>0, <2>2, <3>2, <3>3, SelectOK, Zenon DEF SelectStep
    <3> QED BY <3>4, <3>5, OneDriver, Zenon
  <2>3. ASSUME NEW t \in Tasks, NEW status, Publish(t, status) PROVE DriverInv'
    <3>1. PICK x : x = [driver[t] EXCEPT !.step = "start"]
      OBVIOUS
    <3>2. driver' = [driver EXCEPT ![t] = x]
      BY <2>0, <2>3, <3>1 DEF Publish
    <3>3. DriverOK(x)
      BY <2>0, <2>3, <3>1, PublishOK, Zenon DEF Publish
    <3> QED BY <3>2, <3>3, OneDriver, Zenon
  <2>4. ASSUME NEW t \in Tasks, StartWorker(t) PROVE DriverInv'
    <3>1. PICK pop, after : /\ pop = popSpec(driver[t].pending, driver[t].selected)
                            /\ after = (IF pop.next = <<>> THEN "done" ELSE "select")
                            /\ driver' = [driver EXCEPT ![t].pending = pop.next,
                                                        ![t].started = Append(@, pop.spec),
                                                        ![t].step = after]
      BY <2>4, Zenon DEF StartWorker
    <3>2. PICK x : x = [driver[t] EXCEPT !.pending = pop.next, !.started = Append(driver[t].started, pop.spec),
                                         !.step = after]
      OBVIOUS
    <3>3. driver' = [driver EXCEPT ![t] = x]
      BY <2>0, <3>1, <3>2
    <3>4. DriverOK(x)
      BY <2>0, <2>4, <3>1, <3>2, StartOK, Zenon DEF StartWorker
    <3> QED BY <3>3, <3>4, OneDriver, Zenon
  <2>5. ASSUME NEW t \in Tasks, StartFails(t) PROVE DriverInv'
    <3>1. PICK pop : /\ pop = popSpec(driver[t].pending, driver[t].selected)
                     /\ driver' = [driver EXCEPT ![t].pending = pop.next, ![t].step = "failed"]
      BY <2>5, Zenon DEF StartFails
    <3>2. PICK x : x = [driver[t] EXCEPT !.pending = pop.next, !.step = "failed"]
      OBVIOUS
    <3>3. driver' = [driver EXCEPT ![t] = x]
      BY <2>0, <3>1, <3>2
    <3>4. DriverOK(x)
      BY <2>0, <2>5, <3>1, <3>2, FailOK, Zenon DEF StartFails
    <3> QED BY <3>3, <3>4, OneDriver, Zenon
  <2>6. CASE UNCHANGED driver
    BY <2>0, <2>6, Zenon DEF DriverInv
  <2>7. CASE LNext
    <3>1. CASE UNCHANGED driver
      BY <2>6, <3>1
    <3>2. CASE \E t \in Tasks : \/ \E s \in Stamps : Begin(t, s)
                                \/ SelectStep(t)
                                \/ \E status \in Samples : Publish(t, status)
                                \/ StartWorker(t) \/ StartFails(t)
      BY <2>1, <2>2, <2>3, <2>4, <2>5, <3>2, Zenon
    <3> QED BY <2>7, <3>1, <3>2, Zenon
          DEF LNext, DemoNext, handleSchedulerPolicy, SamplePressure, SoftwareRealSelect
  <2>8. CASE UNCHANGED lvars
    BY <2>6, <2>8 DEF lvars
  <2> QED BY <2>7, <2>8
<1> QED BY <1>1, <1>2, PTL DEF LSpec

\* The workers of a task are started in the order of its decisions, none twice
\* and none lost, for any number of requests and every interleaving of their
\* loops with each other and with the scheduler's endpoints.
THEOREM LaunchStartedAsDecided == LSpec => []StartedAsDecided
<1>1. DriverInv => StartedAsDecided
  <2> SUFFICES ASSUME DriverInv, NEW t \in Tasks, NEW d, d = driver[t]
               PROVE  /\ IsPrefix(d.started, d.decided)
                      /\ Len(d.decided) - Len(d.started) \in 0..1
                      /\ d.step # "idle" => /\ ToSet(d.decided) \cup ToSet(d.pending) = ToSet(Specs)
                                            /\ IsInjective(d.decided)
                      /\ d.step = "done" => d.started = d.decided /\ Len(d.started) = Len(Specs)
    BY DEF StartedAsDecided
  <2>1. DriverOK(d)
    BY DEF DriverInv
  <2>2. d \in DriverType
    BY <2>1 DEF DriverOK
  <2>3. PICK s \in Seq(Roles), k \in Nat : s = d.started /\ k = Len(s)
    BY <2>2 DEF DriverType
  <2>4. CASE d.decided = s
    <3>1. IsPrefix(s, s)
      BY DEF IsPrefix
    <3>2. k - k \in 0..1
      OBVIOUS
    <3>3. d.step # "idle" => /\ ToSet(d.decided) \cup ToSet(d.pending) = ToSet(Specs)
                             /\ IsInjective(d.decided)
      <4>1. CASE Settled(d) \/ Underway(d) \/ Ended(d)
        BY <2>1, <2>3, <2>4, <4>1 DEF DriverOK, Settled, Underway, Ended, Roles
      <4>2. CASE ~(Settled(d) \/ Underway(d) \/ Ended(d))
        BY <2>1, <2>2, <4>2 DEF DriverOK, DriverType
      <4> QED BY <4>1, <4>2
    <3>4. d.step = "done" => d.started = d.decided /\ Len(d.started) = Len(Specs)
      <4>1. ASSUME d.step = "done" PROVE Len(s) = Len(Specs)
        <5>1. Settled(d) /\ Len(d.pending) = 0
          BY <2>1, <4>1 DEF DriverOK
        <5>2. k + 0 = k
          OBVIOUS
        <5> QED BY <2>3, <5>1, <5>2 DEF Settled
      <4> QED BY <2>3, <2>4, <4>1
    <3> QED BY <2>3, <2>4, <3>1, <3>2, <3>3, <3>4, Zenon
  <2>5. CASE d.decided # s
    <3>1. d.step \notin {"idle", "select", "done"}
      <4>1. d.step = "idle" => d.decided = s
        <5>1. d.step = "idle" => d = Idle
          BY <2>1 DEF DriverOK
        <5>2. Idle.decided = Idle.started
          BY DEF Idle
        <5> QED BY <2>3, <5>1, <5>2, Zenon
      <4> QED BY <2>1, <2>3, <2>5, <4>1 DEF DriverOK, Settled
    <3>2. PICK c \in Roles : c = d.selected /\ d.decided = Append(s, c)
      BY <2>1, <2>2, <2>3, <3>1 DEF DriverOK, DriverType, Underway, Ended
    <3>3. IsPrefix(s, d.decided) /\ Len(d.decided) = k + 1
      BY <2>3, <3>2, AppendFresh
    <3>4. (k + 1) - k \in 0..1
      OBVIOUS
    <3>5. ToSet(d.decided) \cup ToSet(d.pending) = Roles
      <4>1. ToSet(d.decided) = ToSet(s) \cup {c}
        BY <3>2, ToSetAppend
      <4>2. CASE Underway(d)
        <5>1. c \in ToSet(d.pending) /\ ToSet(s) \cup ToSet(d.pending) = Roles
          BY <2>3, <3>2, <4>2, Zenon DEF Underway
        <5> QED BY <4>1, <5>1
      <4>3. CASE Ended(d)
        BY <4>3, Zenon DEF Ended
      <4> QED BY <2>1, <2>2, <3>1, <4>2, <4>3 DEF DriverOK, DriverType
    <3>6. IsInjective(d.decided)
      BY <2>1, <3>1 DEF DriverOK
    <3>7. d.step # "done"
      BY <3>1
    <3> QED BY <2>3, <3>3, <3>4, <3>5, <3>6, <3>7, Zenon DEF Roles
  <2> QED BY <2>4, <2>5
<1> QED BY <1>1, DriverInvariant, PTL

(***************************************************************************)
(* Scores.                                                                 *)
(***************************************************************************)
\* Products respect the order.
LEMMA TimesMonotone ==
    ASSUME NEW a \in Int, NEW b \in Int, NEW c \in Nat, a <= b
    PROVE  a * c <= b * c
<1>1. (b - a) * c >= 0
  OBVIOUS
<1>2. (b - a) * c = b * c - a * c
  OBVIOUS
<1> QED BY <1>1, <1>2

\* What \div returns.
LEMMA DivBounds ==
    ASSUME NEW n \in Nat, NEW d \in Nat, d > 0
    PROVE  n \div d \in Nat /\ d * (n \div d) <= n /\ n < d * (n \div d) + d
<1>1. n \div d \in Int /\ n % d \in 0..(d - 1) /\ n = d * (n \div d) + (n % d)
  OBVIOUS
<1>2. PICK q \in Int, r \in 0..(d - 1) : q = n \div d /\ n = d * q + r
  BY <1>1
<1>3. q >= 0
  <2> SUFFICES ASSUME q <= 0 - 1 PROVE FALSE
    BY <1>2
  <2>1. q * d <= (0 - 1) * d
    BY TimesMonotone
  <2>2. q * d = d * q /\ (0 - 1) * d = 0 - d
    OBVIOUS
  <2> QED BY <1>2, <2>1, <2>2
<1>4. d * q \in Int
  OBVIOUS
<1> QED BY <1>2, <1>3, <1>4

\* Round returns the nearest integer.
LEMMA RoundBounds ==
    ASSUME NEW n \in Int, NEW d \in Nat, d > 0
    PROVE  /\ Round(n, d) \in Int
           /\ n >= 0 => /\ Round(n, d) >= 0
                        /\ 2 * (d * Round(n, d)) <= 2 * n + d
                        /\ 2 * n - d < 2 * (d * Round(n, d))
           /\ n < 0 => /\ Round(n, d) <= 0
                       /\ 2 * n - d <= 2 * (d * Round(n, d))
                       /\ 2 * (d * Round(n, d)) < 2 * n + d
<1>1. CASE n >= 0
  <2>1. PICK m \in Nat, e \in Nat : m = 2 * n + d /\ e = 2 * d /\ e > 0
    BY <1>1
  <2>2. PICK q \in Nat : q = m \div e /\ e * q <= m /\ m < e * q + e
    BY <2>1, DivBounds
  <2>3. Round(n, d) = q
    BY <1>1, <2>1, <2>2 DEF Round
  <2>4. e * q = 2 * (d * q)
    BY <2>1
  <2>5. PICK p \in Int : p = d * q
    OBVIOUS
  <2>6. 2 * p <= 2 * n + d /\ 2 * n - d < 2 * p
    BY <2>1, <2>2, <2>4, <2>5
  <2> QED BY <1>1, <2>3, <2>5, <2>6
<1>2. CASE n < 0
  <2>1. PICK m \in Nat, e \in Nat : m = -2 * n + d /\ e = 2 * d /\ e > 0
    BY <1>2
  <2>2. PICK q \in Nat : q = m \div e /\ e * q <= m /\ m < e * q + e
    BY <2>1, DivBounds
  <2>3. Round(n, d) = -q
    BY <1>2, <2>1, <2>2 DEF Round
  <2>4. e * q = 2 * (d * q) /\ d * (-q) = -(d * q)
    BY <2>1
  <2>5. PICK p \in Int : p = d * q
    OBVIOUS
  <2>6. 2 * n - d <= 2 * (-p) /\ 2 * (-p) < 2 * n + d
    BY <2>1, <2>2, <2>4, <2>5
  <2> QED BY <1>2, <2>3, <2>4, <2>5, <2>6
<1> QED BY <1>1, <1>2

\* The bounds of Round, scaled.
LEMMA Scaled ==
    ASSUME NEW n \in Int, NEW d \in Int, NEW q \in Int, NEW e \in Nat, e > 0
    PROVE  /\ 2 * n - d <= 2 * (d * q) => 2 * (n * e) - d * e <= 2 * ((d * e) * q)
           /\ 2 * n - d < 2 * (d * q) => 2 * (n * e) - d * e < 2 * ((d * e) * q)
           /\ 2 * (d * q) <= 2 * n + d => 2 * ((d * e) * q) <= 2 * (n * e) + d * e
           /\ 2 * (d * q) < 2 * n + d => 2 * ((d * e) * q) < 2 * (n * e) + d * e
<1>1. PICK a \in Int, b \in Int, c \in Int : a = 2 * n - d /\ b = 2 * (d * q) /\ c = 2 * n + d
  OBVIOUS
<1>2. a * e = 2 * (n * e) - d * e /\ b * e = 2 * ((d * e) * q) /\ c * e = 2 * (n * e) + d * e
  <2>1. (2 * n - d) * e = 2 * (n * e) - d * e /\ (2 * n + d) * e = 2 * (n * e) + d * e
    OBVIOUS
  <2>2. (2 * (d * q)) * e = 2 * ((d * e) * q)
    OBVIOUS
  <2> QED BY <1>1, <2>1, <2>2, Zenon
<1>3. ASSUME NEW x \in Int, NEW y \in Int, x < y PROVE x * e < y * e
  <2>1. (x + 1) * e <= y * e
    BY <1>3, TimesMonotone
  <2>2. (x + 1) * e = x * e + e
    OBVIOUS
  <2>3. PICK u \in Int, v \in Int : u = x * e /\ v = y * e
    OBVIOUS
  <2>4. u + e <= v
    BY <2>1, <2>2, <2>3, Zenon
  <2>5. u < v
    BY <2>4
  <2> QED BY <2>3, <2>5, Zenon
<1>4. (a <= b => a * e <= b * e) /\ (b <= c => b * e <= c * e)
  BY TimesMonotone
<1>5. (a < b => a * e < b * e) /\ (b < c => b * e < c * e)
  BY <1>3
<1> QED BY <1>1, <1>2, <1>4, <1>5, Zenon

\* The bounds of Round, scaled by another denominator: A and X stand for the
\* number and its rounded value over the common denominator P.
RoundOver(A, X, P, n) ==
    /\ A \in Int /\ X \in Int /\ P \in Nat /\ P > 0
    /\ 2 * A - P <= 2 * X /\ 2 * X <= 2 * A + P
    /\ n >= 0 => 2 * A - P < 2 * X
    /\ n < 0 => 2 * X < 2 * A + P

\* Rounding over a common denominator.
LEMMA RoundScaled ==
    ASSUME NEW n \in Int, NEW d \in Nat, d > 0, NEW e \in Nat, e > 0, NEW q, q = Round(n, d)
    PROVE  q \in Int /\ RoundOver(n * e, (d * e) * q, d * e, n)
<1>1. /\ q \in Int
      /\ n >= 0 => q >= 0 /\ 2 * (d * q) <= 2 * n + d /\ 2 * n - d < 2 * (d * q)
      /\ n < 0 => q <= 0 /\ 2 * n - d <= 2 * (d * q) /\ 2 * (d * q) < 2 * n + d
  BY RoundBounds, Zenon
<1>2. PICK a \in Int, b \in Int, c \in Int : a = 2 * n - d /\ b = 2 * (d * q) /\ c = 2 * n + d
  <2>1. 2 * n - d \in Int /\ 2 * n + d \in Int
    OBVIOUS
  <2>2. ASSUME NEW k \in Int PROVE 2 * (d * k) \in Int
    OBVIOUS
  <2>3. 2 * (d * q) \in Int
    BY <1>1, <2>2, Zenon
  <2> QED BY <2>1, <2>3, Zenon
<1>3. (n >= 0 => b <= c /\ a < b) /\ (n < 0 => a <= b /\ b < c)
  BY <1>1, <1>2, Zenon
<1>4. a <= b /\ b <= c /\ (n >= 0 => a < b) /\ (n < 0 => b < c)
  BY <1>3
<1>5. /\ 2 * (n * e) - d * e <= 2 * ((d * e) * q) /\ 2 * ((d * e) * q) <= 2 * (n * e) + d * e
      /\ n >= 0 => 2 * (n * e) - d * e < 2 * ((d * e) * q)
      /\ n < 0 => 2 * ((d * e) * q) < 2 * (n * e) + d * e
  <2>1. /\ a <= b => 2 * (n * e) - d * e <= 2 * ((d * e) * q)
        /\ a < b => 2 * (n * e) - d * e < 2 * ((d * e) * q)
        /\ b <= c => 2 * ((d * e) * q) <= 2 * (n * e) + d * e
        /\ b < c => 2 * ((d * e) * q) < 2 * (n * e) + d * e
    <3>1. d \in Int
      OBVIOUS
    <3> QED BY <1>1, <1>2, <3>1, Scaled, Zenon
  <2> QED BY <1>4, <2>1, Zenon
<1>6. d * e \in Nat /\ d * e > 0 /\ n * e \in Int
  OBVIOUS
<1>7. (d * e) * q \in Int
  BY <1>1, <1>6
<1> QED BY <1>1, <1>5, <1>6, <1>7, Zenon DEF RoundOver

\* Rounding respects the order of the numbers, and tells apart numbers two or
\* more apart.
LEMMA RoundMonotone ==
    ASSUME NEW n \in Int, NEW d \in Nat, d > 0, NEW m \in Int, NEW e \in Nat, e > 0
    PROVE  /\ n * e >= m * d => Round(n, d) >= Round(m, e)
           /\ n * e >= m * d + 2 * (d * e) => Round(n, d) > Round(m, e)
<1>1. PICK q \in Int, r \in Int : /\ q = Round(n, d) /\ r = Round(m, e)
                                  /\ n >= 0 => q >= 0
                                  /\ m < 0 => r <= 0
  BY RoundBounds
<1>2. e * d = d * e
  OBVIOUS
<1>3. PICK P, A, X, B, Y : /\ P = d * e /\ A = n * e /\ X = P * q /\ B = m * d /\ Y = P * r
                           /\ RoundOver(A, X, P, n) /\ RoundOver(B, Y, P, m)
  BY <1>1, <1>2, RoundScaled, Zenon
<1>4. /\ A \in Int /\ X \in Int /\ P \in Nat /\ P > 0 /\ B \in Int /\ Y \in Int
      /\ 2 * A - P <= 2 * X /\ 2 * Y <= 2 * B + P
      /\ n >= 0 => 2 * A - P < 2 * X
      /\ m < 0 => 2 * Y < 2 * B + P
  BY <1>3 DEF RoundOver
<1>5. ASSUME A >= B PROVE q >= r
  <2> SUFFICES ASSUME q + 1 <= r PROVE FALSE
    OBVIOUS
  <2>1. X + P <= Y
    <3>1. (q + 1) * P <= r * P
      BY <1>4, TimesMonotone
    <3>2. (q + 1) * P = P * q + P /\ r * P = P * r
      BY <1>4
    <3> QED BY <1>3, <3>1, <3>2, Zenon
  <2>2. CASE n >= 0 /\ m < 0
    BY <1>1, <2>2
  <2>3. CASE n >= 0 /\ m >= 0
    BY <1>4, <1>5, <2>1, <2>3
  <2>4. CASE n < 0 /\ m < 0
    BY <1>4, <1>5, <2>1, <2>4
  <2>5. CASE n < 0 /\ m >= 0
    <3>1. n * e <= (0 - 1) * e /\ 0 * d <= m * d
      BY <2>5, TimesMonotone
    <3>2. (0 - 1) * e = 0 - e /\ 0 * d = 0
      OBVIOUS
    <3>3. A <= 0 - e /\ 0 <= B
      BY <1>3, <3>1, <3>2, Zenon
    <3> QED BY <1>4, <1>5, <3>3
  <2> QED BY <2>2, <2>3, <2>4, <2>5
<1>6. ASSUME A >= B + 2 * P PROVE q > r
  <2> SUFFICES ASSUME q <= r PROVE FALSE
    OBVIOUS
  <2>1. X <= Y
    <3>1. q * P <= r * P
      BY <1>4, TimesMonotone
    <3>2. q * P = P * q /\ r * P = P * r
      BY <1>4
    <3> QED BY <1>3, <3>1, <3>2, Zenon
  <2> QED BY <1>4, <1>6, <2>1
<1> QED BY <1>1, <1>3, <1>5, <1>6, Zenon

\* The part of a score that does not depend on the vruntime.
Rest(shared, priority, memory, pids, cpu, psi) ==
    30000 * shared + 5000 * priority - 180 * memory - 160 * pids - 120 * cpu - 90 * psi

\* The arithmetic of two scores: l and v are what the scores' terms are.
LEMMA RestMonotone ==
    ASSUME NEW s1 \in Int, NEW s2 \in Int, s1 >= s2, NEW p1 \in Int, NEW p2 \in Int, p1 >= p2,
           NEW m1 \in Int, NEW m2 \in Int, m1 <= m2, NEW i1 \in Int, NEW i2 \in Int, i1 <= i2,
           NEW c1 \in Int, NEW c2 \in Int, c1 <= c2, NEW psi \in Int
    PROVE  /\ Rest(s1, p1, m1, i1, c1, psi) \in Int /\ Rest(s2, p2, m2, i2, c2, psi) \in Int
           /\ Rest(s1, p1, m1, i1, c1, psi) >= Rest(s2, p2, m2, i2, c2, psi)
           /\ m1 < m2 => Rest(s1, p1, m1, i1, c1, psi) >= Rest(s2, p2, m2, i2, c2, psi) + 2
BY DEF Rest

\* The numerator of a score.
Weighed(k, d) == 1000000 + k * d

\* A number that does not depend on the denominator, plus a part that shrinks
\* with it.
LEMMA ScoreMonotone ==
    ASSUME NEW k \in Int, NEW l \in Int, k >= l, NEW d \in Nat, d > 0, NEW e \in Nat, d <= e
    PROVE  /\ Round(Weighed(k, d), d) \in Int /\ Round(Weighed(l, e), e) \in Int
           /\ Round(Weighed(k, d), d) >= Round(Weighed(l, e), e)
           /\ k >= l + 2 => Round(Weighed(k, d), d) > Round(Weighed(l, e), e)
<1>0. e > 0
  OBVIOUS
<1>1. PICK M \in Nat, n \in Int, m \in Int :
        /\ n = M + k * d /\ m = M + l * e
        /\ n = Weighed(k, d) /\ m = Weighed(l, e)
  <2>1. PICK M \in Nat : M = 1000000
    OBVIOUS
  <2>2. Weighed(k, d) = M + k * d /\ Weighed(l, e) = M + l * e
    BY <2>1, SMT DEF Weighed
  <2>3. M + k * d \in Int /\ M + l * e \in Int
    OBVIOUS
  <2> QED BY <2>2, <2>3, Zenon
<1>2. PICK P \in Nat : P = d * e /\ P > 0
  BY <1>0
<1>3. PICK K \in Int, L \in Int : K = k * P /\ L = l * P
  OBVIOUS
<1>4. n * e = M * e + K
  <2>1. (M + k * d) * e = M * e + k * (d * e)
    OBVIOUS
  <2> QED BY <1>1, <1>2, <1>3, <2>1, Zenon
<1>5. m * d = M * d + L
  <2>1. (M + l * e) * d = M * d + l * (d * e)
    OBVIOUS
  <2> QED BY <1>1, <1>2, <1>3, <2>1, Zenon
<1>6. L <= K
  BY <1>2, <1>3, TimesMonotone
<1>7. n * e >= m * d
  BY <1>4, <1>5, <1>6
<1>8. k >= l + 2 => n * e >= m * d + 2 * (d * e)
  <2> SUFFICES ASSUME l + 2 <= k PROVE n * e >= m * d + 2 * (d * e)
    OBVIOUS
  <2>1. (l + 2) * P <= k * P
    BY TimesMonotone
  <2>2. (l + 2) * P = l * P + 2 * P
    OBVIOUS
  <2>3. L + 2 * P <= K
    BY <1>3, <2>1, <2>2, Zenon
  <2>4. n * e >= m * d + 2 * P
    BY <1>4, <1>5, <2>3
  <2> QED BY <1>2, <2>4, Zenon
<1>9. Round(n, d) \in Int /\ Round(m, e) \in Int
  BY <1>0, RoundBounds
<1>10. Round(n, d) >= Round(m, e) /\ (k >= l + 2 => Round(n, d) > Round(m, e))
  BY <1>0, <1>7, <1>8, RoundMonotone
<1> QED BY <1>1, <1>9, <1>10, Zenon

\* The larger of two loads.
LEMMA MaxFloat ==
    ASSUME NEW v \in Int, NEW a \in Int, NEW b \in Int
    PROVE  /\ maxFloat(v, a) \in Int /\ maxFloat(v, a) = maxFloat(a, v)
           /\ a <= b => maxFloat(v, a) <= maxFloat(v, b)
           /\ maxFloat(v, a) < b => maxFloat(v, a) < maxFloat(v, b)
BY DEF maxFloat

\* The pages shared with the last agent are counted.
LEMMA SharedNat ==
    ASSUME NEW c, IsFiniteSet(c.pages), IsFiniteSet(c.context), NEW lastPages
    PROVE  Shared(c, lastPages) \in Nat
<1>1. PICK p, q : p = c.pages /\ q = c.context
  OBVIOUS
<1>2. p \cap lastPages \subseteq p /\ q \cap lastPages \subseteq q
  OBVIOUS
<1>3. IsFiniteSet(p \cap lastPages) /\ IsFiniteSet(q \cap lastPages)
  BY <1>1, <1>2, FS_Subset
<1>4. Cardinality(p \cap lastPages) \in Nat /\ Cardinality(q \cap lastPages) \in Nat
  BY <1>3, FS_CardinalityType
<1>5. ASSUME NEW i \in Nat, NEW j \in Nat PROVE i + j \in Nat
  OBVIOUS
<1> QED BY <1>1, <1>4, <1>5, Zenon DEF Shared

\* The terms of a score.
Terms(c, lastPages, pr) ==
    \E k \in Int, d \in Nat :
        /\ k = Rest(Shared(c, lastPages), c.priority, maxFloat(pr.memory, c.memory),
                    maxFloat(pr.pids, c.pids), maxFloat(pr.cpu, c.cpu), pr.psi)
        /\ d = 1 + c.vruntime /\ d > 0
        /\ Score(c, lastPages, pr) = Round(Weighed(k, d), d)

\* Every candidate has a score of these terms.
LEMMA ScoreTerms ==
    ASSUME NEW a, NEW c, Described(a, c), NEW lastPages, NEW pr \in [Kinds -> Int]
    PROVE  Terms(c, lastPages, pr)
<1>1. PICK v \in Nat, p \in Int, m \in Nat, i \in Nat, u \in Nat :
        v = c.vruntime /\ p = c.priority /\ m = c.memory /\ i = c.pids /\ u = c.cpu
  BY DEF Described
<1>2. PICK gm \in Int, gi \in Int, gu \in Int, gp \in Int :
        gm = pr.memory /\ gi = pr.pids /\ gu = pr.cpu /\ gp = pr.psi
  BY DEF Kinds
<1>3. PICK sh \in Nat : sh = Shared(c, lastPages)
  BY SharedNat DEF Described
<1>4. PICK mm \in Int, ii \in Int, uu \in Int :
        mm = maxFloat(gm, m) /\ ii = maxFloat(gi, i) /\ uu = maxFloat(gu, u)
  <2>1. m \in Int /\ i \in Int /\ u \in Int
    OBVIOUS
  <2> QED BY <2>1, MaxFloat, Zenon
<1>5. PICK k \in Int : k = Rest(sh, p, mm, ii, uu, gp)
  BY DEF Rest
<1>6. PICK d \in Nat : d = 1 + v /\ d > 0
  OBVIOUS
<1>7. Score(c, lastPages, pr) = Round(Weighed(k, d), d)
  BY <1>1, <1>2, <1>3, <1>4, <1>5, <1>6, SMT DEF Score, resourceAwareScore, Rest, Weighed
<1> QED BY <1>1, <1>2, <1>3, <1>4, <1>5, <1>6, <1>7, Zenon DEF Terms

\* A candidate that is no further ahead, shares as many pages, has as much
\* priority and is under no more pressure scores as much; and more if its
\* memory load and the machine's are below the other's.
LEMMA Dominates ==
    ASSUME NEW a, NEW c, Described(a, c), NEW b, NEW s, Described(b, s),
           NEW lastPages, NEW pr \in [Kinds -> Int],
           c.vruntime <= s.vruntime, Shared(c, lastPages) >= Shared(s, lastPages),
           c.priority >= s.priority, c.memory <= s.memory, c.pids <= s.pids, c.cpu <= s.cpu
    PROVE  /\ Score(c, lastPages, pr) \in Int /\ Score(s, lastPages, pr) \in Int
           /\ Score(c, lastPages, pr) >= Score(s, lastPages, pr)
           /\ maxFloat(c.memory, pr.memory) < s.memory =>
                Score(c, lastPages, pr) > Score(s, lastPages, pr)
<1>1. PICK m1 \in Int, i1 \in Int, u1 \in Int, p1 \in Int :
        p1 = c.priority /\ m1 = c.memory /\ i1 = c.pids /\ u1 = c.cpu
  BY DEF Described
<1>2. PICK m2 \in Int, i2 \in Int, u2 \in Int, p2 \in Int :
        p2 = s.priority /\ m2 = s.memory /\ i2 = s.pids /\ u2 = s.cpu
  BY DEF Described
<1>3. PICK gm \in Int, gi \in Int, gu \in Int, gp \in Int :
        gm = pr.memory /\ gi = pr.pids /\ gu = pr.cpu /\ gp = pr.psi
  BY DEF Kinds
<1>4. PICK s1 \in Int, s2 \in Int : s1 = Shared(c, lastPages) /\ s2 = Shared(s, lastPages)
  <2>1. Shared(c, lastPages) \in Nat /\ Shared(s, lastPages) \in Nat
    BY SharedNat DEF Described
  <2> QED BY <2>1
<1>5. PICK k \in Int, d \in Nat :
         /\ k = Rest(s1, p1, maxFloat(gm, m1), maxFloat(gi, i1), maxFloat(gu, u1), gp)
         /\ d = 1 + c.vruntime /\ d > 0 /\ Score(c, lastPages, pr) = Round(Weighed(k, d), d)
  <2>1. Terms(c, lastPages, pr)
    BY ScoreTerms, Zenon
  <2> QED BY <1>1, <1>3, <1>4, <2>1, Zenon DEF Terms
<1>6. PICK l \in Int, e \in Nat :
         /\ l = Rest(s2, p2, maxFloat(gm, m2), maxFloat(gi, i2), maxFloat(gu, u2), gp)
         /\ e = 1 + s.vruntime /\ e > 0 /\ Score(s, lastPages, pr) = Round(Weighed(l, e), e)
  <2>1. Terms(s, lastPages, pr)
    BY ScoreTerms, Zenon
  <2> QED BY <1>2, <1>3, <1>4, <2>1, Zenon DEF Terms
<1>7. d <= e
  <2>1. PICK v \in Nat, w \in Nat : v = c.vruntime /\ w = s.vruntime
    BY DEF Described
  <2>2. v <= w /\ d = 1 + v /\ e = 1 + w
    BY <1>5, <1>6, <2>1, Zenon
  <2> QED BY <2>2
<1>8. /\ maxFloat(gm, m1) \in Int /\ maxFloat(gi, i1) \in Int /\ maxFloat(gu, u1) \in Int
      /\ maxFloat(gm, m2) \in Int /\ maxFloat(gi, i2) \in Int /\ maxFloat(gu, u2) \in Int
      /\ maxFloat(gm, m1) <= maxFloat(gm, m2) /\ maxFloat(gi, i1) <= maxFloat(gi, i2)
      /\ maxFloat(gu, u1) <= maxFloat(gu, u2)
      /\ maxFloat(m1, gm) < m2 => maxFloat(gm, m1) < maxFloat(gm, m2)
  <2>1. m1 <= m2 /\ i1 <= i2 /\ u1 <= u2
    BY <1>1, <1>2, Zenon
  <2> QED BY <2>1, MaxFloat
<1>9. k >= l /\ (maxFloat(m1, gm) < m2 => k >= l + 2)
  <2>1. s1 >= s2 /\ p1 >= p2
    BY <1>1, <1>2, <1>4, Zenon
  <2>2. PICK x1 \in Int, x2 \in Int, y1 \in Int, y2 \in Int, z1 \in Int, z2 \in Int :
          /\ x1 = maxFloat(gm, m1) /\ x2 = maxFloat(gm, m2) /\ y1 = maxFloat(gi, i1)
          /\ y2 = maxFloat(gi, i2) /\ z1 = maxFloat(gu, u1) /\ z2 = maxFloat(gu, u2)
    BY <1>8, Zenon
  <2>3. x1 <= x2 /\ y1 <= y2 /\ z1 <= z2 /\ (maxFloat(m1, gm) < m2 => x1 < x2)
    BY <1>8, <2>2, Zenon
  <2>4. k = Rest(s1, p1, x1, y1, z1, gp) /\ l = Rest(s2, p2, x2, y2, z2, gp)
    BY <1>5, <1>6, <2>2, Zenon
  <2>5. k >= l /\ (x1 < x2 => k >= l + 2)
    BY <2>1, <2>3, <2>4, SMT DEF Rest
  <2> QED BY <2>3, <2>5, Zenon
<1>10. /\ Round(Weighed(k, d), d) \in Int /\ Round(Weighed(l, e), e) \in Int
       /\ Round(Weighed(k, d), d) >= Round(Weighed(l, e), e)
       /\ k >= l + 2 => Round(Weighed(k, d), d) > Round(Weighed(l, e), e)
  BY <1>5, <1>7, <1>9, ScoreMonotone
<1> QED BY <1>1, <1>2, <1>3, <1>5, <1>6, <1>9, <1>10, Zenon

(***************************************************************************)
(* Turns.  An order of the agents leaves none of them out, so an agent     *)
(* that is always ready is a candidate of every selection; the one that    *)
(* is selected is then at most the threshold ahead of it, and its turn     *)
(* adds at most MaxStep.                                                   *)
(***************************************************************************)
\* The greatest of a bounded set of naturals.
LEMMA GreatestIn ==
    ASSUME NEW n \in Nat, NEW t \in SUBSET (0..n), t # {}
    PROVE  Max(t) \in t /\ \A y \in t : y <= Max(t)
<1> DEFINE T == {n - x : x \in t}
<1>1. T \in SUBSET Nat /\ T # {}
  <2>1. ASSUME NEW x \in t PROVE n - x \in Nat
    <3>1. x \in 0..n
      OBVIOUS
    <3> QED BY <3>1
  <2>2. PICK x : x \in t
    OBVIOUS
  <2>3. n - x \in T
    BY <2>2
  <2> QED BY <2>1, <2>3
<1>2. PICK m \in T : \A k \in T : m <= k
  <2> HIDE DEF T
  <2> QED BY <1>1, NatLeast
<1>3. PICK x \in t : m = n - x
  OBVIOUS
<1>4. ASSUME NEW y \in t PROVE x >= y
  <2>1. n - y \in T /\ x \in 0..n /\ y \in 0..n
    OBVIOUS
  <2>2. n - x <= n - y
    BY <1>2, <1>3, <2>1
  <2> QED BY <2>1, <2>2
<1>5. Max(t) \in t /\ \A y \in t : Max(t) >= y
  BY <1>4 DEF Max
<1> QED BY <1>5

\* A turn advances the vruntime by at most its tokens.
LEMMA ChargeStep ==
    ASSUME NEW v \in Nat, NEW weight \in Int, NEW n \in Nat
    PROVE  /\ ChargeTokens(0, weight, n) \in 0..n
           /\ ChargeTokens(v, weight, n) = v + ChargeTokens(0, weight, n)
<1>1. PICK w \in Nat : w > 0 /\ w = IF weight <= 0 THEN 100 ELSE weight
  OBVIOUS
<1>2. PICK q \in Nat : q = n \div w /\ w * q <= n
  BY <1>1, DivBounds
<1>3. q <= n
  <2>1. 1 * q <= w * q
    BY <1>1, TimesMonotone
  <2>2. 1 * q = q /\ w * q \in Int
    OBVIOUS
  <2> QED BY <1>2, <2>1, <2>2
<1>4. PICK s \in Nat : s = q + (IF n > 0 /\ q = 0 THEN 1 ELSE 0) /\ s <= n
  BY <1>3
<1>5. ASSUME NEW x \in Nat PROVE ChargeTokens(x, weight, n) = x + s
  <2>1. ChargeTokens(x, weight, n) = x + q + (IF n > 0 /\ q = 0 THEN 1 ELSE 0)
    BY <1>1, <1>2 DEF ChargeTokens
  <2> QED BY <1>4, <2>1
<1>6. 0 + s = s
  OBVIOUS
<1> QED BY <1>4, <1>5, <1>6

\* The order in which a caller gathers its agents names each of them.
LEMMA OrdersComplete ==
    ASSUME NEW S, IsFiniteSet(S), NEW order \in SetToSeqs(S)
    PROVE  order \in Seq(S) /\ DOMAIN order = 1..Len(order) /\ \A a \in S : \E i \in 1..Len(order) : order[i] = a
<1>1. PICK n \in Nat : n = Cardinality(S)
  BY FS_CardinalityType
<1>2. order \in [1..n -> S] /\ \A i, j \in 1..n : i # j => order[i] # order[j]
  BY <1>1, Zenon DEF SetToSeqs
<1>3. order \in Seq(S) /\ Len(order) = n
  BY <1>2
<1>4. ASSUME NEW a \in S, \A i \in 1..n : order[i] # a PROVE FALSE
  <2>1. PICK T : T = S \ {a}
    OBVIOUS
  <2>2. IsFiniteSet(T) /\ Cardinality(T) = n - 1
    BY <1>1, <2>1, FS_RemoveElement
  <2>3. IsFiniteSet(1..n) /\ Cardinality(1..n) = n
    <3>1. IsFiniteSet(1..n) /\ Cardinality(1..n) = IF 1 > n THEN 0 ELSE n - 1 + 1
      BY FS_Interval
    <3> QED BY <3>1
  <2>4. order \in [1..n -> T]
    BY <1>2, <1>4, <2>1
  <2>5. Cardinality(T) < Cardinality(1..n)
    BY <2>2, <2>3
  <2>6. \E x, y \in 1..n : x # y /\ order[x] = order[y]
    BY <2>2, <2>3, <2>4, <2>5, FS_PigeonHole
  <2> QED BY <1>2, <2>6
<1> QED BY <1>2, <1>3, <1>4

\* A pressure, clamped.
LEMMA ClampInt ==
    ASSUME NEW v \in Int
    PROVE  clamp(v) \in Int
<1>1. PICK m \in Int : m = Min({v, 1000})
  <2>1. CASE v <= 1000
    BY <2>1, SMT DEF Min
  <2>2. CASE ~(v <= 1000)
    BY <2>2, SMT DEF Min
  <2> QED BY <2>1, <2>2
<1>2. Max({0, m}) \in Int
  <2>1. CASE m >= 0
    BY <2>1, SMT DEF Max
  <2>2. CASE ~(m >= 0)
    BY <2>2, SMT DEF Max
  <2> QED BY <2>1, <2>2
<1> QED BY <1>1, <1>2, SMT DEF clamp

\* The agents of a caller that runs turns.
AgentsOK ==
    /\ avp \in [Offered -> {avp[a] : a \in Offered}]
    /\ \A a \in Offered : Described(a, avp[a]) /\ (a \notin load.blockable => avp[a].ready)

TurnInv ==
    /\ policy \in load.policies
    /\ pressure \in [Kinds -> Int]
    /\ AgentsOK
    /\ running \in Offered \cup {NoAgent}

SchedInv ==
    /\ load \in Loads
    /\ load.client = "turns" => TurnInv
    /\ load.client # "turns" => decision = Nothing

\* The candidates of a selection are the agents that are ready.
LEMMA ReadyOnes ==
    ASSUME AgentsOK, NEW order \in Orders, NEW E, E = {avp[a] : a \in Offered},
           NEW ready, ready = readyAgents([i \in 1..Len(order) |-> avp[order[i]]])
    PROVE  ready \in Seq(E) /\ ToSet(ready) = {c \in E : c.ready}
<1>1. PICK n \in Nat : n = Len(order)
  <2>1. order \in Seq(Offered)
    BY SchedulerAssumption, OrdersComplete DEF Orders
  <2> QED BY <2>1
<1>2. order \in [1..n -> Offered] /\ \A a \in Offered : \E i \in 1..n : order[i] = a
  <2>1. /\ order \in Seq(Offered) /\ DOMAIN order = 1..Len(order)
        /\ \A a \in Offered : \E i \in 1..Len(order) : order[i] = a
    BY SchedulerAssumption, OrdersComplete DEF Orders
  <2> QED BY <1>1, <2>1
<1>3. PICK cs : cs = [i \in 1..n |-> avp[order[i]]]
  OBVIOUS
<1>4. cs \in Seq(E) /\ DOMAIN cs = 1..n
  BY <1>2, <1>3
<1>5. ToSet(cs) = E
  <2>1. \A i \in 1..n : cs[i] \in E
    BY <1>2, <1>3
  <2>2. ASSUME NEW a \in Offered PROVE \E i \in 1..n : cs[i] = avp[a]
    BY <1>2, <1>3
  <2> QED BY <1>4, <2>1, <2>2 DEF ToSet
<1>6. ready = readyAgents(cs)
  BY <1>1, <1>3, Zenon
<1>7. readyAgents(cs) \in Seq(E) /\ ToSet(readyAgents(cs)) = {c \in ToSet(cs) : c.ready}
  BY <1>4, ReadyAgents, Zenon
<1> QED BY <1>5, <1>6, <1>7, Zenon

\* What Select selects: an agent that is ready.
LEMMA SelectPicks ==
    ASSUME AgentsOK, NEW order \in Orders,
           NEW ready, ready = readyAgents([i \in 1..Len(order) |-> avp[order[i]]]), ready # <<>>,
           NEW pick, pick = selectLocked(policy, ready, last, pressure)
    PROVE  /\ pick \in ToSet(ready) /\ pick.id \in Offered /\ pick = avp[pick.id]
           /\ \A c \in ToSet(ready) : c.id \in Offered /\ c = avp[c.id] /\ Described(c.id, c)
           /\ \A a \in Offered \ load.blockable : avp[a] \in ToSet(ready)
<1>1. PICK E : E = {avp[a] : a \in Offered}
  OBVIOUS
<1>2. ready \in Seq(E) /\ ToSet(ready) = {c \in E : c.ready}
  BY <1>1, ReadyOnes, Zenon
<1>3. ASSUME NEW c \in E
      PROVE  c.id \in Offered /\ c = avp[c.id] /\ Described(c.id, c) /\ c.vruntime \in Nat /\ c.created \in Nat
  <2>1. PICK a \in Offered : c = avp[a]
    BY <1>1
  <2>2. Described(a, c)
    BY <2>1, Zenon DEF AgentsOK
  <2>3. c.id = a /\ c.vruntime \in Nat /\ c.created \in Nat
    BY <2>2 DEF Described
  <2> QED BY <2>1, <2>2, <2>3, Zenon
<1>4. Comparable(E)
  BY <1>3, Zenon DEF Comparable
<1>5. pick \in ToSet(ready)
  BY <1>2, <1>4, SelectIn, SchedulerAssumption
<1>6. ASSUME NEW a \in Offered \ load.blockable PROVE avp[a] \in ToSet(ready)
  BY <1>1, <1>2 DEF AgentsOK
<1> QED BY <1>2, <1>3, <1>5, <1>6, Zenon

\* Replacing a field of one agent.
LEMMA OneAgent ==
    ASSUME AgentsOK, UNCHANGED load, NEW a \in Offered, NEW r, Described(a, r),
           a \notin load.blockable => r.ready, avp' = [avp EXCEPT ![a] = r]
    PROVE  AgentsOK'
<1>1. avp' = [b \in Offered |-> IF b = a THEN r ELSE avp[b]]
  BY DEF AgentsOK
<1>2. avp' \in [Offered -> {avp'[b] : b \in Offered}]
  BY <1>1
<1>3. ASSUME NEW b \in Offered PROVE Described(b, avp'[b]) /\ (b \notin load.blockable => avp'[b].ready)
  <2>1. CASE b = a
    BY <1>1, <2>1, Zenon
  <2>2. CASE b # a
    BY <1>1, <2>2, Zenon DEF AgentsOK
  <2> QED BY <2>1, <2>2
<1> QED BY <1>2, <1>3, Zenon DEF AgentsOK

\* The charge of agent r, at v before, for a turn of s.
ChargedTo(r, v, s) == avp' = [avp EXCEPT ![r] = [avp[r] EXCEPT !.vruntime = v + s]]

\* A turn's charge keeps the agents well formed.
LEMMA ChargeFields ==
    ASSUME SchedInv, load.client = "turns", NEW n \in load.tokens, Charge(n), UNCHANGED load
    PROVE  /\ running \in Offered /\ n \in Nat
           /\ avp[running].vruntime \in Nat
           /\ ChargeTokens(0, Weight[running], n) \in Nat
           /\ ChargedTo(running, avp[running].vruntime, ChargeTokens(0, Weight[running], n))
           /\ AgentsOK'
<1>1. TurnInv /\ AgentsOK /\ running \in Offered
  BY DEF SchedInv, TurnInv, Charge
<1>2. n \in Nat
  BY SchedulerAssumption DEF SchedInv
<1>3. PICK r : r = avp[running] /\ Described(running, r) /\ (running \notin load.blockable => r.ready)
  BY <1>1 DEF AgentsOK
<1>4. r.vruntime \in Nat /\ Weight[running] \in Int
  BY <1>1, <1>3, SchedulerAssumption DEF Described
<1>5. PICK s \in Nat : s = ChargeTokens(0, Weight[running], n)
                       /\ ChargeTokens(r.vruntime, Weight[running], n) = r.vruntime + s
  <2>1. PICK v \in Nat, w \in Int : v = r.vruntime /\ w = Weight[running]
    BY <1>4, Zenon
  <2>2. ChargeTokens(0, w, n) \in 0..n /\ ChargeTokens(v, w, n) = v + ChargeTokens(0, w, n)
    BY <1>2, ChargeStep
  <2>3. ChargeTokens(0, w, n) \in Nat
    BY <1>2, <2>2
  <2> QED BY <2>1, <2>2, <2>3, Zenon
<1>6. PICK x : x = [r EXCEPT !.vruntime = r.vruntime + s]
  OBVIOUS
<1>7. avp' = [avp EXCEPT ![running] = x]
  <2>1. avp' = [avp EXCEPT ![running].vruntime = r.vruntime + s]
    BY <1>3, <1>5, Zenon DEF Charge
  <2> QED BY <1>1, <1>3, <1>6, <2>1 DEF AgentsOK
<1>8. Described(running, x) /\ x.ready = r.ready
  BY <1>3, <1>4, <1>6 DEF Described
<1>9. AgentsOK'
  BY <1>1, <1>3, <1>7, <1>8, OneAgent
<1>10. ChargedTo(running, r.vruntime, s)
  BY <1>3, <1>6, <1>7, Zenon DEF ChargedTo
<1> QED BY <1>1, <1>2, <1>3, <1>4, <1>5, <1>9, <1>10, Zenon

\* The scheduler and its agents stay well formed.
THEOREM SchedulerInvariant == LSpec => []SchedInv
<1>1. LInit => SchedInv
  <2> SUFFICES ASSUME LInit PROVE SchedInv
    OBVIOUS
  <2>1. /\ load \in Loads /\ policy \in load.policies /\ pressure = NoPressure /\ avp \in load.agents
        /\ running = NoAgent /\ decision = Nothing
    BY DEF LInit, SInit
  <2>2. NoPressure \in [Kinds -> Int]
    BY DEF NoPressure, Kinds
  <2>3. ASSUME load.client = "turns" PROVE AgentsOK
    <3>1. /\ avp \in [Offered -> {avp[a] : a \in Offered}]
          /\ \A a \in Offered : Described(a, avp[a]) /\ (a \notin load.blockable => avp[a].ready)
      BY <2>1, <2>3, SchedulerAssumption, Zenon
    <3> QED BY <3>1, Zenon DEF AgentsOK
  <2> QED BY <2>1, <2>2, <2>3 DEF SchedInv, TurnInv
<1>2. SchedInv /\ [LNext]_lvars => SchedInv'
  <2> SUFFICES ASSUME SchedInv, [LNext]_lvars PROVE SchedInv'
    OBVIOUS
  <2>0. load \in Loads
    BY DEF SchedInv
  <2>1. CASE SNext
    <3>0. load.client = "turns" /\ UNCHANGED load /\ TurnInv
      BY <2>1 DEF SNext, SchedInv
    <3>1. SUFFICES TurnInv'
      BY <2>0, <3>0, Zenon DEF SchedInv
    <3>2. ASSUME NEW p \in load.policies, SetPolicy(p), UNCHANGED <<avp, running, decision>> PROVE TurnInv'
      BY <3>0, <3>2 DEF TurnInv, AgentsOK, SetPolicy
    <3>3. ASSUME NEW g \in load.pressures, SetResourcePressure(g), UNCHANGED <<avp, running, decision>>
          PROVE  TurnInv'
      <4>1. g \in [Kinds -> Int]
        BY <2>0, <3>0, SchedulerAssumption
      <4>2. normalizeResourcePressure(g) \in [Kinds -> Int]
        BY <4>1, ClampInt DEF normalizeResourcePressure
      <4> QED BY <3>0, <3>3, <4>2 DEF TurnInv, AgentsOK, SetResourcePressure
    <3>4. ASSUME NEW order \in Orders, Select(order) PROVE TurnInv'
      <4>1. PICK ready, pick : /\ ready = readyAgents([i \in 1..Len(order) |-> avp[order[i]]]) /\ ready # <<>>
                               /\ pick = selectLocked(policy, ready, last, pressure)
                               /\ running' = pick.id
        BY <3>4, Zenon DEF Select
      <4>2. pick.id \in Offered
        BY <3>0, <4>1, SelectPicks, Zenon DEF TurnInv
      <4>3. UNCHANGED <<policy, pressure, avp>>
        BY <3>4, Zenon DEF Select
      <4> QED BY <3>0, <4>1, <4>2, <4>3 DEF TurnInv, AgentsOK
    <3>5. ASSUME NEW n \in load.tokens, Charge(n) PROVE TurnInv'
      <4>1. AgentsOK'
        BY <3>0, <3>5, ChargeFields, Zenon
      <4> QED BY <3>0, <3>5, <4>1 DEF TurnInv, Charge, object
    <3>6. ASSUME NEW a \in load.blockable, NEW r \in BOOLEAN, SetReady(a, r) PROVE TurnInv'
      <4>1. a \in Offered
        BY <2>0, <3>0, SchedulerAssumption
      <4>2. PICK x : x = [avp[a] EXCEPT !.ready = r]
        OBVIOUS
      <4>3. Described(a, avp[a])
        BY <3>0, <4>1 DEF TurnInv, AgentsOK
      <4>4. Described(a, x)
        BY <4>2, <4>3 DEF Described
      <4>5. avp' = [avp EXCEPT ![a] = x]
        BY <3>0, <3>6, <4>1, <4>2 DEF TurnInv, AgentsOK, SetReady
      <4>6. AgentsOK'
        BY <3>0, <4>1, <4>4, <4>5, OneAgent DEF TurnInv
      <4> QED BY <3>0, <3>6, <4>6 DEF TurnInv, SetReady, object
    <3> QED BY <2>1, <3>2, <3>3, <3>4, <3>5, <3>6, Zenon DEF SNext
  <2>2. CASE DemoNext
    <3>1. load.client # "turns" /\ UNCHANGED <<load, decision>>
      BY <2>2 DEF DemoNext
    <3> QED BY <2>0, <3>1 DEF SchedInv
  <2>3. CASE UNCHANGED lvars
    BY <2>3 DEF lvars, svars, SchedInv, TurnInv, AgentsOK
  <2> QED BY <2>1, <2>2, <2>3, Zenon DEF LNext
<1> QED BY <1>1, <1>2, PTL DEF LSpec

\* A turn is charged at most MaxStep.
LEMMA MaxStepBound ==
    ASSUME load \in Loads, load.client = "turns", NEW c \in Offered
    PROVE  MaxStep \in Nat /\ \A a \in Offered, n \in load.tokens : ChargeTokens(0, Weight[a], n) <= MaxStep
<1>1. PICK M \in Nat : load.tokens # {} /\ load.tokens \subseteq 0..M
  BY SchedulerAssumption
<1> DEFINE T == {ChargeTokens(0, Weight[a], n) : a \in Offered, n \in load.tokens}
<1>2. ASSUME NEW a \in Offered, NEW n \in load.tokens PROVE ChargeTokens(0, Weight[a], n) \in 0..M
  <2>1. PICK w \in Int : w = Weight[a]
    BY SchedulerAssumption
  <2>2. n \in Nat /\ n <= M
    BY <1>1
  <2>3. ChargeTokens(0, w, n) \in 0..n
    <3>1. 0 \in Nat
      OBVIOUS
    <3> QED BY <2>2, <3>1, ChargeStep
  <2>4. ChargeTokens(0, w, n) \in 0..M
    BY <2>2, <2>3
  <2> QED BY <2>1, <2>4, Zenon
<1>3. T \in SUBSET (0..M)
  BY <1>2
<1>4. T # {}
  <2>1. PICK n : n \in load.tokens
    BY <1>1
  <2>2. ChargeTokens(0, Weight[c], n) \in T
    BY <2>1
  <2> QED BY <2>2
<1>5. Max(T) \in T /\ \A y \in T : y <= Max(T)
  <2> HIDE DEF T
  <2> QED BY <1>3, <1>4, GreatestIn
<1>6. MaxStep = Max(T)
  BY SMT DEF MaxStep
<1>7. Max(T) \in Nat
  <2> HIDE DEF T
  <2>1. PICK x : x = Max(T) /\ x \in T
    BY <1>5, Zenon
  <2>2. x \in 0..M
    BY <1>3, <2>1, Zenon
  <2>3. x \in Nat
    BY <2>2
  <2> QED BY <2>1, <2>3, Zenon
<1> QED BY <1>5, <1>6, <1>7

\* The agent whose turn it is was at most the threshold ahead of every agent
\* that is always ready; that is what keeps the shares fair.
FairLoad == load.client = "turns" /\ load.policies \subseteq {"token-cfs", "token-cfs-prefix-affinity"}
Behind ==
    FairLoad /\ running # NoAgent =>
      \A b \in Offered \ load.blockable : avp[running].vruntime <= avp[b].vruntime + Threshold

\* No agent selected by a token-cfs policy is far ahead.
LEMMA SelectBehind ==
    ASSUME AgentsOK, NEW order \in Orders,
           NEW ready, ready = readyAgents([i \in 1..Len(order) |-> avp[order[i]]]), ready # <<>>,
           NEW pick, pick = selectLocked(policy, ready, last, pressure),
           policy \in {"token-cfs", "token-cfs-prefix-affinity"}
    PROVE  \A c \in ToSet(ready) : pick.vruntime <= c.vruntime + Threshold
<1>1. PICK E : E = {avp[a] : a \in Offered}
  OBVIOUS
<1>2. ready \in Seq(E)
  BY <1>1, ReadyOnes, Zenon
<1>3. Comparable(E)
  BY <1>1 DEF Comparable, AgentsOK, Described
<1>4. Threshold \in Nat
  BY SchedulerAssumption
<1>5. CASE policy = "token-cfs"
  <2>1. pick = minVRuntime(ready)
    BY <1>5 DEF selectLocked
  <2>2. pick \in ToSet(ready) /\ \A c \in ToSet(ready) : pick.vruntime <= c.vruntime
    BY <1>2, <1>3, <2>1, MinVRuntimeIn
  <2>3. ToSet(ready) \subseteq E
    BY <1>2, OwnElements
  <2>4. ASSUME NEW c \in ToSet(ready) PROVE pick.vruntime <= c.vruntime + Threshold
    <3>1. PICK x \in Nat, y \in Nat : x = pick.vruntime /\ y = c.vruntime
      BY <1>3, <2>2, <2>3 DEF Comparable
    <3>2. x <= y
      BY <2>2, <3>1, Zenon
    <3>3. x <= y + Threshold
      BY <1>4, <3>2
    <3> QED BY <3>1, <3>3, Zenon
  <2> QED BY <2>4
<1>6. CASE policy = "token-cfs-prefix-affinity"
  <2>1. pick = selectPrefixAffinity(ready, last)
    BY <1>6 DEF selectLocked
  <2> QED BY <1>2, <1>3, <1>4, <2>1, AffinityIn, Zenon
<1> QED BY <1>5, <1>6

\* Of two agents that are always ready, neither runs ahead of the other by more
\* than the affinity threshold and one turn, for any agents, weights, turns and
\* threshold, while a token-cfs policy without resource awareness is set.
THEOREM SchedulerFairShare == LSpec => []FairShare
<1>1. LInit => Behind /\ FairShare
  <2> SUFFICES ASSUME LInit PROVE Behind /\ FairShare
    OBVIOUS
  <2>1. load \in Loads /\ avp \in load.agents /\ running = NoAgent
    BY DEF LInit, SInit
  <2>2. ASSUME FairLoad, NEW a \in Offered, NEW b \in Offered
        PROVE  avp[a].vruntime - avp[b].vruntime <= MaxStep + Threshold
    <3>1. avp[a].vruntime = 0 /\ avp[b].vruntime = 0
      BY <2>1, <2>2, SchedulerAssumption, Zenon DEF FairLoad
    <3>2. PICK m \in Nat : m = MaxStep
      BY <2>1, <2>2, MaxStepBound, Zenon DEF FairLoad
    <3>3. 0 - 0 <= m + Threshold
      BY SchedulerAssumption
    <3> QED BY <3>1, <3>2, <3>3, Zenon
  <2> QED BY <2>1, <2>2, Zenon DEF Behind, FairShare, FairLoad
<1>2. SchedInv /\ SchedInv' /\ Behind /\ FairShare /\ [LNext]_lvars => Behind' /\ FairShare'
  <2> SUFFICES ASSUME SchedInv, SchedInv', Behind, FairShare, [LNext]_lvars PROVE Behind' /\ FairShare'
    OBVIOUS
  <2>0. load \in Loads /\ (load.client = "turns" => TurnInv)
    BY DEF SchedInv
  <2>1. ASSUME UNCHANGED load PROVE MaxStep' = MaxStep
    BY <2>1, SMT DEF MaxStep
  <2>2. CASE UNCHANGED <<avp, running, load>>
    <3>1. avp' = avp /\ running' = running /\ load' = load /\ MaxStep' = MaxStep
      BY <2>1, <2>2
    <3> QED BY <3>1, Zenon DEF Behind, FairShare, FairLoad
  <2>3. CASE SNext
    <3>0. load.client = "turns" /\ load' = load /\ TurnInv /\ AgentsOK
      BY <2>0, <2>3 DEF SNext, TurnInv
    <3>1. ASSUME NEW p \in load.policies, SetPolicy(p), UNCHANGED <<avp, running, decision>>
          PROVE  Behind' /\ FairShare'
      BY <2>2, <3>0, <3>1
    <3>2. ASSUME NEW g \in load.pressures, SetResourcePressure(g), UNCHANGED <<avp, running, decision>>
          PROVE  Behind' /\ FairShare'
      BY <2>2, <3>0, <3>2
    <3>3. ASSUME NEW order \in Orders, Select(order) PROVE Behind' /\ FairShare'
      <4>1. PICK ready, pick : /\ ready = readyAgents([i \in 1..Len(order) |-> avp[order[i]]]) /\ ready # <<>>
                               /\ pick = selectLocked(policy, ready, last, pressure)
                               /\ running' = pick.id /\ avp' = avp
        BY <3>3, Zenon DEF Select
      <4>2. /\ pick \in ToSet(ready) /\ pick.id \in Offered /\ pick = avp[pick.id]
            /\ \A a \in Offered \ load.blockable : avp[a] \in ToSet(ready)
        BY <3>0, <4>1, SelectPicks, Zenon
      <4>3. FairShare'
        BY <2>1, <3>0, <4>1, Zenon DEF FairShare
      <4>4. Behind'
        <5> SUFFICES ASSUME FairLoad, NEW b \in Offered \ load.blockable
                     PROVE  avp[pick.id].vruntime <= avp[b].vruntime + Threshold
          BY <3>0, <4>1, Zenon DEF Behind, FairLoad
        <5>1. policy \in {"token-cfs", "token-cfs-prefix-affinity"}
          BY <3>0 DEF TurnInv, FairLoad
        <5>2. pick.vruntime <= avp[b].vruntime + Threshold
          BY <3>0, <4>1, <4>2, <5>1, SelectBehind, Zenon
        <5> QED BY <4>2, <5>2, Zenon
      <4> QED BY <4>3, <4>4
    <3>4. ASSUME NEW n \in load.tokens, Charge(n) PROVE Behind' /\ FairShare'
      <4>1. PICK r \in Offered, v \in Nat, s \in Nat :
              /\ r = running /\ r \in Offered /\ v = avp[r].vruntime /\ s = ChargeTokens(0, Weight[r], n)
              /\ ChargedTo(r, v, s)
        <5>1. /\ running \in Offered /\ avp[running].vruntime \in Nat
              /\ ChargeTokens(0, Weight[running], n) \in Nat
              /\ ChargedTo(running, avp[running].vruntime, ChargeTokens(0, Weight[running], n))
          BY <3>0, <3>4, ChargeFields
        <5> QED BY <5>1, Zenon
      <4>2. running' = NoAgent
        BY <3>4 DEF Charge
      <4>3. PICK m \in Nat : m = MaxStep /\ m = MaxStep' /\ s <= m
        <5>1. MaxStep \in Nat /\ s <= MaxStep
          BY <2>0, <3>0, <4>1, MaxStepBound, Zenon
        <5> QED BY <2>1, <3>0, <5>1, Zenon
      <4>4. ASSUME NEW a \in Offered PROVE avp'[a].vruntime = (IF a = r THEN v + s ELSE avp[a].vruntime)
        <5>1. avp'[a] = IF a = r THEN [avp[r] EXCEPT !.vruntime = v + s] ELSE avp[a]
          BY <3>0, <4>1 DEF AgentsOK, ChargedTo
        <5>2. [avp[r] EXCEPT !.vruntime = v + s].vruntime = v + s
          <6>1. Described(r, avp[r])
            BY <3>0, <4>1 DEF AgentsOK
          <6>2. PICK x : x = avp[r]
            OBVIOUS
          <6>3. [x EXCEPT !.vruntime = v + s].vruntime = v + s
            BY <6>1, <6>2 DEF Described
          <6> QED BY <6>2, <6>3, Zenon
        <5> QED BY <5>1, <5>2, Zenon
      <4>5. Threshold \in Nat
        BY SchedulerAssumption
      <4>6. ASSUME FairLoad, NEW a \in Offered \ load.blockable, NEW b \in Offered \ load.blockable
            PROVE  avp'[a].vruntime - avp'[b].vruntime <= m + Threshold
        <5>1. PICK x \in Nat, y \in Nat : x = avp[a].vruntime /\ y = avp[b].vruntime
          BY <3>0 DEF AgentsOK, Described
        <5>2. x - y <= m + Threshold
          BY <4>3, <4>6, <5>1, Zenon DEF FairShare, FairLoad
        <5>3. v <= y + Threshold
          <6>1. r # NoAgent
            BY <4>1, SchedulerAssumption
          <6> QED BY <4>1, <4>6, <5>1, <6>1, Zenon DEF Behind
        <5>4. avp'[a].vruntime = (IF a = r THEN v + s ELSE x) /\ avp'[b].vruntime = (IF b = r THEN v + s ELSE y)
          BY <4>4, <5>1, Zenon
        <5>5. CASE a = r /\ b = r
          <6>1. (v + s) - (v + s) <= m + Threshold
            BY <4>5
          <6> QED BY <5>4, <5>5, <6>1, Zenon
        <5>6. CASE a = r /\ b # r
          <6>1. s <= m /\ v <= y + Threshold
            BY <4>3, <5>3, Zenon
          <6>2. (v + s) - y <= m + Threshold
            BY <4>5, <6>1
          <6> QED BY <5>4, <5>6, <6>2, Zenon
        <5>7. CASE a # r /\ b = r
          <6>1. y = v
            BY <4>1, <5>1, <5>7, Zenon
          <6>2. x - (v + s) <= m + Threshold
            BY <4>5, <5>2, <6>1
          <6> QED BY <5>4, <5>7, <6>2, Zenon
        <5>8. CASE a # r /\ b # r
          BY <5>2, <5>4, <5>8, Zenon
        <5> QED BY <5>5, <5>6, <5>7, <5>8
      <4>7. FairShare'
        BY <3>0, <4>3, <4>6, Zenon DEF FairShare, FairLoad
      <4>8. Behind'
        BY <4>2, Zenon DEF Behind
      <4> QED BY <4>7, <4>8
    <3>5. ASSUME NEW a \in load.blockable, NEW r \in BOOLEAN, SetReady(a, r) PROVE Behind' /\ FairShare'
      <4>1. running = NoAgent /\ running' = NoAgent
        BY <3>5 DEF SetReady
      <4>2. ASSUME NEW b \in Offered PROVE avp'[b].vruntime = avp[b].vruntime
        <5>1. avp' = [avp EXCEPT ![a] = [avp[a] EXCEPT !.ready = r]]
          BY <3>0, <3>5 DEF SetReady, AgentsOK
        <5>2. Described(b, avp[b])
          BY <3>0 DEF AgentsOK
        <5>3. PICK x : x = avp[b]
          OBVIOUS
        <5>4. [x EXCEPT !.ready = r].vruntime = x.vruntime
          BY <5>2, <5>3 DEF Described
        <5>5. avp'[b] = IF b = a THEN [x EXCEPT !.ready = r] ELSE x
          BY <3>0, <5>1, <5>3 DEF AgentsOK
        <5> QED BY <5>3, <5>4, <5>5, Zenon
      <4>3. FairShare'
        BY <2>1, <3>0, <4>2, Zenon DEF FairShare
      <4>4. Behind'
        BY <4>1, Zenon DEF Behind
      <4> QED BY <4>3, <4>4
    <3> QED BY <2>3, <3>1, <3>2, <3>3, <3>4, <3>5, Zenon DEF SNext
  <2>4. CASE DemoNext
    BY <2>2, <2>4 DEF DemoNext
  <2>5. CASE UNCHANGED lvars
    BY <2>2, <2>5 DEF lvars, svars
  <2> QED BY <2>3, <2>4, <2>5, Zenon DEF LNext
<1> QED BY <1>1, <1>2, SchedulerInvariant, PTL DEF LSpec

\* Every agent has a score.
LEMMA AgentsScored ==
    ASSUME NEW E, \A c \in E : Described(c.id, c), NEW lastPages, NEW pr \in [Kinds -> Int]
    PROVE  Scored(E, lastPages, pr)
<1>1. ASSUME NEW c \in E PROVE Score(c, lastPages, pr) \in Int /\ c.created \in Nat
  <2>1. Described(c.id, c)
    OBVIOUS
  <2>2. PICK v \in Nat, sh \in Nat, p \in Int, m \in Nat, i \in Nat, u \in Nat :
          /\ v = c.vruntime /\ sh = Shared(c, lastPages) /\ p = c.priority
          /\ m = c.memory /\ i = c.pids /\ u = c.cpu
    <3>1. Shared(c, lastPages) \in Nat
      BY <2>1, SharedNat DEF Described
    <3> QED BY <2>1, <3>1 DEF Described
  <2>3. v <= v /\ sh >= sh /\ p >= p /\ m <= m /\ i <= i /\ u <= u
    OBVIOUS
  <2>4. /\ c.vruntime <= c.vruntime /\ Shared(c, lastPages) >= Shared(c, lastPages)
        /\ c.priority >= c.priority /\ c.memory <= c.memory /\ c.pids <= c.pids /\ c.cpu <= c.cpu
    BY <2>2, <2>3, Zenon
  <2>5. Score(c, lastPages, pr) \in Int
    BY <2>1, <2>4, Dominates, Zenon
  <2>6. c.created \in Nat
    BY <2>1 DEF Described
  <2> QED BY <2>5, <2>6
<1> QED BY <1>1, Zenon DEF Scored

\* The selected agent of a resource aware selection is not dominated.
LEMMA SelectUndominated ==
    ASSUME NEW cs, cs # <<>>, cs \in Seq(ToSet(cs)), \A c \in ToSet(cs) : Described(c.id, c),
           NEW lastPages, NEW pr \in [Kinds -> Int],
           NEW sel, sel = selectResourceAware(cs, lastPages, pr), NEW i \in 1..Len(cs),
           cs[i].vruntime <= sel.vruntime, Shared(cs[i], lastPages) >= Shared(sel, lastPages),
           cs[i].priority >= sel.priority, cs[i].memory <= sel.memory, cs[i].pids <= sel.pids,
           cs[i].cpu <= sel.cpu,
           cs[i].created < sel.created \/ maxFloat(cs[i].memory, pr.memory) < sel.memory
    PROVE  FALSE
<1>1. PICK E : E = ToSet(cs) /\ cs \in Seq(E)
  OBVIOUS
<1>2. Scored(E, lastPages, pr)
  BY <1>1, AgentsScored, Zenon
<1>3. PICK c : c = cs[i] /\ c \in E
  BY <1>1 DEF ToSet
<1>4. sel \in E
  BY <1>1, ResourceAwareIn, Zenon
<1>5. AtLeast(sel, c, lastPages, pr)
  BY <1>1, <1>2, <1>3, ResourceAwareBest, Zenon
<1>6. Described(c.id, c) /\ Described(sel.id, sel)
  BY <1>1, <1>3, <1>4, Zenon
<1>7. /\ c.vruntime <= sel.vruntime /\ Shared(c, lastPages) >= Shared(sel, lastPages)
      /\ c.priority >= sel.priority /\ c.memory <= sel.memory /\ c.pids <= sel.pids /\ c.cpu <= sel.cpu
      /\ c.created < sel.created \/ maxFloat(c.memory, pr.memory) < sel.memory
  BY <1>3, Zenon
<1>8. /\ Score(c, lastPages, pr) \in Int /\ Score(sel, lastPages, pr) \in Int
      /\ Score(c, lastPages, pr) >= Score(sel, lastPages, pr)
      /\ maxFloat(c.memory, pr.memory) < sel.memory => Score(c, lastPages, pr) > Score(sel, lastPages, pr)
  BY <1>6, <1>7, Dominates, Zenon
<1>9. PICK x \in Int, y \in Int, k \in Nat, l \in Nat :
        /\ x = Score(c, lastPages, pr) /\ y = Score(sel, lastPages, pr)
        /\ k = c.created /\ l = sel.created
  BY <1>2, <1>3, <1>4 DEF Scored
<1>10. x >= y /\ (k < l \/ x > y)
  BY <1>7, <1>8, <1>9, Zenon
<1>11. y > x \/ (y = x /\ l <= k)
  BY <1>5, <1>9 DEF AtLeast
<1> QED BY <1>10, <1>11

\* Under the resource aware policy the selected agent is not dominated, whatever
\* the agents, their loads and the pressure.
THEOREM SchedulerUndominated == LSpec => []Undominated
<1>1. LInit => Undominated
  <2> SUFFICES ASSUME LInit PROVE Undominated
    OBVIOUS
  <2>1. decision = Nothing
    BY DEF LInit, SInit
  <2>2. Nothing.policy = "fifo"
    BY DEF Nothing
  <2> QED BY <2>1, <2>2 DEF Undominated
<1>2. SchedInv /\ Undominated /\ [LNext]_lvars => Undominated'
  <2> SUFFICES ASSUME SchedInv, Undominated, [LNext]_lvars PROVE Undominated'
    OBVIOUS
  <2>1. CASE UNCHANGED decision
    BY <2>1, Zenon DEF Undominated, Chosen
  <2>2. ASSUME NEW order \in Orders, Select(order), load.client = "turns" PROVE Undominated'
    <3>1. PICK ready, pick :
            /\ ready = readyAgents([i \in 1..Len(order) |-> avp[order[i]]]) /\ ready # <<>>
            /\ pick = selectLocked(policy, ready, last, pressure)
            /\ decision' = makeDecisionLocked(ready, pick)
      BY <2>2, Zenon DEF Select
    <3>2. AgentsOK /\ pressure \in [Kinds -> Int]
      BY <2>2 DEF SchedInv, TurnInv
    <3>3. /\ pick \in ToSet(ready) /\ pick.id \in Offered /\ pick = avp[pick.id]
          /\ \A c \in ToSet(ready) : c.id \in Offered /\ c = avp[c.id] /\ Described(c.id, c)
      BY <3>1, <3>2, SelectPicks, Zenon
    <3>4. ready \in Seq(ToSet(ready)) /\ DOMAIN ready = 1..Len(ready)
      <4>1. PICK E : E = {avp[a] : a \in Offered}
        OBVIOUS
      <4>2. ready \in Seq(E)
        BY <3>1, <3>2, <4>1, ReadyOnes, Zenon
      <4> QED BY <4>2, OwnElements
    <3>5. /\ decision'.candidates = ready /\ decision'.last = last /\ decision'.policy = policy
          /\ decision'.pressure = pressure.memory /\ decision'.selected = pick.id
      BY <3>1 DEF makeDecisionLocked
    <3>6. ready[Chosen'] = pick
      <4>1. \E i \in 1..Len(ready) : ready[i].id = pick.id
        BY <3>3, <3>4 DEF ToSet
      <4>2. PICK i \in 1..Len(ready) : i = Chosen' /\ ready[i].id = pick.id
        <5>1. Chosen' = CHOOSE i \in 1..Len(ready) : ready[i].id = pick.id
          BY <3>5, Zenon DEF Chosen
        <5> QED BY <4>1, <5>1, Zenon
      <4>3. ready[i] \in ToSet(ready)
        BY <3>4 DEF ToSet
      <4>4. ready[i] = avp[pick.id]
        BY <3>3, <4>2, <4>3, Zenon
      <4> QED BY <3>3, <4>2, <4>4, Zenon
    <3>7. ASSUME policy = "token-cfs-prefix-affinity-resource-aware", NEW i \in 1..Len(ready),
                 ready[i].vruntime <= pick.vruntime, Shared(ready[i], last) >= Shared(pick, last),
                 ready[i].priority >= pick.priority, ready[i].memory <= pick.memory,
                 ready[i].pids <= pick.pids, ready[i].cpu <= pick.cpu,
                 ready[i].created < pick.created \/ maxFloat(ready[i].memory, pressure.memory) < pick.memory
          PROVE  FALSE
      <4>1. pick = selectResourceAware(ready, last, pressure)
        BY <3>1, <3>7 DEF selectLocked
      <4>2. \A c \in ToSet(ready) : Described(c.id, c)
        BY <3>3, Zenon
      <4> QED BY <3>1, <3>2, <3>4, <3>7, <4>1, <4>2, SelectUndominated, Zenon
    <3> QED BY <3>5, <3>6, <3>7, Zenon DEF Undominated
  <2>3. CASE SNext
    <3>1. CASE \E order \in Orders : Select(order)
      BY <2>2, <2>3, <3>1 DEF SNext
    <3>2. CASE ~ \E order \in Orders : Select(order)
      <4>1. UNCHANGED decision
        BY <2>3, <3>2 DEF SNext, Charge, SetReady
      <4> QED BY <2>1, <4>1
    <3> QED BY <3>1, <3>2
  <2>4. CASE DemoNext
    BY <2>1, <2>4 DEF DemoNext
  <2>5. CASE UNCHANGED lvars
    BY <2>1, <2>5 DEF lvars, svars
  <2> QED BY <2>3, <2>4, <2>5, Zenon DEF LNext
<1> QED BY <1>1, <1>2, SchedulerInvariant, PTL DEF LSpec

=============================================================================
