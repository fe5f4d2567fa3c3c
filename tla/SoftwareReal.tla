---------------------------- MODULE SoftwareReal ----------------------------
(***************************************************************************)
(* The software-real demo (internal/api/software_real_demo.go): a request  *)
(* walks six agents through a fixed program of syscalls, injects a tool    *)
(* timeout, saves a checkpoint and reports evidence about its own run.     *)
(*                                                                         *)
(* The evidence comes from state all requests share: the gateway's record  *)
(* log, the scheduler's decisions, the blackboard's topic, the directory   *)
(* of checkpoints.  Requests and the syscalls of worker processes          *)
(* interleave between any two steps.  Logs that only grow are kept as      *)
(* their lengths.  What becomes of the agents' records is in Lifecycle,    *)
(* what a tool does to a workspace in Workspace.                           *)
(***************************************************************************)
EXTENDS Integers, Sequences, FiniteSets

CONSTANTS
    Demos,      \* requests to POST /api/demo/software-real/run
    MaxOther    \* bound: syscalls of worker processes

VARIABLES
    req,        \* req[d]: the request's goroutine and its local variables
    registered, \* requests all of whose workers have registered
    count,      \* the lengths of the shared logs
    board,      \* the requests whose review was published on the topic
    files,      \* files[d]: the checkpoint of d: "none", "torn" or "whole"
    result,     \* result[d]: the evidence reported for d
    other

rvars == <<req, registered, count, board, files, result, other>>

NoCounts == [calls |-> 0, tools |-> 0, decisions |-> 0, messages |-> 0, faults |-> 0]
\* before: the lengths the request read when it began; own: what it added to
\* them itself; polled: the reviews its fixer got.
NewRequest == [phase |-> "idle", todo |-> <<>>, before |-> NoCounts, own |-> NoCounts, polled |-> {},
               first |-> "", second |-> "", checkpoint |-> FALSE]
NoResult == [counts |-> NoCounts, checkpoint |-> FALSE, first |-> "", second |-> ""]

-----------------------------------------------------------------------------
(* The program of a request. *)

Do(step) == [do |-> step, name |-> "", want |-> {}]
\* A syscall of the driver and the statuses it goes on with.
Call(name, want) == [do |-> "call", name |-> name, want |-> want]
mustSyscallOK(name) == Call(name, {"OK"})
AnyStatus == {"OK", "ERROR", "TIMEOUT"}

AgentSteps(role) ==
    <<Do("schedule")>> \o
    CASE role = "planner" ->
           <<mustSyscallOK("materialize"), mustSyscallOK("llm"), mustSyscallOK("delta"),
             Call("spawn", AnyStatus)>>
      [] role = "coder" -> <<mustSyscallOK("materialize"), mustSyscallOK("delta")>>
      [] role = "tester" -> <<mustSyscallOK("materialize"), Call("firstTest", {"ERROR"})>>
      [] role = "reviewer" -> <<mustSyscallOK("delta"), mustSyscallOK("publish")>>
      [] role = "fixer" ->
           <<mustSyscallOK("poll"), mustSyscallOK("delta"), Call("secondTest", {"OK"})>>
      [] role = "reporter" -> <<mustSyscallOK("materialize")>>

FaultSteps == <<Call("timeout", {"TIMEOUT"})>>
RecoverySteps == <<mustSyscallOK("fix"), mustSyscallOK("report")>>
EndSteps == <<Do("saveOpen"), Do("saveWrite"), Do("evidence"), Do("result")>>

\* Fault: the lengths of the logs are read once the planner has run.
CountLate ==
    <<Do("seed"), Do("wait")>> \o AgentSteps("planner") \o <<Do("baseline")>> \o
    AgentSteps("coder") \o AgentSteps("tester") \o AgentSteps("reviewer") \o
    AgentSteps("fixer") \o AgentSteps("reporter") \o
    FaultSteps \o RecoverySteps \o EndSteps

runSoftwareRealDemo ==
    <<Do("baseline"), Do("seed"), Do("wait")>> \o AgentSteps("planner") \o
    AgentSteps("coder") \o AgentSteps("tester") \o AgentSteps("reviewer") \o
    AgentSteps("fixer") \o AgentSteps("reporter") \o
    FaultSteps \o RecoverySteps \o EndSteps

Tools == {"firstTest", "secondTest", "timeout", "fix"}

Init ==
    /\ req = [d \in Demos |-> NewRequest]
    /\ registered = {}
    /\ count = NoCounts
    /\ board = {}
    /\ files = [d \in Demos |-> "none"]
    /\ result = [d \in Demos |-> NoResult]
    /\ other = 0

At(d, step) == req[d].todo # <<>> /\ Head(req[d].todo).do = step

\* The request goes on with its local variables as in r, or ends.
Goon(d, r) ==
    req' = [req EXCEPT ![d] = [r EXCEPT !.todo = Tail(@),
                                        !.phase = IF Len(r.todo) = 1 THEN "done" ELSE @]]
Fail(d) == req' = [req EXCEPT ![d] = [NewRequest EXCEPT !.phase = "failed"]]

Begin(d) ==
    /\ req[d].phase = "idle"
    /\ req' = [req EXCEPT ![d] = [NewRequest EXCEPT !.phase = "running", !.todo = runSoftwareRealDemo]]
    /\ UNCHANGED <<registered, count, board, files, result, other>>

Baseline(d) ==
    /\ At(d, "baseline")
    /\ Goon(d, [req[d] EXCEPT !.before = count])
    /\ UNCHANGED <<registered, count, board, files, result, other>>

Seed(d) ==
    /\ At(d, "seed")
    /\ Goon(d, req[d]) \/ Fail(d)
    /\ UNCHANGED <<registered, count, board, files, result, other>>

\* The workers are started and waited for; a start that fails, a worker that
\* does not register in time and a client that leaves end the request.
waitForSoftwareRealCapsule(d) == (d \in registered /\ Goon(d, req[d])) \/ Fail(d)

Wait(d) ==
    /\ At(d, "wait")
    /\ waitForSoftwareRealCapsule(d)
    /\ UNCHANGED <<registered, count, board, files, result, other>>

Plus(log, delta) == [f \in DOMAIN NoCounts |-> log[f] + delta[f]]

Schedule(d) ==
    /\ At(d, "schedule")
    /\ LET delta == [NoCounts EXCEPT !.decisions = 1]
       IN  count' = Plus(count, delta) /\ Goon(d, [req[d] EXCEPT !.own = Plus(@, delta)])
    /\ UNCHANGED <<registered, board, files, result, other>>

\* How a syscall may end.  A tool is an ERROR when its program fails and also
\* when it never ran: no workspace, no program, a client that left.
Statuses(name) == IF name \in Tools THEN AnyStatus ELSE {"OK", "ERROR"}

\* What the gateway's log, the blackboard and the supervisor's list get.
Logged(name, status) ==
    [NoCounts EXCEPT !.calls = 1,
                 !.tools = IF name \in Tools THEN 1 ELSE 0,
                 !.messages = IF name = "publish" /\ status = "OK" THEN 1 ELSE 0,
                 !.faults = IF name = "timeout" THEN 1 ELSE 0]

\* What the driver keeps of the answer.  "failed" is what it notes for a first
\* test that ended in an ERROR, whether the test failed or the tool never ran; a
\* second test that is OK did run and pass.
Noted(d, name) ==
    CASE name = "poll" -> [req[d] EXCEPT !.polled = board]
      [] name = "firstTest" -> [req[d] EXCEPT !.first = "failed"]
      [] name = "secondTest" -> [req[d] EXCEPT !.second = "passed"]
      [] OTHER -> req[d]

\* Handle records the call however it ends; the supervisor records the fault
\* before the driver looks whether the tool really timed out.
Syscall(d, status) ==
    /\ At(d, "call")
    /\ LET step  == Head(req[d].todo)
           delta == Logged(step.name, status)
       IN  /\ status \in Statuses(step.name)
           /\ count' = Plus(count, delta)
           /\ board' = IF delta.messages = 1 THEN board \cup {d} ELSE board
           /\ IF status \in step.want
              THEN Goon(d, [Noted(d, step.name) EXCEPT !.own = Plus(@, delta)])
              ELSE Fail(d)
    /\ UNCHANGED <<registered, files, result, other>>

\* saveCheckpoint: the file is truncated, then written; an error is only
\* published.
SaveOpen(d) ==
    /\ At(d, "saveOpen")
    /\ files' = [files EXCEPT ![d] = "torn"] \/ UNCHANGED files
    /\ Goon(d, req[d])
    /\ UNCHANGED <<registered, count, board, result, other>>

SaveWrite(d) ==
    /\ At(d, "saveWrite")
    /\ (files[d] = "torn" /\ files' = [files EXCEPT ![d] = "whole"]) \/ UNCHANGED files
    /\ Goon(d, req[d])
    /\ UNCHANGED <<registered, count, board, result, other>>

\* One file List cannot decode, and no snapshot counts.
softwareRealCheckpointEvidence(d) ==
    files[d] = "whole" /\ \A e \in Demos : files[e] # "torn"

Evidence(d) ==
    /\ At(d, "evidence")
    /\ Goon(d, [req[d] EXCEPT !.checkpoint = softwareRealCheckpointEvidence(d)])
    /\ UNCHANGED <<registered, count, board, files, result, other>>

\* The result counts what was added to the logs since the request began, by
\* whomever, and is then stored for the API to show.
Result(d) ==
    /\ At(d, "result")
    /\ result' = [result EXCEPT ![d] =
          [counts |-> [f \in DOMAIN NoCounts |-> count[f] - req[d].before[f]],
           checkpoint |-> req[d].checkpoint, first |-> req[d].first, second |-> req[d].second]]
    /\ Goon(d, req[d])
    /\ UNCHANGED <<registered, count, board, files, other>>

-----------------------------------------------------------------------------
(* The environment: the worker processes, which make syscalls of their own. *)

Register(d) ==
    /\ At(d, "wait") /\ d \notin registered
    /\ registered' = registered \cup {d}
    /\ UNCHANGED <<req, count, board, files, result, other>>

WorkerCall(tool) ==
    /\ registered # {} /\ other < MaxOther
    /\ other' = other + 1
    /\ count' = [count EXCEPT !.calls = @ + 1, !.tools = @ + (IF tool THEN 1 ELSE 0)]
    /\ UNCHANGED <<req, registered, board, files, result>>

DriverStep(d) ==
    \/ Baseline(d) \/ Seed(d) \/ Wait(d) \/ Schedule(d)
    \/ \E status \in AnyStatus : Syscall(d, status)
    \/ SaveOpen(d) \/ SaveWrite(d) \/ Evidence(d) \/ Result(d)

RNext ==
    \/ \E d \in Demos : Begin(d) \/ DriverStep(d) \/ Register(d)
    \/ \E tool \in BOOLEAN : WorkerCall(tool)

RSpec == Init /\ [][RNext]_rvars

-----------------------------------------------------------------------------
(* Properties. *)

\* What a run that is reported as a success claims of itself is so, whatever
\* other requests and the workers did meanwhile (runSoftwareRealDemo): its second
\* test passed, its tool timeout is on record, its fixer got the review of its
\* own reviewer, the counts cover at least everything the run did itself, and a
\* checkpoint it claims is complete on disk.  Nothing is said of the first test,
\* whose "failed" may stand for a tool that never ran.
ResultHonest ==
    \A d \in Demos : req[d].phase = "done" =>
      /\ result[d].second = "passed"
      /\ req[d].own.faults = 1
      /\ d \in req[d].polled
      /\ \A f \in {"calls", "tools", "decisions", "messages"} :
            result[d].counts[f] >= req[d].own[f]
      /\ result[d].checkpoint => files[d] = "whole"
=============================================================================
