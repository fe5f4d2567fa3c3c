------------------------------ MODULE Gateway ------------------------------
(***************************************************************************)
(* The daemon's use of the page store and the blackboard: the context and  *)
(* IPC syscalls of internal/syscall/gateway.go, and the context seeding    *)
(* and copying of internal/api/server.go.                                  *)
(*                                                                         *)
(* The gateway takes no lock of its own around a syscall.  A call is the   *)
(* sequence of store and blackboard operations it performs, each atomic    *)
(* under the mutex of the component it calls, and operations of concurrent *)
(* calls interleave freely.  todo[k] is what call k has left to do; an     *)
(* operation that depends on what it reads (poll, spawn) replaces itself   *)
(* by the operations that follow from it.                                  *)
(*                                                                         *)
(* Nothing in the daemon calls ReleasePage.  tool.exec and agent.report    *)
(* touch neither component and are left out, as is the text of responses.  *)
(***************************************************************************)
EXTENDS CVM

CONSTANTS
    Topics, MaxDepth,
    Controls,    \* the arguments context.materialize is called with
    Callers,     \* goroutines serving worker connections and HTTP requests
    MaxCalls     \* bound on the number of calls started

ASSUME GatewayAssumption ==
    /\ MaxCalls \in Nat
    /\ Controls \subseteq [pins : Seq(Contents), cold : Nat, evict : Nat]

VARIABLES
    topics, offsets, inbox,    \* the blackboard
    todo,                      \* todo[k]: operations call k has yet to do
    calls                      \* number of calls started

board == <<topics, offsets, inbox>>
gvars == <<pages, pageTables, now, topics, offsets, inbox, todo, calls>>

Board == INSTANCE Blackboard WITH Subscribers <- Agents, Messages <- Contents

-----------------------------------------------------------------------------
(***************************************************************************)
(* Operations.  strict says that the call stops when the operation fails;  *)
(* the seeding and copying loops of the server ignore the error instead.   *)
(***************************************************************************)
Create(c) == [do |-> "create", page |-> c]
Mount(a, c, strict) == [do |-> "mount", agent |-> a, page |-> c, strict |-> strict]
Pin(c) == [do |-> "pin", page |-> c]
Compress(n) == [do |-> "compress", limit |-> n]
Evict(n) == [do |-> "evict", limit |-> n]
Read(a) == [do |-> "read", agent |-> a]
Lookup(c) == [do |-> "lookup", page |-> c]
Send(t, c) == [do |-> "send", topic |-> t, page |-> c]
Take(a, t) == [do |-> "take", agent |-> a, topic |-> t]
CopyTable(a, b) == [do |-> "copy", agent |-> a, child |-> b]

Mounts(a, q, strict) == [i \in DOMAIN q |-> Mount(a, q[i], strict)]

WriteDelta(a, c, strict) == <<Create(c), Mount(a, c, strict)>>

\* pins, then compression, then eviction, then the read; limit 0 is "off".
ContextMaterialize(a, ctl) ==
    [i \in DOMAIN ctl.pins |-> Pin(ctl.pins[i])]
    \o (IF ctl.cold = 0 THEN <<>> ELSE <<Compress(ctl.cold)>>)
    \o (IF ctl.evict = 0 THEN <<>> ELSE <<Evict(ctl.evict)>>)
    \o <<Read(a)>>

\* The prompt defaults to the agent's context; the model answers elsewhere.
LlmCall(a) == <<Read(a)>>

IpcPublish(t, c) == <<Lookup(c), Send(t, c)>>
IpcPoll(a, t) == <<Take(a, t)>>
AgentSpawn(parent, child) == <<CopyTable(parent, child)>>

\* The shared page (one for the three the code creates) is created once, then
\* mounted for every agent of the task in turn, followed by the agent's private
\* scratch page.
SeedContext(agents, shared, scratch) ==
    LET block(a) == <<Mount(a, shared, FALSE)>> \o WriteDelta(a, scratch, FALSE)
    IN  <<Create(shared)>> \o
        [i \in 1..(3 * Len(agents)) |-> block(agents[(i + 2) \div 3])[((i - 1) % 3) + 1]]

\* The agents of a task, in the order the task lists them.
AgentLists == {q \in UNION {[1..n -> Agents] : n \in 1..Cardinality(Agents)} :
                  \A i, j \in DOMAIN q : q[i] = q[j] => i = j}

-----------------------------------------------------------------------------
GInit ==
    /\ Init
    /\ Board!Init
    /\ todo = [k \in Callers |-> <<>>]
    /\ calls = 0

Start(k, ops) ==
    /\ todo[k] = <<>>
    /\ calls < MaxCalls
    /\ calls' = calls + 1
    /\ todo' = [todo EXCEPT ![k] = ops]
    /\ UNCHANGED <<vars, board>>

Doing(k, what) == todo[k] # <<>> /\ Head(todo[k]).do = what

\* Call k goes on with ops.
Proceed(k, ops) == todo' = [todo EXCEPT ![k] = ops] /\ UNCHANGED calls

\* Call k returns an error; what it had left to do is dropped.
Fail(k) == todo' = [todo EXCEPT ![k] = <<>>] /\ UNCHANGED calls

StepCreate(k) ==
    /\ Doing(k, "create")
    /\ CreatePage(Head(todo[k]).page)
    /\ Proceed(k, Tail(todo[k]))
    /\ UNCHANGED board

\* Fault: a poll is done once its first page is mounted.
StepMountFirst(k) ==
    /\ Doing(k, "mount")
    /\ Head(todo[k]).page \in DOMAIN pages
    /\ MountPage(Head(todo[k]).agent, Head(todo[k]).page)
    /\ Proceed(k, IF Head(todo[k]).strict THEN <<>> ELSE Tail(todo[k]))
    /\ UNCHANGED board

StepMount(k) ==
    /\ Doing(k, "mount")
    /\ LET op == Head(todo[k]) IN
       IF op.page \in DOMAIN pages
       THEN MountPage(op.agent, op.page) /\ Proceed(k, Tail(todo[k]))
       ELSE /\ IF op.strict THEN Fail(k) ELSE Proceed(k, Tail(todo[k]))
            /\ UNCHANGED vars
    /\ UNCHANGED board

StepPin(k) ==
    /\ Doing(k, "pin")
    /\ LET op == Head(todo[k]) IN
       IF op.page \in DOMAIN pages
       THEN PinPage(op.page) /\ Proceed(k, Tail(todo[k]))
       ELSE Fail(k) /\ UNCHANGED vars
    /\ UNCHANGED board

StepCompress(k) ==
    /\ Doing(k, "compress")
    /\ CompressColdPages(Head(todo[k]).limit)
    /\ Proceed(k, Tail(todo[k]))
    /\ UNCHANGED board

StepEvict(k) ==
    /\ Doing(k, "evict")
    /\ LET n == Head(todo[k]).limit IN
       IF bytesOf(DOMAIN pages) > n THEN EvictColdPages(n) ELSE UNCHANGED vars
    /\ Proceed(k, Tail(todo[k]))
    /\ UNCHANGED board

StepRead(k) ==
    /\ Doing(k, "read")
    /\ LET a == Head(todo[k]).agent IN
       IF EntriesOf(pageTables[a]) \subseteq DOMAIN pages
       THEN Materialize(a) /\ Proceed(k, Tail(todo[k]))
       ELSE Fail(k) /\ UNCHANGED vars
    /\ UNCHANGED board

\* Fault: the page id of a publication is taken as it comes.
StepLookupAny(k) ==
    /\ Doing(k, "lookup")
    /\ Proceed(k, Tail(todo[k]))
    /\ UNCHANGED <<vars, board>>

\* ipc.publish denies a page id the store does not know.
StepLookup(k) ==
    /\ Doing(k, "lookup")
    /\ IF Head(todo[k]).page \in DOMAIN pages THEN Proceed(k, Tail(todo[k]))
                                             ELSE Fail(k)
    /\ UNCHANGED <<vars, board>>

StepSend(k) ==
    /\ Doing(k, "send")
    /\ Board!Publish(Head(todo[k]).topic, Head(todo[k]).page)
    /\ Proceed(k, Tail(todo[k]))
    /\ UNCHANGED vars

\* ipc.poll: the offset moves past the messages before any of them is mounted.
StepTake(k) ==
    /\ Doing(k, "take")
    /\ LET op == Head(todo[k]) IN
       /\ Board!Poll(op.topic, op.agent)
       /\ Proceed(k, Mounts(op.agent, Board!Delivered(op.topic, op.agent), TRUE))
    /\ UNCHANGED vars

\* agent.spawn: the child gets the pages its parent has mounted at this point.
StepCopy(k) ==
    /\ Doing(k, "copy")
    /\ LET op == Head(todo[k])
       IN  Proceed(k, Mounts(op.child, pageTables[op.agent], FALSE))
    /\ UNCHANGED <<vars, board>>

Step(k) ==
    \/ StepCreate(k) \/ StepMount(k) \/ StepPin(k) \/ StepCompress(k) \/ StepEvict(k)
    \/ StepRead(k) \/ StepLookup(k) \/ StepSend(k) \/ StepTake(k) \/ StepCopy(k)

Call(k) ==
    \/ \E a \in Agents, c \in Contents : Start(k, WriteDelta(a, c, TRUE))
    \/ \E a \in Agents, ctl \in Controls : Start(k, ContextMaterialize(a, ctl))
    \/ \E a \in Agents : Start(k, LlmCall(a))
    \/ \E t \in Topics, c \in Contents : Start(k, IpcPublish(t, c))
    \/ \E a \in Agents, t \in Topics : Start(k, IpcPoll(a, t))
    \/ \E a, b \in Agents : Start(k, AgentSpawn(a, b))
    \/ \E q \in AgentLists, c, d \in Contents : c # d /\ Start(k, SeedContext(q, c, d))

\* All calls have been made and have returned.
Finished ==
    /\ calls = MaxCalls
    /\ \A k \in Callers : todo[k] = <<>>
    /\ UNCHANGED gvars

GNext == (\E k \in Callers : Call(k) \/ Step(k)) \/ Finished

GSpec == GInit /\ [][GNext]_gvars

-----------------------------------------------------------------------------
\* Every page a message refers to is in the store for as long as somebody
\* may still poll it, although ipc.publish checks the page and sends the
\* message in two steps with evictions of other calls in between.
PublishedStaysResident ==
    \A t \in Topics : EntriesOf(topics[t]) \subseteq DOMAIN pages

\* A message that left the blackboard is not lost: its page is mounted for
\* the agent that polled, or a poll that has yet to mount it is under way.
PolledGetsMounted ==
    \A t \in Topics, a \in Agents : \A c \in EntriesOf(inbox[t][a]) :
        \/ Mounted(a, c)
        \/ \E k \in Callers : Mount(a, c, TRUE) \in EntriesOf(todo[k])

\* No mount or read of a call ever meets a missing page: the page ids a call
\* carries from one critical section to the next do not go stale.
NoStalePageId ==
    \A k \in Callers :
        /\ Doing(k, "mount") => Head(todo[k]).page \in DOMAIN pages
        /\ Doing(k, "read") =>
              EntriesOf(pageTables[Head(todo[k]).agent]) \subseteq DOMAIN pages

\* A page the daemon has created stays in the store for good: CreatePage's
\* own reference is never given back, so eviction finds no candidate.
NothingEvicted == [][DOMAIN pages \subseteq DOMAIN pages']_gvars

============================================================================
