------------------------------- MODULE Events -------------------------------
(***************************************************************************)
(* The event hub (internal/events/hub.go), the sink that feeds it and the  *)
(* trace files (internal/api/server.go eventSink, internal/trace), the     *)
(* streams that read it (streamEvents) and the components that keep a      *)
(* record and publish an event about it: the gateway around every syscall  *)
(* (syscall/gateway.go Handle), the supervisor and the kernel observer.    *)
(*                                                                         *)
(* A hub operation is atomic under the hub's mutex and so is an append to  *)
(* a trace, but nothing joins the two: events of concurrent publishers     *)
(* reach hub and trace in different orders.  todo[p] is what publisher p   *)
(* has left to do.  All events carry the same task id; those without one   *)
(* never reach a trace.                                                    *)
(***************************************************************************)
EXTENDS Integers, Sequences, SequencesExt

CONSTANTS
    Publishers, Subscribers,
    NoStream,     \* the subscriber has no stream open
    HistorySize,  \* events the hub remembers
    Buffer,       \* the channel capacity the daemon asks for
    MaxEvents, MaxStreams

ASSUME EventsAssumption ==
    /\ HistorySize \in Nat \ {0}
    /\ Buffer \in Nat /\ MaxEvents \in Nat /\ MaxStreams \in Nat

VARIABLES
    log,        \* every event the hub took, in order
    history,    \* what the hub remembers of it
    chan,       \* chan[s]: the buffered channel of s, or NoStream
    seen,       \* seen[s]: what the stream of s wrote to its client
    from,       \* from[s]: the position in log where the stream of s begins
    slow,       \* streams that lost an event because their buffer was full
    trace,      \* the task's trace file
    torn,       \* events whose append to the trace failed
    records,    \* calls, faults and executions the components have on record
    workers,    \* the worker runtime is on: the server has a registry
    todo, made, streams

hub == <<log, history, chan, slow>>
evars == <<log, history, chan, seen, from, slow, trace, torn, records, workers, todo, made,
           streams>>

EInit ==
    /\ log = <<>> /\ history = <<>>
    /\ chan = [s \in Subscribers |-> NoStream]
    /\ seen = [s \in Subscribers |-> <<>>]
    /\ from = [s \in Subscribers |-> 1]
    /\ slow = {}
    /\ trace = <<>> /\ torn = {}
    /\ records = {}
    /\ workers \in BOOLEAN
    /\ todo = [p \in Publishers |-> <<>>]
    /\ made = 0 /\ streams = 0

-----------------------------------------------------------------------------
(* Publishers.  An event is made (stamped) some time before the hub takes it. *)

Event(kind, n) == [kind |-> kind, call |-> n]

\* Fault: the publisher appends to the trace as well as the sink.
EmitTwice(kind, n) ==
    <<[do |-> "hub", event |-> Event(kind, n)],
      [do |-> "trace", event |-> Event(kind, n)], [do |-> "trace", event |-> Event(kind, n)]>>
\* The sink publishes to the hub, then appends to the trace.
Emit(kind, n) == <<[do |-> "hub", event |-> Event(kind, n)], [do |-> "trace", event |-> Event(kind, n)]>>
Keep(n) == <<[do |-> "record", call |-> n]>>

\* Fault: the end of a syscall is announced before it is on record.
HandleEager(n) == Emit("started", n) \o Emit("finished", n) \o Keep(n)
Handle(n) == Emit("started", n) \o Keep(n) \o Emit("finished", n)

\* The supervisor's Record and the kernel observer's ObserveExec.
Record(n) == Keep(n) \o Emit("recorded", n)

\* The prepared events of the demo runner, for a server without a registry:
\* syscalls that finished, and no gateway has handled.
demoEvents(n) == Emit("finished", n)

Programs(n) == {Handle(n), Record(n)} \cup (IF workers THEN {} ELSE {demoEvents(n)})

Start(p) ==
    /\ todo[p] = <<>>
    /\ \E program \in Programs(made + 1) :
          /\ made < MaxEvents
          /\ todo' = [todo EXCEPT ![p] = program]
    /\ made' = made + 1
    /\ UNCHANGED <<hub, seen, from, trace, torn, records, workers, streams>>

At(p, step) == todo[p] # <<>> /\ Head(todo[p]).do = step
Advance(p) == todo' = [todo EXCEPT ![p] = Tail(@)]

AppendRecord(p) ==
    /\ At(p, "record")
    /\ records' = records \cup {Head(todo[p]).call}
    /\ Advance(p)
    /\ UNCHANGED <<hub, seen, from, trace, torn, workers, made, streams>>

\* Fault: the capacity asked for is taken as it is.
AskedCapacity == Buffer
\* NewHub never makes a channel smaller than the history it replays.
Capacity == IF Buffer < HistorySize THEN HistorySize ELSE Buffer

\* Fault: one event too few is remembered.
KeepFewer(q) == IF Len(q) > HistorySize THEN SubSeq(q, Len(q) - HistorySize + 2, Len(q)) ELSE q
Trimmed(q) == IF Len(q) > HistorySize THEN SubSeq(q, Len(q) - HistorySize + 1, Len(q)) ELSE q

\* Fault: the last place of the buffer is never used.
OfferFewer(q, e) == IF Len(q) + 1 < Capacity THEN Append(q, e) ELSE q
\* A channel that is full loses the event.
Offer(q, e) == IF Len(q) < Capacity THEN Append(q, e) ELSE q

Open == {s \in Subscribers : chan[s] # NoStream}

HubPublish(p) ==
    /\ At(p, "hub")
    /\ LET e == Head(todo[p]).event
       IN  /\ log' = Append(log, e)
           /\ history' = Trimmed(Append(history, e))
           /\ slow' = slow \cup {s \in Open : Len(chan[s]) >= Capacity}
           /\ chan' = [s \in Subscribers |-> IF s \in Open THEN Offer(chan[s], e) ELSE NoStream]
    /\ Advance(p)
    /\ UNCHANGED <<seen, from, trace, torn, records, workers, made, streams>>

\* The error of an append is ignored.
TraceAppend(p) ==
    /\ At(p, "trace")
    /\ \/ trace' = Append(trace, Head(todo[p]).event) /\ UNCHANGED torn
       \/ torn' = torn \cup {Head(todo[p]).event} /\ UNCHANGED trace
    /\ Advance(p)
    /\ UNCHANGED <<hub, seen, from, records, workers, made, streams>>

-----------------------------------------------------------------------------
(* Streams. *)

\* What fits of the history into a channel that nobody reads yet.
Replayed == SubSeq(history, 1, IF Len(history) < Capacity THEN Len(history) ELSE Capacity)

\* Registers the channel and replays the history into it under one lock.
Subscribe(s) ==
    /\ chan[s] = NoStream
    /\ streams < MaxStreams
    /\ streams' = streams + 1
    /\ chan' = [chan EXCEPT ![s] = Replayed]
    /\ from' = [from EXCEPT ![s] = IF Len(log) > HistorySize THEN Len(log) - HistorySize + 1 ELSE 1]
    /\ seen' = [seen EXCEPT ![s] = <<>>]
    /\ slow' = slow \ {s}
    /\ UNCHANGED <<log, history, trace, torn, records, workers, todo, made>>

WriteSSE(s) ==
    /\ s \in Open /\ chan[s] # <<>>
    /\ seen' = [seen EXCEPT ![s] = Append(@, Head(chan[s]))]
    /\ chan' = [chan EXCEPT ![s] = Tail(@)]
    /\ UNCHANGED <<log, history, slow, from, trace, torn, records, workers, todo, made, streams>>

\* The client goes away; the channel is removed from the hub and closed.
Cancel(s) ==
    /\ s \in Open
    /\ chan' = [chan EXCEPT ![s] = NoStream]
    /\ seen' = [seen EXCEPT ![s] = <<>>]
    /\ UNCHANGED <<log, history, slow, from, trace, torn, records, workers, todo, made, streams>>

PublisherStep(p) == AppendRecord(p) \/ HubPublish(p) \/ TraceAppend(p)

ENext ==
    \/ \E p \in Publishers : Start(p) \/ PublisherStep(p)
    \/ \E s \in Subscribers : Subscribe(s) \/ WriteSSE(s) \/ Cancel(s)

ESpec == EInit /\ [][ENext]_evars

\* A publisher runs to the end of its call, and the loop of a stream whose client
\* is there writes what its channel holds.
EFairness ==
    /\ \A p \in Publishers : WF_evars(PublisherStep(p))
    /\ \A s \in Subscribers : WF_evars(WriteSSE(s))

EFairSpec == ESpec /\ EFairness

-----------------------------------------------------------------------------
(* Properties. *)

\* A stream that kept up gets the last HistorySize events before it was opened
\* and then every event, each once, in the order the hub took them: none is lost
\* or doubled between the replay of the history and the first live event.
NoGap ==
    \A s \in Open \ slow : seen[s] \o chan[s] = SubSeq(log, from[s], Len(log))

\* In a daemon with its worker runtime, whoever sees a syscall finished, a fault
\* detected or an execution observed finds it on record: /api/syscalls,
\* /api/faults, /api/kernel/events.  (Without it runDemo publishes syscalls that
\* no gateway has handled.)
SeenIsRecorded ==
    workers => \A s \in Subscribers : \A i \in DOMAIN seen[s] :
        seen[s][i].kind # "started" => seen[s][i].call \in records

Position(q, e) == CHOOSE i \in DOMAIN q : q[i] = e

\* In the trace file a syscall starts before it finishes, no event is doubled,
\* and once the publishers are done every event is there whose append worked,
\* however the appends of concurrent publishers interleave with the hub.
TraceSound ==
    /\ \A i, j \in DOMAIN trace : trace[i] = trace[j] => i = j
    /\ \A n \in 1..made :
          LET first == Event("started", n)
              last == Event("finished", n)
          IN  {first, last} \subseteq ToSet(trace) => Position(trace, first) < Position(trace, last)
    /\ (\A p \in Publishers : todo[p] = <<>>) => ToSet(trace) = ToSet(log) \ torn

\* Every event a stream owes its client, remembered or live, is written to it
\* unless the client leaves or falls a whole buffer behind.
EventsDelivered ==
    \A s \in Subscribers : \A i \in 1..(2 * MaxEvents) :
        s \in Open /\ i \in from[s]..Len(log)
            ~> s \notin Open \/ s \in slow \/ Len(seen[s]) > i - from[s]
=============================================================================
