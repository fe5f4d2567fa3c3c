-------------------------- MODULE LifecycleProofs --------------------------
(***************************************************************************)
(* Proofs about the life of the agents of a task, for any number of agents *)
(* and any heartbeat timeout, and about the software-real demo, for any    *)
(* number of requests.                                                     *)
(***************************************************************************)
EXTENDS Lifecycle, SoftwareReal, SequenceTheorems, TLAPS

Idle(a) == conn[a] \in {"none", "closed"}

(***************************************************************************)
(* The inductive invariant.                                                *)
(*                                                                         *)
(* LineOK: a worker has at most one message under way, the registration is *)
(* the first, and a connection that has got past it has a record.          *)
(***************************************************************************)
LineOK(a) ==
    /\ sock[a] \in {<<>>, <<"register">>, <<"report">>, <<"heartbeat">>}
    /\ sock[a] # <<>> => conn[a] = "reading"
    /\ work[a] \in {"none", "started"} => conn[a] = "none"
    /\ conn[a] = "none" => work[a] \notin {"working", "reporting", "beating"}
    /\ work[a] \in {"reporting", "beating"} =>
          conn[a] \in {"reading", "closed"} /\ sock[a] # <<"register">>
    /\ work[a] = "beating" /\ sock[a] # <<>> => beaten[a]
    /\ ~Idle(a) /\ sock[a] # <<"register">> => Known(a)

\* Nothing refers to an agent of the task that the registry does not know.
HeldKnown ==
    /\ \A a \in Agents : capsule[a] # "none" => Known(a)
    /\ ws \cap Agents \subseteq DOMAIN agents
    /\ killing \cap Agents \subseteq DOMAIN agents

\* A record with a PID belongs to a worker that has registered, and only such
\* a record can be FAILED; this holds for saved records too.
RecordOK(a, r) ==
    /\ r.state = "FAILED" => r.pid
    /\ r.pid => work[a] \notin {"none", "started"}

RecordsOK ==
    /\ \A a \in DOMAIN agents \cap Agents : RecordOK(a, agents[a])
    /\ \A a \in DOMAIN ckpt : RecordOK(a, ckpt[a])
    /\ \A a \in DOMAIN agents \cap Agents : sock[a] = <<"register">> => ~agents[a].pid

\* How far the driver is says which workers exist and which agents are known.
DriverOK ==
    /\ run \in {"idle", "created"} => \A a \in Agents : work[a] = "none"
    /\ run = "created" => Agents \subseteq DOMAIN agents
    /\ run = "real" => \A a \in Agents : work[a] # "none" => Known(a)

\* A daemon that has not recovered yet runs no task and has killed nobody;
\* a worker that registers with it has no PID in the checkpoint.
RestartOK ==
    /\ up # "up" =>
          /\ run \in {"idle", "over"}
          /\ killing = {}
          /\ \A a \in DOMAIN agents : agents[a].state # "KILLED"
    /\ up = "down" => \A a \in Agents : Idle(a)
    /\ up = "starting" => \A a \in DOMAIN ckpt : ckpt[a].pid => Idle(a)

\* A healthy worker was heard of in this period or the one before.
Punctual(a) ==
    Healthy(a) /\ Known(a) /\ agents[a].pid =>
        /\ agents[a].state # "FAILED"
        /\ agents[a].silence \in {0, 1}
        /\ beaten[a] /\ sock[a] = <<>> => agents[a].silence = 0

LInv ==
    /\ LTypeOK
    /\ \A a \in Agents : LineOK(a)
    /\ HeldKnown
    /\ RecordsOK
    /\ DriverOK
    /\ RestartOK
    /\ \A a \in Agents : Punctual(a)

-----------------------------------------------------------------------------
(* What the registry's operations do to the records, and what sending and  *)
(* receiving do to a line that holds one message at most.                  *)

Silences == (0..(Timeout + 1)) \cup {Never}

\* What an AVP record is, and that time can pass for every silence up to the timeout.
LEMMA RecordFields ==
    /\ AVP = [agentID : {TRUE}, state : States, pid : BOOLEAN, silence : Silences]
    /\ 0 \in Silences
    /\ Never \in Silences
    /\ \A s \in Silences : s # Never => s \in Nat /\ (s <= Timeout => s + 1 \in Silences)
BY RegistryAssumption DEF AVP, Silences

\* A record of an agent of the task has its AgentID, those of the others are ghosts.
LEMMA TaskRecord ==
    ASSUME NEW f, Records(f), NEW a \in DOMAIN f
    PROVE  /\ a \in Agents => f[a] \in AVP
           /\ a \notin Agents => a \in FaultIds /\ f[a] = Ghost
BY LifecycleAssumption DEF Records

\* A ghost is no record of an agent, has no process and is left alone by time and monitor.
LEMMA GhostRecord ==
    /\ Ghost \notin AVP
    /\ Ghost.state = "KILLED" /\ Ghost.pid = FALSE
    /\ Aged(Ghost) = Ghost /\ ~Lost(Ghost)
    /\ [Ghost EXCEPT !.state = "KILLED"] = Ghost
<1>1. Zero \in [agentID : {FALSE}, state : {""}, pid : {FALSE}, silence : {Never}]
  BY DEF Zero
<1>2. PICK g \in [agentID : {FALSE}, state : {"KILLED"}, pid : {FALSE}, silence : {Never}] : g = Ghost
  BY <1>1 DEF Ghost
<1>3. g \notin AVP /\ Aged(g) = g /\ ~Lost(g) /\ [g EXCEPT !.state = "KILLED"] = g
  BY DEF AVP, Aged, Lost
<1> QED BY <1>2, <1>3

\* Storing a record under the id of an agent of the task.
LEMMA PutRecord ==
    ASSUME NEW f, Records(f), NEW a \in Agents, NEW r \in AVP
    PROVE  /\ Records(Put(f, a, r))
           /\ DOMAIN Put(f, a, r) = DOMAIN f \cup {a}
           /\ Put(f, a, r)[a] = r
           /\ \A b \in DOMAIN f : b # a => Put(f, a, r)[b] = f[b]
<1>1. /\ DOMAIN Put(f, a, r) = DOMAIN f \cup {a}
      /\ Put(f, a, r)[a] = r
      /\ \A b \in DOMAIN f : b # a => Put(f, a, r)[b] = f[b]
  BY DEF Put
<1>2. r # Ghost /\ a \notin FaultIds
  BY GhostRecord, LifecycleAssumption
<1>3. Put(f, a, r) \in [DOMAIN f \cup {a} -> AVP \cup {Ghost}]
  BY DEF Put, Records
<1> QED BY <1>1, <1>2, <1>3 DEF Records

\* A registry without records.
LEMMA NoRecords == Records([a \in {} |-> Fresh])
BY DEF Records

\* A message of an agent the registry does not know finds a fresh record.
LEMMA MessageRecord ==
    ASSUME Records(agents), NEW a \in Agents
    PROVE  /\ agentForMessage(a) \in AVP
           /\ a \in DOMAIN agents => agentForMessage(a) = agents[a]
           /\ a \notin DOMAIN agents => agentForMessage(a) = Fresh
<1>1. Fresh \in AVP
  BY DEF Fresh, AVP, States
<1> QED BY <1>1, TaskRecord DEF agentForMessage

\* Registering an agent.
LEMMA RegisterEffect ==
    ASSUME Records(agents), NEW a \in Agents, register(a)
    PROVE  /\ Records(agents')
           /\ DOMAIN agents' = DOMAIN agents \cup {a}
           /\ agents'[a].state = "RUNNING" /\ agents'[a].pid = TRUE /\ agents'[a].silence = 0
           /\ \A b \in DOMAIN agents : b # a => agents'[b] = agents[b]
<1>1. PICK q \in AVP : q = agentForMessage(a)
  BY MessageRecord
<1>2. [q EXCEPT !.pid = TRUE, !.state = "RUNNING", !.silence = 0] \in AVP
  BY RecordFields DEF States
<1>3. PICK r \in AVP : r = [q EXCEPT !.pid = TRUE, !.state = "RUNNING", !.silence = 0]
  BY <1>2
<1>4. agents' = Put(agents, a, r)
  BY <1>1, <1>3 DEF register
<1>5. /\ Records(Put(agents, a, r))
      /\ DOMAIN Put(agents, a, r) = DOMAIN agents \cup {a}
      /\ Put(agents, a, r)[a] = r
      /\ \A b \in DOMAIN agents : b # a => Put(agents, a, r)[b] = agents[b]
  BY PutRecord
<1> QED BY <1>1, <1>3, <1>4, <1>5 DEF AVP

\* A heartbeat of an agent.
LEMMA HeartbeatEffect ==
    ASSUME Records(agents), NEW a \in Agents, a \in DOMAIN agents, heartbeat(a)
    PROVE  /\ Records(agents')
           /\ DOMAIN agents' = DOMAIN agents
           /\ agents'[a].state = agents[a].state
           /\ agents'[a].pid = TRUE /\ agents'[a].silence = 0
           /\ \A b \in DOMAIN agents : b # a => agents'[b] = agents[b]
<1>1. PICK q \in AVP : q = agents[a]
  BY TaskRecord
<1>2. [q EXCEPT !.pid = TRUE, !.silence = 0] \in AVP
  BY RecordFields DEF States
<1>3. PICK r \in AVP : r = [q EXCEPT !.pid = TRUE, !.silence = 0]
  BY <1>2
<1>4. agents' = Put(agents, a, r)
  BY <1>1, <1>3 DEF heartbeat, agentForMessage
<1>5. /\ Records(Put(agents, a, r))
      /\ DOMAIN Put(agents, a, r) = DOMAIN agents \cup {a}
      /\ Put(agents, a, r)[a] = r
      /\ \A b \in DOMAIN agents : b # a => Put(agents, a, r)[b] = agents[b]
  BY PutRecord
<1> QED BY <1>1, <1>3, <1>4, <1>5 DEF AVP

\* A report about an agent.
LEMMA ReportEffect ==
    ASSUME Records(agents), NEW a \in Agents, a \in DOMAIN agents,
           NEW status \in {"COMPLETED", "success"}, report(a, status)
    PROVE  /\ Records(agents')
           /\ DOMAIN agents' = DOMAIN agents
           /\ agents'[a].state = status
           /\ agents'[a].pid = agents[a].pid /\ agents'[a].silence = 0
           /\ \A b \in DOMAIN agents : b # a => agents'[b] = agents[b]
<1>1. PICK q \in AVP : q = agents[a]
  BY TaskRecord
<1>2. [q EXCEPT !.state = status, !.silence = 0] \in AVP
  BY RecordFields DEF States
<1>3. PICK r \in AVP : r = [q EXCEPT !.state = status, !.silence = 0]
  BY <1>2
<1>4. agents' = Put(agents, a, r)
  BY <1>1, <1>3 DEF report, agentForMessage
<1>5. /\ Records(Put(agents, a, r))
      /\ DOMAIN Put(agents, a, r) = DOMAIN agents \cup {a}
      /\ Put(agents, a, r)[a] = r
      /\ \A b \in DOMAIN agents : b # a => Put(agents, a, r)[b] = agents[b]
  BY PutRecord
<1> QED BY <1>1, <1>3, <1>4, <1>5 DEF AVP

\* Setting the state of an agent the registry knows.
LEMMA SetStateEffect ==
    ASSUME Records(agents), NEW a \in Agents, a \in DOMAIN agents, SetState(a, "KILLED")
    PROVE  /\ Records(agents')
           /\ DOMAIN agents' = DOMAIN agents
           /\ agents'[a].state = "KILLED"
           /\ agents'[a].pid = agents[a].pid /\ agents'[a].silence = agents[a].silence
           /\ \A b \in DOMAIN agents : b # a => agents'[b] = agents[b]
<1>1. PICK q \in AVP : q = agents[a]
  BY TaskRecord
<1>2. [q EXCEPT !.state = "KILLED"] \in AVP
  BY RecordFields DEF States
<1>3. PICK r \in AVP : r = [q EXCEPT !.state = "KILLED"]
  BY <1>2
<1>4. agents' = Put(agents, a, r)
  BY <1>1, <1>3 DEF SetState, Entry
<1>5. /\ Records(Put(agents, a, r))
      /\ DOMAIN Put(agents, a, r) = DOMAIN agents \cup {a}
      /\ Put(agents, a, r)[a] = r
      /\ \A b \in DOMAIN agents : b # a => Put(agents, a, r)[b] = agents[b]
  BY PutRecord
<1> QED BY <1>1, <1>3, <1>4, <1>5 DEF AVP

\* Writing a path into the record of an agent the registry knows changes none
\* of the fields the model keeps.
LEMMA SetPathEffect ==
    ASSUME Records(agents), NEW a \in Agents, a \in DOMAIN agents, SetPath(a)
    PROVE  agents' = agents
BY DEF Records, SetPath, Entry, Put

\* Creating a record.
LEMMA CreateEffect ==
    ASSUME Records(agents), NEW a \in Agents, CreateAgent(a)
    PROVE  /\ Records(agents')
           /\ DOMAIN agents' = DOMAIN agents \cup {a}
           /\ agents'[a].state = "CREATED" /\ agents'[a].pid = FALSE
           /\ \A b \in DOMAIN agents : b # a => agents'[b] = agents[b]
<1>1. Fresh \in AVP /\ Fresh.state = "CREATED" /\ Fresh.pid = FALSE
  BY DEF Fresh, AVP, States
<1>2. agents' = Put(agents, a, Fresh)
  BY DEF CreateAgent
<1> QED BY <1>1, <1>2, PutRecord

\* A record gets older: its silence grows by one up to a bound.
LEMMA AgedRecord ==
    ASSUME NEW r \in AVP
    PROVE  /\ Aged(r) \in AVP
           /\ Aged(r).state = r.state /\ Aged(r).pid = r.pid
           /\ r.silence = 0 => Aged(r).silence = 1
<1> DEFINE s == IF r.silence = Never THEN Never
                ELSE IF r.silence > Timeout THEN r.silence ELSE r.silence + 1
<1>1. r.silence \in Silences /\ r.silence \in Nat \cup {Never}
  BY RecordFields
<1>2. s \in Silences /\ (r.silence = 0 => s = 1)
  BY <1>1, RecordFields, RegistryAssumption
<1>3. Aged(r) = [r EXCEPT !.silence = s]
  BY DEF Aged
<1> HIDE DEF s
<1> QED BY <1>2, <1>3, RecordFields

\* Time passes for every record at once.
LEMMA AgedRecords ==
    ASSUME NEW f, Records(f)
    PROVE  Records([a \in DOMAIN f |-> Aged(f[a])])
<1>1. \A a \in DOMAIN f : Aged(f[a]) \in AVP \cup {Ghost} /\ (f[a] = Ghost <=> Aged(f[a]) = Ghost)
  BY AgedRecord, GhostRecord DEF Records
<1> QED BY <1>1 DEF Records

\* A record that is completed, failed, restored from a checkpoint or new.
LEMMA StateRecord ==
    ASSUME NEW r \in AVP, NEW s \in States
    PROVE  /\ [r EXCEPT !.state = s] \in AVP
           /\ [r EXCEPT !.state = s].state = s
           /\ [r EXCEPT !.state = s].pid = r.pid
           /\ [r EXCEPT !.state = s].silence = r.silence
BY DEF AVP

\* A record restored from a checkpoint fails only if it had failed before.
LEMMA RestoredRecord ==
    ASSUME NEW r \in AVP
    PROVE  /\ Restored(r) \in AVP
           /\ Restored(r).pid = r.pid
           /\ Restored(r).state = "FAILED" => r.state = "FAILED"
<1>1. "READY" \in States
  BY DEF States
<1> QED BY <1>1, StateRecord DEF Restored, isRecoveredTerminal

\* A new record is CREATED and has no process.
LEMMA FreshRecord == Fresh \in AVP /\ Fresh.state = "CREATED" /\ Fresh.pid = FALSE
BY DEF Fresh, AVP, States

Messages == {"register", "report", "heartbeat"}

Lines == {<<>>, <<"register">>, <<"report">>, <<"heartbeat">>}

\* Lines of one message are told apart by it, and none of them is empty,
LEMMA LinesDistinct ==
    /\ \A m \in Messages : <<m>> # <<>>
    /\ \A m, n \in Messages : <<m>> = <<n>> => m = n
<1>1. \A m \in Messages : Len(<<m>>) = 1 /\ <<m>>[1] = m
  OBVIOUS
<1>2. Len(<<>>) = 0
  OBVIOUS
<1> QED BY <1>1, <1>2

\* in particular the three messages a worker sends.
LEMMA LineLetters ==
    /\ <<"register">> # <<>> /\ <<"report">> # <<>> /\ <<"heartbeat">> # <<>>
    /\ <<"report">> # <<"register">> /\ <<"heartbeat">> # <<"register">>
BY LinesDistinct DEF Messages

\* A line is a sequence of messages.
LEMMA LinesTyped == \A l \in Lines : l \in Seq(Messages)
<1>1. \A m \in Messages : <<m>> \in Seq(Messages)
  OBVIOUS
<1>2. <<>> \in Seq(Messages)
  OBVIOUS
<1>3. \A l \in Lines : l = <<>> \/ \E m \in Messages : l = <<m>>
  BY DEF Lines, Messages
<1> QED BY <1>1, <1>2, <1>3

\* A message sent over an empty line is alone on it.
LEMMA SendEffect ==
    ASSUME sock \in [Agents -> Lines], NEW a \in Agents, NEW message \in Messages, NEW next,
           sock[a] = <<>>, Send(a, message, next)
    PROVE  /\ sock' = [sock EXCEPT ![a] = <<message>>]
           /\ sock' \in [Agents -> Lines]
<1>1. Append(<<>>, message) = <<message>>
  OBVIOUS
<1>2. sock' = [sock EXCEPT ![a] = Append(sock[a], message)]
  BY DEF Send
<1>3. sock' = [sock EXCEPT ![a] = <<message>>]
  BY <1>1, <1>2
<1>4. <<message>> \in Lines
  BY DEF Messages, Lines
<1> QED BY <1>3, <1>4

\* Receiving empties the line.
LEMMA ReceiveEffect ==
    ASSUME sock \in [Agents -> Lines], NEW a \in Agents, NEW message \in Messages,
           Receive(a, message)
    PROVE  /\ sock[a] = <<message>>
           /\ sock' = [sock EXCEPT ![a] = <<>>]
           /\ sock' \in [Agents -> Lines]
<1>1. sock[a] \in Lines /\ sock[a] # <<>> /\ Head(sock[a]) = message
  BY DEF Receive
<1>2. sock[a] = <<message>>
  BY <1>1 DEF Lines, Messages
<1>3. Tail(<<message>>) = <<>>
  OBVIOUS
<1>4. sock' = [sock EXCEPT ![a] = Tail(sock[a])]
  BY DEF Receive
<1>5. sock' = [sock EXCEPT ![a] = <<>>]
  BY <1>2, <1>3, <1>4
<1> QED BY <1>2, <1>5 DEF Lines

\* The typing the effects need, from the invariant.
LEMMA Typed ==
    ASSUME LInv
    PROVE  Records(agents) /\ sock \in [Agents -> Lines]
<1>1. Records(agents)
  BY DEF LInv, LTypeOK
<1>2. \A a \in Agents : sock[a] \in Lines
  BY DEF LInv, LineOK, Lines
<1>3. sock = [a \in Agents |-> sock[a]]
  BY DEF LInv, LTypeOK
<1> QED BY <1>1, <1>2, <1>3

\* A worker registers over a new connection, so its line holds one message.
LEMMA WorkerRegisterLInv ==
    ASSUME LInv, NEW a \in Agents, WorkerRegister(a)
    PROVE  LInv'
<1> USE DEF WorkerRegister, Send, machine, driver, LInv, LTypeOK
<1>1. sock' = [sock EXCEPT ![a] = <<"register">>] /\ sock' \in [Agents -> Lines]
  BY Typed, SendEffect DEF Messages, LineOK, Idle
<1>2. sock' \in [Agents -> Seq({"register", "report", "heartbeat"})]
  BY <1>1, LinesTyped DEF Messages
<1>3. LTypeOK'
  BY <1>1, <1>2, LineLetters
<1>4. \A b \in Agents : LineOK(b)'
  <2>1. LineOK(a)'
    <3>1. sock'[a] = <<"register">> /\ conn'[a] = "reading" /\ work'[a] = "working"
      BY <1>1
    <3> QED BY <3>1, LineLetters DEF LineOK, Idle
  <2>2. \A b \in Agents : b # a => LineOK(b)'
    BY <1>1 DEF LineOK, Idle, Known
  <2> QED BY <2>1, <2>2
<1>5. HeldKnown'
  BY <1>1, <1>2, LineLetters DEF LineOK, Idle, HeldKnown, DriverOK, Known
<1>6. RecordsOK'
  <2>1. \A b \in DOMAIN agents' \cap Agents : RecordOK(b, agents[b])'
    BY DEF RecordsOK, RecordOK
  <2>2. \A b \in DOMAIN agents' \cap Agents : sock'[b] = <<"register">> => ~agents'[b].pid
    BY <1>1, LineLetters DEF RecordsOK, RecordOK
  <2>3. \A b \in DOMAIN ckpt' : RecordOK(b, ckpt[b])'
    BY DEF RecordsOK, RecordOK
  <2> QED BY <2>1, <2>2, <2>3 DEF RecordsOK
<1>7. DriverOK'
  BY <1>1, <1>2, LineLetters DEF DriverOK, Known
<1>8. RestartOK'
  BY DEF LineOK, Idle, RestartOK, RecordsOK, RecordOK
<1>9. \A b \in Agents : Punctual(b)'
  BY <1>1, <1>2, LineLetters DEF LineOK, Idle, Known, RecordsOK, RecordOK, Punctual, Healthy,
                                 Active
<1> QED BY <1>3, <1>4, <1>5, <1>6, <1>7, <1>8, <1>9

\* A worker reports its result when its last message was answered.
LEMMA WorkerReportLInv ==
    ASSUME LInv, NEW a \in Agents, WorkerReport(a)
    PROVE  LInv'
<1> USE DEF WorkerReport, Send, machine, driver, LInv, LTypeOK
<1>1. sock' = [sock EXCEPT ![a] = <<"report">>] /\ sock' \in [Agents -> Lines]
  BY Typed, SendEffect DEF Messages, LineOK, Idle
<1>2. sock' \in [Agents -> Seq({"register", "report", "heartbeat"})]
  BY <1>1, LinesTyped DEF Messages
<1>3. LTypeOK'
  BY <1>1, <1>2, LineLetters
<1>4. \A b \in Agents : LineOK(b)'
  <2>1. LineOK(a)'
    BY <1>1, LineLetters DEF LineOK, Idle, Known
  <2>2. \A b \in Agents : b # a => LineOK(b)'
    BY <1>1 DEF LineOK, Idle, Known
  <2> QED BY <2>1, <2>2
<1>5. RecordsOK'
  <2>1. \A b \in DOMAIN agents' \cap Agents : RecordOK(b, agents[b])'
    BY DEF RecordsOK, RecordOK
  <2>2. \A b \in DOMAIN agents' \cap Agents : sock'[b] = <<"register">> => ~agents'[b].pid
    BY <1>1, LineLetters DEF RecordsOK, RecordOK
  <2>3. \A b \in DOMAIN ckpt' : RecordOK(b, ckpt[b])'
    BY DEF RecordsOK, RecordOK
  <2> QED BY <2>1, <2>2, <2>3 DEF RecordsOK
<1>6. DriverOK'
  BY <1>1, <1>2, LineLetters DEF DriverOK, Known
<1>7. \A b \in Agents : Punctual(b)'
  BY <1>1, <1>2, LineLetters DEF LineOK, Idle, Known, RecordsOK, RecordOK, Punctual, Healthy,
                                 Active
<1>8. /\ HeldKnown'
      /\ RestartOK'
  BY DEF HeldKnown, Known, RestartOK, Idle
<1> QED BY <1>3, <1>4, <1>5, <1>6, <1>7, <1>8

\* A worker sends a heartbeat once between two ticks.
LEMMA WorkerHeartbeatLInv ==
    ASSUME LInv, NEW a \in Agents, WorkerHeartbeat(a)
    PROVE  LInv'
<1> USE DEF WorkerHeartbeat, Send, machine, driver, LInv, LTypeOK
<1>1. sock' = [sock EXCEPT ![a] = <<"heartbeat">>] /\ sock' \in [Agents -> Lines]
  BY Typed, SendEffect DEF Messages, LineOK, Idle
<1>2. sock' \in [Agents -> Seq({"register", "report", "heartbeat"})]
  BY <1>1, LinesTyped DEF Messages
<1>3. LTypeOK'
  BY <1>1, <1>2, LineLetters
<1>4. \A b \in Agents : LineOK(b)'
  <2>1. LineOK(a)'
    <3>1. /\ sock'[a] = <<"heartbeat">> /\ conn'[a] = conn[a] /\ work'[a] = "beating" /\ beaten'[a]
          /\ agents' = agents /\ work[a] = "beating" /\ conn[a] # "closed" /\ LineOK(a)
      BY <1>1
    <3>2. conn[a] = "reading" /\ Known(a)
      <4>1. conn[a] = "reading" /\ sock[a] # <<"register">>
        BY <3>1 DEF LineOK
      <4> QED BY <3>1, <4>1 DEF LineOK, Idle
    <3> QED BY <3>1, <3>2, LineLetters DEF LineOK, Known
  <2>2. \A b \in Agents : b # a => LineOK(b)'
    BY <1>1 DEF LineOK, Idle, Known
  <2> QED BY <2>1, <2>2
<1>5. RecordsOK'
  <2>1. \A b \in DOMAIN agents' \cap Agents : RecordOK(b, agents[b])' /\ (sock'[b] = <<"register">> => ~agents'[b].pid)
    BY <1>1, LineLetters DEF RecordsOK, RecordOK
  <2>2. \A b \in DOMAIN ckpt' : RecordOK(b, ckpt[b])'
    BY DEF RecordsOK, RecordOK
  <2> QED BY <2>1, <2>2 DEF RecordsOK
<1>6. DriverOK'
  BY <1>1, <1>2, LineLetters DEF DriverOK, Known
<1>7. \A b \in Agents : Punctual(b)'
  BY <1>1, <1>2, LineLetters DEF LineOK, Idle, Known, RecordsOK, RecordOK, Punctual, Healthy,
                                 Active
<1>8. /\ HeldKnown'
      /\ RestartOK'
  BY DEF HeldKnown, Known, RestartOK, Idle
<1> QED BY <1>3, <1>4, <1>5, <1>6, <1>7, <1>8

\* A worker that crashes is no longer among the healthy.
LEMMA WorkerCrashLInv ==
    ASSUME LInv, NEW a \in Agents, WorkerCrash(a)
    PROVE  LInv'
<1> USE DEF WorkerCrash, machine, driver, LInv, LTypeOK
<1>1. LTypeOK'
  BY DEF Die, Alive
<1>2. \A b \in Agents : LineOK(b)'
  BY DEF Die, Alive, LineOK, Idle, Known
<1>3. RecordsOK'
  BY DEF Die, Alive, LineOK, Idle, Known, RecordsOK, RecordOK
<1>4. DriverOK'
  BY DEF Die, Alive, DriverOK, Known
<1>5. \A b \in Agents : Punctual(b)'
  BY DEF Die, Alive, LineOK, Idle, Known, RecordsOK, RecordOK, Punctual, Healthy, Active
<1>6. /\ HeldKnown'
      /\ RestartOK'
  BY DEF HeldKnown, Known, RestartOK, Idle
<1> QED BY <1>1, <1>2, <1>3, <1>4, <1>5, <1>6

\* A worker that finds the daemon gone exits.
LEMMA WorkerExitLInv ==
    ASSUME LInv, NEW a \in Agents, WorkerExit(a)
    PROVE  LInv'
<1> USE DEF WorkerExit, machine, driver, LInv, LTypeOK
<1>1. LTypeOK'
  BY DEF Die, Alive
<1>2. \A b \in Agents : LineOK(b)'
  BY DEF Die, Alive, LineOK, Idle, Known
<1>3. RecordsOK'
  BY DEF Die, Alive, LineOK, Idle, Known, RecordsOK, RecordOK
<1>4. DriverOK'
  BY DEF Die, Alive, DriverOK, Known
<1>5. \A b \in Agents : Punctual(b)'
  BY DEF Die, Alive, LineOK, Idle, Known, RecordsOK, RecordOK, Punctual, Healthy, Active
<1>6. /\ HeldKnown'
      /\ RestartOK'
  BY DEF HeldKnown, Known, RestartOK, Idle
<1> QED BY <1>1, <1>2, <1>3, <1>4, <1>5, <1>6

\* register gives the record its PID and ends its silence.
LEMMA HandleRegisterLInv ==
    ASSUME LInv, NEW a \in Agents, HandleRegister(a)
    PROVE  LInv'
<1>1. sock[a] = <<"register">> /\ sock' = [sock EXCEPT ![a] = <<>>] /\ sock' \in [Agents -> Lines]
  BY Typed, ReceiveEffect DEF HandleRegister, Messages
<1>2. sock' \in [Agents -> Seq({"register", "report", "heartbeat"})]
  BY <1>1, LinesTyped DEF Messages
<1>3. /\ Records(agents')
      /\ DOMAIN agents' = DOMAIN agents \cup {a}
      /\ agents'[a].state = "RUNNING" /\ agents'[a].pid = TRUE /\ agents'[a].silence = 0
      /\ \A b \in DOMAIN agents : b # a => agents'[b] = agents[b]
  BY Typed, <1>1, RegisterEffect DEF HandleRegister, LInv, LineOK, Idle, Known
<1>4. LTypeOK'
  BY <1>1, <1>2, <1>3, LineLetters DEF HandleRegister, Receive, LInv, machine, driver, LTypeOK,
                                       Records
<1>5. /\ UNCHANGED <<up, ckpt, run, killing, work, freeze, beaten>>
      /\ sock'[a] = <<>> /\ conn'[a] = "prepare"
      /\ \A b \in Agents : b # a => sock'[b] = sock[b] /\ conn'[b] = conn[b]
  BY <1>1 DEF HandleRegister, Receive, LInv, LTypeOK, machine, driver
<1>6. \A b \in Agents : LineOK(b)'
  BY <1>5, <1>3, <1>1, LineLetters DEF HandleRegister, Receive, LInv, LTypeOK, LineOK, Idle, Known
<1>7. HeldKnown'
  BY <1>1, <1>2, <1>3, LineLetters DEF HandleRegister, Receive, LInv, machine, driver, LTypeOK,
                                       LineOK, Idle, HeldKnown, DriverOK, Known
<1>8. RecordsOK'
  <2>1. RecordOK(a, agents[a])' /\ sock'[a] # <<"register">>
    BY <1>5, <1>3, LineLetters DEF LInv, LTypeOK, LineOK, RecordOK, Receive, HandleRegister
  <2>2. \A b \in DOMAIN agents' \cap Agents : b # a =>
            RecordOK(b, agents[b])' /\ (sock'[b] = <<"register">> => ~agents'[b].pid)
    BY <1>5, <1>3 DEF LInv, LTypeOK, RecordsOK, RecordOK
  <2>3. \A b \in DOMAIN ckpt' : RecordOK(b, ckpt[b])'
    BY <1>5 DEF LInv, LTypeOK, RecordsOK, RecordOK
  <2> QED BY <2>1, <2>2, <2>3 DEF RecordsOK
<1>9. DriverOK'
  BY <1>1, <1>2, <1>3, LineLetters DEF HandleRegister, Receive, LInv, machine, driver, LTypeOK,
                                       DriverOK, Known
<1>10. RestartOK'
  BY <1>1, <1>2, <1>3, LineLetters DEF HandleRegister, Receive, LInv, machine, driver, LTypeOK,
                                       RestartOK, LineOK, Known, Idle
<1>11. \A b \in Agents : Punctual(b)'
  BY <1>1, <1>2, <1>3, LineLetters DEF HandleRegister, Receive, LInv, machine, driver, LTypeOK,
                                       LineOK, Idle, Known, RecordsOK, RecordOK, Punctual,
                                       Healthy, Active
<1> QED BY <1>4, <1>6, <1>7, <1>8, <1>9, <1>10, <1>11 DEF LInv

\* A heartbeat ends the silence of a record.
LEMMA HandleHeartbeatLInv ==
    ASSUME LInv, NEW a \in Agents, HandleHeartbeat(a)
    PROVE  LInv'
<1>1. sock[a] = <<"heartbeat">> /\ sock' = [sock EXCEPT ![a] = <<>>] /\ sock' \in [Agents -> Lines]
  BY Typed, ReceiveEffect DEF HandleHeartbeat, Messages
<1>2. sock' \in [Agents -> Seq({"register", "report", "heartbeat"})]
  BY <1>1, LinesTyped DEF Messages
<1>3. a \in DOMAIN agents \cap Agents
  BY <1>1, LineLetters DEF HandleHeartbeat, Receive, LInv, LineOK, Idle, Known
<1>4. /\ a \in DOMAIN agents /\ Records(agents')
      /\ DOMAIN agents' = DOMAIN agents
      /\ agents'[a].state = agents[a].state /\ agents'[a].pid = TRUE /\ agents'[a].silence = 0
      /\ \A b \in DOMAIN agents : b # a => agents'[b] = agents[b]
  BY Typed, <1>3, HeartbeatEffect DEF HandleHeartbeat
<1>5. LTypeOK'
  BY <1>1, <1>2, <1>4, LineLetters DEF HandleHeartbeat, Receive, LInv, machine, driver, LTypeOK,
                                       Records
<1>6. /\ UNCHANGED <<up, ckpt, run, killing, work, freeze, beaten>>
      /\ sock'[a] = <<>> /\ conn'[a] = conn[a]
      /\ \A b \in Agents : b # a => sock'[b] = sock[b] /\ conn'[b] = conn[b]
  BY <1>1 DEF HandleHeartbeat, Receive, LInv, LTypeOK, machine, driver
<1>7. \A b \in Agents : LineOK(b)'
  <2>1. LineOK(a)'
    BY <1>6, <1>3, <1>4, <1>1, LineLetters DEF HandleHeartbeat, Receive, LInv, LTypeOK, LineOK,
       Idle, Known
  <2>2. \A b \in Agents : b # a => LineOK(b)'
    BY <1>6, <1>4 DEF LInv, LineOK, Idle, Known
  <2> QED BY <2>1, <2>2
<1>8. HeldKnown'
  BY <1>1, <1>2, <1>4, LineLetters DEF HandleHeartbeat, Receive, LInv, machine, driver, LTypeOK,
                                       LineOK, Idle, HeldKnown, DriverOK, Known
<1>9. RecordsOK'
  <2>1. conn[a] = "reading" /\ work[a] \notin {"none", "started"}
    BY <1>1, LineLetters DEF LInv, LineOK
  <2>2. RecordOK(a, agents[a])' /\ sock'[a] # <<"register">>
    BY <1>4, <1>6, <2>1, LineLetters DEF RecordOK
  <2>3. \A b \in DOMAIN agents \cap Agents : b # a =>
          RecordOK(b, agents[b])' /\ (sock'[b] = <<"register">> => ~agents'[b].pid)
    BY <1>4, <1>6 DEF LInv, RecordsOK, RecordOK
  <2>4. \A b \in DOMAIN ckpt' : RecordOK(b, ckpt[b])'
    BY <1>6 DEF LInv, LTypeOK, RecordsOK, RecordOK
  <2> QED BY <1>4, <2>2, <2>3, <2>4 DEF RecordsOK
<1>10. DriverOK'
  BY <1>1, <1>2, <1>4, LineLetters DEF HandleHeartbeat, Receive, LInv, machine, driver, LTypeOK,
                                       DriverOK, Known
<1>11. RestartOK'
  <2>1. \A b \in DOMAIN agents' : b \in DOMAIN agents /\ agents'[b].state = agents[b].state
    BY <1>4
  <2>2. \A b \in Agents : conn'[b] = conn[b]
    BY <1>6
  <2> QED BY <1>6, <2>1, <2>2 DEF LInv, LTypeOK, RestartOK, Idle
<1>12. \A b \in Agents : Punctual(b)'
  BY <1>1, <1>2, <1>4, LineLetters DEF HandleHeartbeat, Receive, LInv, machine, driver, LTypeOK,
                                       LineOK, Idle, Known, RecordsOK, RecordOK, Punctual,
                                       Healthy, Active
<1> QED BY <1>5, <1>7, <1>8, <1>9, <1>10, <1>11, <1>12 DEF LInv

\* A report completes the agent.
LEMMA HandleReportLInv ==
    ASSUME LInv, NEW a \in Agents, HandleReport(a)
    PROVE  LInv'
<1>1. sock[a] = <<"report">> /\ sock' = [sock EXCEPT ![a] = <<>>] /\ sock' \in [Agents -> Lines]
  BY Typed, ReceiveEffect DEF HandleReport, Messages
<1>2. sock' \in [Agents -> Seq({"register", "report", "heartbeat"})]
  BY <1>1, LinesTyped DEF Messages
<1>3. a \in DOMAIN agents
  BY <1>1, LineLetters DEF HandleReport, Receive, LInv, LineOK, Idle, Known
<1>4. /\ a \in DOMAIN agents /\ Records(agents')
      /\ DOMAIN agents' = DOMAIN agents
      /\ agents'[a].state = "COMPLETED" /\ agents'[a].pid = agents[a].pid /\ agents'[a].silence = 0
      /\ \A b \in DOMAIN agents : b # a => agents'[b] = agents[b]
  BY Typed, <1>3, ReportEffect DEF HandleReport
<1>5. LTypeOK'
  BY <1>1, <1>2, <1>4, LineLetters DEF HandleReport, Receive, LInv, machine, driver, LTypeOK,
                                       Records
<1>6. /\ UNCHANGED <<up, ckpt, run, killing, freeze, beaten, conn>>
      /\ sock'[a] = <<>> /\ work'[a] = (IF work[a] = "reporting" THEN "beating" ELSE work[a])
      /\ \A b \in Agents : b # a => sock'[b] = sock[b] /\ work'[b] = work[b]
  BY <1>1 DEF HandleReport, Receive, LInv, LTypeOK, machine, driver
<1>7. \A b \in Agents : LineOK(b)'
  <2>1. LineOK(a)'
    BY <1>6, <1>3, <1>4, <1>1, LineLetters DEF HandleReport, Receive, LInv, LTypeOK, LineOK,
       Idle, Known
  <2>2. \A b \in Agents : b # a => LineOK(b)'
    BY <1>6, <1>4 DEF LInv, LineOK, Idle, Known
  <2> QED BY <2>1, <2>2
<1>8. HeldKnown'
  BY <1>1, <1>2, <1>4, LineLetters DEF HandleReport, Receive, LInv, machine, driver, LTypeOK,
                                       LineOK, Idle, HeldKnown, DriverOK, Known
<1>9. RecordsOK'
  <2>1. \A b \in DOMAIN agents' \cap Agents : RecordOK(b, agents[b])' /\ (sock'[b] = <<"register">> => ~agents'[b].pid)
    BY <1>6, <1>3, <1>4, <1>1, LineLetters DEF LInv, LTypeOK, RecordsOK, RecordOK
  <2>2. \A b \in DOMAIN ckpt' : RecordOK(b, ckpt[b])'
    BY <1>6 DEF LInv, LTypeOK, RecordsOK, RecordOK
  <2> QED BY <2>1, <2>2 DEF RecordsOK
<1>10. DriverOK'
  BY <1>1, <1>2, <1>4, LineLetters DEF HandleReport, Receive, LInv, machine, driver, LTypeOK,
                                       DriverOK, Known
<1>11. RestartOK'
  BY <1>6, <1>3, <1>4 DEF LInv, LTypeOK, RestartOK, Idle
<1>12. \A b \in Agents : Punctual(b)'
  BY <1>1, <1>2, <1>4, LineLetters DEF HandleReport, Receive, LInv, machine, driver, LTypeOK,
                                       LineOK, Idle, Known, RecordsOK, RecordOK, Punctual,
                                       Healthy, Active
<1> QED BY <1>5, <1>7, <1>8, <1>9, <1>10, <1>11, <1>12 DEF LInv

\* Preparing a capsule touches no record.
LEMMA PrepareCapsuleLInv ==
    ASSUME LInv, NEW a \in Agents, PrepareCapsule(a)
    PROVE  LInv'
<1> USE DEF PrepareCapsule, driver, worker, LInv, LTypeOK
<1>1. LTypeOK'
  OBVIOUS
<1>2. \A b \in Agents : LineOK(b)'
  BY DEF LineOK, Idle, Known
<1>3. HeldKnown'
  BY LineLetters DEF LineOK, Idle, HeldKnown, Known
<1>4. RestartOK'
  BY DEF RestartOK, LineOK, Known, Idle
<1>5. \A b \in Agents : Punctual(b)'
  BY DEF LineOK, Idle, Known, RecordsOK, RecordOK, Punctual, Healthy, Active
<1>6. /\ RecordsOK'
      /\ DriverOK'
  BY DEF RecordsOK, RecordOK, DriverOK, Known
<1> QED BY <1>1, <1>2, <1>3, <1>4, <1>5, <1>6

\* Attaching a capsule keeps the state a record has.
LEMMA AttachCapsuleLInv ==
    ASSUME LInv, NEW a \in Agents, AttachCapsule(a)
    PROVE  LInv'
<1> USE DEF AttachCapsule, machine, driver, worker, LInv, LTypeOK
<1>1. agents' = agents /\ a \in DOMAIN agents
  BY Typed, LineLetters, SetPathEffect DEF LineOK, Idle, Known
<1>2. LTypeOK'
  BY <1>1
<1>3. \A b \in Agents : LineOK(b)'
  BY <1>1 DEF LineOK, Idle, Known
<1>4. RestartOK'
  BY <1>1 DEF RestartOK, LineOK, Known, Idle
<1>5. \A b \in Agents : Punctual(b)'
  BY <1>1 DEF LineOK, Idle, Known, RecordsOK, RecordOK, Punctual, Healthy, Active
<1>6. /\ HeldKnown'
      /\ RecordsOK'
      /\ DriverOK'
  BY <1>1 DEF HeldKnown, Known, RecordsOK, RecordOK, DriverOK
<1> QED BY <1>2, <1>3, <1>4, <1>5, <1>6

\* Attaching a workspace keeps the state a record has.
LEMMA AttachWorkspaceLInv ==
    ASSUME LInv, NEW a \in Agents, AttachWorkspace(a)
    PROVE  LInv'
<1> USE DEF AttachWorkspace, driver, worker, LInv, LTypeOK
<1>1. agents' = agents /\ a \in DOMAIN agents
  BY Typed, LineLetters, SetPathEffect DEF LineOK, Idle, Known
<1>2. LTypeOK'
  BY <1>1
<1>3. \A b \in Agents : LineOK(b)'
  BY <1>1 DEF LineOK, Idle, Known
<1>4. HeldKnown'
  BY <1>1 DEF LineOK, Idle, HeldKnown, DriverOK, Known
<1>5. RestartOK'
  BY <1>1 DEF RestartOK, LineOK, Known, Idle
<1>6. \A b \in Agents : Punctual(b)'
  BY <1>1 DEF LineOK, Idle, Known, RecordsOK, RecordOK, Punctual, Healthy, Active
<1>7. /\ RecordsOK'
      /\ DriverOK'
  BY <1>1 DEF RecordsOK, RecordOK, DriverOK, Known
<1> QED BY <1>2, <1>3, <1>4, <1>5, <1>6, <1>7

\* The demo creates its agents together.
LEMMA DemoCreateLInv ==
    ASSUME LInv, DemoCreate
    PROVE  LInv'
<1> USE DEF DemoCreate, machine, worker, LInv, LTypeOK
<1>1. LTypeOK'
  <2>1. Records(agents')
    BY FreshRecord, GhostRecord, LifecycleAssumption DEF Records
  <2> QED BY <2>1
<1>2. \A b \in Agents : LineOK(b)'
  BY DEF Fresh, LineOK, Idle, Known
<1>3. HeldKnown'
  BY DEF Fresh, LineOK, Idle, HeldKnown, DriverOK, Known
<1>4. RecordsOK'
  BY DEF Fresh, LineOK, Idle, Known, RecordsOK, RecordOK
<1>5. DriverOK'
  BY DEF Fresh, DriverOK, Known
<1>6. RestartOK'
  BY DEF Fresh, RestartOK, LineOK, Known, Idle
<1>7. \A b \in Agents : Punctual(b)'
  BY DEF Fresh, LineOK, Idle, Known, RecordsOK, RecordOK, Punctual, Healthy, Active
<1> QED BY <1>1, <1>2, <1>3, <1>4, <1>5, <1>6, <1>7

\* The demo's checkpoint holds the records of that moment, or is the old one.
LEMMA DemoCheckpointLInv ==
    ASSUME LInv, DemoCheckpoint
    PROVE  LInv'
<1> USE DEF DemoCheckpoint, machine, worker, LInv, LTypeOK
<1>1. LTypeOK'
  BY TaskRecord DEF saveCheckpoint
<1>2. RecordsOK'
  BY DEF saveCheckpoint, LineOK, Idle, Known, RecordsOK, RecordOK
<1>3. DriverOK'
  BY DEF saveCheckpoint, DriverOK, Known
<1>4. RestartOK'
  BY DEF saveCheckpoint, RestartOK, LineOK, Known, Idle
<1>5. /\ \A b \in Agents : LineOK(b)'
      /\ HeldKnown'
      /\ \A b \in Agents : Punctual(b)'
  BY DEF LineOK, Idle, Known, HeldKnown, Punctual, Healthy, Active
<1> QED BY <1>1, <1>2, <1>3, <1>4, <1>5

\* The demo starts a worker for an agent it created, or gives up.
LEMMA DemoLaunchLInv ==
    ASSUME LInv, NEW a \in Agents, DemoLaunch(a)
    PROVE  LInv'
<1> USE DEF DemoLaunch, machine, LInv, LTypeOK
<1>1. LTypeOK'
  OBVIOUS
<1>2. \A b \in Agents : LineOK(b)'
  BY DEF LineOK, Idle, Known
<1>3. HeldKnown'
  BY DEF LineOK, Idle, HeldKnown, DriverOK, Known
<1>4. RecordsOK'
  BY DEF LineOK, Idle, Known, RecordsOK, RecordOK
<1>5. DriverOK'
  BY DEF DriverOK, Known
<1>6. RestartOK'
  BY DEF RestartOK, LineOK, Known, Idle
<1>7. \A b \in Agents : Punctual(b)'
  BY DEF LineOK, Idle, Known, RecordsOK, RecordOK, Punctual, Healthy, Active
<1> QED BY <1>1, <1>2, <1>3, <1>4, <1>5, <1>6, <1>7

\* The software-real demo makes sure of a record and starts its worker, or gives up.
LEMMA RealLaunchLInv ==
    ASSUME LInv, NEW a \in Agents, RealLaunch(a)
    PROVE  LInv'
<1> USE DEF RealLaunch, machine, LInv, LTypeOK
<1>1. /\ DOMAIN agents' = DOMAIN agents \cup {a} /\ Records(agents')
      /\ a \notin DOMAIN agents => agents'[a].state = "CREATED" /\ agents'[a].pid = FALSE
      /\ \A b \in DOMAIN agents : agents'[b] = agents[b]
  <2>1. CASE Known(a)
    BY <2>1, Typed DEF Known
  <2>2. CASE ~Known(a)
    BY <2>2, Typed, CreateEffect DEF Known
  <2> QED BY <2>1, <2>2
<1>2. LTypeOK'
  BY <1>1 DEF Records
<1>3. \A b \in Agents : LineOK(b)'
  BY <1>1, LineLetters DEF LineOK, Idle, Known
<1>4. HeldKnown'
  BY <1>1, LineLetters DEF HeldKnown, Known
<1>5. RecordsOK'
  BY <1>1, LineLetters DEF LineOK, Idle, RecordsOK, RecordOK
<1>6. DriverOK'
  BY <1>1, LineLetters DEF DriverOK, Known
<1>7. RestartOK'
  BY <1>1, LineLetters DEF RestartOK, Idle
<1>8. \A b \in Agents : Punctual(b)'
  BY <1>1, LineLetters DEF LineOK, RecordsOK, RecordOK, Punctual, Healthy, Active, Known
<1> QED BY <1>2, <1>3, <1>4, <1>5, <1>6, <1>7, <1>8

\* The driver goes on to the next agent once the worker's PID is known.
LEMMA RealAttachLInv ==
    ASSUME LInv, NEW a \in Agents, RealAttach(a)
    PROVE  LInv'
<1> USE DEF RealAttach, worker, LInv, LTypeOK
<1>1. agents' = agents
  BY Typed, SetPathEffect DEF LineOK, Idle, Known
<1>2. LTypeOK'
  BY <1>1
<1>3. HeldKnown'
  BY <1>1 DEF LineOK, Idle, HeldKnown, DriverOK, Known
<1>4. /\ \A b \in Agents : LineOK(b)'
      /\ RecordsOK'
      /\ DriverOK'
      /\ RestartOK'
      /\ \A b \in Agents : Punctual(b)'
  BY <1>1 DEF LineOK, Idle, Known, RecordsOK, RecordOK, DriverOK, RestartOK, Punctual, Healthy,
              Active
<1> QED BY <1>2, <1>3, <1>4

\* A worker that does not register in time ends the run.
LEMMA RealAbortLInv ==
    ASSUME LInv, RealAbort
    PROVE  LInv'
<1> USE DEF RealAbort, machine, worker, LInv, LTypeOK
<1>1. LTypeOK'
  OBVIOUS
<1>2. DriverOK'
  BY DEF DriverOK, Known
<1>3. RestartOK'
  BY DEF RestartOK, LineOK, Known, Idle
<1>4. /\ \A b \in Agents : LineOK(b)'
      /\ HeldKnown'
      /\ RecordsOK'
      /\ \A b \in Agents : Punctual(b)'
  BY DEF LineOK, Idle, Known, HeldKnown, RecordsOK, RecordOK, Punctual, Healthy, Active
<1> QED BY <1>1, <1>2, <1>3, <1>4

\* The software-real demo reports once, with every worker attached.
LEMMA RealReportLInv ==
    ASSUME LInv, NEW a \in Agents, RealReport(a)
    PROVE  LInv'
<1> USE DEF RealReport, machine, worker, LInv, LTypeOK
<1>1. a \in DOMAIN agents
  BY DEF AllAttached, DriverOK, Known
<1>2. /\ a \in DOMAIN agents /\ Records(agents')
      /\ DOMAIN agents' = DOMAIN agents
      /\ agents'[a].state = "success" /\ agents'[a].pid = agents[a].pid /\ agents'[a].silence = 0
      /\ \A b \in DOMAIN agents : b # a => agents'[b] = agents[b]
  BY Typed, <1>1, ReportEffect
<1>3. LTypeOK'
  BY <1>2 DEF AllAttached, Records
<1>4. \A b \in Agents : LineOK(b)'
  BY <1>2 DEF AllAttached, LineOK, Idle, Known
<1>5. HeldKnown'
  BY <1>2 DEF AllAttached, LineOK, Idle, HeldKnown, DriverOK, Known
<1>6. RecordsOK'
  BY <1>2 DEF AllAttached, LineOK, Idle, Known, RecordsOK, RecordOK
<1>7. DriverOK'
  BY <1>2 DEF AllAttached, DriverOK, Known
<1>8. RestartOK'
  BY <1>2 DEF AllAttached, RestartOK, LineOK, Known, Idle
<1>9. \A b \in Agents : Punctual(b)'
  <2>1. Punctual(a)'
    BY <1>2 DEF Punctual, Known
  <2>2. \A b \in Agents : b # a => Punctual(b)'
    BY <1>2 DEF Known, Punctual, Healthy, Active
  <2> QED BY <2>1, <2>2
<1> QED BY <1>3, <1>4, <1>5, <1>6, <1>7, <1>8, <1>9

\* The software-real demo then sets every record COMPLETED.
LEMMA RealCompleteLInv ==
    ASSUME LInv, RealComplete
    PROVE  LInv'
<1>1. /\ DOMAIN agents' = DOMAIN agents /\ Records(agents')
      /\ \A b \in DOMAIN agents \cap Agents :
            /\ agents'[b].state = "COMPLETED"
            /\ agents'[b].pid = agents[b].pid
            /\ agents'[b].silence = agents[b].silence
  <2>1. "COMPLETED" \in States
    BY DEF States
  <2>2. \A b \in DOMAIN agents \cap Agents :
          agents[b] \in AVP /\ [agents[b] EXCEPT !.state = "COMPLETED"] \in AVP
    BY <2>1, StateRecord, TaskRecord, Typed
  <2>3. DOMAIN agents' = DOMAIN agents
    BY DEF RealComplete
  <2>4. \A b \in DOMAIN agents \cap Agents : agents'[b] = [agents[b] EXCEPT !.state = "COMPLETED"]
    BY DEF RealComplete
  <2>5. \A b \in DOMAIN agents : b \notin Agents => agents'[b] = agents[b]
    BY DEF RealComplete
  <2>6. agents' = [b \in DOMAIN agents' |-> agents'[b]]
    BY DEF RealComplete
  <2>7. Records(agents')
    BY <2>2, <2>3, <2>4, <2>5, <2>6, Typed, GhostRecord, LifecycleAssumption DEF Records
  <2>8. \A b \in DOMAIN agents \cap Agents :
          LET r == [agents[b] EXCEPT !.state = "COMPLETED"]
          IN  r.state = "COMPLETED" /\ r.pid = agents[b].pid /\ r.silence = agents[b].silence
    BY <2>1, <2>2, StateRecord
  <2> QED BY <2>3, <2>4, <2>7, <2>8
<1>2. LTypeOK'
  BY <1>1 DEF RealComplete, LInv, machine, worker, LTypeOK, Records
<1>3. \A b \in Agents : LineOK(b)'
  BY DEF RealComplete, LInv, machine, worker, LTypeOK, LineOK, Idle, Known
<1>4. HeldKnown'
  BY DEF RealComplete, LInv, machine, worker, LTypeOK, LineOK, Idle, HeldKnown, DriverOK, Known
<1>5. RecordsOK'
  BY <1>1 DEF RealComplete, LInv, machine, worker, RecordsOK, RecordOK
<1>6. DriverOK'
  BY DEF RealComplete, LInv, machine, worker, LTypeOK, DriverOK, Known
<1>7. RestartOK'
  BY DEF RealComplete, LInv, machine, worker, LTypeOK, RestartOK, LineOK, Known, Idle
<1>8. UNCHANGED <<work, freeze, conn, beaten, sock>>
  BY DEF RealComplete, machine, worker
<1>9. \A b \in Agents : Punctual(b)'
  BY <1>1, <1>8 DEF LInv, Punctual, Healthy, Active, Known
<1> QED BY <1>2, <1>3, <1>4, <1>5, <1>6, <1>7, <1>9 DEF LInv

\* Its checkpoint holds the records of that moment, or is the old one.
LEMMA RealCheckpointLInv ==
    ASSUME LInv, RealCheckpoint
    PROVE  LInv'
<1> USE DEF RealCheckpoint, machine, worker, LInv, LTypeOK
<1>1. LTypeOK'
  BY TaskRecord DEF saveCheckpoint
<1>2. RecordsOK'
  BY DEF saveCheckpoint, LineOK, Idle, Known, RecordsOK, RecordOK
<1>3. DriverOK'
  BY DEF saveCheckpoint, DriverOK, Known
<1>4. RestartOK'
  BY DEF saveCheckpoint, RestartOK, LineOK, Known, Idle
<1>5. /\ \A b \in Agents : LineOK(b)'
      /\ HeldKnown'
      /\ \A b \in Agents : Punctual(b)'
  BY DEF LineOK, Idle, Known, HeldKnown, Punctual, Healthy, Active
<1> QED BY <1>1, <1>2, <1>3, <1>4, <1>5

\* The end of the request ends the workers and leaves the records as they are.
LEMMA RealEndLInv ==
    ASSUME LInv, RealEnd
    PROVE  LInv'
<1> USE DEF RealEnd, machine, LInv, LTypeOK
<1>1. LTypeOK'
  BY DEF Die, Alive
<1>2. \A b \in Agents : LineOK(b)'
  BY DEF Die, Alive, LineOK, Idle, Known
<1>3. HeldKnown'
  BY DEF Die, Alive, LineOK, Idle, HeldKnown, DriverOK, Known
<1>4. RecordsOK'
  BY DEF Die, Alive, LineOK, Idle, Known, RecordsOK, RecordOK
<1>5. DriverOK'
  BY DEF Die, Alive, DriverOK, Known
<1>6. RestartOK'
  BY DEF Die, Alive, RestartOK, LineOK, Known, Idle
<1>7. \A b \in Agents : Punctual(b)'
  BY DEF Die, Alive, LineOK, Idle, Known, RecordsOK, RecordOK, Punctual, Healthy, Active
<1> QED BY <1>1, <1>2, <1>3, <1>4, <1>5, <1>6, <1>7

\* A tool call may make a workspace and touches no record.
LEMMA ToolExecLInv ==
    ASSUME LInv, NEW a \in Agents, ToolExec(a)
    PROVE  LInv'
<1> USE DEF ToolExec, driver, worker, LInv, LTypeOK
<1>1. LTypeOK'
  BY DEF AllAttached, Active
<1>2. HeldKnown'
  <2>1. a \in DOMAIN agents
    <3>1. CASE run = "created"
      BY <3>1 DEF DriverOK
    <3>2. CASE AllAttached
      BY <3>2 DEF AllAttached, DriverOK, Known
    <3>3. CASE sock[a] = <<>> /\ conn[a] = "reading"
      BY <3>3, LineLetters DEF LineOK, Idle, Known
    <3> QED BY <3>1, <3>2, <3>3
  <2> QED BY <2>1 DEF HeldKnown, Known
<1>3. /\ \A b \in Agents : LineOK(b)'
      /\ RecordsOK'
      /\ DriverOK'
      /\ RestartOK'
      /\ \A b \in Agents : Punctual(b)'
  BY DEF LineOK, Idle, Known, RecordsOK, RecordOK, DriverOK, RestartOK, Punctual, Healthy, Active
<1> QED BY <1>1, <1>2, <1>3

\* An agent that was frozen once is not counted among the healthy.
LEMMA FreezeLInv ==
    ASSUME LInv, NEW a \in Agents, Freeze(a)
    PROVE  LInv'
<1> USE DEF Freeze, driver, worker, LInv, LTypeOK
<1>1. LTypeOK'
  BY DEF Alive
<1>2. \A b \in Agents : Punctual(b)'
  BY DEF Alive, LineOK, Idle, Known, RecordsOK, RecordOK, Punctual, Healthy, Active
<1>3. /\ \A b \in Agents : LineOK(b)'
      /\ HeldKnown'
      /\ RecordsOK'
      /\ DriverOK'
      /\ RestartOK'
  BY DEF LineOK, Idle, Known, HeldKnown, RecordsOK, RecordOK, DriverOK, RestartOK
<1> QED BY <1>1, <1>2, <1>3

\* Unfreezing lets the worker run again.
LEMMA UnfreezeLInv ==
    ASSUME LInv, NEW a \in Agents, Unfreeze(a)
    PROVE  LInv'
<1> USE DEF Unfreeze, driver, worker, LInv, LTypeOK
<1>1. LTypeOK'
  OBVIOUS
<1>2. \A b \in Agents : Punctual(b)'
  BY DEF LineOK, Idle, Known, RecordsOK, RecordOK, Punctual, Healthy, Active
<1>3. /\ \A b \in Agents : LineOK(b)'
      /\ HeldKnown'
      /\ RecordsOK'
      /\ DriverOK'
      /\ RestartOK'
  BY DEF LineOK, Idle, Known, HeldKnown, RecordsOK, RecordOK, DriverOK, RestartOK
<1> QED BY <1>1, <1>2, <1>3

\* The kill handler first ends the worker.
LEMMA KillProcessLInv ==
    ASSUME LInv, NEW a \in Agents, KillProcess(a)
    PROVE  LInv'
<1> USE DEF KillProcess, driver, LInv, LTypeOK
<1>1. LTypeOK'
  BY DEF Die, Alive
<1>2. \A b \in Agents : LineOK(b)'
  BY DEF Die, Alive, LineOK, Idle, Known
<1>3. HeldKnown'
  BY DEF Die, Alive, LineOK, Idle, HeldKnown, DriverOK, Known
<1>4. RecordsOK'
  BY DEF Die, Alive, LineOK, Idle, Known, RecordsOK, RecordOK
<1>5. DriverOK'
  BY DEF Die, Alive, DriverOK, Known
<1>6. RestartOK'
  BY DEF Die, Alive, RestartOK, LineOK, Known, Idle
<1>7. \A b \in Agents : Punctual(b)'
  BY DEF Die, Alive, LineOK, Idle, Known, RecordsOK, RecordOK, Punctual, Healthy, Active
<1> QED BY <1>1, <1>2, <1>3, <1>4, <1>5, <1>6, <1>7

\* An injected fault makes a workspace for an id that is no agent's.
LEMMA InjectFaultLInv ==
    ASSUME LInv, NEW f \in FaultIds, InjectFault(f)
    PROVE  LInv'
<1> USE DEF InjectFault, driver, worker, LInv, LTypeOK
<1>1. LTypeOK'
  OBVIOUS
<1>2. HeldKnown'
  BY LifecycleAssumption DEF HeldKnown, Known
<1>3. /\ \A b \in Agents : LineOK(b)'
      /\ RecordsOK'
      /\ DriverOK'
      /\ RestartOK'
      /\ \A b \in Agents : Punctual(b)'
  BY DEF LineOK, Idle, Known, RecordsOK, RecordOK, DriverOK, RestartOK, Punctual, Healthy, Active
<1> QED BY <1>1, <1>2, <1>3

\* The destroy handler first removes the workspace; the worker is not told.
LEMMA DestroyLInv ==
    ASSUME LInv, NEW a \in Agents \cup FaultIds, Destroy(a)
    PROVE  LInv'
<1> USE DEF Destroy, driver, worker, LInv, LTypeOK
<1>1. LTypeOK'
  OBVIOUS
<1>2. HeldKnown'
  BY DEF HeldKnown, Known
<1>3. RestartOK'
  BY DEF RestartOK, LineOK, Known, Idle
<1>4. /\ \A b \in Agents : LineOK(b)'
      /\ RecordsOK'
      /\ DriverOK'
      /\ \A b \in Agents : Punctual(b)'
  BY DEF LineOK, Idle, Known, RecordsOK, RecordOK, DriverOK, Punctual, Healthy, Active
<1> QED BY <1>1, <1>2, <1>3, <1>4

\* Destroying a workspace touches no record.
LEMMA DestroyWorkspaceLInv ==
    ASSUME LInv, NEW a \in Agents \cup FaultIds, DestroyWorkspace(a)
    PROVE  LInv'
<1> USE DEF DestroyWorkspace, driver, worker, LInv, LTypeOK
<1>1. LTypeOK'
  OBVIOUS
<1>2. HeldKnown'
  BY DEF HeldKnown, Known
<1>3. /\ \A b \in Agents : LineOK(b)'
      /\ RecordsOK'
      /\ DriverOK'
      /\ RestartOK'
      /\ \A b \in Agents : Punctual(b)'
  BY DEF LineOK, Idle, Known, RecordsOK, RecordOK, DriverOK, RestartOK, Punctual, Healthy, Active
<1> QED BY <1>1, <1>2, <1>3

\* Setting the state under an id that is no agent's stores a ghost.
LEMMA GhostEffect ==
    ASSUME Records(agents), NEW a \in FaultIds, SetState(a, "KILLED")
    PROVE  /\ Records(agents')
           /\ DOMAIN agents' = DOMAIN agents \cup {a}
           /\ \A b \in DOMAIN agents : agents'[b] = agents[b]
           /\ agents'[a] = Ghost
<1>1. [Entry(a) EXCEPT !.state = "KILLED"] = Ghost
  <2>1. a \in DOMAIN agents => agents[a] = Ghost
    BY DEF Records
  <2>2. [Ghost EXCEPT !.state = "KILLED"] = Ghost /\ [Zero EXCEPT !.state = "KILLED"] = Ghost
    BY GhostRecord DEF Ghost
  <2> QED BY <2>1, <2>2 DEF Entry
<1>2. agents' = [x \in DOMAIN agents \cup {a} |-> IF x = a THEN Ghost ELSE agents[x]]
  BY <1>1 DEF SetState, Put
<1>3. a \in DOMAIN agents => agents[a] = Ghost
  BY DEF Records
<1> QED BY <1>2, <1>3 DEF Records

\* Kill and destroy then set the record KILLED.
LEMMA SetKilledLInv ==
    ASSUME LInv, NEW a \in Agents \cup FaultIds, SetKilled(a)
    PROVE  LInv'
<1>1. a \in Agents => a \in DOMAIN agents
  BY DEF SetKilled, LInv, HeldKnown
<1>2. /\ Records(agents')
      /\ DOMAIN agents' = DOMAIN agents \cup {a}
      /\ \A b \in DOMAIN agents \cap Agents :
            /\ agents'[b].pid = agents[b].pid /\ agents'[b].silence = agents[b].silence
            /\ agents'[b].state # agents[b].state => agents'[b].state = "KILLED"
  <2>1. CASE a \in Agents
    BY <2>1, <1>1, Typed, SetStateEffect DEF SetKilled
  <2>2. CASE a \in FaultIds
    BY <2>2, Typed, GhostEffect, LifecycleAssumption DEF SetKilled
  <2> QED BY <2>1, <2>2
<1>3. DOMAIN agents' \cap Agents = DOMAIN agents \cap Agents
  BY <1>1, <1>2, LifecycleAssumption
<1>4. UNCHANGED <<up, capsule, ws, run, wait, ckpt, work, freeze, conn, beaten, sock>>
  BY DEF SetKilled, driver, worker
<1>5. killing' \subseteq killing /\ up = "up"
  BY DEF SetKilled, LInv, RestartOK, LTypeOK
<1>6. LTypeOK'
  BY <1>2, <1>4, <1>5 DEF LInv, LTypeOK
<1>7. \A b \in Agents : Known(b)' <=> Known(b)
  BY <1>3 DEF Known
<1>8. \A b \in Agents : LineOK(b)'
  BY <1>4, <1>7 DEF LInv, LineOK, Idle
<1>9. HeldKnown'
  BY <1>4, <1>5, <1>3 DEF LInv, HeldKnown, Known
<1>10. RecordsOK'
  BY <1>2, <1>3, <1>4 DEF LInv, RecordsOK, RecordOK
<1>11. DriverOK'
  BY <1>3, <1>4, <1>7 DEF LInv, DriverOK
<1>12. RestartOK'
  BY <1>4, <1>5 DEF LInv, RestartOK, Idle
<1>13. \A b \in Agents : Punctual(b)'
  BY <1>2, <1>3, <1>4, <1>7 DEF LInv, Punctual, Healthy, Active, Known
<1> QED BY <1>6, <1>8, <1>9, <1>10, <1>11, <1>12, <1>13 DEF LInv

\* The monitor fails only records silent for longer than the timeout.
LEMMA MonitorLInv ==
    ASSUME LInv, Monitor
    PROVE  LInv'
<1>1. /\ DOMAIN agents' = DOMAIN agents /\ Records(agents')
      /\ \A b \in DOMAIN agents : /\ agents'[b].pid = agents[b].pid
                                  /\ agents'[b].silence = agents[b].silence
                                  /\ agents'[b].state # agents[b].state => Lost(agents[b])
                                  /\ agents'[b].state # agents[b].state => agents'[b].state = "FAILED"
  <2>1. "FAILED" \in States
    BY DEF States
  <2>2. /\ DOMAIN agents' = DOMAIN agents /\ agents' = [b \in DOMAIN agents' |-> agents'[b]]
        /\ \A b \in DOMAIN agents :
              IF Lost(agents[b]) THEN agents'[b] = [agents[b] EXCEPT !.state = "FAILED"]
              ELSE agents'[b] = agents[b]
    BY DEF Monitor, MarkHeartbeatLost
  <2>3. \A b \in DOMAIN agents : Lost(agents[b]) => b \in Agents /\ agents[b] \in AVP
    BY Typed, TaskRecord, GhostRecord
  <2>4. \A b \in DOMAIN agents : Lost(agents[b]) => agents'[b] \in AVP
    BY <2>1, <2>2, <2>3, StateRecord
  <2>5. Records(agents')
    BY <2>2, <2>3, <2>4, Typed, GhostRecord, LifecycleAssumption DEF Records
  <2>6. \A b \in DOMAIN agents : Lost(agents[b]) =>
          LET r == [agents[b] EXCEPT !.state = "FAILED"]
          IN  r.state = "FAILED" /\ r.pid = agents[b].pid /\ r.silence = agents[b].silence
    BY <2>1, <2>3, StateRecord
  <2> QED BY <2>2, <2>5, <2>6
<1>2. LTypeOK'
  BY <1>1 DEF Monitor, LInv, machine, driver, worker, LTypeOK, Records
<1>3. \A b \in Agents : LineOK(b)'
  BY DEF Monitor, MarkHeartbeatLost, Lost, LInv, machine, driver, worker, LTypeOK, LineOK, Idle,
         Known
<1>4. HeldKnown'
  BY DEF Monitor, MarkHeartbeatLost, Lost, LInv, machine, driver, worker, LTypeOK, LineOK, Idle,
         HeldKnown, DriverOK, Known
<1>5. UNCHANGED <<up, run, killing, ckpt, work, freeze, conn, beaten, sock>>
  BY DEF Monitor, machine, driver, worker
<1>6. RecordsOK'
  BY <1>1, <1>5 DEF Lost, LInv, RecordsOK, RecordOK
<1>7. DriverOK'
  BY DEF Monitor, MarkHeartbeatLost, Lost, LInv, machine, driver, worker, LTypeOK, DriverOK, Known
<1>8. RestartOK'
  <2>1. \A b \in DOMAIN agents : agents[b].state # "KILLED" => agents'[b].state # "KILLED"
    BY <1>1
  <2>2. DOMAIN agents' = DOMAIN agents
    BY <1>1
  <2>3. up' # "up" => run' \in {"idle", "over"} /\ killing' = {}
    BY <1>5 DEF LInv, RestartOK
  <2>4. up' # "up" => \A b \in DOMAIN agents' : agents'[b].state # "KILLED"
    BY <1>5, <2>1, <2>2 DEF LInv, RestartOK
  <2>5. up' = "down" => \A b \in Agents : Idle(b)'
    BY <1>5 DEF LInv, RestartOK, Idle
  <2>6. up' = "starting" => \A b \in DOMAIN ckpt' : ckpt'[b].pid => Idle(b)'
    BY <1>5 DEF LInv, RestartOK, Idle
  <2> QED BY <2>3, <2>4, <2>5, <2>6 DEF RestartOK
<1>9. \A b \in Agents : Punctual(b)'
  BY <1>1, <1>5, RegistryAssumption DEF Lost, LInv, Punctual, Healthy, Active, Known
<1> QED BY <1>2, <1>3, <1>4, <1>6, <1>7, <1>8, <1>9 DEF LInv

\* Time passes only when every active worker has sent and been served.
LEMMA TickLInv ==
    ASSUME LInv, Tick
    PROVE  LInv'
<1>1. /\ DOMAIN agents' = DOMAIN agents /\ Records(agents')
      /\ \A b \in DOMAIN agents \cap Agents :
            /\ agents'[b].state = agents[b].state
            /\ agents'[b].pid = agents[b].pid
            /\ agents[b].silence = 0 => agents'[b].silence = 1
  <2>1. agents' = [b \in DOMAIN agents |-> Aged(agents[b])]
    BY DEF Tick
  <2> QED BY <2>1, AgedRecord, AgedRecords, TaskRecord, Typed
<1>2. /\ DOMAIN ckpt' = DOMAIN ckpt /\ ckpt' \in [DOMAIN ckpt -> AVP]
      /\ \A b \in DOMAIN ckpt : ckpt'[b].state = ckpt[b].state /\ ckpt'[b].pid = ckpt[b].pid
  BY AgedRecord DEF Tick, LInv, LTypeOK
<1>3. LTypeOK'
  BY <1>1, <1>2 DEF Tick, LInv, machine, LTypeOK, Records
<1>4. \A b \in Agents : LineOK(b)'
  BY DEF Tick, Served, Active, LInv, machine, LTypeOK, LineOK, Idle, Known
<1>5. HeldKnown'
  BY DEF Tick, Served, Active, LInv, machine, LTypeOK, LineOK, Idle, HeldKnown, DriverOK, Known
<1>6. UNCHANGED <<up, run, killing, work, freeze, conn, sock>>
  BY DEF Tick, machine
<1>7. RecordsOK'
  <2>1. \A b \in DOMAIN agents' \cap Agents :
          RecordOK(b, agents[b])' /\ (sock'[b] = <<"register">> => ~agents'[b].pid)
    BY <1>1, <1>6 DEF LInv, RecordsOK, RecordOK
  <2>2. \A b \in DOMAIN ckpt' : RecordOK(b, ckpt[b])'
    BY <1>2, <1>6 DEF LInv, RecordsOK, RecordOK
  <2> QED BY <2>1, <2>2 DEF RecordsOK
<1>8. DriverOK'
  BY DEF Tick, Served, Active, LInv, machine, LTypeOK, DriverOK, Known
<1>9. RestartOK'
  <2>1. \A b \in DOMAIN agents : agents'[b].state = agents[b].state
    <3>1. \A b \in DOMAIN agents : agents'[b] = Aged(agents[b])
      BY DEF Tick
    <3>2. \A b \in DOMAIN agents : b \notin Agents => agents[b] = Ghost
      BY Typed, TaskRecord
    <3> QED BY <1>1, <3>1, <3>2, GhostRecord
  <2> QED BY <1>1, <1>2, <1>6, <2>1 DEF LInv, RestartOK, Idle
<1>10. \A b \in Agents : Punctual(b)'
  <2>1. \A b \in Agents : Served(b) /\ (Active(b) => beaten[b]) /\ beaten'[b] = FALSE
    BY DEF Tick
  <2>2. ASSUME NEW b \in Agents, b \in DOMAIN agents
        PROVE  /\ agents'[b].state = agents[b].state /\ agents'[b].pid = agents[b].pid
               /\ agents[b].silence = 0 => agents'[b].silence = 1
    BY <1>1, <2>2
  <2> QED BY <1>1, <1>6, <2>1, <2>2 DEF Served, LInv, Punctual, Healthy, Active, Known
<1> QED BY <1>3, <1>4, <1>5, <1>7, <1>8, <1>9, <1>10 DEF LInv

\* A crash loses what the daemon holds in memory and keeps workers and checkpoint.
LEMMA CrashLInv ==
    ASSUME LInv, Crash
    PROVE  LInv'
<1> USE DEF Crash, worker, LInv, LTypeOK
<1>1. LTypeOK'
  BY NoRecords
<1>2. \A b \in Agents : LineOK(b)'
  BY DEF Fresh, LineOK, Idle, Known
<1>3. HeldKnown'
  BY DEF Fresh, LineOK, Idle, HeldKnown, DriverOK, Known
<1>4. RecordsOK'
  BY DEF Fresh, LineOK, Idle, Known, RecordsOK, RecordOK
<1>5. DriverOK'
  BY DEF Fresh, DriverOK, Known
<1>6. RestartOK'
  BY DEF Fresh, RestartOK, LineOK, Known, Idle
<1>7. \A b \in Agents : Punctual(b)'
  BY DEF Fresh, LineOK, Idle, Known, RecordsOK, RecordOK, Punctual, Healthy, Active
<1> QED BY <1>1, <1>2, <1>3, <1>4, <1>5, <1>6, <1>7

\* The daemon serves connections before it has recovered.
LEMMA RestartLInv ==
    ASSUME LInv, Restart
    PROVE  LInv'
<1> USE DEF Restart, machine, driver, worker, LInv, LTypeOK
<1>1. LTypeOK'
  OBVIOUS
<1>2. RestartOK'
  BY DEF RestartOK, LineOK, Known, Idle
<1>3. /\ \A b \in Agents : LineOK(b)'
      /\ HeldKnown'
      /\ RecordsOK'
      /\ DriverOK'
      /\ \A b \in Agents : Punctual(b)'
  BY DEF LineOK, Idle, Known, HeldKnown, RecordsOK, RecordOK, DriverOK, Punctual, Healthy, Active
<1> QED BY <1>1, <1>2, <1>3

\* Recovery puts the records of the checkpoint over those that are there by then.
LEMMA RecoverLInv ==
    ASSUME LInv, Recover
    PROVE  LInv'
<1>1. /\ DOMAIN agents' \subseteq DOMAIN agents \cup DOMAIN ckpt
      /\ DOMAIN agents \subseteq DOMAIN agents' /\ Records(agents')
      /\ \A b \in DOMAIN agents' :
            \/ b \in DOMAIN agents /\ agents'[b] = agents[b]
            \/ /\ b \in DOMAIN ckpt
               /\ agents'[b].pid = ckpt[b].pid
               /\ agents'[b].state = "FAILED" => ckpt[b].state = "FAILED"
  <2>1. CASE UNCHANGED agents
    BY <2>1, Typed DEF Records
  <2>2. CASE RestoreAgents([b \in DOMAIN ckpt |-> Restored(ckpt[b])])
    <3>1. /\ DOMAIN agents' = DOMAIN agents \cup DOMAIN ckpt
          /\ agents' = [b \in DOMAIN agents' |-> agents'[b]]
          /\ \A b \in DOMAIN ckpt : agents'[b] = Restored(ckpt[b])
          /\ \A b \in DOMAIN agents \ DOMAIN ckpt : agents'[b] = agents[b]
      BY <2>2 DEF RestoreAgents
    <3>2. \A b \in DOMAIN ckpt : b \in Agents /\ ckpt[b] \in AVP
      BY DEF LInv, LTypeOK
    <3>3. Records(agents')
      BY <3>1, <3>2, Typed, RestoredRecord, GhostRecord, LifecycleAssumption DEF Records
    <3> QED BY <3>1, <3>2, <3>3, RestoredRecord
  <2> QED BY <2>1, <2>2 DEF Recover
<1>2. LTypeOK'
  BY <1>1 DEF Recover, LInv, machine, driver, worker, LTypeOK, Records
<1>3. \A b \in Agents : LineOK(b)'
  BY <1>1 DEF Recover, LInv, machine, driver, worker, LTypeOK, LineOK, Idle, Known
<1>4. HeldKnown'
  BY <1>1 DEF Recover, LInv, machine, driver, worker, LTypeOK, HeldKnown, Known
<1>5. RecordsOK'
  BY <1>1, LineLetters DEF Recover, LInv, machine, driver, worker, LTypeOK, LineOK, RecordsOK,
                           RecordOK, RestartOK, Idle
<1>6. DriverOK'
  BY <1>1 DEF Recover, LInv, machine, driver, worker, LTypeOK, DriverOK, RestartOK, Known
<1>7. RestartOK'
  BY <1>1 DEF Recover, LInv, machine, driver, worker, RestartOK
<1>8. up = "starting" /\ UNCHANGED <<work, freeze, conn, beaten, sock>>
  BY DEF Recover, machine, worker
<1>9. \A b \in Agents : Punctual(b)'
  <2> SUFFICES ASSUME NEW b \in DOMAIN agents' \cap Agents, Healthy(b)', agents'[b].pid
               PROVE  Punctual(b)'
    BY <1>1 DEF Punctual, Known
  <2>1. CASE b \in DOMAIN agents /\ agents'[b] = agents[b]
    BY <1>8, <2>1 DEF LInv, LTypeOK, Punctual, Healthy, Active, Known
  <2>2. CASE b \in DOMAIN ckpt /\ agents'[b].pid = ckpt[b].pid
    <3>1. Idle(b) /\ b \in Agents
      BY <1>8, <2>2 DEF LInv, LTypeOK, RestartOK
    <3> QED BY <1>8, <3>1 DEF LInv, LineOK, Healthy, Active, Idle
  <2> QED BY <1>1, <2>1, <2>2
<1> QED BY <1>2, <1>3, <1>4, <1>5, <1>6, <1>7, <1>9 DEF LInv

-----------------------------------------------------------------------------
(* The theorems. *)

\* A daemon that starts has no records, no workers and no connections.
LEMMA InitLInv == LInit => LInv
<1> SUFFICES ASSUME LInit PROVE LInv
  OBVIOUS
<1>1. LTypeOK
  BY NoRecords DEF LInit, LTypeOK
<1> QED BY <1>1 DEF LInit, LInv, LineOK, Idle, Known, HeldKnown, RecordsOK, DriverOK, RestartOK,
                    Punctual

\* Every step keeps the invariant.
LEMMA NextLInv == LInv /\ [LNext]_lvars => LInv'
<1> SUFFICES ASSUME LInv, [LNext]_lvars PROVE LInv'
  OBVIOUS
<1>1. CASE UNCHANGED lvars
  BY <1>1 DEF lvars, LInv, LTypeOK, LineOK, Idle, Known, HeldKnown, RecordsOK, RecordOK, DriverOK,
              RestartOK, Punctual, Healthy, Active
<1>2. ASSUME NEW a \in Agents,
             WorkerSends(a) \/ WorkerCrash(a) \/ WorkerExit(a) \/ Serve(a)
      PROVE  LInv'
  <2>1. CASE WorkerSends(a)
    BY <2>1, WorkerRegisterLInv, WorkerReportLInv, WorkerHeartbeatLInv DEF WorkerSends
  <2>2. CASE Serve(a)
    BY <2>2, HandleRegisterLInv, HandleHeartbeatLInv, HandleReportLInv, PrepareCapsuleLInv,
       AttachCapsuleLInv, AttachWorkspaceLInv DEF Serve
  <2> QED BY <1>2, <2>1, <2>2, WorkerCrashLInv, WorkerExitLInv
<1>3. CASE Drive
  BY <1>3, DemoCreateLInv, DemoCheckpointLInv, DemoLaunchLInv, RealLaunchLInv, RealAttachLInv,
     RealAbortLInv, RealReportLInv, RealCompleteLInv, RealCheckpointLInv, RealEndLInv, ToolExecLInv
     DEF Drive
<1>4. CASE Operate
  BY <1>4, FreezeLInv, UnfreezeLInv, KillProcessLInv, InjectFaultLInv, DestroyLInv,
     DestroyWorkspaceLInv, SetKilledLInv DEF Operate
<1> QED BY <1>1, <1>2, <1>3, <1>4, MonitorLInv, TickLInv, CrashLInv, RestartLInv, RecoverLInv DEF LNext

\* Every behaviour of the registry with its workers, its monitor, its operators, the
\* two runs that drive it and its crashes keeps LInv, for every set of agents and every timeout.
THEOREM LifecycleInvariant == LSpec => []LInv
BY InitLInv, NextLInv, PTL DEF LSpec

\* The records, processes, lines and connections keep their types.
THEOREM LifecycleTypeOK == LSpec => []LTypeOK
<1>1. LInv => LTypeOK
  BY DEF LInv
<1> QED BY <1>1, LifecycleInvariant, PTL

\* MarkHeartbeatLost never fails an agent whose worker lives, was never frozen and
\* sends its heartbeats: the silence of such a record stays within the timeout.
THEOREM LifecycleHealthyNotFailed == LSpec => []HealthyNotFailed
<1>1. LInv => HealthyNotFailed
  BY DEF LInv, LTypeOK, RecordsOK, RecordOK, Punctual, HealthyNotFailed, Known
<1> QED BY <1>1, LifecycleInvariant, PTL

\* A step that keeps the daemon up, moves no message of the agent and no driver
\* leaves a KILLED agent KILLED.
LEMMA KilledStep ==
    ASSUME LInv, [LNext]_lvars, NEW a \in Agents, Known(a), agents[a].state = "KILLED",
           up' = "up", sock'[a] = sock[a], run' = run
    PROVE  agents'[a].state = "KILLED"
<1>1. up = "up"
  BY DEF LInv, RestartOK, Known
<1>2. \A r : \A b : a # b /\ agents' = Put(agents, b, r) => agents'[a] = agents[a]
  BY DEF Put, Known
<1>3. \A b \in Agents : SetPath(b) => agents'[a] = agents[a]
  BY DEF SetPath, Entry, Put, Known
<1>4. agents[a] \in AVP
  BY TaskRecord DEF LInv, LTypeOK, Known
<1>5. CASE UNCHANGED lvars
  BY <1>5 DEF lvars
<1>6. ASSUME NEW b \in Agents, WorkerSends(b) \/ WorkerCrash(b) \/ WorkerExit(b)
      PROVE  agents'[a].state = "KILLED"
  BY <1>6 DEF WorkerSends, WorkerRegister, WorkerReport, WorkerHeartbeat, Send, WorkerCrash,
              WorkerExit
<1>7. ASSUME NEW b \in Agents, Serve(b)
      PROVE  agents'[a].state = "KILLED"
  <2>1. ASSUME NEW m \in Messages, Receive(b, m)
        PROVE  a # b
    <3>1. sock[b] = <<m>> /\ sock' = [sock EXCEPT ![b] = <<>>] /\ sock \in [Agents -> Lines]
      BY <2>1, Typed, ReceiveEffect
    <3>2. sock'[b] # sock[b]
      BY <3>1, LinesDistinct
    <3> QED BY <3>2
  <2>2. CASE HandleRegister(b) \/ HandleHeartbeat(b) \/ HandleReport(b)
    <3>1. a # b
      BY <2>1, <2>2 DEF HandleRegister, HandleHeartbeat, HandleReport, Messages
    <3> QED BY <1>2, <2>2, <3>1 DEF HandleRegister, HandleHeartbeat, HandleReport, register,
                                    heartbeat, report
  <2>3. CASE PrepareCapsule(b) \/ AttachCapsule(b) \/ AttachWorkspace(b)
    BY <1>3, <2>3 DEF PrepareCapsule, AttachCapsule, AttachWorkspace
  <2> QED BY <1>7, <2>2, <2>3 DEF Serve
<1>8. CASE Operate
  <2>1. ASSUME NEW b \in Agents \cup FaultIds, SetKilled(b)
        PROVE  agents'[a].state = "KILLED"
    <3>1. CASE a = b
      <4>1. agents' = Put(agents, a, [agents[a] EXCEPT !.state = "KILLED"])
        BY <2>1, <3>1 DEF SetKilled, SetState, Entry, Known
      <4> QED BY <1>4, <4>1 DEF Put, AVP
    <3> QED BY <1>2, <2>1, <3>1 DEF SetKilled, SetState
  <2> QED BY <1>8, <2>1 DEF Operate, Freeze, Unfreeze, KillProcess, InjectFault, Destroy,
                            DestroyWorkspace
<1>9. CASE Drive
  <2>1. CASE DemoCreate \/ DemoCheckpoint \/ RealAbort \/ RealComplete \/ RealCheckpoint \/ RealEnd
    BY <2>1 DEF DemoCreate, DemoCheckpoint, RealAbort, RealComplete, RealCheckpoint, RealEnd
  <2>2. ASSUME NEW b \in Agents, DemoLaunch(b) \/ RealReport(b) \/ ToolExec(b)
        PROVE  agents'[a].state = "KILLED"
    BY <2>2 DEF DemoLaunch, RealReport, AllAttached, ToolExec
  <2>3. ASSUME NEW b \in Agents, RealLaunch(b) \/ RealAttach(b)
        PROVE  agents'[a].state = "KILLED"
    BY <1>2, <1>3, <2>3 DEF RealLaunch, RealAttach, CreateAgent, Known
  <2> QED BY <1>9, <2>1, <2>2, <2>3 DEF Drive
<1>10. CASE Monitor
  BY <1>10 DEF Monitor, MarkHeartbeatLost, Lost, Known
<1>11. CASE Tick
  BY <1>4, <1>11, AgedRecord DEF Tick, Known
<1>12. CASE Crash \/ Restart \/ Recover
  BY <1>1, <1>12 DEF Crash, Restart, Recover
<1> QED BY <1>5, <1>6, <1>7, <1>8, <1>9, <1>10, <1>11, <1>12 DEF LNext

\* While the daemon is up only a message of the agent's own worker or a step of its task
\* takes an agent out of KILLED: AttachCapsule and AttachWorkspace, which the registration
\* callback runs without the registry's lock, and MarkHeartbeatLost never do.
THEOREM LifecycleKilledHeld == LSpec => KilledHeldAgainstCallbacks
<1>1. ASSUME LInv, [LNext]_lvars
      PROVE  [\A a \in Agents : Known(a) /\ agents[a].state = "KILLED" /\ up' = "up" =>
                \/ agents'[a].state = "KILLED"
                \/ sock'[a] # sock[a]
                \/ run' # run]_lvars
  BY <1>1, KilledStep
<1> QED BY <1>1, LifecycleInvariant, PTL DEF LSpec, KilledHeldAgainstCallbacks

-----------------------------------------------------------------------------
(***************************************************************************)
(* The software-real demo.                                                 *)
(*                                                                         *)
(* A running request stands at a position of its program, and everything   *)
(* the result reports was settled by a step at an earlier position.        *)
(***************************************************************************)
DoNames == {"baseline", "seed", "wait", "schedule", "saveOpen", "saveWrite", "evidence", "result"}
CallNames ==
    {"materialize", "llm", "delta", "spawn", "firstTest", "publish", "poll", "secondTest", "timeout",
     "fix", "report"}
DoSteps == {Do(step) : step \in DoNames}
CallSteps == {Call(name, want) : name \in CallNames, want \in SUBSET AnyStatus}
DemoSteps == DoSteps \cup CallSteps
Logs == DOMAIN NoCounts
Counts == [Logs -> Nat]

\* The steps that settle nothing the result reports.
PlainStep(s) ==
    \/ s.do \in {"seed", "wait", "schedule"}
    \/ s.do = "call" /\ s.name \in {"materialize", "llm", "delta", "spawn", "fix", "report"}

\* The positions of the others.
Landmarks(p) ==
    /\ p \in Seq(DemoSteps) /\ Len(p) = 30
    /\ p[1] = Do("baseline") /\ p[14] = Call("firstTest", {"ERROR"})
    /\ p[17] = mustSyscallOK("publish") /\ p[19] = mustSyscallOK("poll")
    /\ p[21] = Call("secondTest", {"OK"}) /\ p[24] = Call("timeout", {"TIMEOUT"})
    /\ p[27] = Do("saveOpen") /\ p[28] = Do("saveWrite")
    /\ p[29] = Do("evidence") /\ p[30] = Do("result")
    /\ \A i \in (1..30) \ {1, 14, 17, 19, 21, 24, 27, 28, 29, 30} : PlainStep(p[i])

\* A segment appended to a program.
LEMMA Appended ==
    ASSUME NEW s \in Seq(DemoSteps), NEW t \in Seq(DemoSteps)
    PROVE  /\ s \o t \in Seq(DemoSteps) /\ Len(s \o t) = Len(s) + Len(t)
           /\ \A i \in 1..Len(s) : (s \o t)[i] = s[i]
           /\ \A i \in 1..Len(t) : (s \o t)[Len(s) + i] = t[i]
<1>1. /\ s \o t \in Seq(DemoSteps) /\ Len(s \o t) = Len(s) + Len(t)
      /\ \A i \in 1..(Len(s) + Len(t)) : (s \o t)[i] = IF i <= Len(s) THEN s[i] ELSE t[i - Len(s)]
  BY ConcatProperties
<1>2. Len(s) \in Nat /\ Len(t) \in Nat
  OBVIOUS
<1>3. ASSUME NEW i \in 1..Len(s) PROVE (s \o t)[i] = s[i]
  BY <1>1, <1>2
<1>4. ASSUME NEW i \in 1..Len(t) PROVE (s \o t)[Len(s) + i] = t[i]
  <2>1. Len(s) + i \in 1..(Len(s) + Len(t)) /\ ~(Len(s) + i <= Len(s)) /\ (Len(s) + i) - Len(s) = i
    BY <1>2
  <2>2. (s \o t)[Len(s) + i] = t[(Len(s) + i) - Len(s)]
    BY <1>1, <2>1
  <2> QED BY <2>1, <2>2
<1> QED BY <1>1, <1>3, <1>4

\* The steps are records with a name and the statuses wanted.
LEMMA DemoStepTypes ==
    /\ \A s \in DoNames : Do(s) \in DemoSteps /\ Do(s).do = s
    /\ \A n \in CallNames : \A w \in SUBSET AnyStatus :
          /\ Call(n, w) \in DemoSteps /\ Call(n, w).do = "call"
          /\ Call(n, w).name = n /\ Call(n, w).want = w
    /\ \A n \in CallNames : /\ mustSyscallOK(n) \in DemoSteps /\ mustSyscallOK(n).do = "call"
                            /\ mustSyscallOK(n).name = n /\ mustSyscallOK(n).want = {"OK"}
<1>1. ASSUME NEW s \in DoNames PROVE Do(s) \in DemoSteps /\ Do(s).do = s
  <2>1. Do(s) \in DoSteps
    BY DEF DoSteps
  <2>2. Do(s).do = s
    BY DEF Do
  <2> QED BY <2>1, <2>2 DEF DemoSteps
<1>2. ASSUME NEW n \in CallNames, NEW w \in SUBSET AnyStatus PROVE Call(n, w) \in DemoSteps
  <2>1. Call(n, w) \in CallSteps
    BY DEF CallSteps
  <2> QED BY <2>1 DEF DemoSteps
<1>3. ASSUME NEW n \in CallNames, NEW w \in SUBSET AnyStatus
      PROVE  Call(n, w).do = "call" /\ Call(n, w).name = n /\ Call(n, w).want = w
  BY DEF Call
<1>4. {"OK"} \in SUBSET AnyStatus
  BY DEF AnyStatus
<1> QED BY <1>1, <1>2, <1>3, <1>4 DEF mustSyscallOK

\* What an agent's part of the program looks like.
LEMMA AgentParts ==
    /\ AgentSteps("planner") \in Seq(DemoSteps) /\ Len(AgentSteps("planner")) = 5
       /\ \A i \in 1..5 : PlainStep(AgentSteps("planner")[i])
    /\ AgentSteps("coder") \in Seq(DemoSteps) /\ Len(AgentSteps("coder")) = 3
       /\ \A i \in 1..3 : PlainStep(AgentSteps("coder")[i])
    /\ AgentSteps("tester") \in Seq(DemoSteps) /\ Len(AgentSteps("tester")) = 3
       /\ (\A i \in 1..2 : PlainStep(AgentSteps("tester")[i]))
       /\ AgentSteps("tester")[3] = Call("firstTest", {"ERROR"})
    /\ AgentSteps("reviewer") \in Seq(DemoSteps) /\ Len(AgentSteps("reviewer")) = 3
       /\ (\A i \in 1..2 : PlainStep(AgentSteps("reviewer")[i]))
       /\ AgentSteps("reviewer")[3] = mustSyscallOK("publish")
    /\ AgentSteps("fixer") \in Seq(DemoSteps) /\ Len(AgentSteps("fixer")) = 4
       /\ PlainStep(AgentSteps("fixer")[1]) /\ PlainStep(AgentSteps("fixer")[3])
       /\ AgentSteps("fixer")[2] = mustSyscallOK("poll")
       /\ AgentSteps("fixer")[4] = Call("secondTest", {"OK"})
    /\ AgentSteps("reporter") \in Seq(DemoSteps) /\ Len(AgentSteps("reporter")) = 2
       /\ \A i \in 1..2 : PlainStep(AgentSteps("reporter")[i])
<1> DEFINE sch == Do("schedule")
           mat == mustSyscallOK("materialize")
           llm == mustSyscallOK("llm")
           del == mustSyscallOK("delta")
           spa == Call("spawn", AnyStatus)
           fst == Call("firstTest", {"ERROR"})
           pub == mustSyscallOK("publish")
           pol == mustSyscallOK("poll")
           sec == Call("secondTest", {"OK"})
<1>1. /\ sch \in DemoSteps /\ mat \in DemoSteps /\ llm \in DemoSteps /\ del \in DemoSteps
      /\ spa \in DemoSteps /\ fst \in DemoSteps /\ pub \in DemoSteps /\ pol \in DemoSteps
      /\ sec \in DemoSteps
  <2>1. {"ERROR"} \in SUBSET AnyStatus /\ {"OK"} \in SUBSET AnyStatus /\ AnyStatus \in SUBSET AnyStatus
    BY DEF AnyStatus
  <2>2. "schedule" \in DoNames /\ {"materialize", "llm", "delta", "spawn", "firstTest", "publish",
                                    "poll", "secondTest"} \subseteq CallNames
    BY DEF DoNames, CallNames
  <2> QED BY <2>1, <2>2, DemoStepTypes
<1>2. PlainStep(sch) /\ PlainStep(mat) /\ PlainStep(llm) /\ PlainStep(del) /\ PlainStep(spa)
  <2>1. AnyStatus \in SUBSET AnyStatus /\ "schedule" \in DoNames
        /\ {"materialize", "llm", "delta", "spawn"} \subseteq CallNames
    BY DEF DoNames, CallNames
  <2>2. PlainStep(sch)
    BY <2>1, DemoStepTypes DEF PlainStep
  <2>3. PlainStep(mat) /\ PlainStep(llm) /\ PlainStep(del)
    BY <2>1, DemoStepTypes DEF PlainStep
  <2>4. PlainStep(spa)
    BY <2>1, DemoStepTypes DEF PlainStep
  <2> QED BY <2>2, <2>3, <2>4
<1>3. /\ AgentSteps("planner") = <<sch>> \o <<mat, llm, del, spa>>
      /\ AgentSteps("coder") = <<sch>> \o <<mat, del>>
      /\ AgentSteps("tester") = <<sch>> \o <<mat, fst>>
      /\ AgentSteps("reviewer") = <<sch>> \o <<del, pub>>
      /\ AgentSteps("fixer") = <<sch>> \o <<pol, del, sec>>
      /\ AgentSteps("reporter") = <<sch>> \o <<mat>>
  BY DEF AgentSteps
<1> HIDE DEF sch, mat, llm, del, spa, fst, pub, pol, sec
<1>4. ASSUME NEW t \in Seq(DemoSteps)
      PROVE  /\ <<sch>> \o t \in Seq(DemoSteps) /\ Len(<<sch>> \o t) = Len(t) + 1
             /\ (<<sch>> \o t)[1] = sch
             /\ \A i \in 1..Len(t) : (<<sch>> \o t)[1 + i] = t[i]
  <2>1. <<sch>> \in Seq(DemoSteps) /\ Len(<<sch>>) = 1 /\ <<sch>>[1] = sch /\ Len(t) \in Nat
    BY <1>1
  <2>2. /\ <<sch>> \o t \in Seq(DemoSteps) /\ Len(<<sch>> \o t) = Len(<<sch>>) + Len(t)
        /\ \A i \in 1..Len(<<sch>>) : (<<sch>> \o t)[i] = <<sch>>[i]
        /\ \A i \in 1..Len(t) : (<<sch>> \o t)[Len(<<sch>>) + i] = t[i]
    BY <2>1, Appended
  <2> QED BY <2>1, <2>2
<1>8. /\ AgentSteps("planner") \in Seq(DemoSteps) /\ Len(AgentSteps("planner")) = 5
      /\ \A i \in 1..5 : PlainStep(AgentSteps("planner")[i])
  <2> DEFINE t == <<mat, llm, del, spa>>
             p == AgentSteps("planner")
  <2>1. t \in Seq(DemoSteps) /\ Len(t) = 4 /\ t[1] = mat /\ t[2] = llm /\ t[3] = del /\ t[4] = spa
    BY <1>1
  <2>2. p = <<sch>> \o t
    BY <1>3
  <2> HIDE DEF t, p
  <2>3. p \in Seq(DemoSteps) /\ Len(p) = 5 /\ p[1] = sch /\ p[2] = mat /\ p[3] = llm /\ p[4] = del /\ p[5] = spa
    <3>1. p \in Seq(DemoSteps) /\ Len(p) = Len(t) + 1 /\ p[1] = sch /\ \A i \in 1..Len(t) : p[1 + i] = t[i]
      BY <1>4, <2>1, <2>2
    <3> QED BY <2>1, <3>1
  <2> QED BY <1>2, <2>3 DEF p
<1>9. /\ AgentSteps("coder") \in Seq(DemoSteps) /\ Len(AgentSteps("coder")) = 3
      /\ \A i \in 1..3 : PlainStep(AgentSteps("coder")[i])
  <2> DEFINE t == <<mat, del>>
             p == AgentSteps("coder")
  <2>1. t \in Seq(DemoSteps) /\ Len(t) = 2 /\ t[1] = mat /\ t[2] = del
    BY <1>1
  <2>2. p = <<sch>> \o t
    BY <1>3
  <2> HIDE DEF t, p
  <2>3. p \in Seq(DemoSteps) /\ Len(p) = 3 /\ p[1] = sch /\ p[2] = mat /\ p[3] = del
    <3>1. p \in Seq(DemoSteps) /\ Len(p) = Len(t) + 1 /\ p[1] = sch /\ \A i \in 1..Len(t) : p[1 + i] = t[i]
      BY <1>4, <2>1, <2>2
    <3> QED BY <2>1, <3>1
  <2> QED BY <1>2, <2>3 DEF p
<1>10. /\ AgentSteps("tester") \in Seq(DemoSteps) /\ Len(AgentSteps("tester")) = 3
       /\ (\A i \in 1..2 : PlainStep(AgentSteps("tester")[i]))
       /\ AgentSteps("tester")[3] = fst
  <2> DEFINE t == <<mat, fst>>
             p == AgentSteps("tester")
  <2>1. t \in Seq(DemoSteps) /\ Len(t) = 2 /\ t[1] = mat /\ t[2] = fst
    BY <1>1
  <2>2. p = <<sch>> \o t
    BY <1>3
  <2> HIDE DEF t, p
  <2>3. p \in Seq(DemoSteps) /\ Len(p) = 3 /\ p[1] = sch /\ p[2] = mat /\ p[3] = fst
    <3>1. p \in Seq(DemoSteps) /\ Len(p) = Len(t) + 1 /\ p[1] = sch /\ \A i \in 1..Len(t) : p[1 + i] = t[i]
      BY <1>4, <2>1, <2>2
    <3> QED BY <2>1, <3>1
  <2> QED BY <1>2, <2>3 DEF p
<1>11. /\ AgentSteps("reviewer") \in Seq(DemoSteps) /\ Len(AgentSteps("reviewer")) = 3
       /\ (\A i \in 1..2 : PlainStep(AgentSteps("reviewer")[i]))
       /\ AgentSteps("reviewer")[3] = pub
  <2> DEFINE t == <<del, pub>>
             p == AgentSteps("reviewer")
  <2>1. t \in Seq(DemoSteps) /\ Len(t) = 2 /\ t[1] = del /\ t[2] = pub
    BY <1>1
  <2>2. p = <<sch>> \o t
    BY <1>3
  <2> HIDE DEF t, p
  <2>3. p \in Seq(DemoSteps) /\ Len(p) = 3 /\ p[1] = sch /\ p[2] = del /\ p[3] = pub
    <3>1. p \in Seq(DemoSteps) /\ Len(p) = Len(t) + 1 /\ p[1] = sch /\ \A i \in 1..Len(t) : p[1 + i] = t[i]
      BY <1>4, <2>1, <2>2
    <3> QED BY <2>1, <3>1
  <2> QED BY <1>2, <2>3 DEF p
<1>12. /\ AgentSteps("fixer") \in Seq(DemoSteps) /\ Len(AgentSteps("fixer")) = 4
       /\ PlainStep(AgentSteps("fixer")[1]) /\ PlainStep(AgentSteps("fixer")[3])
       /\ AgentSteps("fixer")[2] = pol /\ AgentSteps("fixer")[4] = sec
  <2> DEFINE t == <<pol, del, sec>>
             p == AgentSteps("fixer")
  <2>1. t \in Seq(DemoSteps) /\ Len(t) = 3 /\ t[1] = pol /\ t[2] = del /\ t[3] = sec
    BY <1>1
  <2>2. p = <<sch>> \o t
    BY <1>3
  <2> HIDE DEF t, p
  <2>3. p \in Seq(DemoSteps) /\ Len(p) = 4 /\ p[1] = sch /\ p[2] = pol /\ p[3] = del /\ p[4] = sec
    <3>1. p \in Seq(DemoSteps) /\ Len(p) = Len(t) + 1 /\ p[1] = sch /\ \A i \in 1..Len(t) : p[1 + i] = t[i]
      BY <1>4, <2>1, <2>2
    <3> QED BY <2>1, <3>1
  <2> QED BY <1>2, <2>3 DEF p
<1>13. /\ AgentSteps("reporter") \in Seq(DemoSteps) /\ Len(AgentSteps("reporter")) = 2
       /\ \A i \in 1..2 : PlainStep(AgentSteps("reporter")[i])
  <2> DEFINE t == <<mat>>
             p == AgentSteps("reporter")
  <2>1. t \in Seq(DemoSteps) /\ Len(t) = 1 /\ t[1] = mat
    BY <1>1
  <2>2. p = <<sch>> \o t
    BY <1>3
  <2> HIDE DEF t, p
  <2>3. p \in Seq(DemoSteps) /\ Len(p) = 2 /\ p[1] = sch /\ p[2] = mat
    <3>1. p \in Seq(DemoSteps) /\ Len(p) = Len(t) + 1 /\ p[1] = sch /\ \A i \in 1..Len(t) : p[1 + i] = t[i]
      BY <1>4, <2>1, <2>2
    <3> QED BY <2>1, <3>1
  <2> QED BY <1>2, <2>3 DEF p
<1> QED BY <1>8, <1>9, <1>10, <1>11, <1>12, <1>13, Zenon DEF fst, pub, pol, sec

\* The program of a request.
LEMMA ProgramLandmarks == Landmarks(runSoftwareRealDemo)
<1> DEFINE start == <<Do("baseline"), Do("seed"), Do("wait")>>
           p1 == start \o AgentSteps("planner")
           p2 == p1 \o AgentSteps("coder")
           p3 == p2 \o AgentSteps("tester")
           p4 == p3 \o AgentSteps("reviewer")
           p5 == p4 \o AgentSteps("fixer")
           p6 == p5 \o AgentSteps("reporter")
           p7 == p6 \o FaultSteps
           p8 == p7 \o RecoverySteps
           p9 == p8 \o EndSteps
<1>1. runSoftwareRealDemo = p9
  BY DEF runSoftwareRealDemo
<1>2. /\ \A s \in {"baseline", "seed", "wait", "saveOpen", "saveWrite", "evidence", "result"} : s \in DoNames
      /\ "timeout" \in CallNames /\ "fix" \in CallNames /\ "report" \in CallNames
      /\ {"TIMEOUT"} \in SUBSET AnyStatus
  BY DEF DoNames, CallNames, AnyStatus
<1>3. /\ start \in Seq(DemoSteps) /\ Len(start) = 3 /\ start[1] = Do("baseline")
      /\ PlainStep(start[2]) /\ PlainStep(start[3])
  <2>1. /\ Do("baseline") \in DemoSteps /\ Do("seed") \in DemoSteps /\ Do("wait") \in DemoSteps
        /\ Do("seed").do = "seed" /\ Do("wait").do = "wait"
    BY <1>2, DemoStepTypes
  <2>2. PlainStep(Do("seed")) /\ PlainStep(Do("wait"))
    BY <2>1 DEF PlainStep
  <2> QED BY <2>1, <2>2
<1>4. /\ FaultSteps \in Seq(DemoSteps) /\ Len(FaultSteps) = 1
      /\ FaultSteps[1] = Call("timeout", {"TIMEOUT"})
  <2>1. Call("timeout", {"TIMEOUT"}) \in DemoSteps
    BY <1>2, DemoStepTypes
  <2> QED BY <2>1 DEF FaultSteps
<1>5. /\ RecoverySteps \in Seq(DemoSteps) /\ Len(RecoverySteps) = 2
      /\ PlainStep(RecoverySteps[1]) /\ PlainStep(RecoverySteps[2])
  <2>1. /\ mustSyscallOK("fix") \in DemoSteps /\ mustSyscallOK("report") \in DemoSteps
        /\ mustSyscallOK("fix").do = "call" /\ mustSyscallOK("fix").name = "fix"
        /\ mustSyscallOK("report").do = "call" /\ mustSyscallOK("report").name = "report"
    BY <1>2, DemoStepTypes
  <2>2. PlainStep(mustSyscallOK("fix")) /\ PlainStep(mustSyscallOK("report"))
    BY <2>1 DEF PlainStep
  <2> QED BY <2>1, <2>2 DEF RecoverySteps
<1>6. /\ EndSteps \in Seq(DemoSteps) /\ Len(EndSteps) = 4
      /\ EndSteps[1] = Do("saveOpen") /\ EndSteps[2] = Do("saveWrite")
      /\ EndSteps[3] = Do("evidence") /\ EndSteps[4] = Do("result")
  <2>1. /\ Do("saveOpen") \in DemoSteps /\ Do("saveWrite") \in DemoSteps
        /\ Do("evidence") \in DemoSteps /\ Do("result") \in DemoSteps
    BY <1>2, DemoStepTypes
  <2> QED BY <2>1 DEF EndSteps
<1> HIDE DEF start
<1>7. /\ p1 \in Seq(DemoSteps) /\ Len(p1) = 8
      /\ p1[1] = Do("baseline")
      /\ \A i \in (1..8) \ {1} : PlainStep(p1[i])
  <2> DEFINE t == AgentSteps("planner")
  <2>1. t \in Seq(DemoSteps) /\ Len(t) = 5
    BY AgentParts
  <2>2. /\ p1 \in Seq(DemoSteps) /\ Len(p1) = Len(start) + Len(t)
        /\ \A i \in 1..Len(start) : p1[i] = start[i]
        /\ \A i \in 1..Len(t) : p1[Len(start) + i] = t[i]
    BY <1>3, <2>1, Appended
  <2>3. PlainStep(t[1]) /\ PlainStep(t[2]) /\ PlainStep(t[3]) /\ PlainStep(t[4]) /\ PlainStep(t[5])
    BY AgentParts
  <2> HIDE DEF t, p1
  <2>4. /\ Len(p1) = 8 /\ \A i \in 1..3 : p1[i] = start[i]
        /\ p1[4] = t[1] /\ p1[5] = t[2] /\ p1[6] = t[3] /\ p1[7] = t[4] /\ p1[8] = t[5]
    BY <1>3, <2>1, <2>2
  <2>5. ASSUME NEW i \in (1..8) \ {1} PROVE PlainStep(p1[i])
    <3>1. CASE i \in 1..3
      <4>1. i = 2 \/ i = 3
        BY <3>1
      <4> QED BY <1>3, <2>4, <3>1, <4>1
    <3>2. CASE i \in {4, 5, 6, 7, 8}
      BY <2>3, <2>4, <3>2
    <3> QED BY <3>1, <3>2
  <2>6. /\ p1[1] = Do("baseline")
    BY <1>3, <2>3, <2>4
  <2> QED BY <2>2, <2>4, <2>5, <2>6, Zenon
<1>8. /\ p2 \in Seq(DemoSteps) /\ Len(p2) = 11
      /\ p2[1] = Do("baseline")
      /\ \A i \in (1..11) \ {1} : PlainStep(p2[i])
  <2> DEFINE t == AgentSteps("coder")
  <2>1. t \in Seq(DemoSteps) /\ Len(t) = 3
    BY AgentParts
  <2>2. /\ p2 \in Seq(DemoSteps) /\ Len(p2) = Len(p1) + Len(t)
        /\ \A i \in 1..Len(p1) : p2[i] = p1[i]
        /\ \A i \in 1..Len(t) : p2[Len(p1) + i] = t[i]
    BY <1>7, <2>1, Appended
  <2>3. PlainStep(t[1]) /\ PlainStep(t[2]) /\ PlainStep(t[3])
    BY AgentParts
  <2> HIDE DEF t, p2, p1
  <2>4. /\ Len(p2) = 11 /\ \A i \in 1..8 : p2[i] = p1[i]
        /\ p2[9] = t[1] /\ p2[10] = t[2] /\ p2[11] = t[3]
    BY <1>7, <2>1, <2>2
  <2>5. ASSUME NEW i \in (1..11) \ {1} PROVE PlainStep(p2[i])
    <3>1. CASE i \in 1..8
      BY <1>7, <2>4, <2>5, <3>1
    <3>2. CASE i \in {9, 10, 11}
      BY <2>3, <2>4, <3>2
    <3> QED BY <3>1, <3>2
  <2>6. /\ p2[1] = Do("baseline")
    BY <1>7, <2>3, <2>4
  <2> QED BY <2>2, <2>4, <2>5, <2>6, Zenon
<1>9. /\ p3 \in Seq(DemoSteps) /\ Len(p3) = 14
      /\ p3[1] = Do("baseline") /\ p3[14] = Call("firstTest", {"ERROR"})
      /\ \A i \in (1..14) \ {1, 14} : PlainStep(p3[i])
  <2> DEFINE t == AgentSteps("tester")
  <2>1. t \in Seq(DemoSteps) /\ Len(t) = 3
    BY AgentParts
  <2>2. /\ p3 \in Seq(DemoSteps) /\ Len(p3) = Len(p2) + Len(t)
        /\ \A i \in 1..Len(p2) : p3[i] = p2[i]
        /\ \A i \in 1..Len(t) : p3[Len(p2) + i] = t[i]
    BY <1>8, <2>1, Appended
  <2>3. PlainStep(t[1]) /\ PlainStep(t[2]) /\ t[3] = Call("firstTest", {"ERROR"})
    BY AgentParts
  <2> HIDE DEF t, p3, p2
  <2>4. /\ Len(p3) = 14 /\ \A i \in 1..11 : p3[i] = p2[i]
        /\ p3[12] = t[1] /\ p3[13] = t[2] /\ p3[14] = t[3]
    BY <1>8, <2>1, <2>2
  <2>5. ASSUME NEW i \in (1..14) \ {1, 14} PROVE PlainStep(p3[i])
    <3>1. CASE i \in 1..11
      BY <1>8, <2>4, <2>5, <3>1
    <3>2. CASE i \in {12, 13}
      BY <2>3, <2>4, <3>2
    <3> QED BY <3>1, <3>2
  <2>6. /\ p3[1] = Do("baseline") /\ p3[14] = Call("firstTest", {"ERROR"})
    BY <1>8, <2>3, <2>4
  <2> QED BY <2>2, <2>4, <2>5, <2>6, Zenon
<1>10. /\ p4 \in Seq(DemoSteps) /\ Len(p4) = 17
      /\ p4[1] = Do("baseline") /\ p4[14] = Call("firstTest", {"ERROR"})
      /\ p4[17] = mustSyscallOK("publish")
      /\ \A i \in (1..17) \ {1, 14, 17} : PlainStep(p4[i])
  <2> DEFINE t == AgentSteps("reviewer")
  <2>1. t \in Seq(DemoSteps) /\ Len(t) = 3
    BY AgentParts
  <2>2. /\ p4 \in Seq(DemoSteps) /\ Len(p4) = Len(p3) + Len(t)
        /\ \A i \in 1..Len(p3) : p4[i] = p3[i]
        /\ \A i \in 1..Len(t) : p4[Len(p3) + i] = t[i]
    BY <1>9, <2>1, Appended
  <2>3. PlainStep(t[1]) /\ PlainStep(t[2]) /\ t[3] = mustSyscallOK("publish")
    BY AgentParts
  <2> HIDE DEF t, p4, p3
  <2>4. /\ Len(p4) = 17 /\ \A i \in 1..14 : p4[i] = p3[i]
        /\ p4[15] = t[1] /\ p4[16] = t[2] /\ p4[17] = t[3]
    BY <1>9, <2>1, <2>2
  <2>5. ASSUME NEW i \in (1..17) \ {1, 14, 17} PROVE PlainStep(p4[i])
    <3>1. CASE i \in 1..14
      BY <1>9, <2>4, <2>5, <3>1
    <3>2. CASE i \in {15, 16}
      BY <2>3, <2>4, <3>2
    <3> QED BY <3>1, <3>2
  <2>6. /\ p4[1] = Do("baseline") /\ p4[14] = Call("firstTest", {"ERROR"})
        /\ p4[17] = mustSyscallOK("publish")
    BY <1>9, <2>3, <2>4
  <2> QED BY <2>2, <2>4, <2>5, <2>6, Zenon
<1>11. /\ p5 \in Seq(DemoSteps) /\ Len(p5) = 21
      /\ p5[1] = Do("baseline") /\ p5[14] = Call("firstTest", {"ERROR"})
      /\ p5[17] = mustSyscallOK("publish") /\ p5[19] = mustSyscallOK("poll")
      /\ p5[21] = Call("secondTest", {"OK"})
      /\ \A i \in (1..21) \ {1, 14, 17, 19, 21} : PlainStep(p5[i])
  <2> DEFINE t == AgentSteps("fixer")
  <2>1. t \in Seq(DemoSteps) /\ Len(t) = 4
    BY AgentParts
  <2>2. /\ p5 \in Seq(DemoSteps) /\ Len(p5) = Len(p4) + Len(t)
        /\ \A i \in 1..Len(p4) : p5[i] = p4[i]
        /\ \A i \in 1..Len(t) : p5[Len(p4) + i] = t[i]
    BY <1>10, <2>1, Appended
  <2>3. PlainStep(t[1]) /\ t[2] = mustSyscallOK("poll") /\ PlainStep(t[3]) /\ t[4] = Call("secondTest", {"OK"})
    BY AgentParts
  <2> HIDE DEF t, p5, p4
  <2>4. /\ Len(p5) = 21 /\ \A i \in 1..17 : p5[i] = p4[i]
        /\ p5[18] = t[1] /\ p5[19] = t[2] /\ p5[20] = t[3] /\ p5[21] = t[4]
    BY <1>10, <2>1, <2>2
  <2>5. ASSUME NEW i \in (1..21) \ {1, 14, 17, 19, 21} PROVE PlainStep(p5[i])
    <3>1. CASE i \in 1..17
      BY <1>10, <2>4, <2>5, <3>1
    <3>2. CASE i \in {18, 20}
      BY <2>3, <2>4, <3>2
    <3> QED BY <3>1, <3>2
  <2>6. /\ p5[1] = Do("baseline") /\ p5[14] = Call("firstTest", {"ERROR"})
        /\ p5[17] = mustSyscallOK("publish") /\ p5[19] = mustSyscallOK("poll")
        /\ p5[21] = Call("secondTest", {"OK"})
    BY <1>10, <2>3, <2>4
  <2> QED BY <2>2, <2>4, <2>5, <2>6, Zenon
<1>12. /\ p6 \in Seq(DemoSteps) /\ Len(p6) = 23
      /\ p6[1] = Do("baseline") /\ p6[14] = Call("firstTest", {"ERROR"})
      /\ p6[17] = mustSyscallOK("publish") /\ p6[19] = mustSyscallOK("poll")
      /\ p6[21] = Call("secondTest", {"OK"})
      /\ \A i \in (1..23) \ {1, 14, 17, 19, 21} : PlainStep(p6[i])
  <2> DEFINE t == AgentSteps("reporter")
  <2>1. t \in Seq(DemoSteps) /\ Len(t) = 2
    BY AgentParts
  <2>2. /\ p6 \in Seq(DemoSteps) /\ Len(p6) = Len(p5) + Len(t)
        /\ \A i \in 1..Len(p5) : p6[i] = p5[i]
        /\ \A i \in 1..Len(t) : p6[Len(p5) + i] = t[i]
    BY <1>11, <2>1, Appended
  <2>3. PlainStep(t[1]) /\ PlainStep(t[2])
    BY AgentParts
  <2> HIDE DEF t, p6, p5
  <2>4. /\ Len(p6) = 23 /\ \A i \in 1..21 : p6[i] = p5[i]
        /\ p6[22] = t[1] /\ p6[23] = t[2]
    BY <1>11, <2>1, <2>2
  <2>5. ASSUME NEW i \in (1..23) \ {1, 14, 17, 19, 21} PROVE PlainStep(p6[i])
    <3>1. CASE i \in 1..21
      BY <1>11, <2>4, <2>5, <3>1
    <3>2. CASE i \in {22, 23}
      BY <2>3, <2>4, <3>2
    <3> QED BY <3>1, <3>2
  <2>6. /\ p6[1] = Do("baseline") /\ p6[14] = Call("firstTest", {"ERROR"})
        /\ p6[17] = mustSyscallOK("publish") /\ p6[19] = mustSyscallOK("poll")
        /\ p6[21] = Call("secondTest", {"OK"})
    BY <1>11, <2>3, <2>4
  <2> QED BY <2>2, <2>4, <2>5, <2>6, Zenon
<1>13. /\ p7 \in Seq(DemoSteps) /\ Len(p7) = 24
      /\ p7[1] = Do("baseline") /\ p7[14] = Call("firstTest", {"ERROR"})
      /\ p7[17] = mustSyscallOK("publish") /\ p7[19] = mustSyscallOK("poll")
      /\ p7[21] = Call("secondTest", {"OK"}) /\ p7[24] = Call("timeout", {"TIMEOUT"})
      /\ \A i \in (1..24) \ {1, 14, 17, 19, 21, 24} : PlainStep(p7[i])
  <2> DEFINE t == FaultSteps
  <2>1. t \in Seq(DemoSteps) /\ Len(t) = 1
    BY <1>4
  <2>2. /\ p7 \in Seq(DemoSteps) /\ Len(p7) = Len(p6) + Len(t)
        /\ \A i \in 1..Len(p6) : p7[i] = p6[i]
        /\ \A i \in 1..Len(t) : p7[Len(p6) + i] = t[i]
    BY <1>12, <2>1, Appended
  <2>3. t[1] = Call("timeout", {"TIMEOUT"})
    BY <1>4
  <2> HIDE DEF t, p7, p6
  <2>4. /\ Len(p7) = 24 /\ \A i \in 1..23 : p7[i] = p6[i]
        /\ p7[24] = t[1]
    BY <1>12, <2>1, <2>2
  <2>5. ASSUME NEW i \in (1..24) \ {1, 14, 17, 19, 21, 24} PROVE PlainStep(p7[i])
    <3>1. i \in 1..23
      OBVIOUS
    <3> QED BY <1>12, <2>4, <2>5, <3>1
  <2>6. /\ p7[1] = Do("baseline") /\ p7[14] = Call("firstTest", {"ERROR"})
        /\ p7[17] = mustSyscallOK("publish") /\ p7[19] = mustSyscallOK("poll")
        /\ p7[21] = Call("secondTest", {"OK"}) /\ p7[24] = Call("timeout", {"TIMEOUT"})
    BY <1>12, <2>3, <2>4
  <2> QED BY <2>2, <2>4, <2>5, <2>6, Zenon
<1>14. /\ p8 \in Seq(DemoSteps) /\ Len(p8) = 26
      /\ p8[1] = Do("baseline") /\ p8[14] = Call("firstTest", {"ERROR"})
      /\ p8[17] = mustSyscallOK("publish") /\ p8[19] = mustSyscallOK("poll")
      /\ p8[21] = Call("secondTest", {"OK"}) /\ p8[24] = Call("timeout", {"TIMEOUT"})
      /\ \A i \in (1..26) \ {1, 14, 17, 19, 21, 24} : PlainStep(p8[i])
  <2> DEFINE t == RecoverySteps
  <2>1. t \in Seq(DemoSteps) /\ Len(t) = 2
    BY <1>5
  <2>2. /\ p8 \in Seq(DemoSteps) /\ Len(p8) = Len(p7) + Len(t)
        /\ \A i \in 1..Len(p7) : p8[i] = p7[i]
        /\ \A i \in 1..Len(t) : p8[Len(p7) + i] = t[i]
    BY <1>13, <2>1, Appended
  <2>3. PlainStep(t[1]) /\ PlainStep(t[2])
    BY <1>5
  <2> HIDE DEF t, p8, p7
  <2>4. /\ Len(p8) = 26 /\ \A i \in 1..24 : p8[i] = p7[i]
        /\ p8[25] = t[1] /\ p8[26] = t[2]
    BY <1>13, <2>1, <2>2
  <2>5. ASSUME NEW i \in (1..26) \ {1, 14, 17, 19, 21, 24} PROVE PlainStep(p8[i])
    <3>1. CASE i \in 1..24
      BY <1>13, <2>4, <2>5, <3>1
    <3>2. CASE i \in {25, 26}
      BY <2>3, <2>4, <3>2
    <3> QED BY <3>1, <3>2
  <2>6. /\ p8[1] = Do("baseline") /\ p8[14] = Call("firstTest", {"ERROR"})
        /\ p8[17] = mustSyscallOK("publish") /\ p8[19] = mustSyscallOK("poll")
        /\ p8[21] = Call("secondTest", {"OK"}) /\ p8[24] = Call("timeout", {"TIMEOUT"})
    BY <1>13, <2>3, <2>4
  <2> QED BY <2>2, <2>4, <2>5, <2>6, Zenon
<1>15. /\ p9 \in Seq(DemoSteps) /\ Len(p9) = 30
      /\ p9[1] = Do("baseline") /\ p9[14] = Call("firstTest", {"ERROR"})
      /\ p9[17] = mustSyscallOK("publish") /\ p9[19] = mustSyscallOK("poll")
      /\ p9[21] = Call("secondTest", {"OK"}) /\ p9[24] = Call("timeout", {"TIMEOUT"})
      /\ p9[27] = Do("saveOpen") /\ p9[28] = Do("saveWrite")
      /\ p9[29] = Do("evidence") /\ p9[30] = Do("result")
      /\ \A i \in (1..30) \ {1, 14, 17, 19, 21, 24, 27, 28, 29, 30} : PlainStep(p9[i])
  <2> DEFINE t == EndSteps
  <2>1. t \in Seq(DemoSteps) /\ Len(t) = 4
    BY <1>6
  <2>2. /\ p9 \in Seq(DemoSteps) /\ Len(p9) = Len(p8) + Len(t)
        /\ \A i \in 1..Len(p8) : p9[i] = p8[i]
        /\ \A i \in 1..Len(t) : p9[Len(p8) + i] = t[i]
    BY <1>14, <2>1, Appended
  <2>3. t[1] = Do("saveOpen") /\ t[2] = Do("saveWrite") /\ t[3] = Do("evidence") /\ t[4] = Do("result")
    BY <1>6
  <2> HIDE DEF t, p9, p8
  <2>4. /\ Len(p9) = 30 /\ \A i \in 1..26 : p9[i] = p8[i]
        /\ p9[27] = t[1] /\ p9[28] = t[2] /\ p9[29] = t[3] /\ p9[30] = t[4]
    BY <1>14, <2>1, <2>2
  <2>5. ASSUME NEW i \in (1..30) \ {1, 14, 17, 19, 21, 24, 27, 28, 29, 30} PROVE PlainStep(p9[i])
    <3>1. i \in 1..26
      OBVIOUS
    <3> QED BY <1>14, <2>4, <2>5, <3>1
  <2>6. /\ p9[1] = Do("baseline") /\ p9[14] = Call("firstTest", {"ERROR"})
        /\ p9[17] = mustSyscallOK("publish") /\ p9[19] = mustSyscallOK("poll")
        /\ p9[21] = Call("secondTest", {"OK"}) /\ p9[24] = Call("timeout", {"TIMEOUT"})
        /\ p9[27] = Do("saveOpen") /\ p9[28] = Do("saveWrite")
        /\ p9[29] = Do("evidence") /\ p9[30] = Do("result")
    BY <1>14, <2>3, <2>4
  <2> QED BY <2>2, <2>4, <2>5, <2>6, Zenon
<1> HIDE DEF p9
<1> QED BY <1>1, <1>15 DEF Landmarks

-----------------------------------------------------------------------------
Runs ==
    [phase : {"idle", "running", "done", "failed"}, todo : Seq(DemoSteps), before : Counts,
     own : Counts, polled : SUBSET Demos, first : {"", "failed"}, second : {"", "passed"},
     checkpoint : BOOLEAN]

RealTypeOK ==
    /\ req \in [Demos -> Runs]
    /\ count \in Counts
    /\ board \subseteq Demos
    /\ files \in [Demos -> {"none", "torn", "whole"}]
    /\ result \in [Demos -> [counts : [Logs -> Int], checkpoint : BOOLEAN,
                             first : {"", "failed"}, second : {"", "passed"}]]

\* The position of the step a request does next.
Position(r) == 31 - Len(r.todo)

OnProgram(r) ==
    /\ r.phase = "running" => r.todo # <<>>
    /\ r.phase # "running" => r.todo = <<>>
    /\ Len(r.todo) <= 30
    /\ \A i \in 1..Len(r.todo) : r.todo[i] = runSoftwareRealDemo[Position(r) - 1 + i]

\* What the steps before that position have settled.
Settled(d, r) ==
    /\ Position(r) = 1 => r.own = NoCounts
    /\ Position(r) > 1 => \A f \in Logs : r.before[f] + r.own[f] <= count[f]
    /\ Position(r) > 14 => r.first = "failed"
    /\ Position(r) > 17 => d \in board
    /\ Position(r) > 19 => d \in r.polled
    /\ Position(r) > 21 => r.second = "passed"
    /\ r.own["faults"] = IF Position(r) > 24 THEN 1 ELSE 0
    /\ r.checkpoint => Position(r) > 29 /\ files[d] = "whole"

Reported(d) ==
    req[d].phase = "done" =>
      /\ result[d].first = "failed" /\ result[d].second = "passed"
      /\ \A f \in Logs : result[d].counts[f] >= req[d].own[f]
      /\ result[d].checkpoint = req[d].checkpoint

RequestOK(d) ==
    /\ OnProgram(req[d])
    /\ req[d].phase \in {"running", "done"} => Settled(d, req[d])
    /\ Reported(d)

RealInv == RealTypeOK /\ \A d \in Demos : RequestOK(d)

\* What stands at which position.
LEMMA StepAt ==
    ASSUME NEW n \in 1..30
    PROVE  LET s == runSoftwareRealDemo[n]
           IN  /\ s \in DemoSteps
               /\ s.do = "baseline" <=> n = 1
               /\ s.do = "saveOpen" <=> n = 27
               /\ s.do = "saveWrite" <=> n = 28
               /\ s.do = "evidence" <=> n = 29
               /\ s.do = "result" <=> n = 30
               /\ n \in {14, 17, 19, 21, 24} => s.do = "call"
               /\ s.do = "call" => /\ s.name = "firstTest" <=> n = 14
                                   /\ s.name = "publish" <=> n = 17
                                   /\ s.name = "poll" <=> n = 19
                                   /\ s.name = "secondTest" <=> n = 21
                                   /\ s.name = "timeout" <=> n = 24
                                   /\ n = 17 => s.want = {"OK"}
<1> DEFINE p == runSoftwareRealDemo
           s == p[n]
<1>1. Landmarks(p)
  BY ProgramLandmarks
<1> HIDE DEF p
<1>2. s \in DemoSteps
  BY <1>1, ElementOfSeq DEF Landmarks
<1>3. /\ \A d \in DoNames : Do(d).do = d
      /\ \A c \in CallNames : mustSyscallOK(c).do = "call" /\ mustSyscallOK(c).name = c
                              /\ mustSyscallOK(c).want = {"OK"}
      /\ \A c \in CallNames : \A w \in SUBSET AnyStatus : Call(c, w).do = "call" /\ Call(c, w).name = c
  BY DemoStepTypes
<1>4. /\ "baseline" \in DoNames /\ "saveOpen" \in DoNames /\ "saveWrite" \in DoNames
      /\ "evidence" \in DoNames /\ "result" \in DoNames
      /\ "firstTest" \in CallNames /\ "publish" \in CallNames /\ "poll" \in CallNames
      /\ "secondTest" \in CallNames /\ "timeout" \in CallNames
      /\ {"ERROR"} \in SUBSET AnyStatus /\ {"OK"} \in SUBSET AnyStatus /\ {"TIMEOUT"} \in SUBSET AnyStatus
  BY DEF DoNames, CallNames, AnyStatus
<1>5. /\ p[1].do = "baseline" /\ p[27].do = "saveOpen" /\ p[28].do = "saveWrite"
      /\ p[29].do = "evidence" /\ p[30].do = "result"
  BY <1>1, <1>3, <1>4 DEF Landmarks
<1>6. /\ p[14].do = "call" /\ p[14].name = "firstTest"
      /\ p[21].do = "call" /\ p[21].name = "secondTest"
      /\ p[24].do = "call" /\ p[24].name = "timeout"
  BY <1>1, <1>3, <1>4 DEF Landmarks
<1>7. /\ p[17].do = "call" /\ p[17].name = "publish" /\ p[17].want = {"OK"}
      /\ p[19].do = "call" /\ p[19].name = "poll"
  BY <1>1, <1>3, <1>4 DEF Landmarks
<1>8. n \notin {1, 14, 17, 19, 21, 24, 27, 28, 29, 30} => PlainStep(s)
  BY <1>1 DEF Landmarks
<1> HIDE DEF s
<1>9. PlainStep(s) =>
        /\ s.do \notin {"baseline", "saveOpen", "saveWrite", "evidence", "result"}
        /\ s.do = "call" => s.name \notin {"firstTest", "publish", "poll", "secondTest", "timeout"}
  BY DEF PlainStep
<1>10. CASE n \in {1, 27, 28, 29, 30}
  BY <1>2, <1>5, <1>10 DEF s, p
<1>11. CASE n \in {14, 17, 19, 21, 24}
  BY <1>2, <1>6, <1>7, <1>11 DEF s, p
<1>12. CASE n \notin {1, 14, 17, 19, 21, 24, 27, 28, 29, 30}
  BY <1>2, <1>8, <1>9, <1>12 DEF s, p
<1> QED BY <1>10, <1>11, <1>12

\* The position in the program of what is left of it.
LEMMA PositionFacts ==
    ASSUME NEW r, r.todo \in Seq(DemoSteps), Len(r.todo) <= 30
    PROVE  /\ Len(r.todo) \in 0..30 /\ Position(r) \in 1..31
           /\ Len(r.todo) = 31 - Position(r)
           /\ r.todo # <<>> <=> Position(r) \in 1..30
<1>1. PICK n \in Nat : n = Len(r.todo)
  OBVIOUS
<1>5. n \in 0..30
  <2>1. n <= 30
    BY <1>1, Zenon
  <2> QED BY <2>1
<1>2. n \in 0..30 /\ Position(r) = 31 - n
  BY <1>1, <1>5, Zenon DEF Position
<1>3. 31 - n \in 1..31 /\ n = 31 - (31 - n) /\ (31 - n \in 1..30 <=> n # 0)
  BY <1>2
<1>4. r.todo # <<>> <=> n # 0
  BY <1>1, EmptySeq
<1> QED BY <1>1, <1>2, <1>3, <1>4

\* What is left after a step is one position further on.
LEMMA NextPosition ==
    ASSUME NEW r, r.todo \in Seq(DemoSteps), Len(r.todo) <= 30, r.todo # <<>>,
           \A i \in 1..Len(r.todo) : r.todo[i] = runSoftwareRealDemo[Position(r) - 1 + i],
           NEW q, q.todo = Tail(r.todo)
    PROVE  /\ Head(r.todo) = runSoftwareRealDemo[Position(r)]
           /\ Position(q) = Position(r) + 1
           /\ q.todo \in Seq(DemoSteps) /\ Len(q.todo) <= 30
           /\ q.todo = <<>> <=> Position(r) = 30
           /\ Len(r.todo) = 1 <=> Position(r) = 30
           /\ \A i \in 1..Len(q.todo) : q.todo[i] = runSoftwareRealDemo[Position(q) - 1 + i]
<1>1. PICK n \in 1..30 : n = Position(r)
  BY PositionFacts
<1>2. Len(r.todo) = 31 - n
  BY <1>1, PositionFacts
<1>3. /\ q.todo \in Seq(DemoSteps) /\ Len(q.todo) = Len(r.todo) - 1
      /\ \A i \in 1..Len(q.todo) : q.todo[i] = r.todo[i + 1]
  BY HeadTailProperties
<1>4. Len(q.todo) = 30 - n
  BY <1>2, <1>3
<1>5. Position(q) = n + 1
  <2>1. Position(q) = 31 - Len(q.todo)
    BY DEF Position
  <2>2. 31 - (30 - n) = n + 1
    OBVIOUS
  <2> QED BY <1>4, <2>1, <2>2
<1>6. Head(r.todo) = r.todo[1] /\ 1 \in 1..Len(r.todo)
  BY <1>2
<1>7. r.todo[1] = runSoftwareRealDemo[n]
  <2>1. n - 1 + 1 = n
    OBVIOUS
  <2> QED BY <1>1, <1>6, <2>1
<1>8. ASSUME NEW i \in 1..Len(q.todo) PROVE q.todo[i] = runSoftwareRealDemo[Position(q) - 1 + i]
  <2>1. i + 1 \in 1..Len(r.todo)
    BY <1>2, <1>4
  <2>2. r.todo[i + 1] = runSoftwareRealDemo[n - 1 + (i + 1)]
    BY <1>1, <2>1
  <2>3. n - 1 + (i + 1) = (n + 1) - 1 + i
    OBVIOUS
  <2> QED BY <1>3, <1>5, <2>2, <2>3
<1>9. /\ Len(q.todo) <= 30
      /\ Len(q.todo) = 0 <=> n = 30
      /\ Len(r.todo) = 1 <=> n = 30
  <2>1. 30 - n <= 30 /\ (30 - n = 0 <=> n = 30) /\ (31 - n = 1 <=> n = 30)
    OBVIOUS
  <2> QED BY <1>2, <1>4, <2>1, Zenon
<1>10. q.todo = <<>> <=> Len(q.todo) = 0
  BY <1>3, EmptySeq
<1> QED BY <1>1, <1>3, <1>5, <1>6, <1>7, <1>8, <1>9, <1>10

\* A request that has a step to do is running, at that step of the program.
LEMMA AtStep ==
    ASSUME RealInv, NEW d \in Demos, req[d].todo # <<>>
    PROVE  /\ req[d].phase = "running"
           /\ Position(req[d]) \in 1..30
           /\ Head(req[d].todo) = runSoftwareRealDemo[Position(req[d])]
           /\ Settled(d, req[d])
<1>1. PICK r : r = req[d]
  OBVIOUS
<1>2. r.todo \in Seq(DemoSteps) /\ r.phase \in {"idle", "running", "done", "failed"}
  BY <1>1 DEF RealInv, RealTypeOK, Runs
<1>3. OnProgram(r) /\ (r.phase \in {"running", "done"} => Settled(d, r))
  BY <1>1 DEF RealInv, RequestOK
<1>4. r.phase = "running"
  BY <1>1, <1>2, <1>3 DEF OnProgram
<1>5. PICK q : q = [todo |-> Tail(r.todo)]
  OBVIOUS
<1>6. q.todo = Tail(r.todo)
  BY <1>5
<1>7. Position(r) \in 1..30 /\ Head(r.todo) = runSoftwareRealDemo[Position(r)]
  BY <1>1, <1>2, <1>3, <1>6, PositionFacts, NextPosition DEF OnProgram
<1> QED BY <1>1, <1>3, <1>4, <1>7

\* A request that goes on stands at the next step, or is done after the last.
LEMMA GoonStands ==
    ASSUME RealInv, NEW d \in Demos, req[d].todo # <<>>, NEW r \in Runs, r.todo = req[d].todo,
           r.phase = req[d].phase, Goon(d, r)
    PROVE  LET q == req'[d]
           IN  /\ req' \in [Demos -> Runs]
               /\ \A e \in Demos : e # d => req'[e] = req[e]
               /\ OnProgram(q)
               /\ Position(q) = Position(req[d]) + 1
               /\ q.phase = IF Position(req[d]) = 30 THEN "done" ELSE "running"
               /\ q.before = r.before /\ q.own = r.own /\ q.polled = r.polled
               /\ q.first = r.first /\ q.second = r.second /\ q.checkpoint = r.checkpoint
<1> DEFINE q == [r EXCEPT !.todo = Tail(@), !.phase = IF Len(r.todo) = 1 THEN "done" ELSE @]
<1>1. r.todo \in Seq(DemoSteps) /\ r.todo # <<>>
  BY DEF Runs
<1>2. req \in [Demos -> Runs] /\ req' = [req EXCEPT ![d] = q]
  BY DEF RealInv, RealTypeOK, Goon
<1>3. /\ Tail(r.todo) \in Seq(DemoSteps) /\ Len(Tail(r.todo)) = Len(r.todo) - 1
      /\ \A i \in 1..Len(Tail(r.todo)) : Tail(r.todo)[i] = r.todo[i + 1]
      /\ Len(r.todo) \in Nat
  BY <1>1, HeadTailProperties
<1>4. /\ q.todo = Tail(r.todo) /\ q.phase = IF Len(r.todo) = 1 THEN "done" ELSE r.phase
      /\ q.before = r.before /\ q.own = r.own /\ q.polled = r.polled
      /\ q.first = r.first /\ q.second = r.second /\ q.checkpoint = r.checkpoint
  BY DEF Runs
<1>5. q \in Runs
  BY <1>3 DEF Runs
<1> HIDE DEF q
<1>6. r.phase = "running" /\ Position(req[d]) \in 1..30 /\ Position(r) = Position(req[d])
  BY AtStep DEF Position
<1>7. /\ Len(r.todo) <= 30
      /\ \A i \in 1..Len(r.todo) : r.todo[i] = runSoftwareRealDemo[Position(r) - 1 + i]
  BY <1>6 DEF RealInv, RequestOK, OnProgram
<1>8. /\ Position(q) = Position(r) + 1
      /\ q.todo = <<>> <=> Position(r) = 30
      /\ Len(r.todo) = 1 <=> Position(r) = 30
      /\ Len(q.todo) <= 30
      /\ \A i \in 1..Len(q.todo) : q.todo[i] = runSoftwareRealDemo[Position(q) - 1 + i]
  <2>1. q.todo = Tail(r.todo)
    BY <1>4
  <2> QED BY <1>1, <1>7, <2>1, NextPosition, ZenonT(60)
<1>9. q.phase = (IF Position(r) = 30 THEN "done" ELSE "running") /\ OnProgram(q)
  BY <1>4, <1>6, <1>8 DEF OnProgram
<1>10. req'[d] = q /\ req' \in [Demos -> Runs] /\ \A e \in Demos : e # d => req'[e] = req[e]
  BY <1>2, <1>5
<1> QED BY <1>4, <1>6, <1>8, <1>9, <1>10

\* A request is left as it was by the steps of others: the logs and the board
\* only grow, and its file and its result are its own.
LEMMA OthersKept ==
    ASSUME RealInv, NEW d \in Demos, req'[d] = req[d], \A f \in Logs : count[f] <= count'[f],
           count' \in Counts, board \subseteq board', files'[d] = files[d], result'[d] = result[d]
    PROVE  RequestOK(d)'
<1>1. RequestOK(d) /\ count \in Counts /\ req[d] \in Runs
  BY DEF RealInv, RealTypeOK
<1>2. OnProgram(req[d])'
  BY <1>1 DEF RequestOK, OnProgram, Position
<1>3. Reported(d)'
  BY <1>1 DEF RequestOK, Reported
<1>4. ASSUME Settled(d, req[d]) PROVE Settled(d, req[d])'
  <2>1. PICK r : r = req[d]
    OBVIOUS
  <2>2. r \in Runs /\ req'[d] = r
    BY <1>1, <2>1
  <2>3. r.before \in Counts /\ r.own \in Counts
    BY <2>2 DEF Runs
  <2>4. ASSUME NEW f \in Logs, r.before[f] + r.own[f] <= count[f] PROVE r.before[f] + r.own[f] <= count'[f]
    BY <1>1, <2>3, <2>4 DEF Counts
  <2> QED BY <1>4, <2>1, <2>2, <2>4 DEF Settled, Position
<1> QED BY <1>1, <1>2, <1>3, <1>4 DEF RequestOK

\* A request that fails reports nothing.
LEMMA FailKept ==
    ASSUME RealInv, NEW d \in Demos, Fail(d)
    PROVE  /\ req' \in [Demos -> Runs]
           /\ \A e \in Demos : e # d => req'[e] = req[e]
           /\ RequestOK(d)'
<1> DEFINE q == [NewRequest EXCEPT !.phase = "failed"]
<1>1. /\ q.phase = "failed" /\ q.todo = <<>>
  BY DEF NewRequest
<1>2. NoCounts \in Counts
  BY DEF NoCounts, Counts, Logs
<1>3. q \in Runs
  <2>1. <<>> \in Seq(DemoSteps) /\ {} \in SUBSET Demos
    OBVIOUS
  <2>2. NewRequest \in Runs
    BY <1>2, <2>1 DEF NewRequest, Runs
  <2>3. ASSUME NEW r \in Runs PROVE [r EXCEPT !.phase = "failed"] \in Runs
    BY DEF Runs
  <2> QED BY <2>2, <2>3
<1> HIDE DEF q
<1>4. req' = [req EXCEPT ![d] = q] /\ req \in [Demos -> Runs]
  BY DEF Fail, q, RealInv, RealTypeOK
<1>5. req'[d] = q /\ req' \in [Demos -> Runs] /\ \A e \in Demos : e # d => req'[e] = req[e]
  BY <1>3, <1>4
<1>6. Len(q.todo) = 0
  BY <1>1
<1>7. OnProgram(q)
  BY <1>1, <1>6 DEF OnProgram
<1> QED BY <1>1, <1>5, <1>7 DEF RequestOK, Reported, OnProgram, Position

\* The landmarks before a position and before the next one.
LEMMA NextLandmark ==
    ASSUME NEW n \in 1..30
    PROVE  /\ n + 1 \in 2..31 /\ n + 1 # 1 /\ n + 1 > 1
           /\ (n + 1 > 14 => n = 14 \/ n > 14) /\ (n + 1 > 17 => n = 17 \/ n > 17)
           /\ (n + 1 > 19 => n = 19 \/ n > 19) /\ (n + 1 > 21 => n = 21 \/ n > 21)
           /\ (n + 1 > 24 <=> n = 24 \/ n > 24) /\ (n = 29 \/ n > 29 => n + 1 > 29)
           /\ ~(n = 24 /\ n > 24) /\ (n > 29 => n = 30)
           /\ (n = 30 => n + 1 > 14 /\ n + 1 > 21) /\ (n = 19 => n > 17)
<1> QED OBVIOUS

\* A step of a request that goes on.
LEMMA GoonKept ==
    ASSUME RealInv, NEW d \in Demos, req[d].todo # <<>>, NEW r \in Runs, r.todo = req[d].todo,
           r.phase = req[d].phase, Goon(d, r), NEW n \in 1..30, n = Position(req[d]),
           \A f \in Logs : r.before[f] + r.own[f] <= count'[f], board \subseteq board',
           n = 17 => d \in board',
           r.first = IF n = 14 THEN "failed" ELSE req[d].first,
           r.second = IF n = 21 THEN "passed" ELSE req[d].second,
           r.polled = IF n = 19 THEN board ELSE req[d].polled,
           r.own["faults"] = IF n = 24 THEN req[d].own["faults"] + 1 ELSE req[d].own["faults"],
           r.checkpoint => (n = 29 \/ req[d].checkpoint) /\ files'[d] = "whole",
           n = 30 => /\ result'[d].first = r.first /\ result'[d].second = r.second
                     /\ \A f \in Logs : result'[d].counts[f] >= r.own[f]
                     /\ result'[d].checkpoint = r.checkpoint
    PROVE  RequestOK(d)'
<1>1. PICK q : q = req'[d]
  OBVIOUS
<1>2. /\ OnProgram(q) /\ Position(q) = n + 1
      /\ q.phase = IF n = 30 THEN "done" ELSE "running"
      /\ q.before = r.before /\ q.own = r.own /\ q.polled = r.polled
      /\ q.first = r.first /\ q.second = r.second /\ q.checkpoint = r.checkpoint
  BY <1>1, GoonStands, Zenon
<1>3. /\ n > 14 => req[d].first = "failed"
      /\ n > 17 => d \in board
      /\ n > 19 => d \in req[d].polled
      /\ n > 21 => req[d].second = "passed"
      /\ req[d].own["faults"] = IF n > 24 THEN 1 ELSE 0
      /\ req[d].checkpoint => n > 29
  <2>1. Settled(d, req[d])
    BY AtStep, Zenon
  <2> QED BY <2>1, Zenon DEF Settled
<1>4. /\ n + 1 > 14 => r.first = "failed"
      /\ n + 1 > 17 => d \in board'
      /\ n + 1 > 19 => d \in r.polled
      /\ n + 1 > 21 => r.second = "passed"
      /\ r.checkpoint => n + 1 > 29 /\ files'[d] = "whole"
  <2>1. n + 1 > 14 => r.first = "failed"
    BY <1>3, NextLandmark, Zenon
  <2>2. n + 1 > 17 => d \in board'
    BY <1>3, NextLandmark, Zenon
  <2>3. n + 1 > 19 => d \in r.polled
    BY <1>3, NextLandmark, Zenon
  <2>4. n + 1 > 21 => r.second = "passed"
    BY <1>3, NextLandmark, Zenon
  <2>5. r.checkpoint => n + 1 > 29 /\ files'[d] = "whole"
    BY <1>3, NextLandmark, Zenon
  <2> QED BY <2>1, <2>2, <2>3, <2>4, <2>5
<1>5. r.own["faults"] = IF n + 1 > 24 THEN 1 ELSE 0
  <2>1. 0 + 1 = 1
    OBVIOUS
  <2>2. CASE n = 24
    <3>1. req[d].own["faults"] = 0 /\ n + 1 > 24
      BY <1>3, <2>2, NextLandmark, Zenon
    <3> QED BY <2>1, <2>2, <3>1, Zenon
  <2>3. CASE n # 24
    <3>1. r.own["faults"] = req[d].own["faults"] /\ (n + 1 > 24 <=> n > 24)
      BY <2>3, NextLandmark, Zenon
    <3> QED BY <1>3, <3>1, Zenon
  <2> QED BY <2>2, <2>3
<1>6. Settled(d, req[d])'
  <2>1. /\ Position(q) = 1 => q.own = NoCounts
        /\ Position(q) > 1 => \A f \in Logs : q.before[f] + q.own[f] <= count'[f]
        /\ Position(q) > 14 => q.first = "failed"
        /\ Position(q) > 17 => d \in board'
        /\ Position(q) > 19 => d \in q.polled
        /\ Position(q) > 21 => q.second = "passed"
        /\ q.own["faults"] = IF Position(q) > 24 THEN 1 ELSE 0
        /\ q.checkpoint => Position(q) > 29 /\ files'[d] = "whole"
    <3>1. n + 1 # 1
      BY NextLandmark, Zenon
    <3>2. Position(q) # 1
      BY <1>2, <3>1, Zenon
    <3>3. /\ Position(q) > 14 => q.first = "failed"
          /\ Position(q) > 17 => d \in board'
          /\ Position(q) > 19 => d \in q.polled
          /\ Position(q) > 21 => q.second = "passed"
          /\ q.checkpoint => Position(q) > 29 /\ files'[d] = "whole"
      BY <1>2, <1>4, Zenon
    <3>4. q.own["faults"] = IF Position(q) > 24 THEN 1 ELSE 0
      BY <1>2, <1>5, Zenon
    <3>5. \A f \in Logs : q.before[f] + q.own[f] <= count'[f]
      BY <1>2, Zenon
    <3> QED BY <3>2, <3>3, <3>4, <3>5, Zenon
  <2> QED BY <1>1, <2>1, Zenon DEF Settled, Position
<1>7. OnProgram(req[d])'
  BY <1>1, <1>2 DEF OnProgram, Position
<1>8. Reported(d)'
  <2>1. q.phase = "done" => n = 30
    BY <1>2
  <2>2. n = 30 => r.first = "failed" /\ r.second = "passed"
    BY <1>4, NextLandmark, Zenon
  <2> QED BY <1>1, <1>2, <2>1, <2>2, Zenon DEF Reported
<1> QED BY <1>6, <1>7, <1>8 DEF RequestOK

\* A step of one request leaves the others as they were.
LEMMA StepKept ==
    ASSUME RealInv, NEW d \in Demos, RequestOK(d)', req' \in [Demos -> Runs],
           \A e \in Demos : e # d => req'[e] = req[e] /\ files'[e] = files[e] /\ result'[e] = result[e],
           count' \in Counts, \A f \in Logs : count[f] <= count'[f],
           board \subseteq board', board' \subseteq Demos,
           files' \in [Demos -> {"none", "torn", "whole"}],
           result' \in [Demos -> [counts : [Logs -> Int], checkpoint : BOOLEAN,
                                  first : {"", "failed"}, second : {"", "passed"}]]
    PROVE  RealInv'
<1>1. RealTypeOK'
  BY DEF RealTypeOK
<1>2. ASSUME NEW e \in Demos, e # d PROVE RequestOK(e)'
  BY <1>2, OthersKept
<1> QED BY <1>1, <1>2 DEF RealInv

\* Logs that did not change did not shrink.
LEMMA SameLogs ==
    ASSUME RealInv, count' = count
    PROVE  count' \in Counts /\ \A f \in Logs : count[f] <= count'[f]
<1>1. count \in Counts
  BY DEF RealInv, RealTypeOK
<1>2. ASSUME NEW f \in Logs PROVE count[f] <= count[f]
  BY <1>1 DEF Counts
<1> QED BY <1>1, <1>2

\* A request at a step of the program: where it is and what it has counted.
LEMMA Standing ==
    ASSUME RealInv, NEW d \in Demos, NEW step, At(d, step)
    PROVE  /\ req[d].todo # <<>> /\ req[d] \in Runs /\ Position(req[d]) \in 1..30
           /\ Head(req[d].todo) = runSoftwareRealDemo[Position(req[d])]
           /\ runSoftwareRealDemo[Position(req[d])].do = step
           /\ Settled(d, req[d])
           /\ Position(req[d]) # 1 => \A f \in Logs : req[d].before[f] + req[d].own[f] <= count[f]
<1>1. req[d].todo # <<>> /\ Head(req[d].todo).do = step
  BY DEF At
<1>2. req[d] \in Runs
  BY DEF RealInv, RealTypeOK
<1>3. /\ Position(req[d]) \in 1..30
      /\ Head(req[d].todo) = runSoftwareRealDemo[Position(req[d])]
      /\ Settled(d, req[d])
  BY <1>1, AtStep
<1>4. PICK n \in 1..30 : n = Position(req[d])
  BY <1>3
<1>5. n # 1 => n > 1
  OBVIOUS
<1>6. Position(req[d]) # 1 => \A f \in Logs : req[d].before[f] + req[d].own[f] <= count[f]
  BY <1>3, <1>4, <1>5, Zenon DEF Settled
<1> QED BY <1>1, <1>2, <1>3, <1>6, Zenon

\* A step that is no landmark and touches no shared state.
LEMMA QuietStep ==
    ASSUME RealInv, NEW d \in Demos, NEW step \in {"seed", "wait"}, At(d, step), Goon(d, req[d]),
           UNCHANGED <<count, board, files, result>>
    PROVE  RealInv'
<1>1. /\ req[d].todo # <<>> /\ req[d] \in Runs /\ Position(req[d]) \in 1..30
      /\ runSoftwareRealDemo[Position(req[d])].do = step
      /\ Settled(d, req[d])
      /\ Position(req[d]) # 1 => \A f \in Logs : req[d].before[f] + req[d].own[f] <= count[f]
  BY Standing
<1>2. PICK n \in 1..30 : n = Position(req[d])
  BY <1>1
<1>3. n \notin {1, 14, 17, 19, 21, 24, 29, 30}
  BY <1>1, <1>2, StepAt
<1>4. req[d].checkpoint => n > 29 /\ files[d] = "whole"
  BY <1>1, <1>2, Zenon DEF Settled
<1>5. ~(n > 29)
  BY <1>3, NextLandmark, Zenon
<1>6. \A f \in Logs : req[d].before[f] + req[d].own[f] <= count'[f]
  BY <1>1, <1>2, <1>3, Zenon
<1>7. RequestOK(d)'
  BY <1>1, <1>2, <1>3, <1>4, <1>5, <1>6, GoonKept, Zenon
<1>8. req' \in [Demos -> Runs] /\ \A e \in Demos : e # d => req'[e] = req[e]
  BY <1>1, GoonStands, Zenon
<1>9. count' \in Counts /\ \A f \in Logs : count[f] <= count'[f]
  BY SameLogs
<1>10. /\ board' \subseteq Demos /\ files' \in [Demos -> {"none", "torn", "whole"}]
       /\ result' \in [Demos -> [counts : [Logs -> Int], checkpoint : BOOLEAN,
                                 first : {"", "failed"}, second : {"", "passed"}]]
  BY Zenon DEF RealInv, RealTypeOK
<1> QED BY <1>7, <1>8, <1>9, <1>10, StepKept, Zenon

\* A request that ends early.
LEMMA FailStep ==
    ASSUME RealInv, NEW d \in Demos, Fail(d), count' \in Counts, \A f \in Logs : count[f] <= count'[f],
           board \subseteq board', board' \subseteq Demos, UNCHANGED <<files, result>>
    PROVE  RealInv'
<1>1. /\ req' \in [Demos -> Runs] /\ RequestOK(d)'
      /\ \A e \in Demos : e # d => req'[e] = req[e]
  BY FailKept
<1>2. /\ files' \in [Demos -> {"none", "torn", "whole"}]
      /\ result' \in [Demos -> [counts : [Logs -> Int], checkpoint : BOOLEAN,
                                 first : {"", "failed"}, second : {"", "passed"}]]
  BY Zenon DEF RealInv, RealTypeOK
<1> QED BY <1>1, <1>2, StepKept, Zenon

\* The baseline is read at the first step, before the request counts anything.
LEMMA BaselineKept ==
    ASSUME RealInv, NEW d \in Demos, Baseline(d)
    PROVE  RealInv'
<1>1. /\ At(d, "baseline") /\ Goon(d, [req[d] EXCEPT !.before = count])
      /\ UNCHANGED <<count, board, files, result>>
  BY DEF Baseline
<1>2. PICK r : r = [req[d] EXCEPT !.before = count]
  OBVIOUS
<1>3. /\ req[d].todo # <<>> /\ req[d] \in Runs /\ Position(req[d]) \in 1..30
      /\ runSoftwareRealDemo[Position(req[d])].do = "baseline"
      /\ Settled(d, req[d])
  BY <1>1, Standing
<1>4. PICK n \in 1..30 : n = Position(req[d])
  BY <1>3
<1>5. n = 1
  BY <1>3, <1>4, StepAt
<1>6. count \in Counts
  BY DEF RealInv, RealTypeOK
<1>7. /\ r \in Runs /\ r.todo = req[d].todo /\ r.phase = req[d].phase /\ r.before = count
      /\ r.own = req[d].own /\ r.polled = req[d].polled /\ r.first = req[d].first
      /\ r.second = req[d].second /\ r.checkpoint = req[d].checkpoint
  BY <1>2, <1>3, <1>6 DEF Runs
<1>8. r.own = NoCounts
  BY <1>3, <1>4, <1>5, <1>7, Zenon DEF Settled
<1>9. ASSUME NEW f \in Logs PROVE r.before[f] + r.own[f] <= count'[f]
  <2>1. r.own[f] = 0
    BY <1>8 DEF Logs, NoCounts
  <2>2. count[f] \in Nat
    BY <1>6 DEF Counts
  <2> QED BY <1>1, <1>7, <2>1, <2>2
<1>10. req[d].checkpoint => n > 29 /\ files[d] = "whole"
  BY <1>3, <1>4, Zenon DEF Settled
<1>11. n \notin {14, 17, 19, 21, 24, 29, 30} /\ ~(n > 29)
  BY <1>5
<1>12. Goon(d, r)
  BY <1>1, <1>2
<1>13. RequestOK(d)'
  BY <1>1, <1>3, <1>4, <1>7, <1>9, <1>10, <1>11, <1>12, GoonKept, Zenon
<1>14. req' \in [Demos -> Runs] /\ \A e \in Demos : e # d => req'[e] = req[e]
  BY <1>3, <1>7, <1>12, GoonStands, Zenon
<1>15. count' \in Counts /\ \A f \in Logs : count[f] <= count'[f]
  BY <1>1, SameLogs
<1>16. /\ board' \subseteq Demos /\ files' \in [Demos -> {"none", "torn", "whole"}]
       /\ result' \in [Demos -> [counts : [Logs -> Int], checkpoint : BOOLEAN,
                                 first : {"", "failed"}, second : {"", "passed"}]]
  BY <1>1, Zenon DEF RealInv, RealTypeOK
<1> QED BY <1>1, <1>13, <1>14, <1>15, <1>16, StepKept, Zenon

\* What a step adds to the logs it also counts as its own.
LEMMA PlusGrows ==
    ASSUME NEW before \in Counts, NEW own \in Counts, NEW log \in Counts, NEW delta \in Counts,
           \A f \in Logs : before[f] + own[f] <= log[f]
    PROVE  /\ Plus(log, delta) \in Counts /\ Plus(own, delta) \in Counts
           /\ \A f \in Logs : log[f] <= Plus(log, delta)[f]
           /\ \A f \in Logs : before[f] + Plus(own, delta)[f] <= Plus(log, delta)[f]
           /\ \A f \in Logs : Plus(own, delta)[f] = own[f] + delta[f]
<1>1. ASSUME NEW x \in Counts PROVE Plus(x, delta) \in Counts
  BY DEF Plus, Counts, Logs
<1>2. ASSUME NEW x \in Counts, NEW f \in Logs PROVE Plus(x, delta)[f] = x[f] + delta[f]
  BY DEF Plus, Logs
<1>3. \A f \in Logs : before[f] \in Nat /\ own[f] \in Nat /\ log[f] \in Nat /\ delta[f] \in Nat
  BY DEF Counts
<1>4. ASSUME NEW f \in Logs PROVE log[f] <= Plus(log, delta)[f]
  BY <1>2, <1>3
<1>5. ASSUME NEW f \in Logs PROVE before[f] + Plus(own, delta)[f] <= Plus(log, delta)[f]
  <2>1. before[f] + own[f] <= log[f]
    OBVIOUS
  <2> QED BY <1>2, <1>3, <2>1
<1> QED BY <1>1, <1>2, <1>4, <1>5

\* The baseline and what the request added stay within the logs.
LEMMA AddsOwn ==
    ASSUME RealInv, NEW d \in Demos, req[d] \in Runs, NEW delta \in Counts, count' = Plus(count, delta),
           \A f \in Logs : req[d].before[f] + req[d].own[f] <= count[f]
    PROVE  /\ count' \in Counts /\ Plus(req[d].own, delta) \in Counts
           /\ \A f \in Logs : count[f] <= count'[f]
           /\ \A f \in Logs : req[d].before[f] + Plus(req[d].own, delta)[f] <= count'[f]
           /\ \A f \in Logs : Plus(req[d].own, delta)[f] = req[d].own[f] + delta[f]
<1>1. count \in Counts /\ req[d].before \in Counts /\ req[d].own \in Counts
  BY DEF RealInv, RealTypeOK, Runs
<1>2. PICK b \in Counts : b = req[d].before
  BY <1>1
<1>3. PICK o \in Counts : o = req[d].own
  BY <1>1
<1>4. \A f \in Logs : b[f] + o[f] <= count[f]
  BY <1>2, <1>3, Zenon
<1>5. /\ Plus(count, delta) \in Counts /\ Plus(o, delta) \in Counts
      /\ \A f \in Logs : count[f] <= Plus(count, delta)[f]
      /\ \A f \in Logs : b[f] + Plus(o, delta)[f] <= Plus(count, delta)[f]
      /\ \A f \in Logs : Plus(o, delta)[f] = o[f] + delta[f]
  BY <1>1, <1>4, PlusGrows
<1> QED BY <1>2, <1>3, <1>5, Zenon

\* A decision of the scheduler.
LEMMA ScheduleKept ==
    ASSUME RealInv, NEW d \in Demos, Schedule(d)
    PROVE  RealInv'
<1>1. PICK delta : delta = [NoCounts EXCEPT !.decisions = 1]
  OBVIOUS
<1>2. /\ At(d, "schedule") /\ count' = Plus(count, delta)
      /\ Goon(d, [req[d] EXCEPT !.own = Plus(@, delta)]) /\ UNCHANGED <<board, files, result>>
  BY <1>1 DEF Schedule
<1>3. delta \in Counts /\ delta["faults"] = 0
  BY <1>1 DEF Counts, Logs, NoCounts
<1>4. PICK r : r = [req[d] EXCEPT !.own = Plus(@, delta)]
  OBVIOUS
<1>5. /\ req[d].todo # <<>> /\ req[d] \in Runs /\ Position(req[d]) \in 1..30
      /\ runSoftwareRealDemo[Position(req[d])].do = "schedule"
      /\ Settled(d, req[d])
      /\ Position(req[d]) # 1 => \A f \in Logs : req[d].before[f] + req[d].own[f] <= count[f]
  BY <1>2, Standing
<1>6. PICK n \in 1..30 : n = Position(req[d])
  BY <1>5
<1>7. n \notin {1, 14, 17, 19, 21, 24, 29, 30}
  BY <1>5, <1>6, StepAt
<1>8. count \in Counts /\ req[d].before \in Counts /\ req[d].own \in Counts
  BY <1>5 DEF RealInv, RealTypeOK, Runs
<1>9. /\ count' \in Counts /\ Plus(req[d].own, delta) \in Counts /\ \A f \in Logs : count[f] <= count'[f]
      /\ \A f \in Logs : req[d].before[f] + Plus(req[d].own, delta)[f] <= count'[f]
      /\ \A f \in Logs : Plus(req[d].own, delta)[f] = req[d].own[f] + delta[f]
  <2>1. \A f \in Logs : req[d].before[f] + req[d].own[f] <= count[f]
    BY <1>5, <1>6, <1>7, Zenon
  <2> QED BY <1>2, <1>3, <1>5, <2>1, AddsOwn, Zenon
<1>10. /\ r \in Runs /\ r.todo = req[d].todo /\ r.phase = req[d].phase /\ r.before = req[d].before
       /\ r.own = Plus(req[d].own, delta) /\ r.polled = req[d].polled /\ r.first = req[d].first
       /\ r.second = req[d].second /\ r.checkpoint = req[d].checkpoint
  BY <1>4, <1>5, <1>9 DEF Runs
<1>11. r.own["faults"] = req[d].own["faults"]
  <2>1. "faults" \in Logs
    BY DEF Logs, NoCounts
  <2>2. req[d].own["faults"] \in Nat
    BY <1>8, <2>1 DEF Counts
  <2>3. r.own["faults"] = req[d].own["faults"] + 0
    BY <1>3, <1>9, <1>10, <2>1, Zenon
  <2> QED BY <2>2, <2>3
<1>12. req[d].checkpoint => n > 29 /\ files[d] = "whole"
  BY <1>5, <1>6, Zenon DEF Settled
<1>13. ~(n > 29)
  BY <1>7, NextLandmark, Zenon
<1>14. Goon(d, r)
  BY <1>2, <1>4
<1>15. \A f \in Logs : r.before[f] + r.own[f] <= count'[f]
  BY <1>9, <1>10, Zenon
<1>16. RequestOK(d)'
  BY <1>2, <1>5, <1>6, <1>7, <1>10, <1>11, <1>12, <1>13, <1>14, <1>15, GoonKept, Zenon
<1>17. req' \in [Demos -> Runs] /\ \A e \in Demos : e # d => req'[e] = req[e]
  BY <1>5, <1>10, <1>14, GoonStands, Zenon
<1>18. /\ board' \subseteq Demos /\ files' \in [Demos -> {"none", "torn", "whole"}]
       /\ result' \in [Demos -> [counts : [Logs -> Int], checkpoint : BOOLEAN,
                                 first : {"", "failed"}, second : {"", "passed"}]]
  BY <1>2, Zenon DEF RealInv, RealTypeOK
<1> QED BY <1>2, <1>9, <1>16, <1>17, <1>18, StepKept, Zenon

\* The logs after a syscall: t of tools, m messages, x faults.
Updated(t, m, x) == [NoCounts EXCEPT !.calls = 1, !.tools = t, !.messages = m, !.faults = x]

\* Three logs with new lengths.
LEMMA LogsUpdated ==
    ASSUME NEW t \in Nat, NEW m \in Nat, NEW x \in Nat
    PROVE  /\ Updated(t, m, x) \in Counts
           /\ Updated(t, m, x)["faults"] = x /\ Updated(t, m, x)["messages"] = m
<1>1. Logs = {"calls", "tools", "decisions", "messages", "faults"} /\ NoCounts \in Counts
  BY DEF Counts, Logs, NoCounts
<1>2. ASSUME NEW c \in Counts, NEW g \in Logs, NEW v \in Nat
      PROVE  /\ [c EXCEPT ![g] = v] \in Counts /\ [c EXCEPT ![g] = v][g] = v
             /\ \A f \in Logs : f # g => [c EXCEPT ![g] = v][f] = c[f]
  BY DEF Counts
<1>3. PICK c1 \in Counts : c1 = [NoCounts EXCEPT !["calls"] = 1]
  BY <1>1, <1>2
<1>4. PICK c2 \in Counts : c2 = [c1 EXCEPT !["tools"] = t]
  <2>1. "tools" \in Logs
    BY <1>1
  <2> QED BY <1>2, <2>1
<1>5. PICK c3 \in Counts : c3 = [c2 EXCEPT !["messages"] = m] /\ c3["messages"] = m
  <2>1. "messages" \in Logs
    BY <1>1
  <2>2. [c2 EXCEPT !["messages"] = m] \in Counts /\ [c2 EXCEPT !["messages"] = m]["messages"] = m
    BY <1>2, <2>1
  <2> QED BY <2>2, Zenon
<1>6. PICK c4 \in Counts : c4 = [c3 EXCEPT !["faults"] = x] /\ c4["faults"] = x /\ c4["messages"] = m
  <2>1. "faults" \in Logs /\ "messages" \in Logs /\ "messages" # "faults"
    BY <1>1
  <2>2. /\ [c3 EXCEPT !["faults"] = x] \in Counts /\ [c3 EXCEPT !["faults"] = x]["faults"] = x
        /\ [c3 EXCEPT !["faults"] = x]["messages"] = c3["messages"]
    BY <1>2, <2>1
  <2> QED BY <1>5, <2>2, Zenon
<1>7. c4 = Updated(t, m, x)
  BY <1>3, <1>4, <1>5, <1>6, Zenon DEF Updated
<1> QED BY <1>6, <1>7, Zenon

\* What a syscall adds to the logs.
LEMMA LoggedCounts ==
    ASSUME NEW name, NEW status
    PROVE  /\ Logged(name, status) \in Counts
           /\ Logged(name, status)["faults"] = IF name = "timeout" THEN 1 ELSE 0
           /\ Logged(name, status).messages = IF name = "publish" /\ status = "OK" THEN 1 ELSE 0
<1>1. PICK t \in Nat : t = IF name \in Tools THEN 1 ELSE 0
  OBVIOUS
<1>2. PICK m \in Nat : m = IF name = "publish" /\ status = "OK" THEN 1 ELSE 0
  OBVIOUS
<1>3. PICK x \in Nat : x = IF name = "timeout" THEN 1 ELSE 0
  OBVIOUS
<1>4. Logged(name, status) = Updated(t, m, x)
  BY <1>1, <1>2, <1>3, Zenon DEF Logged, Updated
<1>5. /\ Updated(t, m, x) \in Counts
      /\ Updated(t, m, x)["faults"] = x /\ Updated(t, m, x)["messages"] = m
  BY LogsUpdated
<1> QED BY <1>2, <1>3, <1>4, <1>5, Zenon

\* What the driver keeps of a syscall at a position.
LEMMA NotedAt ==
    ASSUME RealInv, NEW d \in Demos, req[d] \in Runs, NEW n \in 1..30, NEW name,
           name = "firstTest" <=> n = 14, name = "poll" <=> n = 19, name = "secondTest" <=> n = 21
    PROVE  \E r \in Runs :
              /\ r = Noted(d, name) /\ r.todo = req[d].todo /\ r.phase = req[d].phase
              /\ r.before = req[d].before /\ r.own = req[d].own /\ r.checkpoint = req[d].checkpoint
              /\ r.first = IF n = 14 THEN "failed" ELSE req[d].first
              /\ r.second = IF n = 21 THEN "passed" ELSE req[d].second
              /\ r.polled = IF n = 19 THEN board ELSE req[d].polled
<1>1. board \in SUBSET Demos
  BY DEF RealInv, RealTypeOK
<1>2. CASE name = "poll"
  <2>1. Noted(d, name) = [req[d] EXCEPT !.polled = board] /\ n # 14 /\ n # 21 /\ n = 19
    BY <1>2 DEF Noted
  <2> QED BY <1>1, <2>1 DEF Runs
<1>3. CASE name = "firstTest"
  <2>1. Noted(d, name) = [req[d] EXCEPT !.first = "failed"] /\ n = 14 /\ n # 21 /\ n # 19
    BY <1>3 DEF Noted
  <2> QED BY <2>1 DEF Runs
<1>4. CASE name = "secondTest"
  <2>1. Noted(d, name) = [req[d] EXCEPT !.second = "passed"] /\ n # 14 /\ n = 21 /\ n # 19
    BY <1>4 DEF Noted
  <2> QED BY <2>1 DEF Runs
<1>5. CASE name \notin {"poll", "firstTest", "secondTest"}
  <2>1. Noted(d, name) = req[d] /\ n # 14 /\ n # 21 /\ n # 19
    BY <1>5 DEF Noted
  <2> QED BY <2>1
<1> QED BY <1>2, <1>3, <1>4, <1>5

\* A syscall of the driver.
LEMMA SyscallKept ==
    ASSUME RealInv, NEW d \in Demos, NEW status \in AnyStatus, Syscall(d, status)
    PROVE  RealInv'
<1>1. PICK step : step = Head(req[d].todo)
  OBVIOUS
<1>2. PICK delta : delta = Logged(step.name, status)
  OBVIOUS
<1>3. /\ At(d, "call") /\ count' = Plus(count, delta)
      /\ board' = IF delta.messages = 1 THEN board \cup {d} ELSE board
      /\ \/ status \in step.want /\ Goon(d, [Noted(d, step.name) EXCEPT !.own = Plus(@, delta)])
         \/ Fail(d)
      /\ UNCHANGED <<files, result>>
  BY <1>1, <1>2 DEF Syscall
<1>4. /\ delta \in Counts /\ delta["faults"] = IF step.name = "timeout" THEN 1 ELSE 0
      /\ delta.messages = IF step.name = "publish" /\ status = "OK" THEN 1 ELSE 0
  BY <1>2, LoggedCounts
<1>5. /\ req[d].todo # <<>> /\ req[d] \in Runs /\ Position(req[d]) \in 1..30
      /\ step = runSoftwareRealDemo[Position(req[d])] /\ step.do = "call"
      /\ Settled(d, req[d])
      /\ Position(req[d]) # 1 => \A f \in Logs : req[d].before[f] + req[d].own[f] <= count[f]
  BY <1>1, <1>3, Standing
<1>6. PICK n \in 1..30 : n = Position(req[d])
  BY <1>5
<1>7. /\ n \notin {1, 29, 30} /\ (step.name = "firstTest" <=> n = 14)
      /\ (step.name = "publish" <=> n = 17) /\ (step.name = "poll" <=> n = 19)
      /\ (step.name = "secondTest" <=> n = 21) /\ (step.name = "timeout" <=> n = 24)
      /\ (n = 17 => step.want = {"OK"})
  <2>1. step = runSoftwareRealDemo[n] /\ step.do = "call"
    BY <1>5, <1>6
  <2> QED BY <2>1, StepAt
<1>8. count \in Counts /\ req[d].before \in Counts /\ req[d].own \in Counts /\ board \subseteq Demos
  BY <1>5 DEF RealInv, RealTypeOK, Runs
<1>9. /\ count' \in Counts /\ Plus(req[d].own, delta) \in Counts /\ \A f \in Logs : count[f] <= count'[f]
      /\ \A f \in Logs : req[d].before[f] + Plus(req[d].own, delta)[f] <= count'[f]
      /\ \A f \in Logs : Plus(req[d].own, delta)[f] = req[d].own[f] + delta[f]
  <2>1. \A f \in Logs : req[d].before[f] + req[d].own[f] <= count[f]
    BY <1>5, <1>6, <1>7, Zenon
  <2> QED BY <1>3, <1>4, <1>5, <2>1, AddsOwn, Zenon
<1>10. board \subseteq board' /\ board' \subseteq Demos
  BY <1>3, <1>8
<1>11. CASE Fail(d)
  BY <1>3, <1>9, <1>10, <1>11, FailStep
<1>12. CASE status \in step.want /\ Goon(d, [Noted(d, step.name) EXCEPT !.own = Plus(@, delta)])
  <2>1. PICK name : name = step.name
    OBVIOUS
  <2>2. PICK k \in Runs :
        /\ k = Noted(d, step.name) /\ k.todo = req[d].todo /\ k.phase = req[d].phase
        /\ k.before = req[d].before /\ k.own = req[d].own /\ k.checkpoint = req[d].checkpoint
        /\ k.first = IF n = 14 THEN "failed" ELSE req[d].first
        /\ k.second = IF n = 21 THEN "passed" ELSE req[d].second
        /\ k.polled = IF n = 19 THEN board ELSE req[d].polled
    <3>1. (name = "firstTest" <=> n = 14) /\ (name = "poll" <=> n = 19) /\ (name = "secondTest" <=> n = 21)
      BY <1>7, <2>1, Zenon
    <3>2. \E k \in Runs :
             /\ k = Noted(d, name) /\ k.todo = req[d].todo /\ k.phase = req[d].phase
             /\ k.before = req[d].before /\ k.own = req[d].own /\ k.checkpoint = req[d].checkpoint
             /\ k.first = IF n = 14 THEN "failed" ELSE req[d].first
             /\ k.second = IF n = 21 THEN "passed" ELSE req[d].second
             /\ k.polled = IF n = 19 THEN board ELSE req[d].polled
      BY <1>5, <3>1, NotedAt
    <3> QED BY <2>1, <3>2, Zenon
  <2>3. PICK r : r = [k EXCEPT !.own = Plus(@, delta)]
    OBVIOUS
  <2>4. /\ r \in Runs /\ r.todo = k.todo /\ r.phase = k.phase /\ r.before = k.before
        /\ r.own = Plus(k.own, delta) /\ r.polled = k.polled /\ r.first = k.first
        /\ r.second = k.second /\ r.checkpoint = k.checkpoint
    <3>1. Plus(k.own, delta) \in Counts
      BY <1>9, <2>2, Zenon
    <3> QED BY <2>2, <2>3, <3>1 DEF Runs
  <2>5. r.own["faults"] = IF n = 24 THEN req[d].own["faults"] + 1 ELSE req[d].own["faults"]
    <3>1. "faults" \in Logs
      BY DEF Logs, NoCounts
    <3>2. PICK x \in Nat : x = req[d].own["faults"]
      BY <1>8, <3>1 DEF Counts
    <3>3. PICK y : y = delta["faults"]
      OBVIOUS
    <3>4. r.own["faults"] = x + y
      BY <1>9, <2>2, <2>4, <3>1, <3>2, <3>3, Zenon
    <3>5. y = IF n = 24 THEN 1 ELSE 0
      BY <1>4, <1>7, <3>3, Zenon
    <3>6. x + 0 = x
      OBVIOUS
    <3> QED BY <3>2, <3>4, <3>5, <3>6, Zenon
  <2>6. req[d].checkpoint => n > 29 /\ files[d] = "whole"
    BY <1>5, <1>6, Zenon DEF Settled
  <2>7. ~(n > 29)
    BY <1>7, NextLandmark, Zenon
  <2>8. Goon(d, r)
    BY <1>12, <2>2, <2>3
  <2>9. \A f \in Logs : r.before[f] + r.own[f] <= count'[f]
    BY <1>9, <2>2, <2>4, Zenon
  <2>10. n = 17 => d \in board'
    <3>1. n = 17 => status = "OK"
      BY <1>7, <1>12
    <3> QED BY <1>3, <1>4, <1>7, <3>1
  <2>11. /\ r.todo = req[d].todo /\ r.phase = req[d].phase /\ r.before = req[d].before
         /\ r.checkpoint = req[d].checkpoint
         /\ r.first = IF n = 14 THEN "failed" ELSE req[d].first
         /\ r.second = IF n = 21 THEN "passed" ELSE req[d].second
         /\ r.polled = IF n = 19 THEN board ELSE req[d].polled
    BY <2>2, <2>4, Zenon
  <2>12. RequestOK(d)'
    BY <1>3, <1>5, <1>6, <1>7, <1>10, <2>4, <2>5, <2>6, <2>7, <2>8, <2>9, <2>10, <2>11, GoonKept, Zenon
  <2>13. req' \in [Demos -> Runs] /\ \A e \in Demos : e # d => req'[e] = req[e]
    BY <1>5, <2>4, <2>8, <2>11, GoonStands, Zenon
  <2>14. /\ files' \in [Demos -> {"none", "torn", "whole"}]
         /\ result' \in [Demos -> [counts : [Logs -> Int], checkpoint : BOOLEAN,
                                   first : {"", "failed"}, second : {"", "passed"}]]
    BY <1>3, Zenon DEF RealInv, RealTypeOK
  <2> QED BY <1>3, <1>9, <1>10, <2>12, <2>13, <2>14, StepKept, Zenon
<1> QED BY <1>3, <1>11, <1>12

\* The checkpoint is written before its evidence is looked for.
LEMMA SaveKept ==
    ASSUME RealInv, NEW d \in Demos, SaveOpen(d) \/ SaveWrite(d)
    PROVE  RealInv'
<1>1. PICK step : /\ step \in {"saveOpen", "saveWrite"} /\ At(d, step) /\ Goon(d, req[d])
                  /\ UNCHANGED <<count, board, result>>
                  /\ \/ files' = [files EXCEPT ![d] = "torn"]
                     \/ files' = [files EXCEPT ![d] = "whole"]
                     \/ files' = files
  BY DEF SaveOpen, SaveWrite
<1>2. /\ req[d].todo # <<>> /\ req[d] \in Runs /\ Position(req[d]) \in 1..30
      /\ runSoftwareRealDemo[Position(req[d])].do = step
      /\ Settled(d, req[d])
      /\ Position(req[d]) # 1 => \A f \in Logs : req[d].before[f] + req[d].own[f] <= count[f]
  BY <1>1, Standing
<1>3. PICK n \in 1..30 : n = Position(req[d])
  BY <1>2
<1>4. n \notin {1, 14, 17, 19, 21, 24, 29, 30}
  BY <1>1, <1>2, <1>3, StepAt
<1>5. req[d].checkpoint => n > 29 /\ files[d] = "whole"
  BY <1>2, <1>3, Zenon DEF Settled
<1>6. ~(n > 29)
  BY <1>4, NextLandmark, Zenon
<1>7. \A f \in Logs : req[d].before[f] + req[d].own[f] <= count'[f]
  BY <1>1, <1>2, <1>3, <1>4, Zenon
<1>8. RequestOK(d)'
  BY <1>1, <1>2, <1>3, <1>4, <1>5, <1>6, <1>7, GoonKept, Zenon
<1>9. req' \in [Demos -> Runs] /\ \A e \in Demos : e # d => req'[e] = req[e]
  BY <1>1, <1>2, GoonStands, Zenon
<1>10. count' \in Counts /\ \A f \in Logs : count[f] <= count'[f]
  BY <1>1, SameLogs
<1>11. /\ files' \in [Demos -> {"none", "torn", "whole"}]
       /\ \A e \in Demos : e # d => files'[e] = files[e]
  <2>1. files \in [Demos -> {"none", "torn", "whole"}]
    BY DEF RealInv, RealTypeOK
  <2> QED BY <1>1, <2>1
<1>12. /\ board' \subseteq Demos
       /\ result' \in [Demos -> [counts : [Logs -> Int], checkpoint : BOOLEAN,
                                 first : {"", "failed"}, second : {"", "passed"}]]
  BY <1>1, Zenon DEF RealInv, RealTypeOK
<1> QED BY <1>1, <1>8, <1>9, <1>10, <1>11, <1>12, StepKept, Zenon

\* A checkpoint is claimed only when its file is whole, and the request that
\* claims it has written its last.
LEMMA EvidenceKept ==
    ASSUME RealInv, NEW d \in Demos, Evidence(d)
    PROVE  RealInv'
<1>1. PICK c : c = softwareRealCheckpointEvidence(d)
  OBVIOUS
<1>2. /\ At(d, "evidence") /\ Goon(d, [req[d] EXCEPT !.checkpoint = c])
      /\ UNCHANGED <<count, board, files, result>> /\ c \in BOOLEAN /\ (c => files[d] = "whole")
  BY <1>1 DEF Evidence, softwareRealCheckpointEvidence
<1>3. PICK r : r = [req[d] EXCEPT !.checkpoint = c]
  OBVIOUS
<1>4. /\ req[d].todo # <<>> /\ req[d] \in Runs /\ Position(req[d]) \in 1..30
      /\ runSoftwareRealDemo[Position(req[d])].do = "evidence"
      /\ Position(req[d]) # 1 => \A f \in Logs : req[d].before[f] + req[d].own[f] <= count[f]
  BY <1>2, Standing
<1>5. PICK n \in 1..30 : n = Position(req[d])
  BY <1>4
<1>6. n = 29
  BY <1>4, <1>5, StepAt
<1>7. n \notin {1, 14, 17, 19, 21, 24, 30}
  BY <1>6
<1>8. /\ r \in Runs /\ r.todo = req[d].todo /\ r.phase = req[d].phase /\ r.before = req[d].before
      /\ r.own = req[d].own /\ r.polled = req[d].polled /\ r.first = req[d].first
      /\ r.second = req[d].second /\ r.checkpoint = c
  BY <1>2, <1>3, <1>4 DEF Runs
<1>9. \A f \in Logs : r.before[f] + r.own[f] <= count'[f]
  BY <1>2, <1>4, <1>5, <1>7, <1>8, Zenon
<1>10. Goon(d, r)
  BY <1>2, <1>3
<1>11. r.checkpoint => n = 29 /\ files'[d] = "whole"
  BY <1>2, <1>6, <1>8
<1>12. RequestOK(d)'
  BY <1>2, <1>4, <1>5, <1>7, <1>8, <1>9, <1>10, <1>11, GoonKept, Zenon
<1>13. req' \in [Demos -> Runs] /\ \A e \in Demos : e # d => req'[e] = req[e]
  BY <1>4, <1>8, <1>10, GoonStands, Zenon
<1>14. count' \in Counts /\ \A f \in Logs : count[f] <= count'[f]
  BY <1>2, SameLogs
<1>15. /\ board' \subseteq Demos /\ files' \in [Demos -> {"none", "torn", "whole"}]
       /\ result' \in [Demos -> [counts : [Logs -> Int], checkpoint : BOOLEAN,
                                 first : {"", "failed"}, second : {"", "passed"}]]
  BY <1>2, Zenon DEF RealInv, RealTypeOK
<1> QED BY <1>2, <1>12, <1>13, <1>14, <1>15, StepKept, Zenon

\* The result counts what the logs gained since the baseline.
LEMMA ResultKept ==
    ASSUME RealInv, NEW d \in Demos, Result(d)
    PROVE  RealInv'
<1>1. PICK g : g = [f \in Logs |-> count[f] - req[d].before[f]]
  OBVIOUS
<1>2. PICK v : v = [counts |-> g, checkpoint |-> req[d].checkpoint, first |-> req[d].first,
                    second |-> req[d].second]
  OBVIOUS
<1>3. /\ At(d, "result") /\ Goon(d, req[d]) /\ result' = [result EXCEPT ![d] = v]
      /\ UNCHANGED <<count, board, files>>
  BY <1>1, <1>2 DEF Result, Logs
<1>4. /\ req[d].todo # <<>> /\ req[d] \in Runs /\ Position(req[d]) \in 1..30
      /\ runSoftwareRealDemo[Position(req[d])].do = "result"
      /\ Settled(d, req[d])
      /\ Position(req[d]) # 1 => \A f \in Logs : req[d].before[f] + req[d].own[f] <= count[f]
  BY <1>3, Standing
<1>5. PICK n \in 1..30 : n = Position(req[d])
  BY <1>4
<1>6. n = 30
  BY <1>4, <1>5, StepAt
<1>7. n \notin {1, 14, 17, 19, 21, 24, 29}
  BY <1>6
<1>8. PICK b \in Counts : b = req[d].before
  BY <1>4 DEF Runs
<1>9. PICK o \in Counts : o = req[d].own
  BY <1>4 DEF Runs
<1>10. count \in Counts
  BY DEF RealInv, RealTypeOK
<1>11. \A f \in Logs : b[f] + o[f] <= count[f]
  BY <1>4, <1>5, <1>7, <1>8, <1>9, Zenon
<1>12. g \in [Logs -> Int] /\ \A f \in Logs : g[f] >= o[f]
  <2>1. g = [f \in Logs |-> count[f] - b[f]]
    BY <1>1, <1>8, Zenon
  <2>2. \A f \in Logs : b[f] \in Nat /\ o[f] \in Nat /\ count[f] \in Nat
    BY <1>10 DEF Counts
  <2>3. ASSUME NEW f \in Logs PROVE g[f] = count[f] - b[f] /\ count[f] - b[f] \in Int /\ count[f] - b[f] >= o[f]
    BY <1>11, <2>1, <2>2
  <2> QED BY <2>1, <2>3
<1>13. /\ v.counts = g /\ v.checkpoint = req[d].checkpoint /\ v.first = req[d].first
       /\ v.second = req[d].second
       /\ v \in [counts : [Logs -> Int], checkpoint : BOOLEAN,
                 first : {"", "failed"}, second : {"", "passed"}]
  <2>1. /\ req[d].checkpoint \in BOOLEAN /\ req[d].first \in {"", "failed"}
        /\ req[d].second \in {"", "passed"}
    BY <1>4 DEF Runs
  <2> QED BY <1>2, <1>12, <2>1
<1>14. /\ result' \in [Demos -> [counts : [Logs -> Int], checkpoint : BOOLEAN,
                                 first : {"", "failed"}, second : {"", "passed"}]]
       /\ result'[d] = v /\ \A e \in Demos : e # d => result'[e] = result[e]
  <2>1. result \in [Demos -> [counts : [Logs -> Int], checkpoint : BOOLEAN,
                              first : {"", "failed"}, second : {"", "passed"}]]
    BY Zenon DEF RealInv, RealTypeOK
  <2> QED BY <1>3, <1>13, <2>1
<1>15. \A f \in Logs : req[d].before[f] + req[d].own[f] <= count'[f]
  BY <1>3, <1>8, <1>9, <1>11, Zenon
<1>16. req[d].checkpoint => n > 29 /\ files[d] = "whole"
  BY <1>4, <1>5, Zenon DEF Settled
<1>17. /\ result'[d].first = req[d].first /\ result'[d].second = req[d].second
       /\ \A f \in Logs : result'[d].counts[f] >= req[d].own[f]
       /\ result'[d].checkpoint = req[d].checkpoint
  BY <1>9, <1>12, <1>13, <1>14, Zenon
<1>18. RequestOK(d)'
  BY <1>3, <1>4, <1>5, <1>7, <1>15, <1>16, <1>17, GoonKept, Zenon
<1>19. req' \in [Demos -> Runs] /\ \A e \in Demos : e # d => req'[e] = req[e]
  BY <1>3, <1>4, GoonStands, Zenon
<1>20. count' \in Counts /\ \A f \in Logs : count[f] <= count'[f]
  BY <1>3, SameLogs
<1>21. board' \subseteq Demos /\ files' \in [Demos -> {"none", "torn", "whole"}]
  BY <1>3, Zenon DEF RealInv, RealTypeOK
<1> QED BY <1>3, <1>14, <1>18, <1>19, <1>20, <1>21, StepKept, Zenon

\* A request begins with the whole program to do.
LEMMA BeginKept ==
    ASSUME RealInv, NEW d \in Demos, Begin(d)
    PROVE  RealInv'
<1>1. PICK p : p = runSoftwareRealDemo /\ p \in Seq(DemoSteps) /\ Len(p) = 30
  BY ProgramLandmarks DEF Landmarks
<1>2. PICK q : q = [NewRequest EXCEPT !.phase = "running", !.todo = p]
  OBVIOUS
<1>3. /\ req' = [req EXCEPT ![d] = q] /\ UNCHANGED <<count, board, files, result>>
      /\ req \in [Demos -> Runs]
  BY <1>1, <1>2 DEF Begin, RealInv, RealTypeOK
<1>4. NoCounts \in Counts /\ NoCounts["faults"] = 0
  BY DEF NoCounts, Counts, Logs
<1>5. /\ q \in Runs /\ q.phase = "running" /\ q.todo = p /\ q.own = NoCounts /\ q.checkpoint = FALSE
  <2>1. {} \in SUBSET Demos
    OBVIOUS
  <2> QED BY <1>1, <1>2, <1>4, <2>1 DEF NewRequest, Runs
<1>6. req'[d] = q /\ req' \in [Demos -> Runs] /\ \A e \in Demos : e # d => req'[e] = req[e]
  BY <1>3, <1>5
<1>7. Position(q) = 1
  <2>1. Position(q) = 31 - 30
    BY <1>1, <1>5, Zenon DEF Position
  <2> QED BY <2>1
<1>8. OnProgram(q)
  <2>1. ASSUME NEW i \in 1..30 PROVE 1 - 1 + i = i
    OBVIOUS
  <2>2. \A i \in 1..Len(q.todo) : q.todo[i] = runSoftwareRealDemo[Position(q) - 1 + i]
    BY <1>1, <1>5, <1>7, <2>1, Zenon
  <2>3. p # <<>> /\ 30 <= 30
    <3>1. Len(<<>>) = 0 /\ 0 # 30 /\ 30 <= 30
      OBVIOUS
    <3> QED BY <1>1, <3>1, Zenon
  <2>4. Len(q.todo) <= 30
    BY <1>1, <1>5, <2>3, Zenon
  <2> QED BY <1>5, <2>2, <2>3, <2>4, Zenon DEF OnProgram
<1>9. Settled(d, req[d])'
  <2>1. ~(1 > 1) /\ ~(1 > 14) /\ ~(1 > 17) /\ ~(1 > 19) /\ ~(1 > 21) /\ ~(1 > 24)
    OBVIOUS
  <2>2. /\ Position(q) = 1 => q.own = NoCounts
        /\ Position(q) > 1 => \A f \in Logs : q.before[f] + q.own[f] <= count'[f]
        /\ Position(q) > 14 => q.first = "failed"
        /\ Position(q) > 17 => d \in board'
        /\ Position(q) > 19 => d \in q.polled
        /\ Position(q) > 21 => q.second = "passed"
        /\ q.own["faults"] = IF Position(q) > 24 THEN 1 ELSE 0
        /\ q.checkpoint => Position(q) > 29 /\ files'[d] = "whole"
    BY <1>4, <1>5, <1>7, <2>1, Zenon
  <2> QED BY <1>6, <2>2, Zenon DEF Settled, Position
<1>10. RequestOK(d)'
  <2>1. OnProgram(req[d])'
    BY <1>6, <1>8, Zenon DEF OnProgram, Position
  <2>2. Reported(d)'
    BY <1>5, <1>6 DEF Reported
  <2> QED BY <1>9, <2>1, <2>2 DEF RequestOK
<1>11. count' \in Counts /\ \A f \in Logs : count[f] <= count'[f]
  BY <1>3, SameLogs
<1>12. /\ board' \subseteq Demos /\ files' \in [Demos -> {"none", "torn", "whole"}]
       /\ result' \in [Demos -> [counts : [Logs -> Int], checkpoint : BOOLEAN,
                                 first : {"", "failed"}, second : {"", "passed"}]]
  BY <1>3, Zenon DEF RealInv, RealTypeOK
<1> QED BY <1>3, <1>6, <1>10, <1>11, <1>12, StepKept, Zenon

\* The workers only add to the logs.
LEMMA WorkersKept ==
    ASSUME RealInv, req' = req, board' = board, files' = files, result' = result,
           count' \in Counts, \A f \in Logs : count[f] <= count'[f]
    PROVE  RealInv'
<1>1. RealTypeOK'
  BY Zenon DEF RealInv, RealTypeOK
<1>2. ASSUME NEW d \in Demos PROVE RequestOK(d)'
  BY OthersKept, Zenon
<1> QED BY <1>1, <1>2 DEF RealInv

\* A syscall of a worker.
LEMMA WorkerCallKept ==
    ASSUME RealInv, NEW tool \in BOOLEAN, WorkerCall(tool)
    PROVE  RealInv'
<1>1. PICK t \in Nat : t = IF tool THEN 1 ELSE 0
  OBVIOUS
<1>2. /\ count' = [count EXCEPT !.calls = @ + 1, !.tools = @ + t]
      /\ UNCHANGED <<req, board, files, result>>
  BY <1>1 DEF WorkerCall
<1>3. count \in Counts
  BY DEF RealInv, RealTypeOK
<1>4. Logs = {"calls", "tools", "decisions", "messages", "faults"}
  BY DEF Logs, NoCounts
<1>5. count' \in Counts /\ \A f \in Logs : count[f] <= count'[f]
  <2>1. ASSUME NEW c \in Counts, NEW g \in Logs, NEW v \in Nat
        PROVE  /\ [c EXCEPT ![g] = @ + v] \in Counts
               /\ \A f \in Logs : c[f] \in Nat /\ c[f] <= [c EXCEPT ![g] = @ + v][f]
    BY DEF Counts
  <2>2. "calls" \in Logs /\ "tools" \in Logs
    BY <1>4
  <2>3. PICK c \in Counts : c = [count EXCEPT !["calls"] = @ + 1]
    BY <1>3, <2>1, <2>2
  <2>4. \A f \in Logs : count[f] \in Nat /\ count[f] <= c[f]
    BY <1>3, <2>1, <2>2, <2>3
  <2>5. PICK e \in Counts : e = [c EXCEPT !["tools"] = @ + t]
    BY <2>1, <2>2
  <2>6. \A f \in Logs : c[f] \in Nat /\ c[f] <= e[f] /\ e[f] \in Nat
    BY <2>1, <2>2, <2>5
  <2>7. count' = e
    BY <1>2, <2>3, <2>5, Zenon
  <2>8. ASSUME NEW f \in Logs PROVE count[f] <= e[f]
    BY <2>4, <2>6
  <2> QED BY <2>7, <2>8
<1> QED BY <1>2, <1>5, WorkersKept

\* Before any request.
LEMMA RealInitially == Init => RealInv
<1> SUFFICES ASSUME Init PROVE RealInv
  OBVIOUS
<1>1. NoCounts \in Counts
  BY DEF NoCounts, Counts, Logs
<1>2. NewRequest \in Runs /\ NewRequest.phase = "idle" /\ NewRequest.todo = <<>>
  <2>1. <<>> \in Seq(DemoSteps) /\ {} \in SUBSET Demos
    OBVIOUS
  <2> QED BY <1>1, <2>1 DEF NewRequest, Runs
<1>3. NoResult \in [counts : [Logs -> Int], checkpoint : BOOLEAN,
                    first : {"", "failed"}, second : {"", "passed"}]
  <2>1. NoCounts \in [Logs -> Int]
    BY DEF NoCounts, Logs
  <2> QED BY <2>1 DEF NoResult
<1>4. RealTypeOK
  BY <1>1, <1>2, <1>3 DEF Init, RealTypeOK
<1>5. ASSUME NEW d \in Demos PROVE RequestOK(d)
  <2>1. req[d] = NewRequest
    BY DEF Init
  <2>2. Len(req[d].todo) = 0
    BY <1>2, <2>1
  <2>3. OnProgram(req[d])
    BY <1>2, <2>1, <2>2 DEF OnProgram
  <2> QED BY <1>2, <2>1, <2>3 DEF RequestOK, Reported
<1> QED BY <1>4, <1>5 DEF RealInv

\* Every running request stands at a position of its program, with what the
\* steps before it settled (runSoftwareRealDemo).
THEOREM RealInvariant == RSpec => []RealInv
<1>1. ASSUME RealInv, [RNext]_rvars PROVE RealInv'
  <2>1. ASSUME NEW d \in Demos, Seed(d) PROVE RealInv'
    <3>1. /\ At(d, "seed") /\ (Goon(d, req[d]) \/ Fail(d))
          /\ UNCHANGED <<count, board, files, result>>
      BY <2>1 DEF Seed
    <3>2. CASE Goon(d, req[d])
      BY <1>1, <3>1, <3>2, QuietStep
    <3>3. CASE Fail(d)
      <4>1. count' \in Counts /\ \A f \in Logs : count[f] <= count'[f]
        BY <1>1, <3>1, SameLogs
      <4>2. board \subseteq board' /\ board' \subseteq Demos
        BY <1>1, <3>1 DEF RealInv, RealTypeOK
      <4> QED BY <1>1, <3>1, <3>3, <4>1, <4>2, FailStep
    <3> QED BY <3>1, <3>2, <3>3
  <2>2. ASSUME NEW d \in Demos, Wait(d) PROVE RealInv'
    <3>1. /\ At(d, "wait") /\ (Goon(d, req[d]) \/ Fail(d))
          /\ UNCHANGED <<count, board, files, result>>
      BY <2>2 DEF Wait, waitForSoftwareRealCapsule
    <3>2. CASE Goon(d, req[d])
      BY <1>1, <3>1, <3>2, QuietStep
    <3>3. CASE Fail(d)
      <4>1. count' \in Counts /\ \A f \in Logs : count[f] <= count'[f]
        BY <1>1, <3>1, SameLogs
      <4>2. board \subseteq board' /\ board' \subseteq Demos
        BY <1>1, <3>1 DEF RealInv, RealTypeOK
      <4> QED BY <1>1, <3>1, <3>3, <4>1, <4>2, FailStep
    <3> QED BY <3>1, <3>2, <3>3
  <2>3. ASSUME NEW d \in Demos, DriverStep(d) PROVE RealInv'
    BY <1>1, <2>1, <2>2, <2>3, BaselineKept, ScheduleKept, SyscallKept, SaveKept, EvidenceKept,
       ResultKept DEF DriverStep
  <2>4. ASSUME NEW d \in Demos, Register(d) PROVE RealInv'
    <3>1. UNCHANGED <<req, count, board, files, result>>
      BY <2>4 DEF Register
    <3>2. count' \in Counts /\ \A f \in Logs : count[f] <= count'[f]
      BY <1>1, <3>1, SameLogs
    <3> QED BY <1>1, <3>1, <3>2, WorkersKept
  <2>5. CASE UNCHANGED rvars
    <3>1. UNCHANGED <<req, count, board, files, result>>
      BY <2>5 DEF rvars
    <3>2. count' \in Counts /\ \A f \in Logs : count[f] <= count'[f]
      BY <1>1, <3>1, SameLogs
    <3> QED BY <1>1, <3>1, <3>2, WorkersKept
  <2> QED BY <1>1, <2>3, <2>4, <2>5, BeginKept, WorkerCallKept DEF RNext
<1> QED BY <1>1, RealInitially, PTL DEF RSpec

\* What a run that is reported as a success claims of itself is so, whatever
\* other requests and the workers do between its steps (runSoftwareRealDemo).
THEOREM RealResultHonest == RSpec => []ResultHonest
<1>1. RealInv => ResultHonest
  <2> SUFFICES ASSUME RealInv, NEW d \in Demos, req[d].phase = "done"
               PROVE  /\ result[d].second = "passed"
                      /\ req[d].own.faults = 1
                      /\ d \in req[d].polled
                      /\ \A f \in {"calls", "tools", "decisions", "messages"} :
                            result[d].counts[f] >= req[d].own[f]
                      /\ result[d].checkpoint => files[d] = "whole"
    BY Zenon DEF ResultHonest
  <2>1. /\ OnProgram(req[d]) /\ Settled(d, req[d]) /\ Reported(d)
    BY DEF RealInv, RequestOK
  <2>2. Position(req[d]) = 31
    <3>1. req[d].todo = <<>>
      BY <2>1 DEF OnProgram
    <3>2. Len(<<>>) = 0 /\ 31 - 0 = 31
      OBVIOUS
    <3> QED BY <3>1, <3>2, Zenon DEF Position
  <2>3. 31 > 19 /\ 31 > 24
    OBVIOUS
  <2>4. req[d].own["faults"] = 1 /\ d \in req[d].polled /\ (req[d].checkpoint => files[d] = "whole")
    BY <2>1, <2>2, <2>3, Zenon DEF Settled
  <2>5. {"calls", "tools", "decisions", "messages"} \subseteq Logs
    BY DEF Logs, NoCounts
  <2> QED BY <2>1, <2>4, <2>5, Zenon DEF Reported
<1> QED BY <1>1, RealInvariant, PTL
=============================================================================
