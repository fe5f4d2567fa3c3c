--------------------------- MODULE SyscallProofs ---------------------------
(***************************************************************************)
(* Proofs about two services behind the syscalls that have no state in     *)
(* common: the blackboard, for any topics, subscribers, messages and depth *)
(* (ipc.publish, ipc.poll), and agent.spawn, for any agents and callers.   *)
(***************************************************************************)
EXTENDS Blackboard, Spawn, SequenceTheorems, TLAPS

(***************************************************************************)
(* The blackboard.  The inductive invariant says that a subscriber's       *)
(* history is the part of the log its offset has passed; without it the    *)
(* refinement fails at Poll, which must append exactly the rest of the log *)
(* to that history.                                                        *)
(***************************************************************************)

\* The history of a subscriber is the log up to its offset.
InboxIsReadPart ==
    \A t \in Topics, s \in Subscribers :
        inbox[t][s] = SubSeq(topics[t], 1, offsets[t][s])

IInv == TypeOK /\ InboxIsReadPart

\* Splitting a log at any point and joining the two parts gives it back.
LEMMA SplitJoin ==
    ASSUME NEW S, NEW q \in Seq(S), NEW n \in Nat, n <= Len(q)
    PROVE  /\ SubSeq(q, 1, n) \in Seq(S)
           /\ SubSeq(q, n + 1, Len(q)) \in Seq(S)
           /\ SubSeq(q, 1, n) \o SubSeq(q, n + 1, Len(q)) = q
           /\ SubSeq(q, 1, Len(q)) = q
<1>1. Len(q) \in Nat /\ \A i \in 1..Len(q) : q[i] \in S
  OBVIOUS
<1>2. SubSeq(q, 1, n) \in Seq(S)
  BY <1>1
<1>3. SubSeq(q, n + 1, Len(q)) \in Seq(S)
  <2>1. \A i \in (n + 1)..Len(q) : q[i] \in S
    BY <1>1
  <2> QED BY <2>1, <1>1, SubSeqProperties
<1>4. SubSeq(q, 1, Len(q)) = q
  BY SubSeqFull
<1>5. SubSeq(q, 1, n) \o SubSeq(q, n + 1, Len(q)) = SubSeq(q, 1, Len(q))
  <2>1. /\ 1 \in 1..(Len(q) + 1)
        /\ n \in (1 - 1)..Len(q)
        /\ Len(q) \in n..Len(q)
    BY <1>1
  <2> QED BY <2>1, ConcatAdjacentSubSeq
<1> QED BY <1>2, <1>3, <1>4, <1>5

\* Appending to a log leaves the part already read alone and adds to the
\* part not read yet.
LEMMA AppendUnread ==
    ASSUME NEW S, NEW q \in Seq(S), NEW m \in S, NEW n \in Nat, n <= Len(q)
    PROVE  /\ SubSeq(Append(q, m), 1, n) = SubSeq(q, 1, n)
           /\ SubSeq(Append(q, m), n + 1, Len(Append(q, m)))
                 = Append(SubSeq(q, n + 1, Len(q)), m)
<1> DEFINE p == Append(q, m)
           u == SubSeq(p, n + 1, Len(p))
           v == Append(SubSeq(q, n + 1, Len(q)), m)
<1>1. p \in Seq(S) /\ Len(p) = Len(q) + 1 /\ p[Len(q) + 1] = m
      /\ \A i \in 1..Len(q) : p[i] = q[i]
  OBVIOUS
<1>2. SubSeq(p, 1, n) = SubSeq(q, 1, n)
  BY <1>1
<1>3. u \in Seq(S) /\ Len(u) = Len(q) + 1 - n
      /\ \A i \in 1..(Len(q) + 1 - n) : u[i] = p[n + i]
  BY <1>1
<1>4. v \in Seq(S) /\ Len(v) = Len(q) + 1 - n /\ v[Len(q) + 1 - n] = m
      /\ \A i \in 1..(Len(q) - n) : v[i] = q[n + i]
  OBVIOUS
<1>5. ASSUME NEW i \in 1..Len(u) PROVE u[i] = v[i]
  <2>1. CASE i = Len(q) + 1 - n
    BY <2>1, <1>1, <1>3, <1>4
  <2>2. CASE i \in 1..(Len(q) - n)
    BY <2>2, <1>1, <1>3, <1>4
  <2> QED BY <2>1, <2>2, <1>3
<1>6. u = v
  BY <1>3, <1>4, <1>5, SeqEqual
<1> QED BY <1>2, <1>6

\* Publish keeps the invariant.
LEMMA PublishIInv ==
    ASSUME IInv, NEW t \in Topics, NEW m \in Messages, Publish(t, m)
    PROVE  IInv'
<1>1. topics' \in [Topics -> Seq(Messages)] /\ UNCHANGED <<offsets, inbox>>
      /\ topics'[t] = Append(topics[t], m)
      /\ \A u \in Topics : u # t => topics'[u] = topics[u]
  BY DEF IInv, TypeOK, Publish
<1>2. ASSUME NEW u \in Topics, NEW s \in Subscribers
      PROVE  /\ (offsets[u][s] <= Len(topics[u]))'
             /\ (inbox[u][s] = SubSeq(topics[u], 1, offsets[u][s]))'
  <2>1. offsets[u][s] \in Nat /\ offsets[u][s] <= Len(topics[u]) /\ topics[u] \in Seq(Messages)
        /\ inbox[u][s] = SubSeq(topics[u], 1, offsets[u][s])
    BY DEF IInv, TypeOK, InboxIsReadPart
  <2>2. CASE u = t
    <3>1. SubSeq(Append(topics[u], m), 1, offsets[u][s]) = SubSeq(topics[u], 1, offsets[u][s])
      BY <2>1, AppendUnread
    <3>2. Len(Append(topics[u], m)) = Len(topics[u]) + 1
      BY <2>1
    <3> QED BY <3>1, <3>2, <2>1, <2>2, <1>1
  <2>3. CASE u # t
    BY <2>3, <2>1, <1>1
  <2> QED BY <2>2, <2>3
<1> QED BY <1>1, <1>2 DEF IInv, TypeOK, InboxIsReadPart

\* What Poll returns is what waits for the subscriber, and with it the
\* subscriber has the whole log.
LEMMA DeliveredIsRest ==
    ASSUME IInv, NEW t \in Topics, NEW s \in Subscribers
    PROVE  /\ Delivered(t, s) = waitingBar[t][s]
           /\ Delivered(t, s) \in Seq(Messages)
           /\ inbox[t][s] \o Delivered(t, s) = topics[t]
<1>1. /\ topics[t] \in Seq(Messages) /\ offsets[t][s] \in Nat
      /\ offsets[t][s] <= Len(topics[t])
      /\ inbox[t][s] = SubSeq(topics[t], 1, offsets[t][s])
  BY DEF IInv, TypeOK, InboxIsReadPart
<1>2. Start(t, s) = offsets[t][s]
  BY <1>1 DEF Start
<1> QED BY <1>1, <1>2, SplitJoin DEF Delivered, waitingBar

\* Poll keeps the invariant.
LEMMA PollIInv ==
    ASSUME IInv, NEW t \in Topics, NEW s \in Subscribers, Poll(t, s)
    PROVE  IInv'
<1>1. /\ topics \in [Topics -> Seq(Messages)]
      /\ offsets \in [Topics -> [Subscribers -> Nat]]
      /\ inbox \in [Topics -> [Subscribers -> Seq(Messages)]]
  BY DEF IInv, TypeOK
<1>2. inbox[t][s] \o Delivered(t, s) = topics[t]
  BY DeliveredIsRest
<1>3. topics' = topics /\ Len(topics[t]) \in Nat /\ topics[t] \in Seq(Messages)
  BY <1>1 DEF Poll
<1>4. inbox' = [inbox EXCEPT ![t][s] = topics[t]]
  BY <1>2 DEF Poll
<1>5. offsets' = [offsets EXCEPT ![t][s] = Len(topics[t])]
  BY DEF Poll
<1>6. TypeOK'
  <2>1. inbox' \in [Topics -> [Subscribers -> Seq(Messages)]]
    BY <1>1, <1>3, <1>4
  <2>2. offsets' \in [Topics -> [Subscribers -> Nat]]
    BY <1>1, <1>3, <1>5
  <2>3. ASSUME NEW u \in Topics, NEW r \in Subscribers
        PROVE  (offsets[u][r] <= Len(topics[u]))'
    <3>1. offsets[u][r] <= Len(topics[u])
      BY DEF IInv, TypeOK
    <3> QED BY <3>1, <1>1, <1>3, <1>5
  <2> QED BY <2>1, <2>2, <2>3, <1>1, <1>3 DEF TypeOK
<1>7. ASSUME NEW u \in Topics, NEW r \in Subscribers
      PROVE  (inbox[u][r] = SubSeq(topics[u], 1, offsets[u][r]))'
  <2>1. CASE u = t /\ r = s
    <3>1. SubSeq(topics[t], 1, Len(topics[t])) = topics[t]
      BY <1>3, SplitJoin
    <3>2. inbox'[u][r] = topics[t] /\ offsets'[u][r] = Len(topics[t])
      BY <2>1, <1>1, <1>4, <1>5
    <3> QED BY <3>1, <3>2, <2>1, <1>3
  <2>2. CASE ~(u = t /\ r = s)
    <3>1. inbox'[u][r] = inbox[u][r] /\ offsets'[u][r] = offsets[u][r]
      BY <2>2, <1>1, <1>4, <1>5
    <3> QED BY <3>1, <1>3 DEF IInv, InboxIsReadPart
  <2> QED BY <2>1, <2>2
<1> QED BY <1>6, <1>7 DEF IInv, InboxIsReadPart

-----------------------------------------------------------------------------
\* In every reachable state of the blackboard the offsets lie within their
\* logs and a subscriber has been handed exactly the log up to its offset.
THEOREM BlackboardInvariant == Spec => []IInv
<1>1. Init => IInv
  <2> SUFFICES ASSUME Init PROVE IInv
    OBVIOUS
  <2>1. TypeOK
    BY DEF Init, TypeOK
  <2>2. \A t \in Topics, s \in Subscribers : inbox[t][s] = <<>> /\ offsets[t][s] = 0
                                             /\ topics[t] = <<>>
    BY DEF Init
  <2>3. SubSeq(<<>>, 1, 0) = <<>>
    OBVIOUS
  <2> QED BY <2>1, <2>2, <2>3 DEF IInv, InboxIsReadPart
<1>2. IInv /\ [Next]_vars => IInv'
  <2> SUFFICES ASSUME IInv, [Next]_vars PROVE IInv'
    OBVIOUS
  <2>1. CASE \E t \in Topics, m \in Messages : Publish(t, m)
    BY <2>1, PublishIInv
  <2>2. CASE \E t \in Topics, s \in Subscribers : Poll(t, s)
    BY <2>2, PollIInv
  <2>3. CASE UNCHANGED vars
    BY <2>3 DEF vars, IInv, TypeOK, InboxIsReadPart
  <2> QED BY <2>1, <2>2, <2>3 DEF Next
<1> QED BY <1>1, <1>2, PTL DEF Spec

\* Publish and Poll keep the blackboard's type, and no offset passes the end
\* of its log, for any number of topics, subscribers and messages.
THEOREM BlackboardTypeOK == Spec => []TypeOK
<1>1. IInv => TypeOK
  BY DEF IInv
<1> QED BY <1>1, BlackboardInvariant, PTL

\* Two subscribers never disagree on a message both have been handed.
THEOREM BlackboardSubscribersAgree == Spec => []SubscribersAgree
<1>1. IInv => SubscribersAgree
  <2> SUFFICES ASSUME IInv, NEW t \in Topics, NEW r \in Subscribers, NEW s \in Subscribers,
                      NEW i \in DOMAIN inbox[t][r] \cap DOMAIN inbox[t][s]
               PROVE  inbox[t][r][i] = inbox[t][s][i]
    BY DEF SubscribersAgree
  <2>1. ASSUME NEW u \in Subscribers, i \in DOMAIN inbox[t][u]
        PROVE  inbox[t][u][i] = topics[t][i]
    <3>1. topics[t] \in Seq(Messages) /\ offsets[t][u] \in Nat
          /\ offsets[t][u] <= Len(topics[t])
          /\ inbox[t][u] = SubSeq(topics[t], 1, offsets[t][u])
      BY DEF IInv, TypeOK, InboxIsReadPart
    <3> QED BY <3>1, <2>1
  <2> QED BY <2>1
<1> QED BY <1>1, BlackboardInvariant, PTL

\* The log with its offsets implements one queue per subscriber: every
\* message is handed to every subscriber once, in publication order.
THEOREM BlackboardImplementsDelivery == Spec => ImplementsDelivery
<1>1. Init => D!Init
  <2> SUFFICES ASSUME Init PROVE D!Init
    OBVIOUS
  <2>1. SubSeq(<<>>, 0 + 1, Len(<<>>)) = <<>>
    OBVIOUS
  <2>2. \A t \in Topics, s \in Subscribers :
            SubSeq(topics[t], offsets[t][s] + 1, Len(topics[t])) = <<>>
    BY <2>1 DEF Init
  <2>3. waitingBar = [t \in Topics |-> [s \in Subscribers |-> <<>>]]
    BY <2>2 DEF waitingBar
  <2> QED BY <2>3 DEF Init, D!Init
<1>2. IInv /\ IInv' /\ [Next]_vars => [D!Next]_(D!vars)
  <2> SUFFICES ASSUME IInv, IInv', [Next]_vars PROVE [D!Next]_(D!vars)
    OBVIOUS
  <2> DEFINE W == [t \in Topics |-> [s \in Subscribers |->
                     SubSeq(topics'[t], offsets'[t][s] + 1, Len(topics'[t]))]]
  <2>0. waitingBar' = W
    BY DEF waitingBar
  <2>a. /\ W = [u \in Topics |-> [r \in Subscribers |-> W[u][r]]]
        /\ waitingBar = [u \in Topics |-> [r \in Subscribers |-> waitingBar[u][r]]]
    BY DEF waitingBar
  <2>b. ASSUME NEW u \in Topics, NEW r \in Subscribers
        PROVE  /\ W[u][r] = SubSeq(topics'[u], offsets'[u][r] + 1, Len(topics'[u]))
               /\ waitingBar[u][r] = SubSeq(topics[u], offsets[u][r] + 1, Len(topics[u]))
               /\ topics[u] \in Seq(Messages)
               /\ offsets[u][r] \in Nat
               /\ offsets[u][r] <= Len(topics[u])
    BY DEF waitingBar, IInv, TypeOK
  <2> HIDE DEF W
  <2>1. ASSUME NEW t \in Topics, NEW m \in Messages, Publish(t, m)
        PROVE  D!Publish(t, m)
    <3>1. /\ UNCHANGED <<offsets, inbox>>
          /\ topics'[t] = Append(topics[t], m)
          /\ \A u \in Topics : u # t => topics'[u] = topics[u]
      BY <2>1 DEF Publish, IInv, TypeOK
    <3>2. ASSUME NEW s \in Subscribers PROVE W[t][s] = Append(waitingBar[t][s], m)
      <4>1. SubSeq(Append(topics[t], m), offsets[t][s] + 1, Len(Append(topics[t], m)))
               = Append(SubSeq(topics[t], offsets[t][s] + 1, Len(topics[t])), m)
        BY <2>b, AppendUnread
      <4>2. W[t][s] = SubSeq(Append(topics[t], m), offsets[t][s] + 1, Len(Append(topics[t], m)))
        BY <2>b, <3>1
      <4> QED BY <4>1, <4>2, <2>b
    <3>3. ASSUME NEW u \in Topics, u # t, NEW s \in Subscribers
          PROVE  W[u][s] = waitingBar[u][s]
      BY <2>b, <3>1, <3>3
    <3>4. W = [waitingBar EXCEPT ![t] = [s \in Subscribers |-> Append(@[s], m)]]
      <4> DEFINE E == [waitingBar EXCEPT ![t] = [s \in Subscribers |-> Append(@[s], m)]]
      <4>1. E = [u \in Topics |-> IF u = t THEN [s \in Subscribers |-> Append(waitingBar[t][s], m)]
                                            ELSE waitingBar[u]]
        BY DEF waitingBar
      <4>2. ASSUME NEW u \in Topics PROVE [r \in Subscribers |-> W[u][r]] = E[u]
        <5>1. CASE u = t
          BY <5>1, <4>1, <3>2
        <5>2. CASE u # t
          BY <5>2, <4>1, <3>3 DEF waitingBar
        <5> QED BY <5>1, <5>2
      <4> HIDE DEF E
      <4>3. W = E
        BY <2>a, <4>1, <4>2
      <4> QED BY <4>3 DEF E
    <3> QED BY <3>1, <3>4, <2>0 DEF D!Publish
  <2>2. ASSUME NEW t \in Topics, NEW s \in Subscribers, Poll(t, s)
        PROVE  D!Poll(t, s)
    <3>1. /\ topics' = topics
          /\ offsets'[t][s] = Len(topics[t])
          /\ \A u \in Topics, r \in Subscribers :
                ~(u = t /\ r = s) => offsets'[u][r] = offsets[u][r]
          /\ inbox' = [inbox EXCEPT ![t][s] = @ \o Delivered(t, s)]
      BY <2>2 DEF Poll, IInv, TypeOK
    <3>2. inbox' = [inbox EXCEPT ![t][s] = @ \o waitingBar[t][s]]
      BY <3>1, DeliveredIsRest
    <3>3. W[t][s] = <<>>
      <4>1. Len(topics[t]) \in Nat
        BY <2>b
      <4>2. SubSeq(topics[t], Len(topics[t]) + 1, Len(topics[t])) = <<>>
        BY <4>1, SubSeqEmpty
      <4> QED BY <4>2, <3>1, <2>b
    <3>4. ASSUME NEW u \in Topics, NEW r \in Subscribers, ~(u = t /\ r = s)
          PROVE  W[u][r] = waitingBar[u][r]
      <4>1. offsets'[u][r] = offsets[u][r] /\ topics'[u] = topics[u]
        BY <3>1, <3>4
      <4>2. /\ W[u][r] = SubSeq(topics'[u], offsets'[u][r] + 1, Len(topics'[u]))
            /\ waitingBar[u][r] = SubSeq(topics[u], offsets[u][r] + 1, Len(topics[u]))
        BY <2>b
      <4> QED BY <4>1, <4>2, Zenon
    <3>5. W = [waitingBar EXCEPT ![t][s] = <<>>]
      BY <2>a, <3>3, <3>4
    <3> QED BY <3>2, <3>5, <2>0 DEF D!Poll
  <2>3. CASE UNCHANGED vars
    BY <2>3 DEF vars, waitingBar, D!vars
  <2> QED BY <2>1, <2>2, <2>3 DEF Next, D!Next
<1> QED BY <1>1, <1>2, BlackboardInvariant, PTL DEF Spec, ImplementsDelivery, D!Spec

-----------------------------------------------------------------------------
(***************************************************************************)
(* agent.spawn.  Whoever looks up an agent that is there does not create   *)
(* it, so the agents that are there and that nobody missed stay that way,  *)
(* and every other operation keeps the PID of the record it stores.  And   *)
(* the demo stores its list before any spawn can add to it.                *)
(***************************************************************************)
Goroutines == Callers \cup {Demo}

Records == [agentID : BOOLEAN, state : States \cup {""}, pid : BOOLEAN,
            silence : (0..(Timeout + 1)) \cup {Never}]

SpawnTypeOK ==
    /\ agents = [a \in DOMAIN agents |-> agents[a]]
    /\ \A a \in DOMAIN agents : agents[a] \in Records
    /\ demo \in {"idle", "create", "evidence", "spawning", "launched", "stored", "failed"}
    /\ made \in Nat
    /\ demo = "create" => made < Len(Specs)
    /\ task = NoTask \/ task \in Seq(Agents)
    /\ call \in [Goroutines -> [step : {"idle", "lookup", "create", "workspace", "list"},
                                id : Agents]]

\* The demo creates nothing before it begins, and all before it goes on.
MadeOK == demo = "idle" => made = 0

\* Before the demo stores its task the server has none.
StoredOnce == demo # "stored" => task = NoTask

SpawnInv ==
    /\ SpawnTypeOK
    /\ MadeOK
    /\ StoredOnce

\* What SpawnUndoesNothing says of a step.
KeptPid == \A a \in Agents : Settled(a) => (agents[a].pid => agents'[a].pid)
StaySettled == \A a \in Agents : Settled(a) => Settled(a)'
Undone ==
    /\ \A a \in Agents : Settled(a) => Settled(a)' /\ (agents[a].pid => agents'[a].pid)
    /\ task # NoTask => IsPrefix(task, task')

\* The records an operation of the registry can put.
LEMMA RecordsTyped ==
    /\ Fresh \in Records /\ Zero \in Records
    /\ \A r \in Records : /\ [r EXCEPT !.pid = TRUE, !.state = "RUNNING", !.silence = 0] \in Records
                          /\ [r EXCEPT !.pid = TRUE, !.silence = 0] \in Records
                          /\ [r EXCEPT !.state = "COMPLETED", !.silence = 0] \in Records
<1>1. PICK Silences : Silences = (0..(Timeout + 1)) \cup {Never}
  OBVIOUS
<1>2. 0 \in Silences /\ Never \in Silences
  BY <1>1, RegistryAssumption
<1>3. Records = [agentID : BOOLEAN, state : States \cup {""}, pid : BOOLEAN, silence : Silences]
  BY <1>1 DEF Records
<1>4. Fresh \in Records /\ Zero \in Records
  BY <1>2, <1>3 DEF Fresh, Zero, States
<1>5. ASSUME NEW r \in Records
      PROVE  /\ [r EXCEPT !.pid = TRUE, !.state = "RUNNING", !.silence = 0] \in Records
             /\ [r EXCEPT !.pid = TRUE, !.silence = 0] \in Records
             /\ [r EXCEPT !.state = "COMPLETED", !.silence = 0] \in Records
  BY <1>2, <1>3 DEF States
<1> QED BY <1>4, <1>5

\* A step that stores the record of one agent, with the pid it had if the agent
\* is settled.
LEMMA PutStep ==
    ASSUME SpawnInv, NEW a \in Agents, NEW r \in Records, agents' = Put(agents, a, r),
           Settled(a) => (agents[a].pid => r.pid)
    PROVE  /\ agents' = [b \in DOMAIN agents' |-> agents'[b]]
           /\ \A b \in DOMAIN agents' : agents'[b] \in Records
           /\ DOMAIN agents \subseteq DOMAIN agents'
           /\ KeptPid
<1>1. /\ DOMAIN agents' = DOMAIN agents \cup {a}
      /\ \A b \in DOMAIN agents' : agents'[b] = IF b = a THEN r ELSE agents[b]
      /\ agents' = [b \in DOMAIN agents' |-> agents'[b]]
  BY DEF Put
<1>2. \A b \in DOMAIN agents' : agents'[b] \in Records
  BY <1>1 DEF SpawnInv, SpawnTypeOK
<1>3. KeptPid
  BY <1>1 DEF KeptPid, Settled
<1> QED BY <1>1, <1>2, <1>3

\* An agent stays settled while no agent disappears, the demo does not go back
\* and whoever comes to create an agent has not found it.
LEMMA SettledStays ==
    ASSUME SpawnInv, DOMAIN agents \subseteq DOMAIN agents', made' \in Nat, made <= made',
           \A k \in Goroutines : call'[k].step = "create" =>
               \/ call[k].step = "create" /\ call'[k].id = call[k].id
               \/ call'[k].id \notin DOMAIN agents
    PROVE  StaySettled
<1>1. Due' \subseteq Due
  <2>1. made \in Nat /\ Len(Specs) \in Nat
    BY SpawnAssumption DEF SpawnInv, SpawnTypeOK
  <2>2. (made' + 1)..Len(Specs) \subseteq (made + 1)..Len(Specs)
    BY <2>1
  <2> QED BY <2>2 DEF Due
<1>2. ASSUME NEW b \in DOMAIN agents, b \in Missed' PROVE b \in Missed
  <2>1. PICK k \in Goroutines : call'[k].step = "create" /\ b = call'[k].id
    BY <1>2 DEF Missed, At, Goroutines
  <2>2. call[k].step = "create" /\ b = call[k].id
    BY <1>2, <2>1
  <2> QED BY <2>2 DEF Missed, At, Goroutines
<1> QED BY <1>1, <1>2 DEF StaySettled, Settled

\* A list is a beginning of itself and of what is appended to it.
LEMMA PrefixAppend ==
    ASSUME NEW q \in Seq(Agents), NEW e \in Agents
    PROVE  IsPrefix(q, q) /\ IsPrefix(q, Append(q, e))
<1>1. Len(q) \in Nat /\ Append(q, e) \in Seq(Agents) /\ Len(Append(q, e)) = Len(q) + 1
      /\ \A i \in 1..Len(q) : Append(q, e)[i] = q[i]
  OBVIOUS
<1>2. /\ SubSeq(q, 1, Len(q)) \in Seq(Agents) /\ SubSeq(Append(q, e), 1, Len(q)) \in Seq(Agents)
      /\ Len(SubSeq(q, 1, Len(q))) = Len(q) /\ Len(SubSeq(Append(q, e), 1, Len(q))) = Len(q)
      /\ \A i \in 1..Len(q) : SubSeq(q, 1, Len(q))[i] = SubSeq(Append(q, e), 1, Len(q))[i]
  BY <1>1
<1>3. SubSeq(q, 1, Len(q)) = SubSeq(Append(q, e), 1, Len(q))
  BY <1>2, SeqEqual
<1> QED BY <1>1, <1>3 DEF IsPrefix

\* The task stays, or is none yet.
LEMMA TaskStays ==
    ASSUME SpawnInv, task' = task
    PROVE  task # NoTask => IsPrefix(task, task')
BY PrefixAppend, SpawnAssumption DEF SpawnInv, SpawnTypeOK, IsPrefix

\* What a step shows for the property.
LEMMA UndoneParts ==
    ASSUME KeptPid, StaySettled, task # NoTask => IsPrefix(task, task')
    PROVE  Undone
BY DEF KeptPid, StaySettled, Undone

\* A worker that asks for an agent changes nothing yet.
LEMMA WorkerSpawnsInv ==
    ASSUME SpawnInv, NEW k \in Callers, NEW id \in Agents, WorkerSpawns(k, id)
    PROVE  SpawnInv' /\ Undone
<1>1. /\ UNCHANGED <<agents, demo, made, task>> /\ k \in Goroutines
      /\ call' = [call EXCEPT ![k] = [step |-> "lookup", id |-> id]] /\ made \in Nat
  BY DEF WorkerSpawns, Enter, Goroutines, SpawnInv, SpawnTypeOK
<1>2. SpawnInv'
  BY <1>1 DEF SpawnInv, SpawnTypeOK, MadeOK, StoredOnce
<1>3. StaySettled
  BY <1>1, SettledStays DEF SpawnInv, SpawnTypeOK
<1>4. KeptPid
  BY <1>1 DEF KeptPid
<1> QED BY <1>1, <1>2, <1>3, <1>4, TaskStays, UndoneParts

\* A lookup that finds nothing goes on to create.
LEMMA LookupInv ==
    ASSUME SpawnInv, NEW k \in Goroutines, Lookup(k)
    PROVE  SpawnInv' /\ Undone
<1>1. /\ UNCHANGED <<agents, demo, made, task>> /\ made \in Nat
      /\ call' = [call EXCEPT ![k].step =
                    IF call[k].id \in DOMAIN agents THEN "workspace" ELSE "create"]
  BY DEF Lookup, Goto, SpawnInv, SpawnTypeOK
<1>2. SpawnInv'
  BY <1>1 DEF SpawnInv, SpawnTypeOK, MadeOK, StoredOnce
<1>3. StaySettled
  BY <1>1, SettledStays DEF SpawnInv, SpawnTypeOK
<1>4. KeptPid
  BY <1>1 DEF KeptPid
<1> QED BY <1>1, <1>2, <1>3, <1>4, TaskStays, UndoneParts

\* A record is created or overwritten: that of an agent the caller has missed.
LEMMA CreateInv ==
    ASSUME SpawnInv, NEW k \in Goroutines, Create(k)
    PROVE  SpawnInv' /\ Undone
<1>1. /\ UNCHANGED <<demo, made, task>> /\ call[k].step = "create" /\ made \in Nat
      /\ call' = [call EXCEPT ![k].step = "workspace"]
      /\ agents' = Put(agents, call[k].id, Fresh)
  BY DEF Create, At, Goto, CreateAgent, SpawnInv, SpawnTypeOK
<1>2. call[k].id \in Agents /\ ~Settled(call[k].id)
  BY <1>1 DEF SpawnInv, SpawnTypeOK, Settled, Missed, At, Goroutines
<1>3. /\ agents' = [b \in DOMAIN agents' |-> agents'[b]]
      /\ \A b \in DOMAIN agents' : agents'[b] \in Records
      /\ DOMAIN agents \subseteq DOMAIN agents' /\ KeptPid
  BY <1>1, <1>2, RecordsTyped, PutStep
<1>4. SpawnInv'
  BY <1>1, <1>3 DEF SpawnInv, SpawnTypeOK, MadeOK, StoredOnce
<1>5. StaySettled
  BY <1>1, <1>3, SettledStays DEF SpawnInv, SpawnTypeOK
<1> QED BY <1>1, <1>3, <1>4, <1>5, TaskStays, UndoneParts

\* Attaching a workspace, or failing to, keeps the PID of the record.
LEMMA WorkspaceInv ==
    ASSUME SpawnInv, NEW k \in Goroutines, Workspace(k)
    PROVE  SpawnInv' /\ Undone
<1>1. /\ UNCHANGED <<demo, made, task>> /\ made \in Nat
      /\ call' = [call EXCEPT ![k].step = "list"] /\ call[k].id \in Agents
      /\ agents' = Put(agents, call[k].id, Entry(call[k].id)) \/ UNCHANGED agents
  BY DEF Workspace, Goto, SetPath, SpawnInv, SpawnTypeOK
<1>2. /\ agents' = [b \in DOMAIN agents' |-> agents'[b]]
      /\ \A b \in DOMAIN agents' : agents'[b] \in Records
      /\ DOMAIN agents \subseteq DOMAIN agents' /\ KeptPid
  <2>1. CASE agents' = Put(agents, call[k].id, Entry(call[k].id))
    <3>1. Entry(call[k].id) \in Records
      BY RecordsTyped DEF SpawnInv, SpawnTypeOK, Entry
    <3>2. Settled(call[k].id) => (agents[call[k].id].pid => Entry(call[k].id).pid)
      BY DEF Settled, Entry
    <3> QED BY <1>1, <2>1, <3>1, <3>2, PutStep
  <2>2. CASE UNCHANGED agents
    BY <2>2 DEF SpawnInv, SpawnTypeOK, KeptPid
  <2> QED BY <1>1, <2>1, <2>2
<1>3. SpawnInv'
  BY <1>1, <1>2 DEF SpawnInv, SpawnTypeOK, MadeOK, StoredOnce
<1>4. StaySettled
  BY <1>1, <1>2, SettledStays DEF SpawnInv, SpawnTypeOK
<1> QED BY <1>1, <1>2, <1>3, <1>4, TaskStays, UndoneParts

\* The task lists the agent after those it already lists.
LEMMA ListInv ==
    ASSUME SpawnInv, NEW k \in Goroutines, List(k)
    PROVE  SpawnInv' /\ Undone
<1>1. /\ UNCHANGED <<agents, demo, made>> /\ call' = [call EXCEPT ![k].step = "idle"]
      /\ task' = IF task = NoTask THEN NoTask ELSE Append(task, call[k].id)
      /\ call[k].id \in Agents /\ made \in Nat
  BY DEF List, Goto, SpawnInv, SpawnTypeOK
<1>2. /\ task' = NoTask \/ task' \in Seq(Agents)
      /\ task # NoTask => IsPrefix(task, task')
      /\ task = NoTask => task' = NoTask
  <2>1. CASE task = NoTask
    BY <1>1, <2>1
  <2>2. CASE task # NoTask
    BY <1>1, <2>2, PrefixAppend DEF SpawnInv, SpawnTypeOK
  <2> QED BY <2>1, <2>2
<1>3. SpawnInv'
  BY <1>1, <1>2 DEF SpawnInv, SpawnTypeOK, MadeOK, StoredOnce
<1>4. StaySettled
  BY <1>1, SettledStays DEF SpawnInv, SpawnTypeOK
<1>5. KeptPid
  BY <1>1 DEF KeptPid
<1> QED BY <1>2, <1>3, <1>4, <1>5, UndoneParts

\* The demo's beginning, evidence, launch and store: the task is stored once.
LEMMA DemoStepsInv ==
    ASSUME SpawnInv, DemoBegin \/ DemoEvidence \/ DemoLaunch \/ DemoStore
    PROVE  SpawnInv' /\ Undone
<1>1. /\ UNCHANGED <<agents, made>> /\ Demo \in Goroutines /\ Fixer \in Agents /\ made \in Nat
      /\ call' = call \/ call' = [call EXCEPT ![Demo] = [step |-> "lookup", id |-> Fixer]]
  BY SpawnAssumption DEF DemoBegin, DemoEvidence, DemoLaunch, DemoStore, Enter, Goroutines,
     SpawnInv, SpawnTypeOK
<1>2. StaySettled
  BY <1>1, SettledStays DEF SpawnInv, SpawnTypeOK
<1>3. KeptPid
  BY <1>1 DEF KeptPid
<1>4. SpawnInv' /\ (task # NoTask => IsPrefix(task, task'))
  <2>1. CASE DemoBegin
    <3>1. 0 < Len(Specs)
      BY SpawnAssumption
    <3>2. SpawnInv'
      BY <1>1, <2>1, <3>1 DEF DemoBegin, SpawnInv, SpawnTypeOK, MadeOK, StoredOnce
    <3> QED BY <2>1, <3>2, TaskStays DEF DemoBegin
  <2>2. CASE DemoEvidence
    <3>1. SpawnInv'
      BY <1>1, <2>2 DEF DemoEvidence, Enter, SpawnInv, SpawnTypeOK, MadeOK, StoredOnce
    <3> QED BY <2>2, <3>1, TaskStays DEF DemoEvidence
  <2>3. CASE DemoLaunch
    <3>1. SpawnInv'
      BY <1>1, <2>3 DEF DemoLaunch, SpawnInv, SpawnTypeOK, MadeOK, StoredOnce
    <3> QED BY <2>3, <3>1, TaskStays DEF DemoLaunch
  <2>4. CASE DemoStore
    BY <1>1, <2>4, SpawnAssumption DEF DemoStore, SpawnInv, SpawnTypeOK, MadeOK, StoredOnce
  <2> QED BY <2>1, <2>2, <2>3, <2>4
<1> QED BY <1>2, <1>3, <1>4, UndoneParts

\* The demo creates the next of its agents, which is settled afterwards.
LEMMA DemoCreateInv ==
    ASSUME SpawnInv, DemoCreate
    PROVE  SpawnInv' /\ Undone
<1>1. /\ UNCHANGED <<task, call>> /\ demo = "create" /\ made' = made + 1 /\ made \in Nat
      /\ demo' = (IF made' = Len(Specs) THEN "evidence" ELSE "create") /\ made < Len(Specs)
      /\ agents' = Put(agents, Specs[made + 1], Fresh)
  BY DEF DemoCreate, CreateAgent, SpawnInv, SpawnTypeOK
<1>2. Specs \in Seq(Agents) /\ Len(Specs) \in Nat /\ made + 1 \in 1..Len(Specs)
  BY <1>1, SpawnAssumption
<1>3. Specs[made + 1] \in Agents /\ ~Settled(Specs[made + 1])
  <2>1. made + 1 \in (made + 1)..Len(Specs)
    BY <1>1, <1>2
  <2> QED BY <1>2, <2>1 DEF Settled, Due
<1>4. /\ agents' = [b \in DOMAIN agents' |-> agents'[b]]
      /\ \A b \in DOMAIN agents' : agents'[b] \in Records
      /\ DOMAIN agents \subseteq DOMAIN agents' /\ KeptPid
  BY <1>1, <1>3, RecordsTyped, PutStep
<1>5. SpawnInv'
  BY <1>1, <1>2, <1>4 DEF SpawnInv, SpawnTypeOK, MadeOK, StoredOnce
<1>6. StaySettled
  BY <1>1, <1>4, SettledStays
<1> QED BY <1>1, <1>4, <1>5, <1>6, TaskStays, UndoneParts

\* A worker's message takes no PID from a record.
LEMMA MessageInv ==
    ASSUME SpawnInv, NEW a \in Agents, Message(a)
    PROVE  SpawnInv' /\ Undone
<1>1. /\ UNCHANGED <<demo, made, task, call>> /\ made \in Nat
      /\ register(a) \/ heartbeat(a) \/ report(a, "COMPLETED")
  BY DEF Message, SpawnInv, SpawnTypeOK
<1>2. PICK m : m = agentForMessage(a)
  OBVIOUS
<1>3. m \in Records
  BY <1>2, RecordsTyped DEF SpawnInv, SpawnTypeOK, agentForMessage
<1>4. Settled(a) => m = agents[a]
  BY <1>2 DEF Settled, agentForMessage
<1>5. PICK r \in Records : agents' = Put(agents, a, r) /\ (m.pid => r.pid)
  <2>1. CASE register(a)
    <3>1. PICK r : r = [m EXCEPT !.pid = TRUE, !.state = "RUNNING", !.silence = 0]
      OBVIOUS
    <3>2. r \in Records /\ r.pid
      BY <1>3, <3>1, RecordsTyped DEF Records
    <3>3. agents' = Put(agents, a, r)
      BY <1>2, <2>1, <3>1 DEF register
    <3> QED BY <3>2, <3>3
  <2>2. CASE heartbeat(a)
    <3>1. PICK r : r = [m EXCEPT !.pid = TRUE, !.silence = 0]
      OBVIOUS
    <3>2. r \in Records /\ r.pid
      BY <1>3, <3>1, RecordsTyped DEF Records
    <3>3. agents' = Put(agents, a, r)
      BY <1>2, <2>2, <3>1 DEF heartbeat
    <3> QED BY <3>2, <3>3
  <2>3. CASE report(a, "COMPLETED")
    <3>1. PICK r : r = [m EXCEPT !.state = "COMPLETED", !.silence = 0]
      OBVIOUS
    <3>2. r \in Records /\ (m.pid => r.pid)
      BY <1>3, <3>1, RecordsTyped DEF Records
    <3>3. agents' = Put(agents, a, r)
      BY <1>2, <2>3, <3>1 DEF report
    <3> QED BY <3>2, <3>3
  <2> QED BY <1>1, <2>1, <2>2, <2>3
<1>6. /\ agents' = [b \in DOMAIN agents' |-> agents'[b]]
      /\ \A b \in DOMAIN agents' : agents'[b] \in Records
      /\ DOMAIN agents \subseteq DOMAIN agents' /\ KeptPid
  BY <1>4, <1>5, PutStep
<1>7. SpawnInv'
  BY <1>1, <1>6 DEF SpawnInv, SpawnTypeOK, MadeOK, StoredOnce
<1>8. StaySettled
  BY <1>1, <1>6, SettledStays
<1> QED BY <1>1, <1>6, <1>7, <1>8, TaskStays, UndoneParts

\* Every step keeps the invariant and undoes nothing.
LEMMA SpawnStep == SpawnInv /\ PNext => SpawnInv' /\ Undone
<1> SUFFICES ASSUME SpawnInv, PNext PROVE SpawnInv' /\ Undone
  OBVIOUS
<1> QED
  BY WorkerSpawnsInv, LookupInv, CreateInv, WorkspaceInv, ListInv, DemoCreateInv, DemoStepsInv,
     MessageInv DEF PNext, Goroutines

\* In every reachable state of the registry and the task the invariant holds.
THEOREM SpawnInvariant == PSpec => []SpawnInv
<1>1. PInit => SpawnInv
  BY SpawnAssumption DEF PInit, Idle, SpawnInv, SpawnTypeOK, MadeOK, StoredOnce, Goroutines
<1>2. SpawnInv /\ [PNext]_pvars => SpawnInv'
  <2>1. SpawnInv /\ UNCHANGED pvars => SpawnInv'
    BY DEF pvars, SpawnInv, SpawnTypeOK, MadeOK, StoredOnce
  <2> QED BY <2>1, SpawnStep
<1> QED BY <1>1, <1>2, PTL DEF PSpec

\* An agent that is there and that nobody has missed stays so, with its process,
\* whoever spawns its name, and no spawn and no demo overwrites what the task's
\* list has (spawnAgent, runDemo).
THEOREM SpawnUndoesNothingHolds == PSpec => SpawnUndoesNothing
<1>1. SpawnInv /\ [PNext]_pvars =>
        [/\ \A a \in Agents : Settled(a) => Settled(a)' /\ (agents[a].pid => agents'[a].pid)
         /\ task # NoTask => IsPrefix(task, task')]_pvars
  BY SpawnStep DEF Undone
<1> QED BY <1>1, SpawnInvariant, PTL DEF PSpec, SpawnUndoesNothing
=============================================================================
