----------------------------- MODULE Blackboard -----------------------------
(***************************************************************************)
(* The IPC blackboard of internal/ipc/blackboard.go: per topic a log that  *)
(* only grows, and per topic and subscriber the offset up to which the     *)
(* subscriber has read.  Publish and Poll hold the mutex for their whole   *)
(* body.  A message is abstracted to the page it refers to; the message    *)
(* and byte counters behind Metrics are statistics and are left out.       *)
(*                                                                         *)
(* An absent topic or offset reads as the empty log or as 0 in Go, so the  *)
(* model starts with all of them present.  inbox records what Poll has     *)
(* returned; the code keeps no such record.                                *)
(***************************************************************************)
EXTENDS Integers, Sequences

CONSTANTS
    Topics, Subscribers, Messages,
    MaxDepth    \* bound on the length of a topic's log

ASSUME BlackboardAssumption == MaxDepth \in Nat

VARIABLES
    topics,   \* Blackboard.topics
    offsets,  \* Blackboard.offsets
    inbox     \* history: what each subscriber was handed

vars == <<topics, offsets, inbox>>

Init ==
    /\ topics = [t \in Topics |-> <<>>]
    /\ offsets = [t \in Topics |-> [s \in Subscribers |-> 0]]
    /\ inbox = [t \in Topics |-> [s \in Subscribers |-> <<>>]]

Publish(t, m) ==
    /\ Len(topics[t]) < MaxDepth
    /\ topics' = [topics EXCEPT ![t] = Append(@, m)]
    /\ UNCHANGED <<offsets, inbox>>

\* Where Poll starts reading.
Start(t, s) ==
    IF offsets[t][s] > Len(topics[t]) THEN Len(topics[t]) ELSE offsets[t][s]

\* Fault: reads the last delivered message again.
DeliveredInclusive(t, s) ==
    SubSeq(topics[t], IF Start(t, s) = 0 THEN 1 ELSE Start(t, s), Len(topics[t]))

Delivered(t, s) == SubSeq(topics[t], Start(t, s) + 1, Len(topics[t]))

\* Fault: one offset per topic, shared by all its subscribers.
PollSharedOffset(t, s) ==
    /\ inbox' = [inbox EXCEPT ![t][s] = @ \o Delivered(t, s)]
    /\ offsets' = [offsets EXCEPT ![t] = [r \in Subscribers |-> Len(topics[t])]]
    /\ UNCHANGED topics

Poll(t, s) ==
    /\ inbox' = [inbox EXCEPT ![t][s] = @ \o Delivered(t, s)]
    /\ offsets' = [offsets EXCEPT ![t][s] = Len(topics[t])]
    /\ UNCHANGED topics

Next ==
    \/ \E t \in Topics, m \in Messages : Publish(t, m)
    \/ \E t \in Topics, s \in Subscribers : Poll(t, s)

Spec == Init /\ [][Next]_vars

-----------------------------------------------------------------------------
\* Type invariant of the blackboard; no offset is past the end of its log,
\* where Poll would skip the next message.
TypeOK ==
    /\ topics \in [Topics -> Seq(Messages)]
    /\ offsets \in [Topics -> [Subscribers -> Nat]]
    /\ \A t \in Topics, s \in Subscribers : offsets[t][s] <= Len(topics[t])
    /\ inbox \in [Topics -> [Subscribers -> Seq(Messages)]]

\* Any two subscribers of a topic have been handed the same messages in the
\* same order, as far as the slower of the two has read.
SubscribersAgree ==
    \A t \in Topics : \A r, s \in Subscribers :
        \A i \in DOMAIN inbox[t][r] \cap DOMAIN inbox[t][s] :
            inbox[t][r][i] = inbox[t][s][i]

(***************************************************************************)
(* The log and its offsets implement one queue per subscriber: what waits  *)
(* for a subscriber is the part of the log its offset has not passed.      *)
(***************************************************************************)
waitingBar ==
    [t \in Topics |-> [s \in Subscribers |->
        SubSeq(topics[t], offsets[t][s] + 1, Len(topics[t]))]]

D == INSTANCE Delivery WITH waiting <- waitingBar, inbox <- inbox

\* Every message reaches every subscriber that polls exactly once and in
\* publication order: Publish and Poll implement the Delivery specification.
ImplementsDelivery == D!Spec
=============================================================================
