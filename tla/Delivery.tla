------------------------------ MODULE Delivery ------------------------------
(***************************************************************************)
(* What the blackboard promises its users, without its representation: a   *)
(* message published on a topic waits for every subscriber, those that     *)
(* have not polled yet included, and a poll hands a subscriber everything  *)
(* that waits for it, oldest first, once.                                  *)
(***************************************************************************)
EXTENDS Sequences

CONSTANTS Topics, Subscribers, Messages

VARIABLES
    waiting,  \* waiting[t][s]: published on t and not yet handed to s
    inbox     \* inbox[t][s]: everything s was ever handed from t, in order

vars == <<waiting, inbox>>

Init ==
    /\ waiting = [t \in Topics |-> [s \in Subscribers |-> <<>>]]
    /\ inbox = [t \in Topics |-> [s \in Subscribers |-> <<>>]]

Publish(t, m) ==
    /\ waiting' = [waiting EXCEPT ![t] = [s \in Subscribers |-> Append(@[s], m)]]
    /\ UNCHANGED inbox

Poll(t, s) ==
    /\ inbox' = [inbox EXCEPT ![t][s] = @ \o waiting[t][s]]
    /\ waiting' = [waiting EXCEPT ![t][s] = <<>>]

Next ==
    \/ \E t \in Topics, m \in Messages : Publish(t, m)
    \/ \E t \in Topics, s \in Subscribers : Poll(t, s)

Spec == Init /\ [][Next]_vars
=============================================================================
