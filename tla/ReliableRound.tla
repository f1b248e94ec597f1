--------------------------- MODULE ReliableRound ----------------------------
(***************************************************************************)
(* What one round of a rebro.Broadcaster promises to the dag, without       *)
(* quorums, signatures and gossip: a message gets out after its own node    *)
(* certified it, and a Broadcast returns with messages that includers of    *)
(* more than two thirds of the stake certified.  Messages the node refused   *)
(* after they were complete still count towards its quorum (Quorum.Delete    *)
(* leaves the stake), and are not necessarily among those it lists.          *)
(***************************************************************************)
EXTENDS StakeQuorum

CONSTANT Nodes   \* running nodes, each an includer

VARIABLES
  published,  \* messages that left their node
  certified,  \* messages each node certified
  refused,    \* messages each node refused to certify
  returned,   \* nodes whose Broadcast returned
  listed      \* what each of these found in its quorum then

vars == <<published, certified, refused, returned, listed>>

Init ==
  /\ published = {} /\ returned = {}
  /\ certified = [n \in Nodes |-> {}]
  /\ refused = [n \in Nodes |-> {}]
  /\ listed = [n \in Nodes |-> {}]

\* Messages a node may be asked to certify, each once.
Asked(n) == {id \in Ids : id \in published \/ Signer[id] = n} \ (certified[n] \cup refused[n])

Complete == {id \in Ids : Weight[{n \in Nodes : id \in certified[n]}] >= StakeRequired}

Certify(n) ==
  /\ \E id \in Asked(n) : certified' = [certified EXCEPT ![n] = @ \cup {id}]
  /\ UNCHANGED <<published, refused, returned, listed>>

Refuse(n) ==
  /\ \E id \in Asked(n) : refused' = [refused EXCEPT ![n] = @ \cup {id}]
  /\ UNCHANGED <<published, certified, returned, listed>>

Publish(n) ==
  /\ \E id \in certified[n] : Signer[id] = n /\ published' = published \cup {id}
  /\ UNCHANGED <<certified, refused, returned, listed>>

\* Broadcast returns with the messages L in the quorum's list.
Return(n) ==
  /\ n \notin returned
  /\ \E id \in published : Signer[id] = n
  /\ \E L \in SUBSET Complete :
       /\ Weight[{Signer[id] : id \in L \cup (Complete \cap refused[n])}] >= StakeRequired
       /\ listed' = [listed EXCEPT ![n] = L]
  /\ returned' = returned \cup {n}
  /\ UNCHANGED <<published, certified, refused>>

Next == \E n \in Nodes : Certify(n) \/ Refuse(n) \/ Publish(n) \/ Return(n)

Spec == Init /\ [][Next]_vars
=============================================================================
