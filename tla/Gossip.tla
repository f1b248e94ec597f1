------------------------------- MODULE Gossip -------------------------------
(***************************************************************************)
(* One round of the reliable broadcast: the Broadcasters of all running    *)
(* includers, connected by pubsub.  Every node starts the round, publishes *)
(* its own message, certifies and signs the messages of the others and     *)
(* returns when its quorum is final.                                        *)
(*                                                                          *)
(* pubsub (external): Publish runs the node's own validator first and only *)
(* floods a message it accepts; every other node's validator sees it at    *)
(* most once, in any order, or never.  A validator that waits for a round  *)
(* or a certificate is one whose step is not enabled yet.  Operations on a *)
(* node's round are atomic and follow QuorumCertificate (Round.tla).       *)
(***************************************************************************)
EXTENDS StakeQuorum

CONSTANTS
  Nodes,       \* running nodes, named by the key they sign with
  Publishers,  \* those whose own message gets out; the Broadcast of the others
               \* still waits for Certify on its own message
  Own,         \* the message each publisher broadcasts in this round
  Lacking      \* nodes that may miss batches, so that Certify fails there

ASSUME GossipAssumption ==
  /\ Nodes \subseteq Includers
  /\ Publishers \subseteq Nodes
  /\ Lacking \subseteq Nodes
  /\ Own \in [Publishers -> Ids]
  /\ \A n \in Publishers : Signer[Own[n]] = n

VARIABLES
  bro,       \* Broadcast of each node
  round,     \* the round at each node: "none", "open" or "stopped"
  quorum,    \* the quorum of each node's round
  data,      \* processData of each message at each node; "signed" once certified
  sentData,  \* messages flooded
  sentSigs,  \* signatures flooded: message and signer
  dropped    \* history: messages each node deleted after they were complete

vars == <<bro, round, quorum, data, sentData, sentSigs, dropped>>

TypeOK ==
  /\ bro \in [Nodes -> {"idle", "publish", "finalize", "stop", "done", "failed"}]
  /\ round \in [Nodes -> {"none", "open", "stopped"}]
  /\ quorum \in [Nodes -> QuorumType]
  /\ data \in [Nodes -> [Ids -> {"none", "added", "signed", "ignored", "rejected"}]]
  /\ sentData \in SUBSET Ids
  /\ sentSigs \in SUBSET (Ids \X Nodes)
  /\ dropped \in [Nodes -> SUBSET Ids]

Init ==
  /\ bro = [n \in Nodes |-> "idle"]
  /\ round = [n \in Nodes |-> "none"]
  /\ quorum = [n \in Nodes |-> NewQuorum]
  /\ data = [n \in Nodes |-> [id \in Ids |-> "none"]]
  /\ sentData = {} /\ sentSigs = {}
  /\ dropped = [n \in Nodes |-> {}]

-----------------------------------------------------------------------------
(* Broadcast *)

StartRound(n) ==
  /\ bro[n] = "idle"
  /\ bro' = [bro EXCEPT ![n] = "publish"]
  /\ round' = [round EXCEPT ![n] = "open"]
  /\ UNCHANGED <<quorum, data, sentData, sentSigs, dropped>>

\* The node's own validator is done: the message is flooded, or Publish fails
\* and Broadcast returns with its round left open.
Publish(n) ==
  /\ bro[n] = "publish" /\ n \in Publishers
  /\ \/ /\ data[n][Own[n]] = "signed"
        /\ sentData' = sentData \cup {Own[n]}
        /\ bro' = [bro EXCEPT ![n] = "finalize"]
     \/ /\ data[n][Own[n]] = "rejected"
        /\ bro' = [bro EXCEPT ![n] = "failed"]
        /\ UNCHANGED sentData
  /\ UNCHANGED <<round, quorum, data, sentSigs, dropped>>

\* Fault: Broadcast stops its round when the node's own message is complete.
AwaitOwn(n) ==
  /\ bro[n] = "finalize"
  /\ Own[n] \in List(quorum[n])
  /\ bro' = [bro EXCEPT ![n] = "stop"]
  /\ UNCHANGED <<round, quorum, data, sentData, sentSigs, dropped>>

\* r.Finalize returns.
AwaitFinal(n) ==
  /\ bro[n] = "finalize"
  /\ Finalize(quorum[n])
  /\ bro' = [bro EXCEPT ![n] = "stop"]
  /\ UNCHANGED <<round, quorum, data, sentData, sentSigs, dropped>>

\* StopRound: from here on the validators leave the node's round alone.
StopRound(n) ==
  /\ bro[n] = "stop"
  /\ bro' = [bro EXCEPT ![n] = "done"]
  /\ round' = [round EXCEPT ![n] = "stopped"]
  /\ UNCHANGED <<quorum, data, sentData, sentSigs, dropped>>

-----------------------------------------------------------------------------
(* processData *)

\* GetRound and AddCertificate.  Publishers are includers and a message comes
\* once, so the quorum takes it; in a stopped round it has no effect, whether
\* the validator sees ErrClosedRound, ErrElapsedRound or its timeout.
AddCertificate(n, id) ==
  /\ round[n] # "none"
  /\ data[n][id] = "none"
  /\ id \in sentData \/ (n \in Publishers /\ id = Own[n])
  /\ \/ /\ round[n] = "open" /\ CanAdd(quorum[n], id)
        /\ quorum' = [quorum EXCEPT ![n] = Add(quorum[n], id)]
        /\ data' = [data EXCEPT ![n][id] = "added"]
     \/ /\ round[n] = "stopped"
        /\ data' = [data EXCEPT ![n][id] = "ignored"]
        /\ UNCHANGED quorum
  /\ UNCHANGED <<bro, round, sentData, sentSigs, dropped>>

\* Fault: the message is signed without being certified.
SignUncertified(n, id) ==
  /\ data[n][id] \in {"added", "rejected"}
  /\ IF round[n] = "open" /\ CanSign(quorum[n], id, n)
     THEN quorum' = [quorum EXCEPT ![n] = AddSignature(quorum[n], id, n)]
     ELSE UNCHANGED quorum
  /\ sentSigs' = sentSigs \cup {<<id, n>>}
  /\ UNCHANGED <<bro, round, data, sentData, dropped>>

\* Fault: the signature is added to the node's own round and not flooded.
SignLocally(n, id) ==
  /\ data[n][id] = "added"
  /\ data' = [data EXCEPT ![n][id] = "signed"]
  /\ quorum' = IF round[n] = "open"
               THEN [quorum EXCEPT ![n] = AddSignature(quorum[n], id, n)] ELSE quorum
  /\ UNCHANGED <<bro, round, sentData, sentSigs, dropped>>

\* Certify succeeds; the signature goes through the node's own validator into
\* its round and is flooded.  When that round is stopped the validator accepts
\* the signature without effect (ErrClosedRound, ErrElapsedRound), or waits for
\* the removed round until its timeout and refuses it, and then nothing is sent.
CertifyAndSign(n, id) ==
  /\ data[n][id] = "added"
  /\ data' = [data EXCEPT ![n][id] = "signed"]
  /\ quorum' = IF round[n] = "open"
               THEN [quorum EXCEPT ![n] = AddSignature(quorum[n], id, n)] ELSE quorum
  /\ \/ sentSigs' = sentSigs \cup {<<id, n>>}
     \/ round[n] = "stopped" /\ UNCHANGED sentSigs
  /\ UNCHANGED <<bro, round, sentData, dropped>>

\* Certify fails, mostly because the context ended: the certificate is deleted,
\* or it stays when the ended context also keeps DeleteCertificate from being
\* submitted, or when the round is stopped.
CertifyFails(n, id) ==
  /\ n \in Lacking
  /\ data[n][id] = "added"
  /\ data' = [data EXCEPT ![n][id] = "rejected"]
  /\ \/ UNCHANGED <<quorum, dropped>>
     \/ /\ round[n] = "open"
        /\ quorum' = [quorum EXCEPT ![n] = Delete(quorum[n], id)]
        /\ dropped' = [dropped EXCEPT ![n] = IF id \in List(quorum[n]) THEN @ \cup {id} ELSE @]
  /\ UNCHANGED <<bro, round, sentData, sentSigs>>

-----------------------------------------------------------------------------
(* processSignature *)

\* GetRound, GetCertificate and AddSignature of a flooded signature.  One that
\* meets a stopped round has no effect.
DeliverSignature(n, id, key) ==
  /\ <<id, key>> \in sentSigs
  /\ round[n] = "open"
  /\ CanSign(quorum[n], id, key)
  /\ quorum' = [quorum EXCEPT ![n] = AddSignature(quorum[n], id, key)]
  /\ UNCHANGED <<bro, round, data, sentData, sentSigs, dropped>>

-----------------------------------------------------------------------------
Broadcaster(n) == StartRound(n) \/ Publish(n) \/ AwaitFinal(n) \/ StopRound(n)

Next == \E n \in Nodes :
          \/ Broadcaster(n)
          \/ \E id \in Ids : \/ AddCertificate(n, id)
                             \/ CertifyAndSign(n, id)
                             \/ CertifyFails(n, id)
                             \/ \E key \in Nodes : DeliverSignature(n, id, key)

Spec == Init /\ [][Next]_vars

\* The goroutines of every running node are scheduled, and pubsub delivers what
\* was flooded; a message is certified unless Certify fails.
Fairness ==
  \A n \in Nodes :
    /\ WF_vars(Broadcaster(n))
    /\ \A id \in Ids :
         /\ WF_vars(AddCertificate(n, id))
         /\ WF_vars(CertifyAndSign(n, id))
         /\ \A key \in Nodes : WF_vars(DeliverSignature(n, id, key))

FairSpec == Spec /\ Fairness

-----------------------------------------------------------------------------
(* Properties *)

\* Nodes where Certify succeeded for a message: each of its batches was there, or
\* was deleted while Certify waited for it (ErrBatchDeleted is not a failure).
Certifiers(id) == {n \in Nodes : data[n][id] = "signed"}

\* A signature in any node's certificate is the signature of a node that has
\* certified the message, and every flooded signature is.
SignaturesBacked ==
  /\ \A n \in Nodes, id \in Ids : quorum[n].certificates[id].signers \subseteq Certifiers(id)
  /\ \A s \in sentSigs : s[2] \in Certifiers(s[1])

\* A Broadcast that returned has complete blocks of producers with a quorum of
\* stake, provided the node deleted no complete certificate in the round.
RoundHasQuorum ==
  \A n \in Nodes : bro[n] = "done" /\ dropped[n] = {} =>
                     Weight[Producers(quorum[n])] >= StakeRequired

\* The same without the proviso: every round produces blocks with a quorum.
RoundAlwaysHasQuorum ==
  \A n \in Nodes : bro[n] = "done" => Weight[Producers(quorum[n])] >= StakeRequired

\* The round keeps the promise of ReliableRound: whatever the quorums, signatures
\* and stopped rounds of the nodes do, a Broadcast returns once, with messages that
\* a quorum certified, and what Chain lists as parents does not change under it.
RR == INSTANCE ReliableRound WITH
        published <- sentData,
        certified <- [n \in Nodes |-> {id \in Ids : data[n][id] = "signed"}],
        refused   <- [n \in Nodes |-> {id \in Ids : data[n][id] = "rejected"}],
        returned  <- {n \in Nodes : bro[n] = "done"},
        listed    <- [n \in Nodes |-> IF bro[n] = "done" THEN List(quorum[n]) ELSE {}]

ReliableRoundSpec == RR!Spec

\* When includers of more than two thirds of the stake publish, their Broadcasts
\* return, although the signatures of nodes that are done may be lost, unless
\* some node refuses a message.
BroadcastTerminates ==
  Weight[Publishers] >= StakeRequired =>
    \A n \in Publishers : <>(\/ bro[n] = "done"
                               \/ \E k \in Nodes, id \in Ids : data[k][id] = "rejected")
=============================================================================
