---------------------------- MODULE GossipProofs ----------------------------
(***************************************************************************)
(* Proofs about one round of the reliable broadcast, for any number of     *)
(* nodes, any stakes and any set of publishers.  Finalize only reads the   *)
(* quorum's counter; the invariants below say what that counter can stand  *)
(* for, and that ReliableRound is what the nodes give the dag.             *)
(***************************************************************************)
EXTENDS Gossip, StakeQuorumProofs

-----------------------------------------------------------------------------
(* The inductive invariant *)

\* Every certificate at every node counts its signers once.
Sound == \A n \in Nodes, id \in Ids : CertOK(quorum[n].certificates[id])

\* processData keeps data and quorum in step: what was not added has no
\* certificate, what waits for Certify has one, and only published messages
\* and the node's own are processed.
Processed ==
  \A n \in Nodes, id \in Ids :
    /\ data[n][id] \in {"none", "ignored"} => ~Get(quorum[n], id)
    /\ data[n][id] = "added" => Get(quorum[n], id)
    /\ data[n][id] # "none" => id \in sentData \/ (n \in Publishers /\ id = Own[n])

\* Only own messages get out, each before its node waits for Finalize.
Sent ==
  /\ \A id \in sentData : Signer[id] \in Publishers /\ id = Own[Signer[id]]
  /\ \A n \in Nodes : bro[n] \in {"finalize", "stop", "done"} =>
                        n \in Publishers /\ Own[n] \in sentData

\* A node stops waiting when its quorum is final, and its round is stopped
\* exactly when Broadcast has returned.
Waited ==
  \A n \in Nodes : /\ bro[n] \in {"stop", "done"} => Finalize(quorum[n])
                   /\ bro[n] = "done" <=> round[n] = "stopped"

\* A complete certificate that was deleted had been refused, and a quorum of
\* nodes has certified its message.
DroppedOnce ==
  \A n \in Nodes : \A id \in dropped[n] :
    /\ data[n][id] = "rejected"
    /\ ~Get(quorum[n], id)
    /\ Weight[Certifiers(id)] >= StakeRequired

\* Messages whose producer the counter of node n has counted.
Counted(n) == List(quorum[n]) \cup dropped[n]

\* The counter is backed by the producers of messages that are on the list, or
\* were when they were deleted.
Backed == \A n \in Nodes : quorum[n].activeStake <= Weight[{Signer[id] : id \in Counted(n)}]

IInv == /\ TypeOK
        /\ Sound
        /\ SignaturesBacked
        /\ Processed
        /\ Sent
        /\ Waited
        /\ DroppedOnce
        /\ Backed

-----------------------------------------------------------------------------
(* What the invariant says of one node *)

\* A processed message is its producer's own: the certificates of one node are
\* of different producers, all of them includers.
LEMMA ProducersDiffer ==
  ASSUME IInv, NEW n \in Nodes, NEW id \in Ids, data[n][id] # "none"
  PROVE  Signer[id] \in Publishers /\ id = Own[Signer[id]] /\ Signer[id] \in Includers
  BY GossipAssumption DEF IInv, Processed, Sent

\* A message with a certificate, and one that was deleted complete, were processed.
LEMMA CountedProcessed ==
  ASSUME IInv, NEW n \in Nodes
  PROVE  /\ \A id \in Ids : Get(quorum[n], id) => data[n][id] # "none"
         /\ \A id \in List(quorum[n]) : id \in Ids /\ Get(quorum[n], id)
         /\ \A id \in Counted(n) : id \in Ids /\ data[n][id] # "none" /\ Signer[id] \in Includers
<1>1. \A id \in Ids : Get(quorum[n], id) => data[n][id] # "none"
  BY DEF IInv, Processed
<1>2. \A id \in List(quorum[n]) : id \in Ids /\ Get(quorum[n], id)
  BY CompleteIsPresent DEF IInv, Sound, List, Get
<1>3. \A id \in dropped[n] : id \in Ids /\ data[n][id] # "none"
  BY DEF IInv, DroppedOnce, TypeOK
<1> QED
  BY <1>1, <1>2, <1>3, ProducersDiffer DEF Counted

\* The nodes that certified a message are includers.
LEMMA CertifiersIncluded ==
  ASSUME NEW id \in Ids
  PROVE  Certifiers(id) \in SUBSET Includers /\ Weight[Certifiers(id)] \in Nat
<1>1. Certifiers(id) \in SUBSET Includers
  BY GossipAssumption DEF Certifiers
<1> QED
  BY <1>1, WeightBound

\* A message on a node's list was certified by nodes with a quorum of stake.
LEMMA ListedCertified ==
  ASSUME IInv, NEW n \in Nodes, NEW id \in List(quorum[n])
  PROVE  id \in Ids /\ Weight[Certifiers(id)] >= StakeRequired
<1>1. id \in Ids /\ quorum[n].certificates[id].completed
  BY DEF List
<1>2. /\ CertOK(quorum[n].certificates[id])
      /\ quorum[n].certificates[id].signers \subseteq Certifiers(id)
  BY <1>1 DEF IInv, Sound, SignaturesBacked
<1>3. Weight[quorum[n].certificates[id].signers] >= StakeRequired
  BY <1>1, <1>2 DEF CertOK
<1>4. quorum[n].certificates[id].signers \in SUBSET Includers
  BY <1>1, <1>2, CertifiersIncluded
<1>5. /\ Weight[quorum[n].certificates[id].signers] <= Weight[Certifiers(id)]
      /\ Weight[quorum[n].certificates[id].signers] \in Nat
  BY <1>1, <1>2, <1>4, CertifiersIncluded, WeightMonotone, WeightBound
<1> QED
  BY <1>1, <1>3, <1>5, CertifiersIncluded, StakeFacts

\* addSignature at one node: the quorum stays sound and final, and its counter
\* backed, because the message was not counted before and its producer has no other.
LEMMA SignedBacked ==
  ASSUME IInv, NEW n \in Nodes, NEW id \in Ids, NEW key \in Includers,
         Get(quorum[n], id), key \notin quorum[n].certificates[id].signers
  PROVE  LET r == AddSignature(quorum[n], id, key)
         IN  /\ r \in QuorumType
             /\ \A i \in Ids : i # id => r.certificates[i] = quorum[n].certificates[i]
             /\ r.certificates[id].present
             /\ r.certificates[id].signers = quorum[n].certificates[id].signers \cup {key}
             /\ CertOK(r.certificates[id])
             /\ Finalize(quorum[n]) => Finalize(r)
             /\ r.activeStake <= Weight[{Signer[i] : i \in List(r) \cup dropped[n]}]
<1> DEFINE q == quorum[n]
           r == AddSignature(q, id, key)
           P == {Signer[i] : i \in Counted(n)}
<1>1. /\ q \in QuorumType /\ CertOK(q.certificates[id])
      /\ Signer[id] \in Includers /\ id = Own[Signer[id]]
  BY CountedProcessed, ProducersDiffer DEF IInv, TypeOK, Sound
<1>2. /\ r \in QuorumType
      /\ \A i \in Ids : i # id => r.certificates[i] = q.certificates[i]
      /\ r.certificates[id].present
      /\ r.certificates[id].signers = q.certificates[id].signers \cup {key}
      /\ CertOK(r.certificates[id])
      /\ r.activeStake >= q.activeStake
      /\ \/ List(r) = List(q) /\ r.activeStake = q.activeStake
         \/ /\ id \notin List(q) /\ List(r) = List(q) \cup {id}
            /\ r.activeStake = SafeAddClip(q.activeStake, Stake[Signer[id]])
  BY <1>1, SignFacts
<1>3. q.activeStake <= Weight[P] /\ P \in SUBSET Includers /\ Weight[P] \in Nat
  BY CountedProcessed, WeightBound DEF IInv, Backed
<1>4. Finalize(q) => Finalize(r)
  BY <1>1, <1>2, StakeFacts, QuorumAssumption DEF Finalize, QuorumType
<1>5. r.activeStake <= Weight[{Signer[i] : i \in List(r) \cup dropped[n]}]
  <2>1. CASE List(r) = List(q) /\ r.activeStake = q.activeStake
    BY <1>3, <2>1 DEF Counted
  <2>2. CASE /\ id \notin List(q) /\ List(r) = List(q) \cup {id}
             /\ r.activeStake = SafeAddClip(q.activeStake, Stake[Signer[id]])
    <3>1. id \notin Counted(n)
      BY <2>2 DEF IInv, DroppedOnce, Counted
    <3>2. Signer[id] \notin P
      BY <1>1, <3>1, CountedProcessed, ProducersDiffer
    <3>3. {Signer[i] : i \in List(r) \cup dropped[n]} = P \cup {Signer[id]}
      BY <2>2 DEF Counted
    <3>4. Weight[P \cup {Signer[id]}] = Weight[P] + Stake[Signer[id]]
      BY <1>1, <1>3, <3>2, WeightInsert
    <3>5. /\ Stake[Signer[id]] \in Nat /\ Stake[Signer[id]] <= MaxInt64
          /\ q.activeStake \in 0..MaxInt64 /\ MaxInt64 \in Nat
      BY <1>1, StakeBound, QuorumAssumption DEF QuorumType
    <3>6. r.activeStake <= q.activeStake + Stake[Signer[id]]
      BY <2>2, <3>5 DEF SafeAddClip
    <3>7. r.activeStake \in Int
      BY <1>2, QuorumAssumption DEF QuorumType
    <3>8. r.activeStake <= Weight[P] + Stake[Signer[id]]
      BY <1>3, <3>5, <3>6, <3>7
    <3> QED
      BY <3>3, <3>4, <3>8
  <2> QED
    BY <1>2, <2>1, <2>2
<1> QED
  BY <1>2, <1>4, <1>5

-----------------------------------------------------------------------------
(* Every step preserves it *)

\* Before the round nothing is counted, sent or processed.
LEMMA InitIInv == Init => IInv
<1> SUFFICES ASSUME Init PROVE IInv
  OBVIOUS
<1> USE DEF Init
<1>1. NewQuorum \in QuorumType /\ NewQuorum.activeStake = 0
  BY EmptyCertificates, QuorumAssumption DEF NewQuorum, QuorumType
<1>2. TypeOK
  BY <1>1 DEF TypeOK
<1>3. Sound /\ Processed
  BY EmptyCertificates DEF Sound, Processed, NewQuorum, Get
<1>4. SignaturesBacked
  BY DEF SignaturesBacked, NewQuorum, NoCert
<1>5. Sent /\ Waited /\ DroppedOnce
  BY DEF Sent, Waited, DroppedOnce
<1>6. ASSUME NEW n \in Nodes
      PROVE  quorum[n].activeStake <= Weight[{Signer[id] : id \in Counted(n)}]
  <2>1. Counted(n) = {}
    BY EmptyCertificates DEF Counted, List, NewQuorum
  <2>2. {Signer[id] : id \in Counted(n)} = {}
    BY <2>1
  <2> QED
    BY <1>1, <2>2, WeightEmpty
<1> QED
  BY <1>2, <1>3, <1>4, <1>5, <1>6 DEF IInv, Backed

\* Broadcast: it touches no quorum, and waits for Finalize before it stops.
LEMMA BroadcasterIInv ==
  ASSUME IInv, NEW n \in Nodes, Broadcaster(n)
  PROVE  IInv'
<1> USE DEF IInv
<1>1. /\ UNCHANGED <<quorum, data, sentSigs, dropped>>
      /\ sentData \subseteq sentData'
  BY DEF Broadcaster, StartRound, Publish, AwaitFinal, StopRound
<1>2. TypeOK'
  <2>1. sentData' \in SUBSET Ids
    BY GossipAssumption
    DEF TypeOK, Broadcaster, StartRound, Publish, AwaitFinal, StopRound
  <2>2. /\ bro' \in [Nodes -> {"idle", "publish", "finalize", "stop", "done", "failed"}]
        /\ round' \in [Nodes -> {"none", "open", "stopped"}]
    BY DEF TypeOK, Broadcaster, StartRound, Publish, AwaitFinal, StopRound
  <2> QED
    BY <1>1, <2>1, <2>2 DEF TypeOK
<1>3. Sound' /\ SignaturesBacked' /\ DroppedOnce' /\ Backed'
  BY <1>1 DEF Sound, SignaturesBacked, Certifiers, DroppedOnce, Backed, Counted
<1>4. Processed'
  BY <1>1 DEF Processed
<1>5. Sent'
  BY <1>1, GossipAssumption
  DEF Sent, TypeOK, Broadcaster, StartRound, Publish, AwaitFinal, StopRound
<1>6. Waited'
  BY <1>1 DEF Waited, TypeOK, Broadcaster, StartRound, Publish, AwaitFinal, StopRound
<1> QED
  BY <1>2, <1>3, <1>4, <1>5, <1>6

\* AddCertificate: an empty certificate, or none in a stopped round.
LEMMA AddCertificateIInv ==
  ASSUME IInv, NEW n \in Nodes, NEW id \in Ids, AddCertificate(n, id)
  PROVE  IInv'
<1> USE DEF IInv
<1>1. /\ UNCHANGED <<bro, round, sentData, sentSigs, dropped>>
      /\ data[n][id] = "none"
      /\ id \in sentData \/ (n \in Publishers /\ id = Own[n])
      /\ quorum[n] \in QuorumType
      /\ CertOK(quorum[n].certificates[id])
      /\ ~Get(quorum[n], id)
      /\ id \notin dropped[n]
  BY DEF AddCertificate, TypeOK, Sound, Processed, DroppedOnce
<1>2. \A i \in Ids : Certifiers(i)' = Certifiers(i)
  BY <1>1 DEF Certifiers, AddCertificate, TypeOK
<1>3. CASE /\ round[n] = "open"
           /\ quorum' = [quorum EXCEPT ![n] = Add(quorum[n], id)]
           /\ data' = [data EXCEPT ![n][id] = "added"]
  <2>1. /\ Add(quorum[n], id) \in QuorumType
        /\ Add(quorum[n], id).certificates = [quorum[n].certificates EXCEPT ![id] = NewCertificate]
        /\ Add(quorum[n], id).activeStake = quorum[n].activeStake
        /\ List(Add(quorum[n], id)) = List(quorum[n])
    BY <1>1, AddFacts
  <2> DEFINE r == Add(quorum[n], id)
  <2> HIDE DEF r
  <2>2. /\ r \in QuorumType /\ r.activeStake = quorum[n].activeStake /\ List(r) = List(quorum[n])
        /\ r.certificates[id] = NewCertificate
        /\ \A i \in Ids : i # id => r.certificates[i] = quorum[n].certificates[i]
    BY <1>1, <2>1 DEF r, QuorumType
  <2>3. /\ quorum' = [quorum EXCEPT ![n] = r]
        /\ quorum' \in [Nodes -> QuorumType] /\ quorum'[n] = r
        /\ \A k \in Nodes : k # n => quorum'[k] = quorum[k]
    BY <1>3, <2>2 DEF r, TypeOK
  <2>4. TypeOK'
    BY <1>1, <1>3, <2>3 DEF TypeOK
  <2>5. Sound'
    BY <2>2, <2>3, EmptyCertificates DEF Sound
  <2>6. SignaturesBacked'
    <3>1. ASSUME NEW k \in Nodes, NEW i \in Ids
          PROVE  quorum'[k].certificates[i].signers \subseteq Certifiers(i)
      <4>1. CASE k = n /\ i = id
        BY <2>2, <2>3, <4>1 DEF NewCertificate
      <4>2. CASE ~(k = n /\ i = id)
        BY <2>2, <2>3, <4>2 DEF SignaturesBacked
      <4> QED
        BY <4>1, <4>2
    <3>2. \A s \in sentSigs : s[1] \in Ids /\ s[2] \in Certifiers(s[1])
      BY DEF SignaturesBacked, TypeOK
    <3> QED
      BY <1>1, <1>2, <3>1, <3>2 DEF SignaturesBacked
  <2>7. Processed'
    BY <1>1, <1>3, <2>2, <2>3 DEF Processed, Get, NewCertificate, TypeOK
  <2>8. Sent' /\ Waited'
    BY <1>1, <2>2, <2>3 DEF Sent, Waited, Finalize
  <2>9. DroppedOnce'
    BY <1>1, <1>2, <1>3, <2>2, <2>3 DEF DroppedOnce, Get, TypeOK
  <2>10. Backed'
    BY <1>1, <2>2, <2>3 DEF Backed, Counted
  <2> QED
    BY <2>4, <2>5, <2>6, <2>7, <2>8, <2>9, <2>10
<1>4. CASE /\ data' = [data EXCEPT ![n][id] = "ignored"]
           /\ UNCHANGED quorum
  <2>1. TypeOK' /\ Sound' /\ Sent' /\ Waited' /\ Backed'
    BY <1>1, <1>4 DEF TypeOK, Sound, Sent, Waited, Backed, Counted
  <2>2. Processed'
    BY <1>1, <1>4 DEF Processed, TypeOK
  <2>3. SignaturesBacked' /\ DroppedOnce'
    BY <1>1, <1>2, <1>4 DEF SignaturesBacked, DroppedOnce, TypeOK
  <2> QED
    BY <2>1, <2>2, <2>3
<1> QED
  BY <1>3, <1>4 DEF AddCertificate

\* Certify ends: it can only add to the nodes that certified a message, and each
\* message stays certified by the quorum it had.
LEMMA CertifiersGrow ==
  ASSUME IInv, NEW n \in Nodes, NEW id \in Ids, NEW v \in {"signed", "rejected"},
         data[n][id] = "added", data' = [data EXCEPT ![n][id] = v]
  PROVE  /\ \A i \in Ids : Certifiers(i) \subseteq Certifiers(i)'
         /\ v = "signed" => n \in Certifiers(id)'
         /\ \A i \in Ids : Weight[Certifiers(i)] >= StakeRequired =>
                             Weight[Certifiers(i)'] >= StakeRequired
         /\ \A k \in Nodes, i \in Ids : (k = n /\ i = id) \/ data'[k][i] = data[k][i]
         /\ data'[n][id] = v
         /\ data' \in [Nodes -> [Ids -> {"none", "added", "signed", "ignored", "rejected"}]]
<1>1. data \in [Nodes -> [Ids -> {"none", "added", "signed", "ignored", "rejected"}]]
  BY DEF IInv, TypeOK
<1>2. /\ \A k \in Nodes, i \in Ids : (k = n /\ i = id) \/ data'[k][i] = data[k][i]
      /\ data'[n][id] = v
      /\ data' \in [Nodes -> [Ids -> {"none", "added", "signed", "ignored", "rejected"}]]
  BY <1>1
<1>3. /\ \A i \in Ids : Certifiers(i) \subseteq Certifiers(i)'
      /\ v = "signed" => n \in Certifiers(id)'
  BY <1>2 DEF Certifiers
<1>4. ASSUME NEW i \in Ids, Weight[Certifiers(i)] >= StakeRequired
      PROVE  Weight[Certifiers(i)'] >= StakeRequired
  <2>1. Certifiers(i)' \in SUBSET Includers
    BY GossipAssumption DEF Certifiers
  <2>2. /\ Weight[Certifiers(i)] <= Weight[Certifiers(i)']
        /\ Weight[Certifiers(i)] \in Nat /\ Weight[Certifiers(i)'] \in Nat
    BY <1>3, <2>1, CertifiersIncluded, WeightMonotone, WeightBound
  <2> QED
    BY <1>4, <2>2, StakeFacts
<1> QED
  BY <1>2, <1>3, <1>4

\* A certified signer's signature enters the quorum of one node.
LEMMA SignKeeps ==
  ASSUME IInv, NEW n \in Nodes, NEW id \in Ids, NEW key \in Includers,
         Get(quorum[n], id), key \notin quorum[n].certificates[id].signers,
         key \in Certifiers(id)',
         \A i \in Ids : Certifiers(i) \subseteq Certifiers(i)',
         quorum' = [quorum EXCEPT ![n] = AddSignature(quorum[n], id, key)],
         UNCHANGED <<bro, round, dropped>>
  PROVE  /\ quorum' \in [Nodes -> QuorumType]
         /\ Sound' /\ Waited' /\ Backed'
         /\ \A k \in Nodes, i \in Ids : quorum'[k].certificates[i].signers \subseteq Certifiers(i)'
         /\ \A k \in Nodes, i \in Ids : Get(quorum[k], i)' <=> Get(quorum[k], i)
<1> DEFINE r == AddSignature(quorum[n], id, key)
<1>1. /\ r \in QuorumType
      /\ \A i \in Ids : i # id => r.certificates[i] = quorum[n].certificates[i]
      /\ r.certificates[id].present
      /\ r.certificates[id].signers = quorum[n].certificates[id].signers \cup {key}
      /\ CertOK(r.certificates[id])
      /\ Finalize(quorum[n]) => Finalize(r)
      /\ r.activeStake <= Weight[{Signer[i] : i \in List(r) \cup dropped[n]}]
  BY SignedBacked
<1> HIDE DEF r
<1>2. /\ quorum' \in [Nodes -> QuorumType] /\ quorum'[n] = r
      /\ \A k \in Nodes : k # n => quorum'[k] = quorum[k]
  BY <1>1 DEF r, IInv, TypeOK
<1>3. Sound'
  BY <1>1, <1>2 DEF IInv, Sound
<1>4. Waited'
  BY <1>1, <1>2 DEF IInv, Waited
<1>5. Backed'
  BY <1>1, <1>2 DEF IInv, Backed, Counted
<1>6. ASSUME NEW k \in Nodes, NEW i \in Ids
      PROVE  /\ quorum'[k].certificates[i].signers \subseteq Certifiers(i)'
             /\ Get(quorum[k], i)' <=> Get(quorum[k], i)
  <2>1. quorum[k].certificates[i].signers \subseteq Certifiers(i)'
    BY DEF IInv, SignaturesBacked
  <2>2. CASE k = n /\ i = id
    BY <1>1, <1>2, <2>1, <2>2 DEF Get
  <2>3. CASE ~(k = n /\ i = id)
    BY <1>1, <1>2, <2>1, <2>3 DEF Get
  <2> QED
    BY <2>2, <2>3
<1> QED
  BY <1>2, <1>3, <1>4, <1>5, <1>6

\* CertifyAndSign: the node counts itself once, as it had not certified before.
LEMMA CertifyAndSignIInv ==
  ASSUME IInv, NEW n \in Nodes, NEW id \in Ids, CertifyAndSign(n, id)
  PROVE  IInv'
<1> USE DEF IInv
<1>1. /\ UNCHANGED <<bro, round, sentData, dropped>>
      /\ data[n][id] = "added" /\ data' = [data EXCEPT ![n][id] = "signed"]
      /\ sentSigs' \subseteq sentSigs \cup {<<id, n>>}
  BY DEF CertifyAndSign
<1>2. /\ \A i \in Ids : Certifiers(i) \subseteq Certifiers(i)'
      /\ n \in Certifiers(id)'
      /\ \A i \in Ids : Weight[Certifiers(i)] >= StakeRequired =>
                          Weight[Certifiers(i)'] >= StakeRequired
      /\ \A k \in Nodes, i \in Ids : (k = n /\ i = id) \/ data'[k][i] = data[k][i]
      /\ data'[n][id] = "signed"
      /\ data' \in [Nodes -> [Ids -> {"none", "added", "signed", "ignored", "rejected"}]]
  BY <1>1, CertifiersGrow
<1>3. /\ quorum' \in [Nodes -> QuorumType]
      /\ Sound' /\ Waited' /\ Backed'
      /\ \A k \in Nodes, i \in Ids : quorum'[k].certificates[i].signers \subseteq Certifiers(i)'
      /\ \A k \in Nodes, i \in Ids : Get(quorum[k], i)' <=> Get(quorum[k], i)
  <2>1. CASE quorum' = [quorum EXCEPT ![n] = AddSignature(quorum[n], id, n)]
    <3>1. /\ Get(quorum[n], id) /\ n \in Includers
          /\ n \notin quorum[n].certificates[id].signers
      BY <1>1, GossipAssumption DEF Processed, SignaturesBacked, Certifiers
    <3> QED
      BY <1>1, <1>2, <2>1, <3>1, SignKeeps
  <2>2. CASE quorum' = quorum
    <3>1. Sound' /\ Waited' /\ Backed' /\ quorum' \in [Nodes -> QuorumType]
      BY <1>1, <2>2 DEF TypeOK, Sound, Waited, Backed, Counted
    <3>2. \A k \in Nodes, i \in Ids : /\ quorum'[k].certificates[i].signers \subseteq Certifiers(i)'
                                      /\ Get(quorum[k], i)' <=> Get(quorum[k], i)
      BY <1>2, <2>2 DEF SignaturesBacked, Get
    <3> QED
      BY <3>1, <3>2
  <2> QED
    BY <2>1, <2>2 DEF CertifyAndSign
<1>4. TypeOK'
  BY <1>1, <1>2, <1>3 DEF TypeOK
<1>5. SignaturesBacked'
  <2>1. \A s \in sentSigs' : s[2] \in Certifiers(s[1])'
    <3>1. \A s \in sentSigs : s[1] \in Ids /\ s[2] \in Certifiers(s[1])
      BY DEF SignaturesBacked, TypeOK
    <3> QED
      BY <1>1, <1>2, <3>1
  <2> QED
    BY <1>3, <2>1 DEF SignaturesBacked
<1>6. Processed'
  BY <1>1, <1>2, <1>3 DEF Processed
<1>7. Sent'
  BY <1>1 DEF Sent
<1>8. DroppedOnce'
  BY <1>1, <1>2, <1>3 DEF DroppedOnce, TypeOK
<1> QED
  BY <1>3, <1>4, <1>5, <1>6, <1>7, <1>8

\* CertifyFails: a complete certificate that is deleted stays counted.
LEMMA CertifyFailsIInv ==
  ASSUME IInv, NEW n \in Nodes, NEW id \in Ids, CertifyFails(n, id)
  PROVE  IInv'
<1> USE DEF IInv
<1>1. /\ UNCHANGED <<bro, round, sentData, sentSigs>>
      /\ data[n][id] = "added" /\ data' = [data EXCEPT ![n][id] = "rejected"]
  BY DEF CertifyFails
<1>2. /\ \A i \in Ids : Certifiers(i) \subseteq Certifiers(i)'
      /\ \A i \in Ids : Weight[Certifiers(i)] >= StakeRequired =>
                          Weight[Certifiers(i)'] >= StakeRequired
      /\ \A k \in Nodes, i \in Ids : (k = n /\ i = id) \/ data'[k][i] = data[k][i]
      /\ data'[n][id] = "rejected"
      /\ data' \in [Nodes -> [Ids -> {"none", "added", "signed", "ignored", "rejected"}]]
  BY <1>1, CertifiersGrow
<1>3. Sent'
  BY <1>1 DEF Sent
<1>4. \A s \in sentSigs' : s[2] \in Certifiers(s[1])'
  <2>1. \A s \in sentSigs : s[1] \in Ids /\ s[2] \in Certifiers(s[1])
    BY DEF SignaturesBacked, TypeOK
  <2> QED
    BY <1>1, <1>2, <2>1
<1>5. CASE UNCHANGED <<quorum, dropped>>
  <2>1. TypeOK' /\ Sound' /\ Waited' /\ Backed'
    BY <1>1, <1>2, <1>5 DEF TypeOK, Sound, Waited, Backed, Counted
  <2>2. SignaturesBacked'
    BY <1>2, <1>4, <1>5 DEF SignaturesBacked
  <2>3. Processed'
    BY <1>1, <1>2, <1>5 DEF Processed, Get
  <2>4. DroppedOnce'
    BY <1>1, <1>2, <1>5 DEF DroppedOnce, TypeOK, Get
  <2> QED
    BY <1>3, <2>1, <2>2, <2>3, <2>4
<1>6. CASE /\ quorum' = [quorum EXCEPT ![n] = Delete(quorum[n], id)]
           /\ dropped' = [dropped EXCEPT ![n] = IF id \in List(quorum[n]) THEN @ \cup {id} ELSE @]
  <2> DEFINE r == Delete(quorum[n], id)
  <2>1. /\ r \in QuorumType
        /\ r.certificates = [quorum[n].certificates EXCEPT ![id] = NoCert]
        /\ r.activeStake = quorum[n].activeStake
        /\ List(r) = List(quorum[n]) \ {id}
        /\ quorum[n] \in QuorumType
    BY DeleteFacts DEF TypeOK
  <2> HIDE DEF r
  <2>2. /\ r.certificates[id] = NoCert
        /\ \A i \in Ids : i # id => r.certificates[i] = quorum[n].certificates[i]
    BY <2>1 DEF QuorumType
  <2>3. /\ quorum' \in [Nodes -> QuorumType] /\ quorum'[n] = r
        /\ \A k \in Nodes : k # n => quorum'[k] = quorum[k]
    BY <1>6, <2>1 DEF r, TypeOK
  <2>4. /\ dropped' \in [Nodes -> SUBSET Ids]
        /\ dropped'[n] = IF id \in List(quorum[n]) THEN dropped[n] \cup {id} ELSE dropped[n]
        /\ \A k \in Nodes : k # n => dropped'[k] = dropped[k]
    BY <1>6 DEF TypeOK
  <2>5. TypeOK'
    BY <1>1, <1>2, <2>3, <2>4 DEF TypeOK
  <2>6. Sound'
    BY <2>2, <2>3, EmptyCertificates DEF Sound
  <2>7. SignaturesBacked'
    <3>1. ASSUME NEW k \in Nodes, NEW i \in Ids
          PROVE  quorum'[k].certificates[i].signers \subseteq Certifiers(i)'
      <4>1. CASE k = n /\ i = id
        BY <2>2, <2>3, <4>1 DEF NoCert
      <4>2. CASE ~(k = n /\ i = id)
        BY <1>2, <2>2, <2>3, <4>2 DEF SignaturesBacked
      <4> QED
        BY <4>1, <4>2
    <3> QED
      BY <1>4, <3>1 DEF SignaturesBacked
  <2>8. Processed'
    BY <1>1, <1>2, <2>2, <2>3 DEF Processed, Get
  <2>9. Waited'
    BY <1>1, <2>1, <2>3 DEF Waited, Finalize
  <2>10. DroppedOnce'
    <3>1. ASSUME NEW k \in Nodes, NEW i \in dropped'[k]
          PROVE  /\ data'[k][i] = "rejected"
                 /\ ~Get(quorum'[k], i)
                 /\ Weight[Certifiers(i)'] >= StakeRequired
      <4>1. CASE k = n /\ i = id
        <5>1. id \in dropped[n] \/ id \in List(quorum[n])
          BY <2>4, <3>1, <4>1
        <5>2. Weight[Certifiers(id)] >= StakeRequired
          BY <5>1, ListedCertified DEF DroppedOnce
        <5> QED
          BY <1>2, <2>2, <2>3, <4>1, <5>2, EmptyCertificates DEF Get
      <4>2. CASE ~(k = n /\ i = id)
        <5>1. i \in dropped[k] /\ i \in Ids
          BY <2>4, <3>1, <4>2 DEF TypeOK
        <5>2. data[k][i] = "rejected" /\ ~Get(quorum[k], i) /\ Weight[Certifiers(i)] >= StakeRequired
          BY <5>1 DEF DroppedOnce
        <5>3. quorum'[k].certificates[i] = quorum[k].certificates[i]
          BY <2>2, <2>3, <4>2, <5>1
        <5> QED
          BY <1>2, <4>2, <5>1, <5>2, <5>3 DEF Get
      <4> QED
        BY <4>1, <4>2
    <3> QED
      BY <3>1 DEF DroppedOnce, Certifiers
  <2>11. Backed'
    <3>1. \A k \in Nodes : Counted(k)' = Counted(k) /\ quorum'[k].activeStake = quorum[k].activeStake
      BY <2>1, <2>3, <2>4 DEF Counted
    <3> QED
      BY <3>1 DEF Backed
  <2> QED
    BY <1>3, <2>5, <2>6, <2>7, <2>8, <2>9, <2>10, <2>11
<1> QED
  BY <1>5, <1>6 DEF CertifyFails

\* DeliverSignature: the flooded signature is that of a node that certified.
LEMMA DeliverSignatureIInv ==
  ASSUME IInv, NEW n \in Nodes, NEW id \in Ids, NEW key \in Nodes, DeliverSignature(n, id, key)
  PROVE  IInv'
<1> USE DEF IInv
<1>1. /\ UNCHANGED <<bro, round, data, sentData, sentSigs, dropped>>
      /\ Get(quorum[n], id) /\ key \in Includers
      /\ key \notin quorum[n].certificates[id].signers
      /\ quorum' = [quorum EXCEPT ![n] = AddSignature(quorum[n], id, key)]
      /\ <<id, key>> \in sentSigs
  BY DEF DeliverSignature, CanSign
<1>2. \A i : Certifiers(i)' = Certifiers(i)
  BY <1>1 DEF Certifiers
<1>3. key \in Certifiers(id)
  BY <1>1 DEF SignaturesBacked
<1>4. /\ quorum' \in [Nodes -> QuorumType]
      /\ Sound' /\ Waited' /\ Backed'
      /\ \A k \in Nodes, i \in Ids : quorum'[k].certificates[i].signers \subseteq Certifiers(i)'
      /\ \A k \in Nodes, i \in Ids : Get(quorum[k], i)' <=> Get(quorum[k], i)
  BY <1>1, <1>2, <1>3, SignKeeps
<1>5. TypeOK' /\ Sent'
  BY <1>1, <1>4 DEF TypeOK, Sent
<1>6. SignaturesBacked'
  BY <1>1, <1>2, <1>4 DEF SignaturesBacked
<1>7. Processed'
  BY <1>1, <1>4 DEF Processed
<1>8. DroppedOnce'
  BY <1>1, <1>2, <1>4 DEF DroppedOnce, TypeOK
<1> QED
  BY <1>4, <1>5, <1>6, <1>7, <1>8

\* Every step of every node keeps the inductive invariant.
LEMMA NextIInv == IInv /\ [Next]_vars => IInv'
<1> SUFFICES ASSUME IInv, [Next]_vars PROVE IInv'
  OBVIOUS
<1>1. CASE Next
  BY <1>1, BroadcasterIInv, AddCertificateIInv, CertifyAndSignIInv, CertifyFailsIInv,
     DeliverSignatureIInv DEF Next
<1>2. CASE UNCHANGED vars
  <2> USE <1>2 DEF vars, IInv
  <2>1. TypeOK' /\ Sound' /\ Processed' /\ Sent' /\ Waited'
    BY DEF TypeOK, Sound, Processed, Sent, Waited
  <2>2. \A i : Certifiers(i)' = Certifiers(i)
    BY DEF Certifiers
  <2>3. SignaturesBacked' /\ DroppedOnce'
    BY <2>2 DEF SignaturesBacked, DroppedOnce
  <2>4. Backed'
    BY DEF Backed, Counted
  <2> QED
    BY <2>1, <2>3, <2>4
<1> QED
  BY <1>1, <1>2

-----------------------------------------------------------------------------
(* Theorems *)

\* In every interleaving of the nodes' broadcasts, validators and floods the
\* quorums are sound and their counters backed by producers.
THEOREM InductiveInvariant == Spec => []IInv
  BY InitIInv, NextIInv, PTL DEF Spec

\* Every quorum of every node stays within the width of its counters.
THEOREM TypeCorrect == Spec => []TypeOK
  BY InductiveInvariant, PTL DEF IInv

\* A signature, in a certificate or on its way, is that of a node whose Certify
\* succeeded (processData signs after Certify, in whatever order signatures arrive).
THEOREM SignaturesAreBacked == Spec => []SignaturesBacked
  BY InductiveInvariant, PTL DEF IInv

\* A Broadcast that returned without deleting a complete certificate lists
\* messages of producers with more than two thirds of the stake.
THEOREM ReturnsWithQuorum == Spec => []RoundHasQuorum
<1>1. IInv => RoundHasQuorum
  <2> SUFFICES ASSUME IInv, NEW n \in Nodes, bro[n] = "done", dropped[n] = {}
               PROVE  Weight[Producers(quorum[n])] >= StakeRequired
    BY DEF RoundHasQuorum
  <2>1. Finalize(quorum[n]) /\ quorum[n].activeStake \in Int
    BY QuorumAssumption DEF IInv, Waited, TypeOK, QuorumType
  <2>2. Producers(quorum[n]) = {Signer[id] : id \in Counted(n)}
    BY DEF Producers, Counted
  <2>3. Producers(quorum[n]) \in SUBSET Includers
    BY <2>2, CountedProcessed
  <2>4. Weight[Producers(quorum[n])] \in Nat /\ quorum[n].activeStake <= Weight[Producers(quorum[n])]
    BY <2>2, <2>3, WeightBound DEF IInv, Backed
  <2> QED
    BY <2>1, <2>4, StakeFacts DEF Finalize
<1> QED
  BY <1>1, InductiveInvariant, PTL

-----------------------------------------------------------------------------
(* The round implements ReliableRound *)

certified == [n \in Nodes |-> {id \in Ids : data[n][id] = "signed"}]
refused   == [n \in Nodes |-> {id \in Ids : data[n][id] = "rejected"}]
returned  == {n \in Nodes : bro[n] = "done"}
listed    == [n \in Nodes |-> IF bro[n] = "done" THEN List(quorum[n]) ELSE {}]

\* A validator's step changes the quorum of an open round only: what a Broadcast
\* that returned has listed stays.
LEMMA ListedFrozen ==
  ASSUME IInv, NEW n \in Nodes, UNCHANGED bro,
         \/ UNCHANGED quorum
         \/ round[n] = "open" /\ \E q : quorum' = [quorum EXCEPT ![n] = q]
  PROVE  UNCHANGED <<returned, listed>>
<1>1. CASE UNCHANGED quorum
  BY <1>1 DEF returned, listed
<1>2. CASE round[n] = "open" /\ \E q : quorum' = [quorum EXCEPT ![n] = q]
  <2>1. bro[n] # "done"
    BY <1>2 DEF IInv, Waited
  <2>2. \A k \in Nodes : k # n => quorum'[k] = quorum[k]
    BY <1>2 DEF IInv, TypeOK
  <2> QED
    BY <2>1, <2>2 DEF returned, listed
<1> QED
  BY <1>1, <1>2

\* What Certify's outcome changes in the sets of certified and refused messages.
LEMMA CertifyMoves ==
  ASSUME IInv, NEW n \in Nodes, NEW id \in Ids, NEW v \in {"signed", "rejected"},
         data[n][id] = "added", data' = [data EXCEPT ![n][id] = v]
  PROVE  /\ v = "signed" => /\ certified' = [certified EXCEPT ![n] = @ \cup {id}]
                            /\ refused' = refused
         /\ v = "rejected" => /\ refused' = [refused EXCEPT ![n] = @ \cup {id}]
                              /\ certified' = certified
         /\ id \notin certified[n] \cup refused[n]
         /\ id \in sentData \/ Signer[id] = n
<1>1. /\ \A k \in Nodes, i \in Ids : (k = n /\ i = id) \/ data'[k][i] = data[k][i]
      /\ data'[n][id] = v
  BY CertifiersGrow
<1>2. \A k \in Nodes : /\ k # n => certified'[k] = certified[k] /\ refused'[k] = refused[k]
                       /\ v = "signed" => /\ certified'[n] = certified[n] \cup {id}
                                          /\ refused'[n] = refused[n]
                       /\ v = "rejected" => /\ refused'[n] = refused[n] \cup {id}
                                            /\ certified'[n] = certified[n]
  BY <1>1 DEF certified, refused
<1>3. id \notin certified[n] \cup refused[n]
  BY DEF certified, refused
<1>4. id \in sentData \/ Signer[id] = n
  BY GossipAssumption DEF IInv, Processed
<1>5. /\ certified' = [k \in Nodes |-> certified'[k]] /\ certified = [k \in Nodes |-> certified[k]]
      /\ refused' = [k \in Nodes |-> refused'[k]] /\ refused = [k \in Nodes |-> refused[k]]
  BY DEF certified, refused
<1>6. v = "signed" => certified' = [certified EXCEPT ![n] = @ \cup {id}] /\ refused' = refused
  BY <1>2, <1>5
<1>7. v = "rejected" => refused' = [refused EXCEPT ![n] = @ \cup {id}] /\ certified' = certified
  BY <1>2, <1>5
<1> QED
  BY <1>3, <1>4, <1>6, <1>7

\* The operators of the instance are those of the round.
LEMMA RoundMapping ==
  /\ UNCHANGED <<sentData, certified, refused, returned, listed>> => UNCHANGED RR!vars
  /\ RR!StakeRequired = StakeRequired
  /\ RR!Complete = {id \in Ids : Weight[Certifiers(id)] >= StakeRequired}
<1>1. UNCHANGED <<sentData, certified, refused, returned, listed>> => UNCHANGED RR!vars
  BY DEF RR!vars, certified, refused, returned, listed
<1>2. RR!StakeRequired = StakeRequired
  BY DEF RR!StakeRequired, StakeRequired, RR!TotalStake, TotalStake
<1>3. ASSUME NEW id \in Ids
      PROVE  Certifiers(id) = {n \in Nodes : id \in certified[n]}
  BY DEF Certifiers, certified
<1> QED
  BY <1>1, <1>2, <1>3 DEF RR!Complete, certified

\* StopRound is where Broadcast returns: the counter that made Finalize return is
\* backed by listed messages and by complete ones that the node refused.
LEMMA StopReturns ==
  ASSUME IInv, NEW n \in Nodes, StopRound(n)
  PROVE  RR!Return(n)
<1> DEFINE L == List(quorum[n])
           D == {id \in Ids : Weight[Certifiers(id)] >= StakeRequired}
           P == {Signer[id] : id \in L \cup (D \cap refused[n])}
<1>1. /\ bro[n] = "stop" /\ bro' = [bro EXCEPT ![n] = "done"]
      /\ UNCHANGED <<quorum, data, sentData>>
  BY DEF StopRound
<1>2. n \notin returned /\ returned' = returned \cup {n}
  BY <1>1 DEF returned, IInv, TypeOK
<1>3. listed' = [listed EXCEPT ![n] = L]
  BY <1>1 DEF listed, IInv, TypeOK
<1>4. UNCHANGED <<sentData, certified, refused>>
  BY <1>1 DEF certified, refused
<1>5. Own[n] \in sentData /\ Signer[Own[n]] = n
  BY <1>1, GossipAssumption DEF IInv, Sent
<1>6. L \in SUBSET D
  BY ListedCertified
<1>7. Weight[P] >= StakeRequired
  <2>1. Counted(n) \subseteq L \cup (D \cap refused[n])
    BY DEF Counted, IInv, DroppedOnce, TypeOK, refused
  <2>2. \A id \in L \cup (D \cap refused[n]) : Signer[id] \in Includers
    <3>1. \A id \in L : Signer[id] \in Includers
      BY CountedProcessed DEF Counted
    <3>2. \A id \in refused[n] : id \in Ids /\ data[n][id] # "none"
      BY DEF refused
    <3> QED
      BY <3>1, <3>2, ProducersDiffer
  <2>3. P \in SUBSET Includers /\ {Signer[id] : id \in Counted(n)} \in SUBSET P
    BY <2>1, <2>2
  <2>4. /\ Weight[{Signer[id] : id \in Counted(n)}] <= Weight[P]
        /\ Weight[{Signer[id] : id \in Counted(n)}] \in Nat /\ Weight[P] \in Nat
    BY <2>3, WeightMonotone, WeightBound
  <2>5. /\ quorum[n].activeStake <= Weight[{Signer[id] : id \in Counted(n)}]
        /\ quorum[n].activeStake \in Int /\ quorum[n].activeStake >= StakeRequired
    <3>1. Finalize(quorum[n]) /\ quorum[n] \in QuorumType
      BY <1>1 DEF IInv, Waited, TypeOK
    <3>2. quorum[n].activeStake \in Int /\ quorum[n].activeStake >= StakeRequired
      BY <3>1, QuorumAssumption DEF Finalize, QuorumType
    <3> QED
      BY <3>2 DEF IInv, Backed
  <2> QED
    BY <2>4, <2>5, StakeFacts
<1> QED
  BY <1>2, <1>3, <1>4, <1>5, <1>6, <1>7, RoundMapping
  DEF RR!Return, returned, listed, certified, refused

\* Every step of the round is one of ReliableRound or changes nothing it shows.
LEMMA StepRefines ==
  ASSUME IInv, [Next]_vars
  PROVE  [RR!Next]_(RR!vars)
<1>1. ASSUME NEW n \in Nodes, StartRound(n) \/ AwaitFinal(n)
      PROVE  UNCHANGED RR!vars
  <2>1. UNCHANGED <<quorum, data, sentData>> /\ bro[n] # "done" /\ bro'[n] # "done"
        /\ \A k \in Nodes : k # n => bro'[k] = bro[k]
    BY <1>1 DEF StartRound, AwaitFinal, IInv, TypeOK
  <2>2. UNCHANGED <<sentData, certified, refused, returned, listed>>
    BY <2>1 DEF certified, refused, returned, listed
  <2> QED
    BY <2>2, RoundMapping
<1>2. ASSUME NEW n \in Nodes, Publish(n)
      PROVE  RR!Publish(n) \/ UNCHANGED RR!vars
  <2>1. UNCHANGED <<quorum, data>> /\ bro[n] # "done" /\ bro'[n] # "done"
        /\ \A k \in Nodes : k # n => bro'[k] = bro[k]
    BY <1>2 DEF Publish, IInv, TypeOK
  <2>2. UNCHANGED <<certified, refused, returned, listed>>
    BY <2>1 DEF certified, refused, returned, listed
  <2>3. CASE data[n][Own[n]] = "signed" /\ sentData' = sentData \cup {Own[n]}
    <3>1. Own[n] \in certified[n] /\ Signer[Own[n]] = n
      BY <1>2, <2>3, GossipAssumption DEF Publish, certified
    <3> QED
      BY <2>2, <2>3, <3>1 DEF RR!Publish, certified, refused, returned, listed
  <2>4. CASE UNCHANGED sentData
    BY <2>2, <2>4, RoundMapping
  <2> QED
    BY <1>2, <2>3, <2>4 DEF Publish
<1>3. ASSUME NEW n \in Nodes, NEW id \in Ids, AddCertificate(n, id)
      PROVE  UNCHANGED RR!vars
  <2>1. UNCHANGED <<returned, listed>>
    BY <1>3, ListedFrozen DEF AddCertificate
  <2>2. UNCHANGED <<sentData, certified, refused>>
    <3>1. /\ data[n][id] = "none" /\ sentData' = sentData
          /\ \E v \in {"added", "ignored"} : data' = [data EXCEPT ![n][id] = v]
      BY <1>3 DEF AddCertificate
    <3>2. \A k \in Nodes, i \in Ids :
            \/ data'[k][i] = data[k][i]
            \/ k = n /\ i = id /\ data'[k][i] \in {"added", "ignored"}
      BY <3>1 DEF IInv, TypeOK
    <3> QED
      BY <3>1, <3>2 DEF certified, refused
  <2> QED
    BY <2>1, <2>2, RoundMapping
<1>4. ASSUME NEW n \in Nodes, NEW id \in Ids, CertifyAndSign(n, id)
      PROVE  RR!Certify(n)
  <2>1. UNCHANGED <<returned, listed>>
    BY <1>4, ListedFrozen DEF CertifyAndSign
  <2>2. /\ certified' = [certified EXCEPT ![n] = @ \cup {id}] /\ refused' = refused
        /\ id \notin certified[n] \cup refused[n]
        /\ id \in sentData \/ Signer[id] = n
        /\ sentData' = sentData
    BY <1>4, CertifyMoves DEF CertifyAndSign
  <2> QED
    BY <2>1, <2>2 DEF RR!Certify, RR!Asked, certified, refused, returned, listed
<1>5. ASSUME NEW n \in Nodes, NEW id \in Ids, CertifyFails(n, id)
      PROVE  RR!Refuse(n)
  <2>1. UNCHANGED <<returned, listed>>
    BY <1>5, ListedFrozen DEF CertifyFails
  <2>2. /\ refused' = [refused EXCEPT ![n] = @ \cup {id}] /\ certified' = certified
        /\ id \notin certified[n] \cup refused[n]
        /\ id \in sentData \/ Signer[id] = n
        /\ sentData' = sentData
    BY <1>5, CertifyMoves DEF CertifyFails
  <2> QED
    BY <2>1, <2>2 DEF RR!Refuse, RR!Asked, certified, refused, returned, listed
<1>6. ASSUME NEW n \in Nodes, NEW id \in Ids, NEW key \in Nodes, DeliverSignature(n, id, key)
      PROVE  UNCHANGED RR!vars
  <2>1. UNCHANGED <<returned, listed>>
    BY <1>6, ListedFrozen DEF DeliverSignature
  <2>2. UNCHANGED <<sentData, certified, refused>>
    BY <1>6 DEF DeliverSignature, certified, refused
  <2> QED
    BY <2>1, <2>2, RoundMapping
<1>7. CASE UNCHANGED vars
  <2>1. UNCHANGED <<sentData, certified, refused, returned, listed>>
    BY <1>7 DEF vars, certified, refused, returned, listed
  <2> QED
    BY <2>1, RoundMapping
<1>8. ASSUME NEW n \in Nodes, Broadcaster(n)
      PROVE  RR!Next \/ UNCHANGED RR!vars
  BY <1>1, <1>2, <1>8, StopReturns DEF Broadcaster, RR!Next
<1>9. ASSUME NEW n \in Nodes, NEW id \in Ids,
             \/ AddCertificate(n, id) \/ CertifyAndSign(n, id) \/ CertifyFails(n, id)
             \/ \E key \in Nodes : DeliverSignature(n, id, key)
      PROVE  RR!Next \/ UNCHANGED RR!vars
  BY <1>3, <1>4, <1>5, <1>6, <1>9 DEF RR!Next
<1>10. CASE Next
  BY <1>8, <1>9, <1>10 DEF Next
<1> QED
  BY <1>7, <1>10

\* The gossip round keeps the promise of ReliableRound to the dag for every set of
\* nodes and stakes: a Broadcast returns once, with messages a quorum certified,
\* backed by a quorum of producers, and what it listed never changes afterwards.
THEOREM ImplementsReliableRound == Spec => ReliableRoundSpec
<1>1. Init => RR!Init
  BY DEF Init, RR!Init
<1>2. IInv /\ [Next]_vars => [RR!Next]_(RR!vars)
  BY StepRefines
<1> QED
  BY <1>1, <1>2, InductiveInvariant, PTL DEF Spec, ReliableRoundSpec, RR!Spec
=============================================================================
