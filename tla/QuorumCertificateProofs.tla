---------------------- MODULE QuorumCertificateProofs -----------------------
(***************************************************************************)
(* Proofs about sequences of operations on the stake-weighted quorum.      *)
(***************************************************************************)
EXTENDS QuorumCertificate, StakeQuorumProofs

-----------------------------------------------------------------------------
(* The inductive invariant *)

\* The counter never falls behind the producers of the listed certificates.
StakeCovered == Weight[Producers(quorum)] <= quorum.activeStake

IInv == TypeOK /\ CertificateSound /\ StakeCovered /\ FinalizeExact

\* Producers of complete certificates are includers: Add refuses the others.
LEMMA ProducersIncluded ==
  ASSUME TypeOK, CertificateSound
  PROVE  Producers(quorum) \in SUBSET Includers
<1>1. ASSUME NEW id \in List(quorum)
      PROVE  Signer[id] \in Includers
  <2>1. id \in Ids /\ quorum.certificates[id].completed
    BY <1>1 DEF List
  <2>2. CertOK(quorum.certificates[id])
    BY <2>1 DEF CertificateSound
  <2>3. quorum.certificates[id].signers # {}
    BY <2>1, <2>2, EmptyIncomplete
  <2>4. quorum.certificates[id].present
    BY <2>2, <2>3 DEF CertOK
  <2> QED
    BY <2>1, <2>4 DEF CertificateSound, Get
<1> QED
  BY <1>1 DEF Producers

\* An empty quorum satisfies the inductive invariant.
LEMMA InitIInv == Init => IInv
<1> SUFFICES ASSUME Init PROVE IInv
  OBVIOUS
<1> USE DEF Init, NewQuorum
<1>1. TypeOK
  BY EmptyCertificates, QuorumAssumption DEF TypeOK, QuorumType
<1>2. CertificateSound
  BY EmptyCertificates DEF CertificateSound, Get
<1>3. Producers(quorum) = {}
  BY EmptyCertificates DEF Producers, List
<1>4. StakeCovered /\ FinalizeExact
  BY <1>3, WeightEmpty DEF StakeCovered, FinalizeExact
<1> QED
  BY <1>1, <1>2, <1>4 DEF IInv

\* Quorum.Add: the new certificate is empty and changes neither List nor stake.
LEMMA AddIInv ==
  ASSUME IInv, NEW id \in Ids, AddStep(id)
  PROVE  IInv'
<1> USE DEF IInv
<1>1. /\ quorum' = [certificates |-> [quorum.certificates EXCEPT ![id] = NewCertificate],
                    activeStake  |-> quorum.activeStake]
      /\ dropped' = dropped /\ Signer[id] \in Includers /\ ~quorum.certificates[id].present
  BY DEF AddStep, CanAdd, Add, Get, TypeOK, QuorumType
<1>2. NewCertificate \in Cert /\ CertOK(NewCertificate) /\ ~NewCertificate.completed
  BY EmptyCertificates
<1>3. TypeOK'
  BY <1>1, <1>2 DEF TypeOK, QuorumType
<1>4. CertificateSound'
  BY <1>1, <1>2 DEF CertificateSound, Get, TypeOK, QuorumType
<1>5. ~quorum.certificates[id].completed
  <2>1. CertOK(quorum.certificates[id])
    BY DEF CertificateSound
  <2> QED
    BY <1>1, <2>1, EmptyIncomplete DEF CertOK
<1>6. List(quorum') = List(quorum)
  BY <1>1, <1>2, <1>5 DEF List, TypeOK, QuorumType
<1> QED
  BY <1>1, <1>3, <1>4, <1>6 DEF StakeCovered, FinalizeExact, Producers

\* Quorum.Delete: List may lose the certificate and the counter stays, so it
\* still covers the producers; a complete one is remembered in dropped.
LEMMA DeleteIInv ==
  ASSUME IInv, NEW id \in Ids, DeleteStep(id)
  PROVE  IInv'
<1> USE DEF IInv
<1>1. /\ quorum' = [certificates |-> [quorum.certificates EXCEPT ![id] = NoCert],
                    activeStake  |-> quorum.activeStake]
      /\ dropped' = IF id \in List(quorum) THEN dropped \cup {id} ELSE dropped
  BY DEF DeleteStep, Delete, TypeOK, QuorumType
<1>2. TypeOK'
  BY <1>1, EmptyCertificates DEF TypeOK, QuorumType
<1>4. CertificateSound'
  BY <1>1, EmptyCertificates DEF CertificateSound, Get, TypeOK, QuorumType
<1>5. List(quorum') = List(quorum) \ {id}
  BY <1>1, EmptyCertificates DEF List, TypeOK, QuorumType
<1>6. StakeCovered'
  <2>1. Producers(quorum') \subseteq Producers(quorum) /\ Producers(quorum) \in SUBSET Includers
    BY <1>5, ProducersIncluded DEF Producers
  <2>2. /\ Weight[Producers(quorum')] <= Weight[Producers(quorum)]
        /\ Weight[Producers(quorum')] \in Nat /\ Weight[Producers(quorum)] \in Nat
    BY <2>1, WeightMonotone, WeightBound
  <2> QED
    BY <1>1, <2>2 DEF StakeCovered, TypeOK, QuorumType
<1>7. FinalizeExact'
  <2>1. CASE id \in List(quorum)
    BY <1>1, <2>1 DEF FinalizeExact
  <2>2. CASE id \notin List(quorum)
    <3>1. List(quorum') = List(quorum)
      BY <1>5, <2>2
    <3> QED
      BY <1>1, <2>2, <3>1 DEF FinalizeExact, Producers
  <2> QED
    BY <2>1, <2>2
<1> QED
  BY <1>2, <1>4, <1>6, <1>7

\* Quorum.addSignature: the signer is new to the certificate, so that its stake
\* is added once, and the producer is counted when the certificate completes.
LEMMA SignIInv ==
  ASSUME IInv, NEW id \in Ids, NEW key \in Keys, SignStep(id, key)
  PROVE  IInv'
<1> USE DEF IInv
<1>1. /\ key \in Includers /\ key \notin quorum.certificates[id].signers
      /\ CertOK(quorum.certificates[id]) /\ Signer[id] \in Includers
      /\ quorum \in QuorumType
      /\ quorum' = AddSignature(quorum, id, key) /\ dropped' = dropped
  BY DEF SignStep, CanSign, Get, TypeOK, CertificateSound
<1>2. /\ quorum' \in QuorumType
      /\ \A i \in Ids : i # id => quorum'.certificates[i] = quorum.certificates[i]
      /\ CertOK(quorum'.certificates[id])
      /\ \/ List(quorum') = List(quorum) /\ quorum'.activeStake = quorum.activeStake
         \/ /\ id \notin List(quorum) /\ List(quorum') = List(quorum) \cup {id}
            /\ quorum'.activeStake = SafeAddClip(quorum.activeStake, Stake[Signer[id]])
  BY <1>1, SignFacts
<1>3. TypeOK'
  BY <1>1, <1>2 DEF TypeOK
<1>4. CertificateSound'
  BY <1>1, <1>2 DEF CertificateSound, Get
<1>5. Producers(quorum) \in SUBSET Includers
  BY ProducersIncluded
<1>6. CASE /\ id \notin List(quorum) /\ List(quorum') = List(quorum) \cup {id}
           /\ quorum'.activeStake = SafeAddClip(quorum.activeStake, Stake[Signer[id]])
  <2>1. Producers(quorum)' = Producers(quorum) \cup {Signer[id]}
    BY <1>6 DEF Producers
  <2>2. /\ Weight[Producers(quorum)'] <= Weight[Producers(quorum)] + Stake[Signer[id]]
        /\ Weight[Producers(quorum)'] \in Nat /\ Weight[Producers(quorum)] \in Nat
        /\ Weight[Producers(quorum)'] <= MaxInt64
    <3>1. Producers(quorum)' \in SUBSET Includers
      BY <1>1, <1>5, <2>1
    <3>2. Weight[Producers(quorum)'] <= Weight[Producers(quorum)] + Stake[Signer[id]]
      BY <1>1, <1>5, <2>1, WeightInsert
    <3> QED
      BY <1>5, <3>1, <3>2, WeightBound, StakeFacts, QuorumAssumption
  <2>3. /\ Stake[Signer[id]] \in Nat /\ Stake[Signer[id]] <= MaxInt64
        /\ quorum.activeStake \in 0..MaxInt64 /\ quorum'.activeStake \in 0..MaxInt64
    BY <1>1, <1>2, StakeBound DEF QuorumType
  <2>4. StakeCovered'
    <3>1. Weight[Producers(quorum)] <= quorum.activeStake
      BY DEF StakeCovered
    <3>2. \/ quorum'.activeStake = quorum.activeStake + Stake[Signer[id]]
          \/ quorum'.activeStake = MaxInt64
      BY <1>6, <2>3, SafeAddClipFacts
    <3>3. Weight[Producers(quorum)'] <= quorum'.activeStake
      BY <2>2, <2>3, <3>1, <3>2
    <3> QED
      BY <3>3 DEF StakeCovered
  <2>5. FinalizeExact'
    <3>1. SUFFICES ASSUME dropped = {},
                          \A i, j \in List(quorum)' : i # j => Signer[i] # Signer[j]
                   PROVE  quorum'.activeStake = Weight[Producers(quorum)']
      BY <1>1 DEF FinalizeExact
    <3>2. quorum.activeStake = Weight[Producers(quorum)]
      BY <1>6, <3>1 DEF FinalizeExact
    <3>3. Signer[id] \notin Producers(quorum)
      BY <1>6, <3>1 DEF Producers
    <3>4. Weight[Producers(quorum)'] = quorum.activeStake + Stake[Signer[id]]
      BY <1>1, <1>5, <2>1, <3>2, <3>3, WeightInsert
    <3> QED
      BY <1>6, <2>2, <2>3, <3>4, SafeAddClipFacts
  <2> QED
    BY <1>3, <1>4, <2>4, <2>5
<1>7. CASE List(quorum') = List(quorum) /\ quorum'.activeStake = quorum.activeStake
  BY <1>1, <1>3, <1>4, <1>7 DEF StakeCovered, FinalizeExact, Producers
<1> QED
  BY <1>2, <1>6, <1>7

\* Each method of the quorum preserves the inductive invariant.
LEMMA NextIInv == IInv /\ [Next]_vars => IInv'
<1> SUFFICES ASSUME IInv, [Next]_vars PROVE IInv'
  OBVIOUS
<1>1. CASE Next
  BY <1>1, AddIInv, DeleteIInv, SignIInv DEF Next
<1>2. CASE UNCHANGED vars
  BY <1>2 DEF vars, IInv, TypeOK, CertificateSound, StakeCovered, FinalizeExact, Producers,
              List, Get
<1> QED
  BY <1>1, <1>2

\* Whatever methods are called on a quorum, in whatever order, its certificates are
\* sound, and its counter covers the producers that List returns.
THEOREM InductiveInvariant == Spec => []IInv
  BY InitIInv, NextIInv, PTL DEF Spec

\* Every counter stays within the width of an int64 (safeAddClip).
THEOREM TypeCorrect == Spec => []TypeOK
  BY InductiveInvariant, PTL DEF IInv

\* addSignature keeps every certificate sound for any includers set and stakes.
THEOREM CertificatesSound == Spec => []CertificateSound
  BY InductiveInvariant, PTL DEF IInv

\* Finalize is never late, whatever was deleted or clipped on the way.
THEOREM FinalizeNeverLate == Spec => []NeverLate
<1>1. IInv => NeverLate
  <2> SUFFICES ASSUME IInv, Weight[Producers(quorum)] >= StakeRequired
               PROVE  Finalize(quorum)
    BY DEF NeverLate
  <2>1. Weight[Producers(quorum)] \in Nat
    BY ProducersIncluded, WeightBound DEF IInv
  <2> QED
    BY <2>1, StakeFacts DEF IInv, StakeCovered, Finalize, TypeOK, QuorumType
<1> QED
  BY <1>1, InductiveInvariant, PTL

\* Without deletions of complete certificates and with one message per producer
\* the quorum's counter is exactly the stake of the listed producers.
THEOREM CounterExact == Spec => []FinalizeExact
  BY InductiveInvariant, PTL DEF IInv

\* Finalize is never revoked: no operation lowers Quorum.activeStake.
THEOREM FinalizeIsStable == Spec => FinalizeStable
<1>1. ASSUME IInv, [Next]_vars
      PROVE  quorum'.activeStake >= quorum.activeStake /\ quorum'.activeStake \in Int
  <2> USE DEF IInv
  <2>0. quorum.activeStake \in 0..MaxInt64 /\ MaxInt64 \in Nat
    BY <1>1, QuorumAssumption DEF TypeOK, QuorumType
  <2>1. ASSUME NEW id \in Ids, AddStep(id) \/ DeleteStep(id)
        PROVE  quorum'.activeStake = quorum.activeStake
    BY <1>1, <2>1 DEF AddStep, DeleteStep, Add, Delete, TypeOK, QuorumType
  <2>2. ASSUME NEW id \in Ids, NEW key \in Keys, SignStep(id, key)
        PROVE  quorum'.activeStake >= quorum.activeStake /\ quorum'.activeStake \in Int
    <3>1. Signer[id] \in Includers
      BY <1>1, <2>2 DEF SignStep, CanSign, CertificateSound, Get
    <3>2. SafeAddClip(quorum.activeStake, Stake[Signer[id]]) \in 0..MaxInt64
          /\ SafeAddClip(quorum.activeStake, Stake[Signer[id]]) >= quorum.activeStake
      BY <2>0, <3>1, StakeBound, SafeAddClipFacts
    <3>3. \/ quorum'.activeStake = quorum.activeStake
          \/ quorum'.activeStake = SafeAddClip(quorum.activeStake, Stake[Signer[id]])
      BY <2>2 DEF SignStep, AddSignature
    <3> QED
      BY <2>0, <3>2, <3>3
  <2> QED
    BY <1>1, <2>0, <2>1, <2>2 DEF Next, vars
<1>2. IInv /\ [Next]_vars => [Finalize(quorum) => Finalize(quorum)']_vars
  BY <1>1, StakeFacts DEF Finalize, IInv, TypeOK, QuorumType
<1> QED
  BY <1>2, InductiveInvariant, PTL DEF Spec, FinalizeStable
=============================================================================
