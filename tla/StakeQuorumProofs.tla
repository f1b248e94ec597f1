------------------------ MODULE StakeQuorumProofs -------------------------
(***************************************************************************)
(* Lemmas about stake arithmetic and the methods of the quorum, for every  *)
(* includers set, every distribution of stake and every set of messages.   *)
(***************************************************************************)
EXTENDS StakeQuorum, TLAPS

-----------------------------------------------------------------------------
(* Stake arithmetic *)

\* updateTotalStake's MaxStake leaves room for the doubling in stakeRequired,
\* the threshold is above two thirds of the total, and it fits an int64.
LEMMA StakeFacts ==
  /\ TotalStake \in Nat
  /\ StakeRequired \in Nat
  /\ StakeRequired >= 1
  /\ 3 * StakeRequired > 2 * TotalStake
  /\ 2 * TotalStake <= MaxInt64
  /\ TotalStake <= MaxInt64
  /\ TotalStake >= 1 => StakeRequired <= MaxInt64
<1>1. TotalStake \in Nat
  BY QuorumAssumption DEF TotalStake
<1>2. MaxInt64 \in Nat /\ TotalStake <= MaxInt64 \div 8
  BY QuorumAssumption DEF TotalStake, MaxStake
<1> QED
  BY <1>1, <1>2 DEF StakeRequired

\* No signers, no stake.
LEMMA WeightEmpty == Weight[{}] = 0
  BY QuorumAssumption

\* The stake of a set is at most the stake of a larger one.
LEMMA WeightMonotone ==
  ASSUME NEW S \in SUBSET Includers, NEW T \in SUBSET Includers, S \subseteq T
  PROVE  Weight[S] <= Weight[T]
<1>1. T = S \cup (T \ S) /\ {} = S \cap (T \ S) /\ T \ S \in SUBSET Includers
  OBVIOUS
<1>2. Weight[T] + Weight[{}] = Weight[S] + Weight[T \ S]
  BY <1>1, QuorumAssumption
<1>3. Weight[T] \in Nat /\ Weight[S] \in Nat /\ Weight[T \ S] \in Nat /\ Weight[{}] = 0
  BY <1>1, QuorumAssumption
<1> QED
  BY <1>2, <1>3

\* Adding one includer to a set adds at most its stake, and exactly its stake
\* when it was not in the set.
LEMMA WeightInsert ==
  ASSUME NEW S \in SUBSET Includers, NEW k \in Includers
  PROVE  /\ Weight[S \cup {k}] <= Weight[S] + Stake[k]
         /\ k \notin S => Weight[S \cup {k}] = Weight[S] + Stake[k]
<1>1. {k} \in SUBSET Includers /\ S \cup {k} \in SUBSET Includers
      /\ S \cap {k} \in SUBSET Includers
  OBVIOUS
<1>2. Weight[S \cup {k}] + Weight[S \cap {k}] = Weight[S] + Stake[k]
  BY <1>1, QuorumAssumption
<1>3. /\ Weight[S \cup {k}] \in Nat /\ Weight[S \cap {k}] \in Nat
      /\ Weight[S] \in Nat /\ Stake[k] \in Nat
  BY <1>1, QuorumAssumption
<1>4. k \notin S => Weight[S \cap {k}] = 0
  <2>1. k \notin S => S \cap {k} = {}
    OBVIOUS
  <2> QED
    BY <2>1, QuorumAssumption
<1> QED
  BY <1>2, <1>3, <1>4

\* Every set of includers weighs at most the total.
LEMMA WeightBound ==
  ASSUME NEW S \in SUBSET Includers
  PROVE  Weight[S] \in Nat /\ Weight[S] <= TotalStake
<1>1. Includers \in SUBSET Includers
  OBVIOUS
<1> QED
  BY <1>1, WeightMonotone, QuorumAssumption DEF TotalStake

\* One includer's stake fits an int64.
LEMMA StakeBound ==
  ASSUME NEW k \in Includers
  PROVE  Stake[k] \in Nat /\ Stake[k] <= MaxInt64
<1>1. {k} \in SUBSET Includers /\ Weight[{k}] = Stake[k] /\ MaxInt64 \in Nat
  BY QuorumAssumption
<1>2. Weight[{k}] \in Nat /\ Weight[{k}] <= TotalStake
  BY <1>1, WeightBound
<1> QED
  BY <1>1, <1>2, StakeFacts

\* safeAddClip stays within an int64, never loses stake, and is plain addition
\* when the sum fits.
LEMMA SafeAddClipFacts ==
  ASSUME NEW x \in 0..MaxInt64, NEW y \in Nat, y <= MaxInt64
  PROVE  /\ SafeAddClip(x, y) \in 0..MaxInt64
         /\ SafeAddClip(x, y) >= x
         /\ SafeAddClip(x, y) = x + y \/ SafeAddClip(x, y) = MaxInt64
         /\ x + y <= MaxInt64 => SafeAddClip(x, y) = x + y
  BY QuorumAssumption DEF SafeAddClip

\* Two sets of signers that both complete a certificate (stakeRequired) share
\* signers holding more than a third of the total stake: with at most a third
\* of it faulty, some correct includer signed both.
THEOREM QuorumIntersection ==
  ASSUME NEW S \in SUBSET Includers, NEW T \in SUBSET Includers,
         Weight[S] >= StakeRequired, Weight[T] >= StakeRequired
  PROVE  3 * Weight[S \cap T] > TotalStake
<1>1. S \cup T \in SUBSET Includers /\ S \cap T \in SUBSET Includers
  OBVIOUS
<1>2. Weight[S \cup T] + Weight[S \cap T] = Weight[S] + Weight[T]
  BY QuorumAssumption
<1>3. /\ Weight[S \cup T] \in Nat /\ Weight[S \cap T] \in Nat
      /\ Weight[S] \in Nat /\ Weight[T] \in Nat
      /\ Weight[S \cup T] <= TotalStake
  BY <1>1, WeightBound
<1> QED
  BY <1>2, <1>3, StakeFacts

-----------------------------------------------------------------------------
(* Certificates *)

\* A certificate without signatures is not complete.
LEMMA EmptyIncomplete ==
  ASSUME NEW cert, CertOK(cert), cert.signers = {}
  PROVE  ~cert.completed
<1>1. cert.activeStake = 0
  BY WeightEmpty DEF CertOK
<1>2. ~(cert.activeStake >= StakeRequired)
  BY <1>1, StakeFacts
<1> QED
  BY <1>2 DEF CertOK

\* The certificates newCertificate makes and the one that stands for absence.
LEMMA EmptyCertificates ==
  /\ NewCertificate \in Cert /\ CertOK(NewCertificate) /\ ~NewCertificate.completed
  /\ NoCert \in Cert /\ CertOK(NoCert) /\ ~NoCert.completed /\ ~NoCert.present
<1>1. NewCertificate \in Cert /\ NoCert \in Cert
  BY QuorumAssumption DEF Cert, NoCert, NewCertificate
<1>2. ~(0 >= StakeRequired)
  BY StakeFacts
<1> QED
  BY <1>1, <1>2, WeightEmpty DEF CertOK, NoCert, NewCertificate

-----------------------------------------------------------------------------
(* Methods of a quorum, as facts about the value they return *)

\* A complete certificate is present.
LEMMA CompleteIsPresent ==
  ASSUME NEW cert, CertOK(cert), cert.completed
  PROVE  cert.present
  BY EmptyIncomplete DEF CertOK

\* Quorum.Add: one more certificate, which is empty; the list and the counter stay.
LEMMA AddFacts ==
  ASSUME NEW q \in QuorumType, NEW id \in Ids, CertOK(q.certificates[id]), ~Get(q, id)
  PROVE  /\ Add(q, id) \in QuorumType
         /\ Add(q, id).certificates = [q.certificates EXCEPT ![id] = NewCertificate]
         /\ Add(q, id).activeStake = q.activeStake
         /\ List(Add(q, id)) = List(q)
<1>1. /\ Add(q, id).certificates = [q.certificates EXCEPT ![id] = NewCertificate]
      /\ Add(q, id).activeStake = q.activeStake
      /\ Add(q, id) \in QuorumType
  BY EmptyCertificates DEF Add, QuorumType
<1>2. ~q.certificates[id].completed
  BY CompleteIsPresent DEF Get
<1> QED
  BY <1>1, <1>2, EmptyCertificates DEF List, QuorumType

\* Quorum.Delete: the certificate leaves the list, its stake stays in the counter.
LEMMA DeleteFacts ==
  ASSUME NEW q \in QuorumType, NEW id \in Ids
  PROVE  /\ Delete(q, id) \in QuorumType
         /\ Delete(q, id).certificates = [q.certificates EXCEPT ![id] = NoCert]
         /\ Delete(q, id).activeStake = q.activeStake
         /\ List(Delete(q, id)) = List(q) \ {id}
<1>1. /\ Delete(q, id).certificates = [q.certificates EXCEPT ![id] = NoCert]
      /\ Delete(q, id).activeStake = q.activeStake
      /\ Delete(q, id) \in QuorumType
  BY EmptyCertificates DEF Delete, QuorumType
<1> QED
  BY <1>1, EmptyCertificates DEF List, QuorumType

\* Quorum.addSignature of a signer the certificate does not have: the certificate
\* stays sound, the counter never falls, and it grows by at most the producer's
\* stake, and only when this signature put the message on the list.
LEMMA SignFacts ==
  ASSUME NEW q \in QuorumType, NEW id \in Ids, NEW key \in Includers,
         CertOK(q.certificates[id]), key \notin q.certificates[id].signers,
         Signer[id] \in Includers
  PROVE  LET r == AddSignature(q, id, key)
         IN  /\ r \in QuorumType
             /\ \A i \in Ids : i # id => r.certificates[i] = q.certificates[i]
             /\ r.certificates[id].present
             /\ r.certificates[id].signers = q.certificates[id].signers \cup {key}
             /\ CertOK(r.certificates[id])
             /\ r.activeStake >= q.activeStake
             /\ \/ List(r) = List(q) /\ r.activeStake = q.activeStake
                \/ /\ id \notin List(q) /\ List(r) = List(q) \cup {id}
                   /\ r.activeStake = SafeAddClip(q.activeStake, Stake[Signer[id]])
<1> DEFINE r      == AddSignature(q, id, key)
           cert   == q.certificates[id]
           active == SafeAddClip(cert.activeStake, Stake[key])
           done   == cert.completed \/ active >= StakeRequired
           new    == [present |-> TRUE, signers |-> cert.signers \cup {key},
                      activeStake |-> active, completed |-> done]
<1>1. cert \in Cert /\ CertOK(cert) /\ cert.signers \in SUBSET Includers
  BY DEF QuorumType, Cert
<1>2. /\ r.certificates = [q.certificates EXCEPT ![id] = new]
      /\ r.activeStake = IF done /\ ~cert.completed
                         THEN SafeAddClip(q.activeStake, Stake[Signer[id]])
                         ELSE q.activeStake
      /\ r = [certificates |-> r.certificates, activeStake |-> r.activeStake]
  BY DEF AddSignature
<1>3. /\ active = Weight[cert.signers \cup {key}]
      /\ active \in 0..MaxInt64 /\ active >= cert.activeStake
  <2>1. Weight[cert.signers \cup {key}] = cert.activeStake + Stake[key]
    BY <1>1, WeightInsert DEF CertOK
  <2>2. cert.signers \cup {key} \in SUBSET Includers
    BY <1>1
  <2>3. Weight[cert.signers \cup {key}] <= MaxInt64 /\ MaxInt64 \in Nat
    BY <2>2, WeightBound, StakeFacts, QuorumAssumption
  <2>4. cert.activeStake \in 0..MaxInt64 /\ Stake[key] \in Nat /\ Stake[key] <= MaxInt64
    BY <1>1, StakeBound DEF Cert
  <2> QED
    BY <2>1, <2>3, <2>4, SafeAddClipFacts
<1>4. done = (active >= StakeRequired)
  BY <1>1, <1>3, StakeFacts, QuorumAssumption DEF CertOK, Cert
<1>5. done \in BOOLEAN /\ (cert.completed => done) /\ cert.completed \in BOOLEAN
  BY <1>1, <1>4 DEF Cert
<1> HIDE DEF r, active, done
<1>6. /\ new \in Cert /\ CertOK(new) /\ new.completed = done
      /\ new.present /\ new.signers = cert.signers \cup {key}
  BY <1>1, <1>3, <1>4, <1>5 DEF Cert, CertOK
<1> HIDE DEF new
<1>7. Stake[Signer[id]] \in Nat /\ Stake[Signer[id]] <= MaxInt64 /\ q.activeStake \in 0..MaxInt64
  BY StakeBound DEF QuorumType
<1>8. /\ SafeAddClip(q.activeStake, Stake[Signer[id]]) \in 0..MaxInt64
      /\ SafeAddClip(q.activeStake, Stake[Signer[id]]) >= q.activeStake
  BY <1>7, SafeAddClipFacts
<1>9. r \in QuorumType /\ r.activeStake >= q.activeStake
  BY <1>2, <1>6, <1>7, <1>8 DEF QuorumType
<1>10. q.certificates \in [Ids -> Cert]
  BY DEF QuorumType
<1>11. /\ \A i \in Ids : i # id => r.certificates[i] = q.certificates[i]
       /\ r.certificates[id] = new
  BY <1>2, <1>10
<1>12. \/ List(r) = List(q) /\ r.activeStake = q.activeStake
       \/ /\ id \notin List(q) /\ List(r) = List(q) \cup {id}
          /\ r.activeStake = SafeAddClip(q.activeStake, Stake[Signer[id]])
  <2>1. CASE done /\ ~cert.completed
    BY <1>2, <1>6, <1>11, <2>1 DEF List
  <2>2. CASE ~(done /\ ~cert.completed)
    BY <1>2, <1>5, <1>6, <1>11, <2>2 DEF List
  <2> QED
    BY <2>1, <2>2
<1> QED
  BY <1>6, <1>9, <1>11, <1>12 DEF r
=============================================================================
