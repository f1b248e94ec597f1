---------------------------- MODULE StakeQuorum ----------------------------
(***************************************************************************)
(* The stake-weighted quorum of dag/quorum as a data type: the value of a  *)
(* Quorum and what each of its methods computes.  The modules that use it  *)
(* hold a quorum in a variable; Go guards it with the round's state loop.  *)
(***************************************************************************)
EXTENDS Integers

CONSTANTS
  Keys,       \* public keys that may appear as a signer
  Includers,  \* the keys in the includers set
  Stake,      \* Includer.Stake
  Weight,     \* the stake of a set of includers, counted once each
  Ids,        \* message ids (the hash is the key of Quorum.certificates)
  Signer,     \* MessageID.Signer()
  MaxInt64    \* math.MaxInt64; TLC uses a small width so that clipping happens

MaxStake == MaxInt64 \div 8

(* Weight is a measure whose atoms are the stakes.  Stakes are not negative  *)
(* (Includer.Validate) and a total above MaxStake panics (updateTotalStake). *)
ASSUME QuorumAssumption ==
  /\ Includers \subseteq Keys
  /\ Stake \in [Includers -> Nat]
  /\ Weight \in [SUBSET Includers -> Nat]
  /\ Weight[{}] = 0
  /\ \A i \in Includers : Weight[{i}] = Stake[i]
  /\ \A S, T \in SUBSET Includers :
        Weight[S \cup T] + Weight[S \cap T] = Weight[S] + Weight[T]
  /\ Signer \in [Ids -> Keys]
  /\ MaxInt64 \in Nat
  /\ Weight[Includers] <= MaxStake

-----------------------------------------------------------------------------
(* Stake arithmetic *)

\* Fault: plain addition, the counter leaves the width of an int64.
UnclippedAdd(a, b) == a + b

\* Fault: addition of int64s without the overflow check (its positive half).
WrappingAdd(a, b) == (a + b) % (MaxInt64 + 1)

\* safeAddClip for stakes, which are never negative: saturate, never wrap.
SafeAddClip(a, b) == IF b > 0 /\ a > MaxInt64 - b THEN MaxInt64 ELSE a + b

TotalStake == Weight[Includers]

StakeRequired == ((TotalStake * 2) \div 3) + 1

-----------------------------------------------------------------------------
(* Certificates.  An absent id has the certificate NoCert. *)

NoCert ==
  [present |-> FALSE, signers |-> {}, activeStake |-> 0, completed |-> FALSE]

NewCertificate ==
  [present |-> TRUE, signers |-> {}, activeStake |-> 0, completed |-> FALSE]

Cert == [present : BOOLEAN, signers : SUBSET Includers,
         activeStake : 0..MaxInt64, completed : BOOLEAN]

QuorumType == [certificates : [Ids -> Cert], activeStake : 0..MaxInt64]

NewQuorum == [certificates |-> [id \in Ids |-> NoCert], activeStake |-> 0]

-----------------------------------------------------------------------------
(* Methods of Quorum.  CanX is the condition under which X returns no error. *)

Get(q, id) == q.certificates[id].present

CanAdd(q, id) == Signer[id] \in Includers /\ ~Get(q, id)

Add(q, id) == [q EXCEPT !.certificates[id] = NewCertificate]

CanDelete(q, id) == Get(q, id)

\* Fault: Delete gives back the producer's stake also when the certificate was
\* never completed and never counted.
DeleteUnderflow(q, id) ==
  [q EXCEPT !.certificates[id] = NoCert, !.activeStake = @ - Stake[Signer[id]]]

Delete(q, id) == [q EXCEPT !.certificates[id] = NoCert]

List(q) == {id \in Ids : q.certificates[id].completed}

Finalize(q) == q.activeStake >= StakeRequired

\* Fault: the duplicate check of addSignature is missing.
CanSignTwice(q, id, key) == Get(q, id) /\ key \in Includers

CanSign(q, id, key) ==
  /\ Get(q, id)
  /\ key \in Includers
  /\ key \notin q.certificates[id].signers

\* Fault: every signature on a complete certificate counts for the quorum again.
AddSignatureRecount(q, id, key) ==
  LET cert   == q.certificates[id]
      active == SafeAddClip(cert.activeStake, Stake[key])
      done   == active >= StakeRequired
  IN  [certificates |-> [q.certificates EXCEPT ![id] =
         [present |-> TRUE, signers |-> cert.signers \cup {key},
          activeStake |-> active, completed |-> done]],
       activeStake |-> IF done THEN SafeAddClip(q.activeStake, Stake[Signer[id]])
                       ELSE q.activeStake]

\* Fault: the quorum is credited with the stake of whoever completed the
\* certificate instead of the stake of the message's producer.
AddSignatureWrongOwner(q, id, key) ==
  LET cert   == q.certificates[id]
      active == SafeAddClip(cert.activeStake, Stake[key])
      done   == cert.completed \/ active >= StakeRequired
  IN  [certificates |-> [q.certificates EXCEPT ![id] =
         [present |-> TRUE, signers |-> cert.signers \cup {key},
          activeStake |-> active, completed |-> done]],
       activeStake |-> IF done /\ ~cert.completed THEN SafeAddClip(q.activeStake, Stake[key])
                       ELSE q.activeStake]

\* addSignature: a completed certificate only collects the signature; the one
\* that completes it also adds the stake of the message's signer to the quorum.
AddSignature(q, id, key) ==
  LET cert   == q.certificates[id]
      active == SafeAddClip(cert.activeStake, Stake[key])
      done   == cert.completed \/ active >= StakeRequired
  IN  [certificates |-> [q.certificates EXCEPT ![id] =
         [present |-> TRUE, signers |-> cert.signers \cup {key},
          activeStake |-> active, completed |-> done]],
       activeStake |-> IF done /\ ~cert.completed
                       THEN SafeAddClip(q.activeStake, Stake[Signer[id]])
                       ELSE q.activeStake]

\* The bool addSignature returns: the certificate is complete.
Completes(q, id, key) == AddSignature(q, id, key).certificates[id].completed

-----------------------------------------------------------------------------
(* What the methods' results mean, for properties *)

\* Producers of the messages that List returns.
Producers(q) == {Signer[id] : id \in List(q)}

\* A certificate's stake counts each of its signers once, and it is complete
\* exactly when those hold more than two thirds of the total.
CertOK(cert) ==
  /\ cert.activeStake = Weight[cert.signers]
  /\ cert.completed <=> cert.activeStake >= StakeRequired
  /\ ~cert.present => cert.signers = {}
=============================================================================
