------------------------- MODULE QuorumCertificate --------------------------
(***************************************************************************)
(* The promise of rebro.QuorumCertificate as the dag/quorum implementation *)
(* keeps it: any sequence of Add, Delete and AddSignature calls, one at a  *)
(* time.  Round.tla is shown to give its many callers this specification.  *)
(***************************************************************************)
EXTENDS StakeQuorum

VARIABLES
  quorum,    \* the Quorum object
  dropped    \* history: ids whose certificate was complete when it was deleted

vars == <<quorum, dropped>>

TypeOK == quorum \in QuorumType /\ dropped \in SUBSET Ids

Init == quorum = NewQuorum /\ dropped = {}

AddStep(id) ==
  /\ CanAdd(quorum, id)
  /\ quorum' = Add(quorum, id)
  /\ UNCHANGED dropped

DeleteStep(id) ==
  /\ CanDelete(quorum, id)
  /\ quorum' = Delete(quorum, id)
  /\ dropped' = IF id \in List(quorum) THEN dropped \cup {id} ELSE dropped

SignStep(id, key) ==
  /\ CanSign(quorum, id, key)
  /\ quorum' = AddSignature(quorum, id, key)
  /\ UNCHANGED dropped

\* A call that returns an error, and Get, List and Finalize, change nothing.
Next == \E id \in Ids : \/ AddStep(id)
                        \/ DeleteStep(id)
                        \/ \E key \in Keys : SignStep(id, key)

Spec == Init /\ [][Next]_vars

-----------------------------------------------------------------------------
(* Properties *)

\* Certificate.AddSignature: whatever the order of signatures, deletions and
\* re-additions, a present certificate's stake is that of its distinct signers,
\* and it is complete exactly when these hold more than 2/3 of the total.
CertificateSound ==
  \A id \in Ids : /\ CertOK(quorum.certificates[id])
                  /\ Signer[id] \notin Includers => ~Get(quorum, id)

\* Quorum.Finalize is never late: as soon as the producers of the complete
\* certificates that List returns hold a quorum of stake, Finalize says so.
NeverLate == Weight[Producers(quorum)] >= StakeRequired => Finalize(quorum)

\* As long as no complete certificate was deleted and no producer has two
\* complete messages, Quorum.activeStake is exactly the stake of the listed
\* producers, so that Finalize is true only when List holds a quorum of blocks.
FinalizeExact ==
  (/\ dropped = {}
   /\ \A i, j \in List(quorum) : i # j => Signer[i] # Signer[j])
  => quorum.activeStake = Weight[Producers(quorum)]

\* Finalize never goes back to false: deleting certificates, or the counter
\* reaching the width of an int64, does not revoke it.
FinalizeStable == [][Finalize(quorum) => Finalize(quorum)']_vars
=============================================================================
