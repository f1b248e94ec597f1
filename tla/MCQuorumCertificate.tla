------------------------ MODULE MCQuorumCertificate -------------------------
(* TLC instances of QuorumCertificate: three includers, one key outside the  *)
(* set.  The int64 is narrowed so that the quorum's counter reaches MaxInt64. *)
EXTENDS QuorumCertificate, Folds, TLC

CONSTANTS a, b, c, out, m1, m2, m3, m4

MCKeys      == {a, b, c, out}
MCIncluders == {a, b, c}
MCStake     == (a :> 3) @@ (b :> 2) @@ (c :> 2)
MCWeight    == [S \in SUBSET MCIncluders |->
                  MapThenFoldSet(+, 0, LAMBDA i : MCStake[i], LAMBDA T : CHOOSE i \in T : TRUE, S)]

\* m1 and m2 are two messages of one producer, m4 is of a key outside the set.
MCIds       == {m1, m2, m3, m4}
MCSigner    == (m1 :> a) @@ (m2 :> a) @@ (m3 :> b) @@ (m4 :> out)
=============================================================================
