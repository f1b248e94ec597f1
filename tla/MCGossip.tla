------------------------------ MODULE MCGossip ------------------------------
(* TLC instances of Gossip: three includers with stakes 2, 1 and 1. *)
EXTENDS Gossip, Folds, TLC

CONSTANTS a, b, c, m1, m2, m3

MCIncluders == {a, b, c}
MCStake     == (a :> 2) @@ (b :> 1) @@ (c :> 1)
MCWeight    == [S \in SUBSET MCIncluders |->
                  MapThenFoldSet(+, 0, LAMBDA i : MCStake[i], LAMBDA T : CHOOSE i \in T : TRUE, S)]
MCSigner    == [id \in Ids |-> IF id = m1 THEN a ELSE IF id = m2 THEN b ELSE c]
MCOwn       == [n \in Publishers |-> IF n = a THEN m1 ELSE IF n = b THEN m2 ELSE m3]
=============================================================================
