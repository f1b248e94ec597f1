------------------------------ MODULE MCChain -------------------------------
(* TLC instances of Chain: three includers with stakes 2, 1 and 1. *)
EXTENDS Chain, Folds, TLC

CONSTANTS a, b, c, a1, a2, b1, b2, c1

MCStake  == (a :> 2) @@ (b :> 1) @@ (c :> 1)
MCWeight == [S \in SUBSET Nodes |->
               MapThenFoldSet(+, 0, LAMBDA i : MCStake[i], LAMBDA T : CHOOSE i \in T : TRUE, S)]
MCIds    == (1..MaxHeight) \X Nodes
MCSigner == [id \in MCIds |-> id[2]]
MCOwner  == (a1 :> a) @@ (a2 :> a) @@ (b1 :> b) @@ (b2 :> b) @@ (c1 :> c)

\* a and b have a batch for every height.
Calm(dying) == [batches |-> Batches, backlog |-> 1, late |-> {}, lossy |-> {}, expiring |-> {},
                slow |-> {}, mortal |-> dying]

\* Every node has one batch; a's comes late to b or never, c's may expire at c, and
\* c is slow with a's blocks.
Rough == [Calm({}) EXCEPT !.batches = {a1, b1, c1}, !.late = {<<a1, b>>}, !.lossy = {<<a1, b>>},
                          !.expiring = {<<c1, c>>}, !.slow = {<<c, a>>}]

\* Blocks of up to two batches, which come late.  c has none and does nothing.
Bulky == [Calm({}) EXCEPT !.batches = {a1, a2, b1, b2}, !.backlog = 2,
                          !.late = {<<a1, b>>, <<a2, b>>, <<b1, a>>}]

MCScenarios == {Calm({c}), Rough, Bulky}

\* Only a has a second batch; the others go on when they list theirs again.
Sparse == {[Calm({}) EXCEPT !.batches = {a1, a2, b1, c1}]}
=============================================================================
