----------------------------- MODULE MCMemPool ------------------------------
(* TLC instances of MemPool: two signers, two hashes. *)
EXTENDS MemPool, TLC

CONSTANTS h1, h2, s1, s2, p1, p2, p3, q1, q2, q3, q4, l1, d1

R(k, h, s) == [kind |-> k, hash |-> h, signer |-> s]

\* h1 is pushed once; h2 is pushed by both signers and deleted.
MCReq == (p1 :> R("push", h1, s1)) @@ (p2 :> R("push", h2, s1)) @@ (p3 :> R("push", h2, s2))
         @@ (q1 :> R("pull", h1, s1)) @@ (q2 :> R("pull", h1, s1))
         @@ (q3 :> R("pull", h2, s1)) @@ (q4 :> R("pull", h2, s1))
         @@ (l1 :> R("list", h1, s2)) @@ (d1 :> R("delete", h2, s1))
ReqOf == [c \in Calls |-> MCReq[c]]

\* Pulls of one hash are interchangeable.
CallSymmetry == Permutations({q1, q2}) \cup Permutations({q3, q4})
=============================================================================
