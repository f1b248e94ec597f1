--------------------------- MODULE MCRoundManager ---------------------------
(* TLC instances of RoundManager. *)
EXTENDS RoundManager, TLC

CONSTANTS b1, b2, b3, g1, g2, s1

R(k, n) == [kind |-> k, round |-> n]

\* Two Broadcasts of round 1 and one of round 2, two waiters, one Manager.Stop.
MCReq == (b1 :> R("broadcast", 1)) @@ (b2 :> R("broadcast", 1)) @@ (b3 :> R("broadcast", 2))
         @@ (g1 :> R("get", 1)) @@ (g2 :> R("get", 1)) @@ (s1 :> R("stop", 1))
ReqOf == [c \in Calls |-> MCReq[c]]

\* Calls that ask for the same thing are interchangeable.
CallSymmetry == Permutations({b1, b2}) \cup Permutations({g1, g2})
=============================================================================
