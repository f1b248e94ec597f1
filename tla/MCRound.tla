------------------------------ MODULE MCRound -------------------------------
(* TLC instances of Round. *)
EXTENDS Round, Folds, TLC

CONSTANTS a, b, m1, m2, c1, c2, c3, c4

\* a alone holds a quorum, b does not: a certificate is complete with a's
\* signature, and only a's own message makes the round final.
MCIncluders == {a, b}
MCStake     == (a :> 3) @@ (b :> 1)
MCWeight    == [S \in SUBSET MCIncluders |->
                  MapThenFoldSet(+, 0, LAMBDA i : MCStake[i], LAMBDA T : CHOOSE i \in T : TRUE, S)]
MCSigner    == (m1 :> a) @@ (m2 :> b)

Req(k, i, x) == [kind |-> k, id |-> i, key |-> x]

\* Publishing, awaiting and deleting one message, and stopping the round.
PubSub == [Calls -> {Req(k, m1, a) : k \in {"add", "get", "delete", "stop"}}]

\* Collecting signatures for two messages.
Signing == [Calls -> {Req("add", m1, a), Req("sign", m1, a), Req("add", m2, a), Req("sign", m2, a),
                      Req("delete", m1, a), Req("finalize", m1, a)}]

Everything == PubSub \cup Signing

\* Awaiting a message while the round is stopped.
Waiting == [Calls -> {Req(k, m1, a) : k \in {"add", "get", "stop"}}]

CallSymmetry == Permutations(Calls)
=============================================================================
