---------------------------- MODULE MCBootstrap -----------------------------
(* TLC instance of Bootstrap. *)
EXTENDS Bootstrap

CONSTANTS a, b, c, d

MCFlaky == {{b, c}, {a, d}}
=============================================================================
