--------------------------- MODULE MCAbuseLimiter ---------------------------
(* A few requests of one client. *)
EXTENDS AbuseLimiter, TLC

CONSTANTS r1, r2, r3

RequestSet == {r1, r2, r3}

RequestSymmetry == Permutations(RequestSet)
=============================================================================
