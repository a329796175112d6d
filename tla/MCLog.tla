------------------------------- MODULE MCLog --------------------------------
(* Model checking Log: two processes, a transaction of two calls. *)
EXTENDS Log

CONSTANTS p1, p2, b1, b2, b3, v0, v1
MCProc == {p1, p2}
MCBlock == {b1, b2, b3}
MCValue == {v0, v1}
Symmetry == Permutations(MCProc) \cup Permutations({b1, b2})
=============================================================================
