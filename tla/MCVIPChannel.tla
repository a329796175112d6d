---------------------------- MODULE MCVIPChannel ----------------------------
(* Model checking VIPChannel: three passengers that come again and again. *)
EXTENDS VIPChannel, TLC

CONSTANTS p1, p2, p3
MCPassenger == {p1, p2, p3}
Symmetry == Permutations(MCPassenger)
=============================================================================
