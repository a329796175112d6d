--------------------------- MODULE MCSecurityCheck --------------------------
(* Model checking SecurityCheck: more passengers than places. *)
EXTENDS SecurityCheck

CONSTANTS p1, p2, p3, p4
MCPassenger == {p1, p2, p3, p4}
=============================================================================
