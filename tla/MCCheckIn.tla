----------------------------- MODULE MCCheckIn ------------------------------
(* Model checking CheckIn: more passengers than kiosks. *)
EXTENDS CheckIn, TLC

CONSTANTS p1, p2, p3, p4
MCPassenger == {p1, p2, p3, p4}
=============================================================================
