----------------------------- MODULE MCAirport ------------------------------
(* Model checking Airport. *)
EXTENDS Airport, TLC
=============================================================================
