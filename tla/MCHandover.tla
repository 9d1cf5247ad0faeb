------------------------------ MODULE MCHandover ------------------------------
(* A few page loads and units of work, for TLC. *)
EXTENDS Handover

CONSTANTS p, q, r, u1, u2
=============================================================================
