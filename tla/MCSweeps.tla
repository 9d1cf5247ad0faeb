------------------------------ MODULE MCSweeps ------------------------------
(* A pass over at most four rows in chunks of two, for TLC. *)
EXTENDS Sweeps
=============================================================================
