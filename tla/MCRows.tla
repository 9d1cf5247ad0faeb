------------------------------- MODULE MCRows -------------------------------
(* One row, and callers that race for them, for TLC. *)
EXTENDS Rows

CONSTANTS c1, c2, c3
=============================================================================
