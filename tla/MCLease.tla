------------------------------- MODULE MCLease -------------------------------
(* A queue, for TLC. *)
EXTENDS Lease

CONSTANTS c1, c2, c3, p1, p2

\* A second row would become due after the first.
DueInOrder == [r \in Row |-> r - 1]
=============================================================================
