------------------------------- MODULE MCLock -------------------------------
(* Two processes, for TLC. *)
EXTENDS Lock

CONSTANTS g, h

\* The clock of h is one tick ahead of g's.
OneAhead == [x \in Holder |-> IF x = h THEN 1 ELSE 0]

\* A lease of two ticks for h, of three for the reliable process g.
Leases == [x \in Holder |-> IF x = g THEN 3 ELSE 2]
=============================================================================
