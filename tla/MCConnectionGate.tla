-------------------------- MODULE MCConnectionGate --------------------------
(* Small programs over the gate, for TLC. *)
EXTENDS GateAtomicity

CONSTANTS
  db1, db2,            \* connections
  w1, w2,              \* writes through #roundTrip
  inc,                 \* an increment(): never asks the gate
  a, b,                \* withTransaction calls
  r1, r2, k,           \* flows: two requests, one piece of forked work
  m                    \* a createMany / findOneAndUpdate / getOrCreate

\* One connection.
OneConn == [x \in Tx \cup Stmt |-> db1]

\* Two connections: b is on the second one.
TwoConns == [x \in Tx \cup Stmt |-> IF x = b THEN db2 ELSE db1]
=============================================================================
