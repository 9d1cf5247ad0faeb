---------------------------- MODULE GateAtomicity ----------------------------
(***************************************************************************)
(* The gate and SQLite implement atomic transactions for a program that    *)
(* makes every write inside a transaction on the connection it writes to,  *)
(* and awaits in the callback whatever it starts there (it forks nothing). *)
(* Transactions may be nested over different connections.                  *)
(***************************************************************************)
EXTENDS ConnectionGate

\* Every write that has been issued was issued inside a transaction on its
\* own connection, and no flow was forked.
Disciplined ==
  /\ \A s \in Stmt : done[s] # "new" => home[s] # None /\ At[home[s]] = At[s]
  /\ \A f \in Flow \ Root : pc[f] = "unborn"

DisciplinedSpec == Init /\ [][Next /\ Disciplined']_vars

\* The writes a callback has made so far, and the ones in the database.
CallbackWrites(t) == {s \in Stmt : IssuedIn(s, t) /\ done[s] = "ok"}
Stored == {s \in Stmt : Durable(s)}

Atomic == INSTANCE AtomicTransactions
            WITH result <- outcome,
                 writes <- [t \in Tx |-> CallbackWrites(t)],
                 store  <- Stored

\* The writes of a transaction enter the database in the one step that commits
\* it, all of them and no other write with them, or never do.
ImplementsAtomicTransactions == Atomic!Spec
=============================================================================
