------------------------- MODULE AtomicTransactions -------------------------
(***************************************************************************)
(* What a transaction promises its caller: the writes of the callback      *)
(* happen together, in one step, or not at all.  There is no connection,   *)
(* no gate and no order of statements here.                                *)
(***************************************************************************)
CONSTANTS Tx, Stmt

VARIABLES
  result,     \* what a transaction came to: "none", "committed", "rolledback"
  writes,     \* the writes its callback has made so far
  store       \* the writes that are in the database

vars == <<result, writes, store>>

Written == UNION {writes[t] : t \in Tx}

Init ==
  /\ result = [t \in Tx |-> "none"]
  /\ writes = [t \in Tx |-> {}]
  /\ store  = {}

\* The callback of a transaction that is still undecided makes a write.
Write(t, s) ==
  /\ result[t] = "none" /\ s \notin Written
  /\ writes' = [writes EXCEPT ![t] = @ \cup {s}]
  /\ UNCHANGED <<result, store>>

\* Every write of the callback enters the database, and nothing else does.
Commit(t) ==
  /\ result[t] = "none"
  /\ result' = [result EXCEPT ![t] = "committed"]
  /\ store'  = store \cup writes[t]
  /\ UNCHANGED writes

\* None does.
Rollback(t) ==
  /\ result[t] = "none"
  /\ result' = [result EXCEPT ![t] = "rolledback"]
  /\ UNCHANGED <<writes, store>>

Next == \E t \in Tx : Commit(t) \/ Rollback(t) \/ \E s \in Stmt : Write(t, s)

Spec == Init /\ [][Next]_vars
=============================================================================
