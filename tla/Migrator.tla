------------------------------- MODULE Migrator -------------------------------
(***************************************************************************)
(* createMigrator (migrate/migrator.ts) on one database file used by       *)
(* several processes: up(), down(target), status() and latest(), with      *)
(* processes that die at any point and scripts that throw.                 *)
(*                                                                         *)
(* Every process has a connection of its own.  BEGIN is deferred, so the   *)
(* write lock is taken by the script's first write and held to the COMMIT; *)
(* until then the others see the committed tables, and a write of theirs   *)
(* waits, or fails as SQLITE_BUSY.  A process that dies rolls back.        *)
(*                                                                         *)
(* A migration is its place in the order of `localeCompare`.  Its script   *)
(* leaves an effect in the schema; run where the effect already is, it     *)
(* fails unless it is written to be tolerant (IF NOT EXISTS).              *)
(***************************************************************************)
EXTENDS Integers, FiniteSets

CONSTANTS
  Name,        \* migrations, numbered in the order of localeCompare
  Byte,        \* the place of a name in SQLite's and JavaScript's < order
  Process,     \* processes that run the migrator
  Provided,    \* the migrations each process was deployed with
  Reversible,  \* migrations with a down script
  Tolerant,    \* migrations whose scripts can run twice
  Downs,       \* bound: calls of down()
  None         \* no target, no migration, no process

ASSUME MigratorAssumption ==
  /\ Name \subseteq Nat /\ None \notin Name \cup Process
  /\ Byte \in [Name -> Nat]
  /\ \A m, n \in Name : Byte[m] = Byte[n] => m = n
  /\ Provided \in [Process -> SUBSET Name]
  /\ Reversible \subseteq Name /\ Tolerant \subseteq Name
  /\ Downs \in Nat

VARIABLES
  table,     \* the tracking table exists
  tracked,   \* the names it holds
  schema,    \* the migrations whose effect is in the database
  writer,    \* the process with an open write transaction, or None
  pending,   \* what that transaction has written: [tracked, schema]
  call,      \* the method each process is in
  pc,        \* where it is in it
  target,    \* the argument of its down()
  todo,      \* the names its loop has left
  downs,     \* calls of down() so far
  runs       \* history: committed ups less committed downs of each migration

disk  == <<table, tracked, schema, writer, pending>>
local == <<call, pc, target, todo>>
vars  == <<disk, local, downs, runs>>

Nothing == [tracked |-> {}, schema |-> {}]

Init ==
  /\ table = FALSE /\ tracked = {} /\ schema = {}
  /\ writer = None /\ pending = Nothing
  /\ call   = [p \in Process |-> "none"]
  /\ pc     = [p \in Process |-> "idle"]
  /\ target = [p \in Process |-> None]
  /\ todo   = [p \in Process |-> {}]
  /\ downs  = 0
  /\ runs   = [m \in Name |-> 0]

-----------------------------------------------------------------------------
(* The two loops. *)

\* Mutant: up() takes its migrations in any order.
IsNextUnsorted(p, m) ==
  /\ m \in todo[p]
  /\ call[p] = "down" => \A n \in todo[p] : Byte[n] <= Byte[m]

\* up() goes through the pending migrations by name, down() through the
\* applied rows of ORDER BY name DESC.
IsNext(p, m) ==
  /\ m \in todo[p]
  /\ call[p] = "up"   => \A n \in todo[p] : m <= n
  /\ call[p] = "down" => \A n \in todo[p] : Byte[n] <= Byte[m]

\* The loop of down() stops at the first row whose name is <= target.
AboveTarget(p) ==
  {m \in tracked : target[p] # None => Byte[m] > Byte[target[p]]}

\* latest(): the first row of ORDER BY name DESC.
IsLatest(m) == m \in tracked /\ \A n \in tracked : Byte[n] <= Byte[m]

Call(p, method, to) ==
  /\ pc[p] = "idle"
  /\ call'   = [call EXCEPT ![p] = method]
  /\ target' = [target EXCEPT ![p] = to]
  /\ pc'     = [pc EXCEPT ![p] = "ensure"]
  /\ UNCHANGED <<disk, todo, runs>>

Up(p) == Call(p, "up", None) /\ UNCHANGED downs

Down(p, to) == Call(p, "down", to) /\ downs < Downs /\ downs' = downs + 1

\* The method returned or threw.
Over(p) ==
  /\ call'   = [call EXCEPT ![p] = "none"]
  /\ target' = [target EXCEPT ![p] = None]
  /\ pc'     = [pc EXCEPT ![p] = "idle"]
  /\ todo'   = [todo EXCEPT ![p] = {}]

EnsureTable(p) ==
  /\ pc[p] = "ensure"
  /\ table \/ writer = None
  /\ table' = TRUE
  /\ pc' = [pc EXCEPT ![p] = "read"]
  /\ UNCHANGED <<tracked, schema, writer, pending, call, target, todo, downs, runs>>

\* Mutant: up() does not ask what is applied.
ReadNothing(p) ==
  /\ pc[p] = "read"
  /\ todo' = [todo EXCEPT ![p] = IF call[p] = "up" THEN Provided[p] ELSE AboveTarget(p)]
  /\ pc' = [pc EXCEPT ![p] = "loop"]
  /\ UNCHANGED <<disk, call, target, downs, runs>>

\* The applied names, read once: the loop never looks at the table again.
Read(p) ==
  /\ pc[p] = "read"
  /\ todo' = [todo EXCEPT ![p] =
                IF call[p] = "up" THEN Provided[p] \ tracked ELSE AboveTarget(p)]
  /\ pc' = [pc EXCEPT ![p] = "loop"]
  /\ UNCHANGED <<disk, call, target, downs, runs>>

-----------------------------------------------------------------------------
(* One migration: a transaction of its script and its tracking row. *)

\* down() refuses a row it has no migration or no down script for.
Runnable(p, m) ==
  /\ call[p] = "up"   => m \in Tolerant \/ m \notin schema
  /\ call[p] = "down" => /\ m \in Provided[p] \cap Reversible
                         /\ m \in Tolerant \/ m \in schema

\* Mutant: the script runs on the driver, outside the transaction.
ScriptOutside(p) ==
  /\ pc[p] = "loop" /\ writer = None
  /\ \E m \in todo[p] :
       /\ IsNext(p, m) /\ Runnable(p, m)
       /\ schema' = IF call[p] = "up" THEN schema \cup {m} ELSE schema \ {m}
  /\ pending' = [tracked |-> tracked, schema |-> schema']
  /\ writer' = p
  /\ pc' = [pc EXCEPT ![p] = "track"]
  /\ UNCHANGED <<table, tracked, call, target, todo, downs, runs>>

\* BEGIN and the script: m.up(tx) or m.down(tx).
Script(p) ==
  /\ pc[p] = "loop" /\ writer = None
  /\ \E m \in todo[p] :
       /\ IsNext(p, m) /\ Runnable(p, m)
       /\ pending' = [tracked |-> tracked,
                      schema  |-> IF call[p] = "up" THEN schema \cup {m} ELSE schema \ {m}]
  /\ writer' = p
  /\ pc' = [pc EXCEPT ![p] = "track"]
  /\ UNCHANGED <<table, tracked, schema, call, target, todo, downs, runs>>

\* Mutant: INSERT OR IGNORE.
TrackIgnoring(p) ==
  /\ pc[p] = "track"
  /\ \E m \in todo[p] :
       /\ IsNext(p, m)
       /\ pending' = [pending EXCEPT !.tracked =
                        IF call[p] = "up" THEN @ \cup {m} ELSE @ \ {m}]
  /\ pc' = [pc EXCEPT ![p] = "commit"]
  /\ UNCHANGED <<table, tracked, schema, writer, call, target, todo, downs, runs>>

\* INSERT INTO the tracking table, whose key is the name, or DELETE FROM it,
\* which does not mind a row that is gone.
Track(p) ==
  /\ pc[p] = "track"
  /\ \E m \in todo[p] :
       /\ IsNext(p, m)
       /\ call[p] = "up" => m \notin pending.tracked
       /\ pending' = [pending EXCEPT !.tracked =
                        IF call[p] = "up" THEN @ \cup {m} ELSE @ \ {m}]
  /\ pc' = [pc EXCEPT ![p] = "commit"]
  /\ UNCHANGED <<table, tracked, schema, writer, call, target, todo, downs, runs>>

\* COMMIT, and on to the next name.
Commit(p) ==
  /\ pc[p] = "commit"
  /\ tracked' = pending.tracked /\ schema' = pending.schema
  /\ writer' = None /\ pending' = Nothing
  /\ \E m \in todo[p] :
       /\ IsNext(p, m)
       /\ todo' = [todo EXCEPT ![p] = @ \ {m}]
       /\ runs' = [runs EXCEPT ![m] = @ + (IF call[p] = "up" THEN 1 ELSE -1)]
  /\ pc' = [pc EXCEPT ![p] = "loop"]
  /\ UNCHANGED <<table, call, target, downs>>

Return(p) ==
  /\ pc[p] = "loop" /\ todo[p] = {}
  /\ Over(p)
  /\ UNCHANGED <<disk, downs, runs>>

\* The loop meets a name it cannot go past: a refused row or a script that
\* throws where it is, a name that another process has tracked meanwhile.
Stuck(p) ==
  \E m \in todo[p] :
    /\ IsNext(p, m)
    /\ \/ pc[p] = "loop" /\ ~Runnable(p, m)
       \/ pc[p] = "track" /\ call[p] = "up" /\ m \in pending.tracked

\* The method throws, or the process dies: an open transaction rolls back.
Abort(p) ==
  /\ IF writer = p THEN writer' = None /\ pending' = Nothing
                   ELSE UNCHANGED <<writer, pending>>
  /\ Over(p)
  /\ UNCHANGED <<table, tracked, schema, downs, runs>>

Refuse(p) == Stuck(p) /\ Abort(p)

\* A crash, SQLITE_BUSY, a full disk: at any point.
Fault(p) == pc[p] # "idle" /\ Abort(p)

Next ==
  \E p \in Process :
    \/ Up(p)
    \/ \E to \in Name \cup {None} : Down(p, to)
    \/ EnsureTable(p)
    \/ Read(p)
    \/ Script(p)
    \/ Track(p)
    \/ Commit(p)
    \/ Return(p)
    \/ Refuse(p)
    \/ Fault(p)

Spec == Init /\ [][Next]_vars

\* down() is run alone, by an operator or under the advisory lock the header
\* asks for; up() is run by every process that starts.
Alone ==
  \A p, q \in Process : p # q /\ call[p] = "down" => call[q] = "none"

\* Every process calls up() again and again; nothing fails forever.
Fairness ==
  \A p \in Process :
    /\ SF_vars(Up(p))
    /\ SF_vars(EnsureTable(p)) /\ SF_vars(Read(p)) /\ SF_vars(Script(p))
    /\ SF_vars(Track(p)) /\ SF_vars(Commit(p))
    /\ WF_vars(Return(p)) /\ WF_vars(Refuse(p))

OrderlySpec == Init /\ [][Next /\ Alone']_vars /\ Fairness

-----------------------------------------------------------------------------
(* Properties. *)

TypeOK ==
  /\ table \in BOOLEAN /\ tracked \subseteq Name /\ schema \subseteq Name
  /\ writer \in Process \cup {None}
  /\ pending \in [tracked : SUBSET Name, schema : SUBSET Name]
  /\ call   \in [Process -> {"none", "up", "down"}]
  /\ pc     \in [Process -> {"idle", "ensure", "read", "loop", "track", "commit"}]
  /\ target \in [Process -> Name \cup {None}]
  /\ todo   \in [Process -> SUBSET Name]
  /\ downs \in 0 .. Downs
  /\ runs \in [Name -> Int]

\* Whatever dies or fails, the tracking table names exactly the migrations
\* whose effect is in the database ("the tracking row and the migration's DDL
\* commit atomically").
TrackedIsApplied == tracked = schema

\* However many processes start from the same list, no script is committed
\* twice over: a migration was run forward once more than backward exactly
\* while it is tracked.  Needs down() to be run alone.
RunOnce == \A m \in Name : runs[m] = (IF m \in tracked THEN 1 ELSE 0)

\* Migrations are applied and undone in order: what is applied is what some
\* process would have applied so far, with no gap, and latest() names the last
\* of it.  Needs processes deployed with a beginning of the same list.
AppliedInOrder ==
  /\ \A m \in tracked, n \in Name : n < m => n \in tracked
  /\ \A m \in Name : IsLatest(m) => \A n \in tracked : n <= m

\* Every process gets its migrations applied, although those that start
\* together make each other fail.
UpCompletes == \A p \in Process : <>[](Provided[p] \subseteq tracked)
=============================================================================
