-------------------------------- MODULE Rows --------------------------------
(***************************************************************************)
(* The rows of one table under the calls of SqliteRepository               *)
(* (repository/repository.ts over actions/create.ts, update.ts, read.ts    *)
(* and delete.ts), with a versionField and softDeletePlugin.               *)
(*                                                                         *)
(* A call is its statements.  A statement is one step and waits while a    *)
(* transaction of the connection is open (ConnectionGate says how far that *)
(* is so); the raw DELETE of a hard purge does not wait, nor does the      *)
(* second statement of a call.  A call inside a transaction of the caller  *)
(* is not modelled, nor the columns no call here tests: update() of other  *)
(* columns, increment() and the counters leave these alone.                *)
(*                                                                         *)
(* An id may be used again after its row was removed.                      *)
(***************************************************************************)
EXTENDS Naturals, FiniteSets

CONSTANTS
  Id,             \* primary keys
  Caller,         \* flows that read a row and write it back
  FirstVersion,   \* the version column's default: 0, or Null without one
  By,             \* the steps claimVersion is called with
  MaxVersion,     \* bound: the last version a write is made from
  MaxLife,        \* bound: how many times an id is used
  NoRow, Null, None

ASSUME RowsAssumption ==
  /\ FirstVersion \in {0, Null} /\ Null \notin Nat
  /\ By \subseteq Nat \ {0}
  /\ MaxVersion \in Nat /\ MaxLife \in Nat
  /\ None \notin Caller

Version == Nat \cup {Null}
Status  == {"new", "taken"}

\* A row: its version column, its state column, and whether deletedAt is set.
Row == [version : Version, status : Status, deleted : BOOLEAN]

\* A row as it was read, and which one that was.
Doc == [id : Id, version : Version, life : Nat, writes : Nat]

\* No row is not a row, nor a version; no call is not a call.
ASSUME NothingAssumption ==
  NoRow \notin Row \cup Nat /\ None \notin Doc \cup [id : Id, life : Nat, version : Nat]

VARIABLES
  table,      \* the row of an id, or NoRow
  life,       \* history: how many rows the id has had
  writes,     \* history: how many writes have moved this row's version
  won,        \* history: the callers that were told they took this row
  pc,         \* where a caller's call is
  doc,        \* the row a caller has read and means to write back
  key,        \* the id its transaction is about
  answer,     \* what its last update({ ifVersion }) came to
  txn         \* the caller whose transaction is open

rowVars    == <<table, life, writes, won>>
callerVars == <<pc, doc, key, answer, txn>>
vars       == <<rowVars, callerVars>>

TypeOK ==
  /\ table  \in [Id -> Row \cup {NoRow}]
  /\ life   \in [Id -> Nat]
  /\ writes \in [Id -> Nat]
  /\ won    \in [Id -> SUBSET Caller]
  /\ pc     \in [Caller -> {"idle", "update", "missed", "found", "absent", "upsert"}]
  /\ doc    \in [Caller -> Doc \cup {None}]
  /\ key    \in [Caller -> Id \cup {None}]
  /\ answer \in [Caller -> {"none", "updated", "conflict", "missing"}]
  /\ txn    \in Caller \cup {None}

Init ==
  /\ table  = [i \in Id |-> NoRow]
  /\ life   = [i \in Id |-> 0]
  /\ writes = [i \in Id |-> 0]
  /\ won    = [i \in Id |-> {}]
  /\ pc     = [c \in Caller |-> "idle"]
  /\ doc    = [c \in Caller |-> None]
  /\ key    = [c \in Caller |-> None]
  /\ answer = [c \in Caller |-> "none"]
  /\ txn    = None

-----------------------------------------------------------------------------
(* Statements. *)

Present(i) == table[i] # NoRow
Visible(i) == Present(i) /\ ~table[i].deleted

\* No transaction holds the connection.
Open == txn = None

\* coalesce(version, 0)
Number(v) == IF v = Null THEN 0 ELSE v

\* INSERT: the version column takes its default.  W are the callers that
\* are told they have the new row.
Insert(i, s, W) ==
  /\ ~Present(i) /\ life[i] < MaxLife
  /\ table'  = [table EXCEPT ![i] = [version |-> FirstVersion, status |-> s, deleted |-> FALSE]]
  /\ life'   = [life EXCEPT ![i] = @ + 1]
  /\ writes' = [writes EXCEPT ![i] = 0]
  /\ won'    = [won EXCEPT ![i] = W]

\* A row that is "new" again has been taken by nobody.
Reopened(i, s) == IF s = "new" THEN {} ELSE won[i]

\* UPDATE ... SET of the state column on a set of rows.
SetStatus(S, s) ==
  /\ table' = [i \in Id |-> IF i \in S THEN [table[i] EXCEPT !.status = s] ELSE table[i]]
  /\ won'   = [i \in Id |-> IF i \in S THEN Reopened(i, s) ELSE won[i]]
  /\ UNCHANGED <<life, writes>>

\* Mutant: the bump goes the other way.
SetRowBack(i, by, s, d) ==
  /\ table'  = [table EXCEPT ![i] = [version |-> Number(table[i].version) - by, status |-> s, deleted |-> d]]
  /\ writes' = [writes EXCEPT ![i] = @ + 1]
  /\ won'    = [won EXCEPT ![i] = Reopened(i, s)]
  /\ UNCHANGED life

\* SET version = coalesce(version, 0) + by, with whatever else it sets.
SetRow(i, by, s, d) ==
  /\ Number(table[i].version) < MaxVersion
  /\ table'  = [table EXCEPT ![i] = [version |-> Number(table[i].version) + by, status |-> s, deleted |-> d]]
  /\ writes' = [writes EXCEPT ![i] = @ + 1]
  /\ won'    = [won EXCEPT ![i] = Reopened(i, s)]
  /\ UNCHANGED life

SetDeleted(i, d) ==
  /\ table' = [table EXCEPT ![i].deleted = d]
  /\ UNCHANGED <<life, writes, won>>

\* DELETE of a set of rows.
Remove(S) ==
  /\ table' = [i \in Id |-> IF i \in S THEN NoRow ELSE table[i]]
  /\ won'   = [i \in Id |-> IF i \in S THEN {} ELSE won[i]]
  /\ UNCHANGED <<life, writes>>

-----------------------------------------------------------------------------
(* Calls of one statement. *)

\* Mutant: an INSERT that does not ask the gate.
CreateUngated(i) == Insert(i, "new", {}) /\ UNCHANGED callerVars

\* create(): the primary key is unique, over tombstoned rows too.
Create(i) == Open /\ Insert(i, "new", {}) /\ UNCHANGED callerVars

\* upsert(): ON CONFLICT it sets the payload's columns and no other.
Upsert(i, s) ==
  /\ Open
  /\ \/ Insert(i, s, {})
     \/ Present(i) /\ SetStatus({i}, s)
  /\ UNCHANGED callerVars

\* updateMany({ status: from }, { status: to })
UpdateMany(from, to) ==
  /\ Open
  /\ SetStatus({i \in Id : Present(i) /\ table[i].status = from}, to)
  /\ UNCHANGED callerVars

\* Mutant: the replacement's version stays what it was.
ReplaceUnversioned(i, s) ==
  /\ Open /\ Present(i)
  /\ table'  = [table EXCEPT ![i].status = s, ![i].deleted = FALSE]
  /\ writes' = [writes EXCEPT ![i] = @ + 1]
  /\ won'    = [won EXCEPT ![i] = Reopened(i, s)]
  /\ UNCHANGED <<life, callerVars>>

\* replace(): every column the replacement leaves out becomes NULL, deletedAt
\* with them; the version moves on.
Replace(i, s) ==
  /\ Open /\ Present(i)
  /\ SetRow(i, 1, s, FALSE)
  /\ UNCHANGED callerVars

\* delete() is an update() of deletedAt; neither it nor restore() moves the version.
SoftDelete(i) == Open /\ Present(i) /\ SetDeleted(i, TRUE) /\ UNCHANGED callerVars
Restore(i)    == Open /\ Present(i) /\ SetDeleted(i, FALSE) /\ UNCHANGED callerVars

\* delete({ mode: 'hard' })
HardDelete(i) == Open /\ Present(i) /\ Remove({i}) /\ UNCHANGED callerVars

\* deleteMany({ status: s }) removes the rows, softDeletePlugin or not.
DeleteMany(s) ==
  /\ Open
  /\ Remove({i \in Id : Present(i) /\ table[i].status = s})
  /\ UNCHANGED callerVars

\* A chunk of purgeByField(field, value, { type: 'hard' }): raw SQL on the
\* connection, which does not ask the gate.
PurgeChunk(S) == S # {} /\ (\A i \in S : Present(i)) /\ Remove(S) /\ UNCHANGED callerVars

-----------------------------------------------------------------------------
(* Calls that read a row and write it back. *)

\* getById(): tombstoned rows are hidden.
Read(c, i) ==
  /\ Open /\ pc[c] = "idle"
  /\ doc' = [doc EXCEPT ![c] =
       IF Visible(i)
       THEN [id |-> i, version |-> table[i].version, life |-> life[i], writes |-> writes[i]]
       ELSE None]
  /\ UNCHANGED <<rowVars, pc, key, answer, txn>>

\* update(id, data, { ifVersion }): the version read, 0 when there was none.
CallUpdate(c) ==
  /\ pc[c] = "idle" /\ doc[c] # None
  /\ pc'     = [pc EXCEPT ![c] = "update"]
  /\ answer' = [answer EXCEPT ![c] = "none"]
  /\ UNCHANGED <<rowVars, doc, key, txn>>

\* WHERE id = ? AND version = ?.  NULL equals nothing; no tombstone filter.
Matches(c) ==
  /\ Present(doc[c].id)
  /\ table[doc[c].id].version = Number(doc[c].version)

CasMatches(c) ==
  /\ pc[c] = "update" /\ Open /\ Matches(c)
  /\ LET i == doc[c].id IN SetRow(i, 1, table[i].status, table[i].deleted)
  /\ pc'     = [pc EXCEPT ![c] = "idle"]
  /\ answer' = [answer EXCEPT ![c] = "updated"]
  /\ doc'    = [doc EXCEPT ![c] = None]
  /\ UNCHANGED <<key, txn>>

CasMisses(c) ==
  /\ pc[c] = "update" /\ Open /\ ~Matches(c)
  /\ pc' = [pc EXCEPT ![c] = "missed"]
  /\ UNCHANGED <<rowVars, doc, key, answer, txn>>

\* Mutant: a miss is a miss, whatever the row.
FollowUpMissing(c) ==
  /\ pc[c] = "missed"
  /\ pc'     = [pc EXCEPT ![c] = "idle"]
  /\ answer' = [answer EXCEPT ![c] = "missing"]
  /\ doc'    = [doc EXCEPT ![c] = None]
  /\ UNCHANGED <<rowVars, key, txn>>

\* The read that tells a row that has moved on from one that is gone.
FollowUp(c) ==
  /\ pc[c] = "missed"
  /\ pc'     = [pc EXCEPT ![c] = "idle"]
  /\ answer' = [answer EXCEPT ![c] = IF Present(doc[c].id) THEN "conflict" ELSE "missing"]
  /\ doc'    = [doc EXCEPT ![c] = None]
  /\ UNCHANGED <<rowVars, key, txn>>

\* claimVersion(id, { from, by }): IS NULL when there was no version.
Claimable(c) == Present(doc[c].id) /\ table[doc[c].id].version = doc[c].version

ClaimVersion(c, by) ==
  /\ pc[c] = "idle" /\ doc[c] # None /\ Open /\ Claimable(c)
  /\ LET i == doc[c].id IN SetRow(i, by, table[i].status, table[i].deleted)
  /\ doc' = [doc EXCEPT ![c] = None]
  /\ UNCHANGED <<pc, key, answer, txn>>

ClaimVersionMisses(c) ==
  /\ pc[c] = "idle" /\ doc[c] # None /\ Open /\ ~Claimable(c)
  /\ doc' = [doc EXCEPT ![c] = None]
  /\ UNCHANGED <<rowVars, pc, key, answer, txn>>

-----------------------------------------------------------------------------
(* Calls that take a row by its state. *)

Take(c, i) ==
  /\ table' = [table EXCEPT ![i].status = "taken"]
  /\ won'   = [won EXCEPT ![i] = @ \cup {c}]
  /\ UNCHANGED <<life, writes>>

\* Mutant: the UPDATE does not test the state.
ClaimAny(c, i) ==
  /\ Open /\ pc[c] = "idle" /\ Present(i)
  /\ Take(c, i)
  /\ UNCHANGED callerVars

\* claim(id, { from: 'new', to: 'taken' })
Claim(c, i) ==
  /\ Open /\ pc[c] = "idle"
  /\ Present(i) /\ table[i].status = "new"
  /\ Take(c, i)
  /\ UNCHANGED callerVars

\* claim(id, { from: 'taken', to: 'new' }), by the one that took it.
ClaimBack(c, i) ==
  /\ Open /\ pc[c] = "idle" /\ c \in won[i]
  /\ Present(i) /\ table[i].status = "taken"
  /\ SetStatus({i}, "new")
  /\ UNCHANGED callerVars

\* BEGIN and the first SELECT of a method that opens a transaction itself.
Begin(c, i, p) ==
  /\ Open /\ pc[c] = "idle"
  /\ pc'  = [pc EXCEPT ![c] = p]
  /\ key' = [key EXCEPT ![c] = i]
  /\ txn' = c
  /\ UNCHANGED <<rowVars, doc, answer>>

\* ... and its end.
Finish(c) ==
  /\ pc'  = [pc EXCEPT ![c] = "idle"]
  /\ key' = [key EXCEPT ![c] = None]
  /\ txn' = None
  /\ UNCHANGED <<doc, answer>>

\* findOneAndUpdate({ status: 'new' }, { status: 'taken' }) finds a row, or
\* with upsert: true inserts one under its own id.
FindOne(c, i) ==
  \/ Present(i) /\ table[i].status = "new" /\ Begin(c, i, "found")
  \/ /\ \A j \in Id : ~(Present(j) /\ table[j].status = "new")
     /\ Begin(c, i, "upsert")

\* The UPDATE names the id alone.
UpdateFound(c) ==
  /\ pc[c] = "found" /\ Present(key[c])
  /\ Take(c, key[c])
  /\ Finish(c)

\* The row was purged: null, or on to the insert of an upsert.
FoundIsGone(c) ==
  /\ pc[c] = "found" /\ ~Present(key[c])
  /\ UNCHANGED rowVars
  /\ \/ Finish(c)
     \/ pc' = [pc EXCEPT ![c] = "upsert"] /\ UNCHANGED <<doc, key, answer, txn>>

InsertTaken(c) ==
  /\ pc[c] = "upsert"
  /\ Insert(key[c], "taken", {c})
  /\ Finish(c)

\* getOrCreate({ id }, data) sees no row: tombstoned ones are hidden.
GetOrCreate(c, i) == ~Visible(i) /\ Begin(c, i, "absent")

InsertAbsent(c) ==
  /\ pc[c] = "absent"
  /\ Insert(key[c], "new", {})
  /\ Finish(c)

\* The id is there (UNIQUE), or its last use is: the transaction rolls back.
InsertFails(c) ==
  /\ pc[c] \in {"absent", "upsert"} /\ (Present(key[c]) \/ life[key[c]] = MaxLife)
  /\ UNCHANGED rowVars
  /\ Finish(c)

-----------------------------------------------------------------------------

RowNext ==
  \/ \E i \in Id :
       \/ Create(i) \/ SoftDelete(i) \/ Restore(i) \/ HardDelete(i)
       \/ \E s \in Status : Upsert(i, s) \/ Replace(i, s)
  \/ \E s \in Status : DeleteMany(s) \/ \E t \in Status : UpdateMany(s, t)
  \/ \E S \in SUBSET Id : PurgeChunk(S)

CallerNext(c) ==
  \/ CallUpdate(c) \/ CasMatches(c) \/ CasMisses(c) \/ FollowUp(c)
  \/ ClaimVersionMisses(c) \/ \E by \in By : ClaimVersion(c, by)
  \/ UpdateFound(c) \/ FoundIsGone(c)
  \/ InsertTaken(c) \/ InsertAbsent(c) \/ InsertFails(c)
  \/ \E i \in Id :
       Read(c, i) \/ Claim(c, i) \/ ClaimBack(c, i) \/ FindOne(c, i) \/ GetOrCreate(c, i)

Next == RowNext \/ \E c \in Caller : CallerNext(c)

Spec == Init /\ [][Next]_vars

-----------------------------------------------------------------------------

\* Of the callers that ask for a new row, by claim() or by findOneAndUpdate(),
\* one at most is told that it took it.
OneWinner == \A i \in Id : \A c, d \in won[i] : c = d

\* While getOrCreate() is between its SELECT, which found nothing, and its
\* INSERT, nobody makes the row: only a tombstone makes the INSERT fail.
NothingCreatedMeanwhile == \A c \in Caller : pc[c] = "absent" => ~Visible(key[c])

\* update({ ifVersion }) and claimVersion() write a row only as its caller read
\* it: no write that moves the version has come in between (updateByIdCas,
\* replaceById, claimVersion), unless the id has a new row.
NoLostUpdate ==
  [][\A c \in Caller :
       (CasMatches(c) \/ \E by \in By : ClaimVersion(c, by)) /\ life[doc[c].id] = doc[c].life
         => writes[doc[c].id] = doc[c].writes]_vars

\* What a caller asks for, as CompareAndSet sees it.
Asked(c) ==
  IF pc[c] \in {"update", "missed"}
  THEN [id |-> doc[c].id, life |-> doc[c].life, version |-> Number(doc[c].version)]
  ELSE None

Cas == INSTANCE CompareAndSet
         WITH version <- [i \in Id |-> IF Present(i) THEN Number(table[i].version) ELSE NoRow],
              asked   <- [c \in Caller |-> Asked(c)]

\* The two statements of update({ ifVersion }) answer as one step would.
ImplementsCompareAndSet == Cas!Spec
=============================================================================
