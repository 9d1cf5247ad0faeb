# sqlitekit: a verification project

sqlitekit is a repository layer over SQLite: Drizzle queries behind a class with
hooks and plugins, for Node drivers, Cloudflare D1, Expo and the browser. Its
statements are SQLite's; what is its own, and hard, is the order in which they
reach a shared connection, a shared table and a shared browser database, what its
hooks add to them on the way, and what the SQL it compiles selects. That is what
these modules model, check and prove.

## The system

| component | state it keeps | operations | what is hard | what makes it correct |
|---|---|---|---|---|
| connection gate, transactions (`repository/connection-gate.ts`, `transaction.ts`, `batch/`) | promise chain `tail`, `active`, the async context's store | `exclusive`, `outside`, `withManualTransaction` | every `await` is a switch; nesting; forked work; two connections | transactions exclude each other, in call order; foreign statements stay out; nobody waits for himself |
| repository core (`repository/repository.ts`, `actions/`) | none of its own; the table | CRUD, `findOneAndUpdate`, `claim`, `claimVersion`, `update({ifVersion})`, `getOrCreate`, `bulkWrite` | read-then-write pairs, retries, hooks that rewrite the operation | compare-and-set loses no update; a miss is reported as what it is |
| lease plugin (`plugins/lease`) | four columns of a row | `lease`, `extend`, `release`, `reapExhausted` | old clock readings, crashes, reapers racing workers | one live holder; terminal rows stay; every abandoned row comes back or is reaped once |
| lock adapter (`lock/`) | one row, a shared bootstrap promise | `tryAcquire`, `release`, `inspect` | clock skew, failing statements, late releases | mutual exclusion; a dead holder's lock is taken |
| browser worker (`worker/`) | client: pending calls, `closed`; host: queue, context, `released`; page: Web Lock, channel | `call`, `release`, `dispose`; `claimDatabase`, `takeOver` | messages in both directions, timeouts, a dying worker, takeover during a release | one writer; told outcomes are true; a handover finishes |
| purge, archive (`actions/purge.ts`, `archive.ts`) | a keyset cursor | chunk by chunk | rows change between read and write | nothing is skipped; nothing unarchived is deleted |
| pagination, `cursor()` (`repository/pagination/`) | a cursor token | keyset and offset pages | the table changes between pages | no stable row is skipped or repeated |
| soft-delete, multi-tenant, ttl, audit (`plugins/`) | hooks; the ttl interval or trigger | filters injected, operations rewritten, `getDeleted`, `getExpired`, `restore`, `sweepExpired` | operations a plugin forgets; two hook rounds for one call; a failure after the statement | no row of another tenant, no tombstone revived, no change without its entry, expired rows go |
| migrator (`migrate/`) | a table of applied names | `up`, `down`, `status`, `latest` | two processes, a crash between migrations | each applied once, in order |
| usage counters (`usage/`) | a table of counts | `increment`, `summary`, `pruneBefore` | the shared bootstrap | no increment is lost |
| filter compiler (`filter/`), aggregation, lookups (`actions/aggregate/`, `actions/lookup/`) | none | SQL generation; `topN` and hydration in JavaScript | NULL in three-valued logic, JSON documents, joins that multiply rows, what comes before LIMIT | a leaf means one thing in every form; a row is counted and returned once |
| update operators (`actions/update-array-ops.ts`) | none | expressions inside one UPDATE | boundary values | the array is what the operator says |
| cache, timestamp, vacuum, fts, vector plugins; drivers, adapters, schema, better-auth, query parser | almost none | wiring | little that is this package's own | |

How they interact: repository methods, the lease plugin and `withBatch` reach the
connection through the gate; plugins run as hooks before and after the statement;
list reads, aggregates and lookups
compile their filter, with what the hooks added to it, into one statement or two;
lock, usage and migrator use a driver directly; the browser runs all of this
inside a worker, whose host serializes units of work (there the gate is a
pass-through).

## Modules

| module | what it is |
|---|---|
| `ConnectionGate` | the gate of each connection, `withManualTransaction` over it, statements inside and outside, flows and forks |
| `AtomicTransactions` | abstract: a transaction commits all its writes in one step or none |
| `GateAtomicity` | `ConnectionGate` for programs that keep a transaction's statements on its connection, and the mapping under which it implements `AtomicTransactions` |
| `ConnectionGateProofs` | theorems about `ConnectionGate` and `GateAtomicity`, the refinement among them |
| `Lease` | the lease plugin |
| `Lock` | the lock adapter |
| `HoldProofs` | theorems about both holds that end with time, `Lease` and `Lock` (whose own names are prefixed where they would clash: `LockInit`, `LockSpec`) |
| `CompareAndSet` | abstract: `update({ ifVersion })` as one step that looks at the row and answers |
| `Rows` | one table under concurrent repository calls, statement by statement; implements `CompareAndSet` |
| `RowsProofs` | theorems about `Rows`, the refinement among them |
| `Sweeps`, `SweepsProofs` | purge, archive and `cursor()`, chunk by chunk, over a table others write, and theorems |
| `Plugins`, `PluginsProofs` | a repository's calls with the multi-tenant, soft-delete, ttl and audit hooks around their statements, and theorems |
| `Filters` | what a compiled filter selects: columns, JSON documents, HAVING, LIKE and GLOB |
| `Lookups` | LEFT JOINs, their payloads and hydration; over `Filters` |
| `Aggregates` | groups, measures, HAVING, keyset cursors, `topN` and their count; over `Lookups` |
| `Pages` | a caller that fetches page after page of a list, a stream, groups or a lookup while others write; over `Aggregates` |
| `PagesProofs` | theorems about `Pages` and, as lemmas, about the operators of `Filters`, `Lookups` and `Aggregates` |
| `Migrator`, `MigratorProofs` | several processes in `up()` and `down()` on one database, and theorems |
| `SqliteWorker` | one page: client, port and worker host |
| `Handover`, `HandoverProofs` | several pages over one Web Lock and one BroadcastChannel, composed with `SqliteWorker`, and theorems about both |
| `MC...` | small instances for TLC |

### ConnectionGate

A *flow* is an async call chain. A member of `Tx` is one call that opens a
transaction, a member of `Stmt` one write; which flow makes the call, when, and
inside which callback, is left to TLC. `ticket` and `tail` are the promise chain
(`this.tail = previous.then(() => mine)`), `active` is `this.active`, `ctx` the
AsyncLocalStorage store, `phase` how far `exclusive()` has come: queued (awaits
`previous`), admitted (`active = mine`), open (BEGIN ran), ended (COMMIT or
ROLLBACK ran), settled (`finish()`).

The steps are the points where JavaScript can run another job. Passing the gate
and running the statement are two steps: `outside()` tests `active` and calls
`fn`, but the Drizzle query builder only executes when it is awaited, and every
later attempt of `withRetry` runs without asking the gate again.

A ROLLBACK is taken to succeed. Where there is no AsyncLocalStorage the gate does
nothing, and nothing here is claimed.

### Lease

A *claim* is one call of `lease()` with its own token and the calls made with that
token. Each method reads the clock (`Resolve`) and later runs its
`findOneAndUpdate`, one transaction on the table, as one step; the clock, other
claims and reapers run in between. `Holds(c, r)` is what the worker believes from
its last reply. A crashed worker is one that takes no more steps. `Cancel` is the
host's own write of the status column. `pendingFilter` becomes a due time per row.

### Lock

A holder is a process with one `holderId`; its flows share it, and the lock lets
them all in, so exclusion is stated between processes. Each process reads its own
clock, `Skew` ahead of the slowest. A statement that fails may have been applied
(`Fail`). `Works(h)` is the answer as the process may use it: until `Drift` before
the expiry it saw, which is the margin the doc asks for.

### Rows

A row is what the calls test: its version column, a state column with two values
and whether `deletedAt` is set. A call is its statements, and a statement is one
step. Calls of one statement (create, upsert, updateMany, replace, delete, restore,
deleteMany) have no caller; a caller is a flow that reads a row and writes it back
(`Read`, then `CallUpdate`, or `ClaimVersion`), claims it by state, or runs
`findOneAndUpdate` or `getOrCreate`, which open a transaction between their
statements. `doc` is the row as it was read, `txn` whose transaction is open. The
gate is taken at its word: a statement waits while a transaction is open, and
`ConnectionGate` says how far that is so. Two things do not wait: the second
statement of an `update({ ifVersion })` that missed, because the gate was passed
for the call, and the raw DELETE of a hard purge, which does not ask.

`life`, `writes` and `won` are history: which row of an id this is, how many writes
have moved its version, and which callers were told they took it. An id may be used
again and versions start over, so every promise about versions is about one row of
an id. `FirstVersion` is the version column's default: 0, or NULL. Calls inside a
caller's own transaction, the columns nobody tests and a retry of a statement whose
answer was lost are left out.

`CompareAndSet` has no statements: a call is answered "updated", "conflict" or
"missing" in one step that sees the row as it then is. In the mapping a call that
has missed and not yet read is still in flight.

### Sweeps

One pass over a table: a purge of one strategy (`kind` is hard, soft, static or
functional), an archive, or a stream in the order of ids or against it. A row is
whether it satisfies the predicate (`scope`) and what the pass has made of it
(`mark`). A statement is one step; it may throw, with or without its effect, and a
purge by one statement then goes to its fallback, a SELECT and a `deleteMany` or
`updateMany`. `last` is the port's keyset, which moves when the chunk's write is
back. `Write` is everybody else: a row is inserted, removed, or moves in or out
of scope, at most `MaxWrites` times. `steady` is history: the rows that have been
in scope since the start, which are the ones a pass must reach.

The loops `runChunkedPurge` and `runChunkedArchive` are in `@classytic/repo-core`
and external: a chunk of none ends a pass, a short one may, one that throws is
tried again (at most `MaxRetries` times) or fails the pass. That the gate may delay
a statement is left out; others write between any two statements anyway. Ids are
numbers, as both SQL and `maxId` order them.

### Plugins

A row is its tenant, whether `deletedAt` is set, and its ttl column. A call runs its
before-hooks, its one statement and its after-hooks: `InScope` is what the hooks of
three plugins add to a filter (the lists of operations are the code's, `QUERY_OPS`,
`LIST_OPS`, two `DEFAULT_READS`), `Stamped` what they add to a payload, `After` the
audit entry. `frames` are the operations a call has open: `delete()` under
soft-delete and `restore()` run a whole `update()` inside, with hooks of its own and
only some of the options (`Resolved`, `Recorded`). A method throws at any point, and
its statement stays (`Throw`). `owed`, `logged` and `answered` are history.

Methods that no plugin hears of (`distinct`, `increment`, `bulkWrite`) are not here,
and a payload sets neither the tenant column nor `deletedAt`: what `TombstonesStay`
tests is the writes of whole rows, those of `upsert()` above all. `stopTtl()` ends what `ExpiredSwept`
promises and is left out.

### Filters, Lookups, Aggregates, Pages

A filter is translated by the value its SQL has on a row, TRUE, FALSE or NULL
(`Sql`); a JSON leaf is two-valued, as `json_each` and `EXISTS` make it. Values carry
their type, texts are known by their place in the order of texts. `Lookups` is the
join chain and what becomes of a joined row; `Aggregates` is `executeAgg` in the
order of its steps, with the second `.having()` that replaces the first, the integer
division of custom bins, and the ranking that JavaScript does after the query.

`Pages` runs them: the request is fixed, a page is its data statement and, with an
exact count, its count statement, in either order, and `Write` comes between any two
statements. Sort orders with ties are nondeterministic, as SQLite's are. The foreign
table of a lookup is the table itself. Requests of kind "match" and "pattern" are not
walks: they carry the leaves, values and patterns that `LeavesAgree` compares.

### Migrator

Each process has its own connection: `writer` is the process whose transaction holds
SQLite's write lock, `pending` what it has written. A script and its tracking row are
two steps of one transaction; a process dies or fails at any point (`Fault`), and
then its transaction rolls back. The list of applied names is read once per call.
Migrations are numbered in the order of `localeCompare`; `Byte` is their place in the
`<` order that `down()` and `latest()` use. `runs` is history: committed ups less
committed downs.

`OrderlySpec` has `down()` run alone (`Alone`), which the header asks for with its
advisory lock; `up()` needs none.

### SqliteWorker and Handover

The client's `pending` map, the port in both directions as sequences, and the
host's `handle()` step by step; a crash may come at any point, and a committed
unit may lose its answer. An `error` or `messageerror` event (`TransportFails`) may
come of a crashed worker or of one that lives: the client closes and fails its calls,
and nothing terminates the worker. `Handover` adds `claimDatabase`: the Web Lock with its
queue, the `takeover` message, the handler that awaits `client.release()` and only
then lets the lock go, unloads, pages that give up with a request in the queue.
The app may give up the lock, too, once its client's release has ended.

`OneWriter` holds while two things have not happened, and is false in the code after
either (see Findings): a takeover message is heard while a release is under way
(`OneReleaseAtATime`), or a worker that lives reports an error (`NoErrorOfALiveWorker`;
a page that disposes of its client then terminates the worker and is safe). The
history variable `orderly` remembers it. The other properties are free of both.
`ReleaseDrains` is about the `release()` that found its client open; that of a closed
client resolves at once. `SingleTakeovers` leaves out a second takeover during a
release and an app that gives up the lock unasked.

## Runs

| run | instance | shows |
|---|---|---|
| `gate` | one connection, two flows and a forked one, two transactions (one opened by a method), one write, fairness | exclusion, waiters stay out, no self-wait, a commit holds all awaited writes, queued transactions run, waiters pass |
| `gate_atomic` | two connections, two flows, three transactions, two writes | a rollback leaves nothing; `GateAtomicity` implements `AtomicTransactions` |
| `gate_foreign_write` | see Findings | expected violation |
| `rows` | one id used twice, two callers, steps of 1 and 2, versions to 4 | one taker, nothing created between a SELECT and its INSERT, no lost update, `Rows` implements `CompareAndSet` |
| `plugins` | one id, a caller of each of two tenants, thirteen methods, two ttl modes, one tick, fairness of the sweep | tenants stay apart, tombstones stay, answered changes are audited, expired rows are swept |
| `pages` | every table of three rows, about forty requests, one write of others; 400 leaf questions, 585 patterns | keyset walks miss and repeat nothing, offset pages add up, `topN` keeps the top, joins do not multiply, leaves agree |
| `lease` | one row, two claims, two reapers, leases of 1 and 2, clock to 3, cap 2, fairness | one live holder, reaped once, terminal rows stay, an abandoned row is leased again or reaped |
| `lock` | two processes one tick apart, leases 3 and 2, clock to 5, fairness | mutual exclusion, a dead holder's lock is taken |
| `migrator` | three migrations (one irreversible, one tolerant), an old and a new deployment, two calls of `down()`, fairness | tracked is applied, each runs once, in order without gaps, every `up()` completes in the end |
| `sweeps` | four ids, chunks of two, two writes of others, one retry, fairness | nothing steady skipped, stored before removed, yielded once, every pass ends |
| `worker` | two pages, one unit, one `takeOver()` each, fairness | one writer while `orderly`, outcomes are true, release drains, calls settle, takeover completes |
| `worker_takeover` | the same without fairness, `SingleTakeovers`; see Findings | expected violation |

Bounds and why they are enough. Two transactions on a connection make a queue, in
which a waiter can pass one and meet the next; the theorems hold for any number. Two
claims and two reapers on one row give a re-lease, a second holder and two reapers
on one candidate; a clock to 3 with leases of 1 and 2 has a lease lapse, be taken
and lapse again; a cap of 2 is met from below and at the boundary. (With two rows
both workers may sit on other rows until the clock ends, and nobody is left to
recover one; the safety half is proved for any number.) The lock's clock runs to 5 so that a lapsed lease
of 3 is taken by a process whose clock lags. One id
and two callers give every pair of a read-then-write with another, and everybody
else's writes come from `RowNext` at any point; versions to 4 and two lives let a
caller be overtaken twice, or meet the id's next row. Four rows in chunks of two
make a full chunk, a second full one that leaves nothing, and short ones, from
every initial table; two writes put a row in or out of scope before and behind the
keyset. Two pages with one takeover each
have every interleaving of a call, a crash, an error event, a release and a takeover;
the theorems hold for any number. For the plugins, two callers on
one row give every pair of calls, the two-frame ones included, and a tick makes a row
expire between a hook and its statement. Three rows with two values of `g` and a NULL
in `v` tie in one key, in all, or in none; pages of one and two make every page
boundary; a walk of three pages has a write before, on and after its cursor. (`pages`
also holds with two writes.) Three migrations let the new deployment be one ahead,
and put an irreversible one under a `down()`.

Deadlock is checked in the runs where the modelled program ends only in a final state (`gate`, `lock`, `rows`, `migrator`) and is off where it may stop: a clock
at its horizon, pages that are gone, a pass or a walk that is done, callers that have called, and the two-connection instance, in which a
flow may block itself.

Fairness. Promise continuations run and the driver answers (weak, per transaction
and flow); a callback returns or throws. For leases, the clock runs, an idle worker asks again and does
not lose the row to failing statements forever (strong, on the statement that
succeeds), reapers loop; nothing is assumed of a worker that has a row. For the
lock, a reliable process asks again and its DDL and upsert do not fail every
time. For the worker, the host's queue moves, a unit ends, answers and messages
arrive, a crash is reported, the browser grants its lock; nothing is assumed of what
the app calls, and a worker that lives need never report an error.
For a pass, its next statement is made and answers or throws.
For the ttl plugin, the interval fires and its sweep does not fail for ever. For the
migrator, every process calls `up()` again and again and no statement fails for ever.

## Proofs

| theorem | statement |
|---|---|
| `ConnectionGateProofs!TypeCorrect`, `TransactionsExclude`, `AdmittedInOrder`, `WaitersExcluded` | `TypeOK`, `OneTransactionAtATime`, `NoOvertaking`, `WaitersStayOut` for every number of connections, flows, transactions and statements |
| `ConnectionGateProofs!CommittedKeepsItsWrites` | `CommittedIsComplete` for any nesting, forked work and failed statements |
| `ConnectionGateProofs!NobodyWaitsForItself` | `NeverWaitsForItself` when there is one connection (`OneConnection`) |
| `ConnectionGateProofs!RolledBackLeavesNoTrace`, `TransactionsAreAtomic` | `RolledBackLeavesNothing` and `ImplementsAtomicTransactions` for a program that writes in transactions and forks nothing (`DisciplinedSpec`) |
| `HoldProofs!TypeCorrect`, `LeaseExcludes`, `ReapedAtMostOnce`, `ReapersRespectHolders`, `TerminalForGood` | `TypeOK`, `OneLiveHolder`, `ReapedOnce`, `ReapsAbandoned`, `TerminalStays` for every number of rows, claims, reapers and any horizon |
| `HoldProofs!LockTypeCorrect`, `LockExcludes`, `TableFirst` | `LockTypeOK`, `MutualExclusion`, `TableReady` for every number of processes, any leases and skews within `Drift` |
| `RowsProofs!TypeCorrect`, `NothingIsLost`, `OneTakes`, `NothingComesBetween` | `TypeOK`, `NoLostUpdate`, `OneWinner`, `NothingCreatedMeanwhile` for every number of ids and callers, any steps, either default of the version column |
| `RowsProofs!AnswersAsOneStep` | `ImplementsCompareAndSet` when the default is 0 |
| `SweepsProofs!TypeCorrect`, `ReachesEveryRow`, `NothingUnarchivedIsRemoved`, `StreamsDoNotRepeat`, `OthersRowsStay` | `TypeOK`, `NothingSkipped`, `StoredBeforeRemoved`, `YieldedOnce`, `OnlyOwnRows` for any ids, chunk size, writes and retries |
| `MigratorProofs!TypeCorrect`, `TrackingIsAtomic`, `RunsOnce` | `TypeOK`, `TrackedIsApplied`, `RunOnce` for any names and processes, the last when `down()` runs alone (`OrderlySpec`) |
| `MigratorProofs!AppliesInOrder` | `AppliedInOrder` under `OrderlySpec` when a deployment only appends (`DeployedInOrder`) |
| `PluginsProofs!TypeCorrect`, `AnsweredIsAudited`, `DeletedStays` | `TypeOK`, `AuditedOrFailed`, `TombstonesStay` for any tenants, methods' frames and rows |
| `PluginsProofs!TenantsStayApart` | `TenantsApart` when the tenant comes from the ambient context in every frame (`Ambient`) |
| `HandoverProofs!OutcomesHold`, `ReleaseHasDrained` | `OutcomesAreTrue`, `ReleaseDrains` for any pages and calls, crashes, timeouts and takeovers at any point |
| `HandoverProofs!OneWriterAtATime` | `OneWriter`: for as long as no takeover was heard during a release and no living worker reported an error (`orderly`) |
| `PagesProofs!KeysetWalksMissNothing` | `KeysetMissesNothing` for any table, requests, page sizes and writes between pages |
| `PagesProofs!OffsetWalksAddUp` | `OffsetPagesAddUp` for any table and any request, but for a `lookupPopulate()` with a `single` lookup on a column other than the key (`OneEach`) |
| `PagesProofs!TopNIsTheTop` | `TopNKeepsTheTop` for any table, groups, partitions, limit and ranking: SQL's slice for 'dense_rank' and 'row_number', for 'rank' what holds of SQL's |
| `PagesProofs!RowsJoinOnce` | `JoinedOnce` for any table, filters, groups and lookups of a row by its key, with one of many at most in `lookupPopulate()` (`Joins`) |
| `PagesProofs!LeavesSelectAlike` | `LeavesAgree` for any numbers and texts, and LIKE patterns of any length |

They rest on the named assumptions on the constants and nothing else. Those of
`Pages` are about what is asked: a sort holds numbers, texts or NULL and identifies
the rows whatever is in the table (`RequestAssumption`; PaginationEngine.ts:146 asks it
of the caller for `stream()`; a `getAll()` by a column with ties has it from nobody, and
SQLite may order them anew for every page), a `topN` has the positive limit that
validateTopN asks for and ranks by columns of one type (`Ranking`; `compareValues`
would convert the others), a leaf compares values of its column's type (`QuestionAssumption`), None is neither
(`FilterAssumption`) nor a stored row (`RowAssumption`). The arguments:

- *Gate.* Exclusion is not inductive: it needs the chain. `ChainInv` (tickets are
  distinct, dense and below `tail`), `OrderInv` (whoever was admitted has only
  settled calls before it; here well-ordering of the tickets is used),
  `ActiveInv` (`active` is the one call that holds the gate, and SQLite's open
  transaction is its), `MethodInv`. For the waiters: `AwaitInv` and `PendingInv`
  (what a waiting flow awaits is in its `behind`) and `BehindInv` (a transaction in
  `behind` of a statement that passed has settled, so it never opens again).
- *Atomicity.* The gate alone does not say where a statement runs; the flow's store
  does. `StackInv`: the transactions a flow has open are nested without a cycle, the
  store is the innermost, and leaving it leads to the next one or to what the flow
  was forked in. So a statement runs in the transaction it was issued in unless that
  was rolled back under it (`HomeInv`), and a callback that commits has awaited
  what it forked (`AwaitedInv`). Without forks it runs there always (`PlacedInv`),
  and then COMMIT and ROLLBACK are the abstract steps, a statement is `Write`, and
  everything else stutters.
- *Lease.* The row's columns and each holder's belief agree: a belief never
  outlives the row's expiry, an expiry is past before another claim can match, and
  no clock reading is ahead of the clock.
- *Lock.* `BootInv` (past the bootstrap, the table exists), `TermInv` (a belief is
  backed by the row or is out of date on every clock within `Drift`), `ReleaseInv`
  (a process that deletes believes nothing) and `WorkInv`.
- *Rows.* Every step changes a row in one of three ways (`Kept`, `Born`, `Moved`),
  so `DocInv` is about these alone: the row a caller read is untouched, or its
  version is higher and writes have moved it. A guard that matches therefore means
  untouched. `WonInv` says a "new" row has nobody; `SelectInv` says that what a
  method's SELECT found or did not find holds until its next statement, since only
  a purge runs inside its transaction. For the refinement, with versions that are
  numbers, a call that missed is late for good (`MissedInv`): its row is gone, is
  another row, or is at a higher version, so both answers of the follow-up read
  are answers `CompareAndSet` may give at that instant.
- *Sweeps.* `NothingSkipped` speaks of the end only. `KeysetInv` says it of every
  moment: a steady row up to the keyset is treated; `ChunkInv`, that what a chunk
  left out comes after it and then the chunk is full, so a chunk that is not full
  is all there was (`LimitedTakesAll`, from the cardinality of subsets). `Effects`
  is what every step does to the rows: what was treated stays so while it is steady.
  `StoredInv` and `SeenInv` carry the archive and the stream.
- *Migrator.* `WriterWrites`: only the process that holds the write lock has an
  effect or a row that is not committed. `OpenIsNext`: what it has is the committed
  lists with the effect, and then the row, of the name at the head of its list, so a
  COMMIT adds both and a ROLLBACK neither. `RunOnce` follows since a name whose
  row exists violates the primary key before its transaction can commit. The order
  needs more (`GapInv`): what a process still has to do leaves no gap below it,
  whatever the other processes have committed since it read its list (`UpsKeep`,
  `DownsFromTheTop`, `NoGap`, and `OneNext`, that two orders are not mixed).
- *Plugins.* `Shape` says which frames and payload a method in progress has; the
  lemmas `Effect`, `Made`, `Changed` and `Gone`, what its statement does to one row
  and no more. `Due`: an audit entry that is due has been made, or its operation is
  still open and will fail if the entry does.
- *Worker.* A message is posted, in the host's hand or answered, once (`Place`). The
  port keeps the order, so the release is behind every accepted call on its way out
  and so is its answer on the way back (`ReleaseIsLast`): when it arrives nothing
  waits any more (`Waits`). `Written`: what a unit has written is what its place
  says. `Ending`: a client that was closed with its worker alive is releasing, or its
  release was rejected and the host has let go of the database. A page touches no
  other page (`Within`), so the invariant is proved for the page that moves.
- *Keyset walks.* On the rows of a request, `Before` is a strict order, total where
  rows do not tie, with NULL in its place; what a cursor's comparisons select comes
  after it, and the converse holds without NULLs (`SelectedIsAfter`,
  `AfterIsSelected`). `ShapeInv`: pages are full while there is a next one, and the
  cursor is the last row given. `OrderInv`: what was given is in order and the page
  read follows it. `ReachInv` says of every moment what the property says of the
  end: a row that is still sought is after everything given, and once the page is
  read, in it or after all of a full one. A write only shrinks what is sought.
- *Offset walks.* A sort that tells rows apart has one order (`OneOrder`), so every
  page at rest is of one sequence, and `PlaceInv` says which part of it was given and read.
  A total is that sequence's, or more (`Totals`): then pages that are empty come last.
  A count, which is another statement, is of the same rows: a LEFT JOIN to the
  key keeps rows apart, GROUP BY the key keeps one per base row (`PopulatedIs`), and
  the keys of groups are as many as groups (`GroupsIs`).
- *topN.* `compareBy` is an order of the tuples of ranking keys, NULL last
  (`LeadsOrders`, `RanksTransitive`, `RanksTotal`), so a stable sort of a partition is
  its rows, each once, none before one that ranks ahead of it (`RankedIs`). Up to a row
  there is then one tuple more than rank before it (`BetterIs`), which makes the cut of
  `sliceWithTies` a test of that number (`CutIsTop`, `SliceKeeps`). Partitions have one
  first row each, so what is kept of one is not mixed with another's (`KeptOfPeers`).
  A row's RANK is at least its DENSE_RANK, and no more when the rows before it are
  untied (`KeepsTop`). The full aggregate is counted unsorted, and another order keeps other rows under
  'row_number', but as many of every partition, so as many (`TopNCounts`).
- *Lookups.* The chain of joins is followed for one base row (`ChainTraced`): up to the
  lookup of many it has one joined row, which only gains columns (`SingleTraced`); then one
  for each match, told apart by the match's own columns (`ArrayTraced`); later joins keep
  them apart. So the array counts matches (`ArrayIs`). For groups, joins by the key
  leave one joined row per base row (`JoinsKeep`), and a group's joined rows are as many
  as the base rows they are of (`GroupOnce`).
- *Leaves.* Over one type every leaf picks values by one test (`ScalarPicks`,
  `ValuePicks`, `PairPicks`, operator by operator), so its forms agree. For LIKE and
  GLOB both scanners are followed from the end of the pattern (`FromTheEnd`): what
  quoting makes of a letter is scanned to the part that LIKE scans (`PartsAgree`).

TLC alone checks liveness under fairness and the type of `Handover`'s own variables.
No theorem is about a `lookupPopulate()` whose `single` lookup finds several rows: it
gives each and counts one. The sums of
`Measured` are a fold that the provers do not expand; no theorem is about them.

## Findings

1. **A write that waited can still be rolled back** (`gate_foreign_write`,
   connection-gate.ts:64). On better-sqlite3: T1 is active, T2 queued, W waits.
   `finish()` resumes W, which sees `active` null and awaits its query builder, one
   more microtask; T2's continuation sets `active` and sends BEGIN before W's
   INSERT runs. If T2 rolls back, W's write is lost after its method returned.
   With a retry policy every later attempt has the same gap.
2. **A takeover can leave two writers** (`worker_takeover`, client.ts:142 and
   219-226). `release()` of a closed client resolves at once, and the handler that
   awaits it lets the lock go. Two things close a client over a worker that can write.
   An exception that nobody caught in the worker fires `error` at the page:
   `onTransportFailure` closes the client and terminates nothing, and the worker goes
   through the calls it has; one takeover is then enough, which the run shows. And a
   takeover message that is heard while an earlier `release()` drains, the app's own or
   that of another message, meets the same line (TLC shows this one when
   `SingleTakeovers` has `NoErrorOfALiveWorker` in place of `OneReleaseAtATime`).

### Disagreements met without a run

Connections, rows and sweeps: the compare-and-set never matches a NULL version, so with
a nullable version column `update({ ifVersion })` reports a conflict on a row nobody
has touched, although update.ts:104 says that its `coalesce` initialises one
(`AnswersAsOneStep` needs its hypothesis for that); a flow can wait for itself: one AsyncLocalStorage
serves all gates (connection-gate.ts:45), so inside a transaction on a second
connection within one on the first, the first connection's statements are taken
for foreign ones (`NeverWaitsForItself` fails when two connections take
the place of one: `At <- TwoConns`, as in `gate_atomic`, under `Spec`); `cursor()` continues with `id > last id` under any sort
(repository.ts:1491), although repository.ts:1470 says that batches then neither
overlap nor skip rows (`NothingSkipped` excludes the kind "descending" for that);
the fallback of a hard purge says it is one transaction (purge.ts:188) and is two
statements, so its count is of what it read; an anonymize by functions updates by
id alone (purge.ts:397), also a row that has left the scope, and an archive deletes
a row that was updated since it was read (archive.ts:64); a row whose ttl column
is NULL is hidden from reads, although the plugin calls it permanent
(plugins/ttl/index.ts); `deleteMany` removes rows although the soft-delete
plugin's header says it is rewritten into an UPDATE (repository.ts:1705); an expiry equal to `now` is neither live nor
lapsed in the lease plugin; `createMany`, `findOneAndUpdate` and `getOrCreate` of
the outer repository inside its own `withTransaction` are refused although single
statements are not; a unit that commits and then throws is reported
`not-applied` (protocol.ts:76); a result that cannot be cloned stops the host's
queue (host.ts:77); the `release` of a page that waits leaves its lock request in
the queue (client.ts:249).

Plugins: update.ts:18 says that soft-delete scopes an update, but its `DEFAULT_READS`
have no `update`, `claim` or `claimVersion`; a soft `delete()` answers "Soft deleted"
when its update matched nothing; the inner `update()` of `delete()` and `restore()`
gets none of the caller's context, so a `resolveTenantId` that reads the options
leaves it unscoped, and `skipPlugins` is lost (`Ambient`, `Recorded`); the conflict
branch of `upsert()` goes by the key alone and can move another tenant's row, and
what `getOrCreate()` and `findOneAndUpdate({ upsert })` insert is not stamped
(`TenantsApart` leaves these out); `replace()` is in no list although its doc says
that multi-tenant scopes it, and it revives tombstones; `distinct()` builds no
context although two lists name it; `lookupPopulate()` does not hand its options to
the context, and the ttl plugin hears neither of it nor of `aggregate()` and
`cursor()`; `createMany`, `updateMany`, `deleteMany`, `upsert`, `claim` and `replace`
leave no audit entry; the repository handed to a transaction's callback has no
plugins.

Migrator: it sorts by `localeCompare` (migrator.ts:28) while `down()` and `latest()`
use byte order (76, 81, 126); from-drizzle.ts says that a journal's `idx` is the order,
and the migrator sorts again by name; two `down()` at once can run a script twice
(`RunOnce` fails under `Spec`).

Pages, aggregates, filters: a keyset walk loses the rows after a page
that ends on a NULL, and from its second page on a NULL sorted down
(`KeysetMissesNothing` leaves these out);
PaginationEngine.ts:170 reads the cursor by the column's database name although rows
are keyed by property, so a renamed column gives a null cursor; execute.ts calls
`q.having` twice (193, 212) and Drizzle keeps the second, so from page 2 on a keyset
walk ignores `having`; dateBucket.ts:61 says floor, and SQLite's division truncates,
so the bin around 1970 is twice as wide; `topN` with ties 'rank', the default, keeps
the slices of DENSE_RANK (topN.ts:126): of the ranks 1, 1, 3 and a limit of 2 it keeps
all three rows, although topN.ts:105-112 says that the third is past the threshold and
that ties match SQL window functions exactly (`TopNKeepsTheTop` says what holds: SQL's
slice for 'dense_rank' and 'row_number', for 'rank' no row of SQL's slice is lost, and it
is exact where no better rows tie); `topN` orders NULLs against SQL; `in` and `nin` with a null in HAVING are
plain SQL, unlike in WHERE (`LeavesAgree` leaves these out); `nin []` on a JSON path
leaves absent values out, on a column it does not; NOT over a NULL column stays NULL,
over a JSON leaf it is TRUE; `countAggGroups` knows nothing of `topN` and counts 0 for
a scalar over no rows, which yields one (`OffsetPagesAddUp` leaves these out); two
array lookups repeat each other's rows, a `single` lookup with several matches repeats
the base row, and a matched row of NULLs is hydrated to null (`JoinedOnce` is for
one array lookup).

## Not modelled

`PROJECT.json` lists every component with its status. Pure wiring (adapters,
schema translation, better-auth), DDL text (fts, vector), PRAGMA timers (vacuum)
and native drivers have no state or order of their own here. Array update
operators and the usage counters are one statement each, whose only interleaving is
SQLite's. Of `repository.ts`, `bulkWrite` is a loop of other methods' statements and
`aggregatePipeline` hands the connection to its caller. Calendar buckets, averages,
percentiles and the spelling of SQL are left out of `Aggregates`.

## Plan

1. `Plugins` with a tenant that comes from the options, once the inner calls carry
   them, and with a payload that sets the tenant column.
2. `Rows` inside a caller's own transaction, composed with `ConnectionGate` in place
   of the gate at its word.
3. Array update operators and calendar buckets as operators against reference
   definitions.
