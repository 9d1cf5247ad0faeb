--------------------------- MODULE ConnectionGate ---------------------------
(***************************************************************************)
(* One SQLite connection shared by many async callers.                     *)
(*                                                                         *)
(* connection-gate.ts gives every Drizzle db object a gate.  A transaction *)
(* (withManualTransaction, transaction.ts) takes the gate exclusively:     *)
(* calls chain on the promise `tail`, so they run one after the other, and *)
(* `active` is the completion promise of the one that runs.  A statement   *)
(* of a repository method (#roundTrip, repository.ts) goes through         *)
(* outside(): it loops while a transaction is active and then submits.     *)
(* "Inside" a transaction is what Node's AsyncLocalStorage says: the store *)
(* of the callback's async context is the gate.                            *)
(*                                                                         *)
(* Flows are the async call chains of the program (requests, timers).      *)
(* Each call the flows may make is a constant: a member of Tx is one call  *)
(* that runs a transaction, a member of Stmt one write.  Which flow makes  *)
(* a call, when, and in which callback, is left open.                      *)
(*                                                                         *)
(* The steps of the model are the points where JavaScript runs another     *)
(* job: the promise `await`s of the code.  Passing the gate and running    *)
(* the statement are two steps: at least one microtask lies between the    *)
(* test of `active` and Drizzle's execute() (a query builder runs when it  *)
(* is awaited), and with a retry policy every later attempt of withRetry,  *)
(* which runs inside outside() and does not test the gate again.           *)
(***************************************************************************)
EXTENDS Integers, FiniteSets

CONSTANTS
  Conn,       \* Drizzle db objects, each over its own SQLite connection
  Flow,       \* async flows
  Root,       \* the flows that exist from the start; the others are forked
  Tx,         \* calls that run a transaction
  Stmt,       \* write statements
  Gated,      \* the statements issued through #roundTrip; the rest (increment,
              \* the purge port, the TTL sweep, raw repo.db) never ask the gate
  MethodTx,   \* the transactions a repository method opens inside #roundTrip
              \* (createMany, findOneAndUpdate, getOrCreate); the rest are
              \* withTransaction, bulkWrite and withBatch
  At,         \* the connection of every transaction and statement
  None        \* no flow, transaction or statement

ASSUME ConnAssumption ==
  /\ Root \subseteq Flow
  /\ Gated \subseteq Stmt
  /\ MethodTx \subseteq Tx
  /\ Tx \cap Stmt = {}
  /\ At \in [Tx \cup Stmt -> Conn]
  /\ None \notin Flow \cup Tx \cup Stmt

VARIABLES
  \* ConnectionGate: the promise chain and the active transaction
  tail,       \* per connection, how many calls have chained on `tail`
  ticket,     \* per transaction, its place in that chain (0: not chained)
  active,     \* per connection, the transaction whose `mine` is `this.active`
  \* the transactions
  phase,      \* how far the call of exclusive() has come
  outcome,    \* what SQLite did with it: "none", "committed", "rolledback"
  owner,      \* the flow that made the call
  outer,      \* the store of that flow outside the callback
  \* the flows
  pc,         \* what the flow is doing
  ctx,        \* its AsyncLocalStorage store: the transaction it is inside
  base,       \* the store it inherited when it was forked
  cur,        \* the call it is blocked in
  awaits,     \* the completion promise the outside() loop awaits
  \* SQLite
  inTx,       \* per connection, the transaction SQLite has open
  \* what happened to the statements (history the properties read)
  done,       \* "new", "called", "ok" or "failed"
  home,       \* the transaction in whose callback it was issued
  landed,     \* the SQLite transaction it ran in (None: autocommit)
  behind      \* the transactions it waited for at the gate

gateVars == <<tail, ticket, active>>
txVars   == <<phase, outcome, owner, outer>>
flowVars == <<pc, ctx, base, cur, awaits>>
stmtVars == <<done, home, landed, behind>>
vars     == <<gateVars, txVars, flowVars, inTx, stmtVars>>

Phase   == {"new", "queued", "admitted", "open", "ended", "settled", "refused"}
Outcome == {"none", "committed", "rolledback"}
PC      == {"unborn", "run", "blocked", "wait", "passed", "finished"}
Result  == {"new", "called", "ok", "failed"}

\* The calls that hold the gate: `active` is their completion promise.
Holding == {"admitted", "open", "ended"}

TypeOK ==
  /\ tail    \in [Conn -> Nat]
  /\ ticket  \in [Tx -> Nat]
  /\ active  \in [Conn -> Tx \cup {None}]
  /\ phase   \in [Tx -> Phase]
  /\ outcome \in [Tx -> Outcome]
  /\ owner   \in [Tx -> Flow \cup {None}]
  /\ outer   \in [Tx -> Tx \cup {None}]
  /\ pc      \in [Flow -> PC]
  /\ ctx     \in [Flow -> Tx \cup {None}]
  /\ base    \in [Flow -> Tx \cup {None}]
  /\ cur     \in [Flow -> Tx \cup Stmt \cup {None}]
  /\ awaits  \in [Flow -> Tx \cup {None}]
  /\ inTx    \in [Conn -> Tx \cup {None}]
  /\ done    \in [Stmt -> Result]
  /\ home    \in [Stmt -> Tx \cup {None}]
  /\ landed  \in [Stmt -> Tx \cup {None}]
  /\ behind  \in [Stmt -> SUBSET Tx]

Init ==
  /\ tail    = [c \in Conn |-> 0]
  /\ ticket  = [t \in Tx |-> 0]
  /\ active  = [c \in Conn |-> None]
  /\ phase   = [t \in Tx |-> "new"]
  /\ outcome = [t \in Tx |-> "none"]
  /\ owner   = [t \in Tx |-> None]
  /\ outer   = [t \in Tx |-> None]
  /\ pc      = [f \in Flow |-> IF f \in Root THEN "run" ELSE "unborn"]
  /\ ctx     = [f \in Flow |-> None]
  /\ base    = [f \in Flow |-> None]
  /\ cur     = [f \in Flow |-> None]
  /\ awaits  = [f \in Flow |-> None]
  /\ inTx    = [c \in Conn |-> None]
  /\ done    = [s \in Stmt |-> "new"]
  /\ home    = [s \in Stmt |-> None]
  /\ landed  = [s \in Stmt |-> None]
  /\ behind  = [s \in Stmt |-> {}]

-----------------------------------------------------------------------------
(* The gate. *)

\* Mutant: the store is never set, as where AsyncLocalStorage is missing but
\* the gate is not skipped.
InsideNeverTracked(f, c) == FALSE

\* `asyncContext.getStore() === this`: the store is the gate of connection c.
\* There is one AsyncLocalStorage for all gates, so a nested run() on another
\* gate hides the outer one.
Inside(f, c) == ctx[f] # None /\ At[ctx[f]] = c

\* The completion promise `mine` of a transaction has settled.
Settled(t) == phase[t] = "settled"

\* Mutant: exclusive() does not await the previous call.
PreviousIgnored(t) == TRUE

\* `await previous`: the call before this one in the chain has settled.
PreviousSettled(t) ==
  \A u \in Tx : At[u] = At[t] /\ ticket[u] # 0 /\ ticket[u] = ticket[t] - 1
                  => Settled(u)

\* exclusive(), up to `await previous`: the call takes its place in the chain.
Chain(f, t) ==
  LET c == At[t] IN
  /\ tail'   = [tail EXCEPT ![c] = @ + 1]
  /\ ticket' = [ticket EXCEPT ![t] = tail[c] + 1]
  /\ phase'  = [phase EXCEPT ![t] = "queued"]
  /\ owner'  = [owner EXCEPT ![t] = f]
  /\ outer'  = [outer EXCEPT ![t] = ctx[f]]
  /\ pc'     = [pc EXCEPT ![f] = "blocked"]
  /\ cur'    = [cur EXCEPT ![f] = t]

\* NestedTransactionError: thrown to the caller, nothing is queued.
Refuse(f, t) ==
  /\ phase' = [phase EXCEPT ![t] = "refused"]
  /\ pc'    = [pc EXCEPT ![f] = "run"]
  /\ cur'   = [cur EXCEPT ![f] = None]
  /\ UNCHANGED <<tail, ticket, owner, outer>>

\* The `while (this.active) await this.active` of outside(), entered.
WaitForActive(f, call) ==
  /\ pc'     = [pc EXCEPT ![f] = "wait"]
  /\ cur'    = [cur EXCEPT ![f] = call]
  /\ awaits' = [awaits EXCEPT ![f] = active[At[call]]]

\* A flow calls withTransaction / bulkWrite / withBatch, or a repository
\* method that opens its own transaction and so asks the gate first.
CallTransaction(f, t) ==
  /\ pc[f] = "run" /\ phase[t] = "new" /\ \A g \in Flow : cur[g] # t
  /\ \/ /\ Inside(f, At[t])
        /\ Refuse(f, t)
        /\ UNCHANGED awaits
     \/ /\ ~Inside(f, At[t])
        /\ t \in MethodTx => active[At[t]] = None
        /\ Chain(f, t)
        /\ UNCHANGED awaits
     \/ /\ ~Inside(f, At[t])
        /\ t \in MethodTx /\ active[At[t]] # None
        /\ WaitForActive(f, t)
        /\ UNCHANGED <<tail, ticket, phase, owner, outer>>
  /\ UNCHANGED <<active, outcome, ctx, base, inTx, stmtVars>>

\* `await previous` returns: this.active = mine, and the callback's context
\* is entered (asyncContext.run).
Admit(t) ==
  /\ phase[t] = "queued"
  /\ PreviousSettled(t)
  /\ active' = [active EXCEPT ![At[t]] = t]
  /\ phase'  = [phase EXCEPT ![t] = "admitted"]
  /\ ctx'    = [ctx EXCEPT ![owner[t]] = t]
  /\ UNCHANGED <<tail, ticket, outcome, owner, outer, pc, base, cur, awaits,
                 inTx, stmtVars>>

\* Mutant: the callback runs without a BEGIN.
BeginNotSent(t) ==
  /\ phase' = [phase EXCEPT ![t] = "open"]
  /\ pc'    = [pc EXCEPT ![owner[t]] = "run"]
  /\ cur'   = [cur EXCEPT ![owner[t]] = None]
  /\ UNCHANGED <<inTx, outcome>>

\* db.run(BEGIN).  SQLite refuses it inside a transaction, and it may fail on
\* its own (a closed handle): the error leaves exclusive() through `finally`.
BeginSucceeds(t) ==
  /\ inTx[At[t]] = None
  /\ inTx'  = [inTx EXCEPT ![At[t]] = t]
  /\ phase' = [phase EXCEPT ![t] = "open"]
  /\ pc'    = [pc EXCEPT ![owner[t]] = "run"]
  /\ cur'   = [cur EXCEPT ![owner[t]] = None]
  /\ UNCHANGED outcome

BeginFails(t) ==
  /\ phase'   = [phase EXCEPT ![t] = "ended"]
  /\ outcome' = [outcome EXCEPT ![t] = "rolledback"]
  /\ UNCHANGED <<inTx, pc, cur>>

Begin(t) ==
  /\ phase[t] = "admitted"
  /\ BeginSucceeds(t) \/ BeginFails(t)
  /\ UNCHANGED <<gateVars, owner, outer, ctx, base, awaits, stmtVars>>

\* Mutant: the callback's promise is not awaited before COMMIT or ROLLBACK.
CallbackNotAwaited(t) == phase[t] = "open"

\* The callback of t is back in the hands of the flow that opened it.
CallbackRuns(t) ==
  phase[t] = "open" /\ pc[owner[t]] = "run" /\ ctx[owner[t]] = t

\* Mutant: the callback does not await the work it starts.
NothingAwaited(t) == {}

\* What the callback forked and still awaits (Promise.all).
Unfinished(t) == {g \in Flow : base[g] = t /\ pc[g] # "finished"}

\* The callback returns and COMMIT succeeds.
Commit(t) ==
  /\ CallbackRuns(t)
  /\ Unfinished(t) = {}
  /\ inTx'    = [inTx EXCEPT ![At[t]] = None]
  /\ phase'   = [phase EXCEPT ![t] = "ended"]
  /\ outcome' = [outcome EXCEPT ![t] = "committed"]
  /\ pc'      = [pc EXCEPT ![owner[t]] = "blocked"]
  /\ cur'     = [cur EXCEPT ![owner[t]] = t]
  /\ UNCHANGED <<gateVars, owner, outer, ctx, base, awaits, stmtVars>>

\* The callback throws, or COMMIT fails: ROLLBACK, and the error is rethrown.
\* Promise.all rejects with its first error, so the callback may throw while
\* other work it forked still runs.
Rollback(t) ==
  /\ CallbackRuns(t)
  /\ inTx'    = [inTx EXCEPT ![At[t]] = None]
  /\ phase'   = [phase EXCEPT ![t] = "ended"]
  /\ outcome' = [outcome EXCEPT ![t] = "rolledback"]
  /\ pc'      = [pc EXCEPT ![owner[t]] = "blocked"]
  /\ cur'     = [cur EXCEPT ![owner[t]] = t]
  /\ UNCHANGED <<gateVars, owner, outer, ctx, base, awaits, stmtVars>>

\* The `finally` of exclusive(): active = null, finish(), and the flow is
\* back in the context it called from.
Release(t) ==
  /\ phase[t] = "ended"
  /\ active' = [active EXCEPT ![At[t]] = None]
  /\ phase'  = [phase EXCEPT ![t] = "settled"]
  /\ ctx'    = [ctx EXCEPT ![owner[t]] = outer[t]]
  /\ pc'     = [pc EXCEPT ![owner[t]] = "run"]
  /\ cur'    = [cur EXCEPT ![owner[t]] = None]
  /\ UNCHANGED <<tail, ticket, outcome, owner, outer, base, awaits, inTx,
                 stmtVars>>

-----------------------------------------------------------------------------
(* Statements. *)

\* A flow issues write s.  A gated one from outside waits while a transaction
\* is active; every other one goes on to the connection.
CallStatement(f, s) ==
  /\ pc[f] = "run" /\ done[s] = "new"
  /\ done' = [done EXCEPT ![s] = "called"]
  /\ home' = [home EXCEPT ![s] = ctx[f]]
  /\ \/ /\ s \in Gated => Inside(f, At[s]) \/ active[At[s]] = None
        /\ pc'  = [pc EXCEPT ![f] = "passed"]
        /\ cur' = [cur EXCEPT ![f] = s]
        /\ UNCHANGED <<awaits, behind>>
     \/ /\ s \in Gated /\ ~Inside(f, At[s]) /\ active[At[s]] # None
        /\ WaitForActive(f, s)
        /\ behind' = [behind EXCEPT ![s] = @ \cup {active[At[s]]}]
  /\ UNCHANGED <<gateVars, txVars, ctx, base, inTx, landed>>

\* Mutant: the promise of the active transaction is not awaited.
PassUnsettled(f) ==
  /\ pc[f] = "wait" /\ cur[f] \in Stmt
  /\ pc'     = [pc EXCEPT ![f] = "passed"]
  /\ awaits' = [awaits EXCEPT ![f] = None]
  /\ UNCHANGED <<gateVars, txVars, ctx, base, cur, inTx, stmtVars>>

\* Mutant: a do-while, which awaits `active` before it tests it.
WaitAgainUntested(f) ==
  LET c == At[cur[f]] IN
  /\ pc[f] = "wait" /\ cur[f] # None /\ Settled(awaits[f])
  /\ awaits' = [awaits EXCEPT ![f] = active[c]]
  /\ behind' = [s \in Stmt |-> IF s = cur[f] THEN behind[s] \cup {active[c]}
                                             ELSE behind[s]]
  /\ UNCHANGED <<gateVars, txVars, pc, ctx, base, cur, inTx, done, home, landed>>

\* The awaited transaction has settled and the loop tests `active` again:
\* another transaction is active and the flow waits for that one.
WaitAgain(f) ==
  LET c == At[cur[f]] IN
  /\ pc[f] = "wait" /\ cur[f] # None /\ Settled(awaits[f])
  /\ active[c] # None
  /\ awaits' = [awaits EXCEPT ![f] = active[c]]
  /\ behind' = [s \in Stmt |-> IF s = cur[f] THEN behind[s] \cup {active[c]}
                                             ELSE behind[s]]
  /\ UNCHANGED <<gateVars, txVars, pc, ctx, base, cur, inTx, done, home, landed>>

\* ... or none is, and a statement may be submitted.
PassStatement(f) ==
  /\ pc[f] = "wait" /\ cur[f] \in Stmt /\ Settled(awaits[f])
  /\ active[At[cur[f]]] = None
  /\ pc'     = [pc EXCEPT ![f] = "passed"]
  /\ awaits' = [awaits EXCEPT ![f] = None]
  /\ UNCHANGED <<gateVars, txVars, ctx, base, cur, inTx, stmtVars>>

\* ... or a repository method goes on to open its transaction.
PassMethod(f) ==
  /\ pc[f] = "wait" /\ cur[f] \in Tx /\ Settled(awaits[f])
  /\ active[At[cur[f]]] = None
  /\ Chain(f, cur[f])
  /\ awaits' = [awaits EXCEPT ![f] = None]
  /\ UNCHANGED <<active, outcome, ctx, base, inTx, stmtVars>>

\* The statement runs on the connection, in whatever transaction SQLite has
\* open there, or fails (a constraint, or the last retry).  The attempts of
\* withRetry before the one that counts change nothing here.
Execute(f) ==
  /\ pc[f] = "passed"
  /\ \E r \in {"ok", "failed"} : done' = [done EXCEPT ![cur[f]] = r]
  /\ landed' = [landed EXCEPT ![cur[f]] = inTx[At[cur[f]]]]
  /\ pc'  = [pc EXCEPT ![f] = "run"]
  /\ cur' = [cur EXCEPT ![f] = None]
  /\ UNCHANGED <<gateVars, txVars, ctx, base, awaits, inTx, home, behind>>

-----------------------------------------------------------------------------
(* Flows. *)

\* A flow starts concurrent work and keeps running; the new flow inherits the
\* async context.
Fork(f, g) ==
  /\ pc[f] = "run" /\ pc[g] = "unborn"
  /\ pc'   = [pc EXCEPT ![g] = "run"]
  /\ ctx'  = [ctx EXCEPT ![g] = ctx[f]]
  /\ base' = [base EXCEPT ![g] = ctx[f]]
  /\ UNCHANGED <<gateVars, txVars, cur, awaits, inTx, stmtVars>>

\* A flow has nothing more to do.
Finish(f) ==
  /\ pc[f] = "run" /\ ctx[f] = base[f]
  /\ pc' = [pc EXCEPT ![f] = "finished"]
  /\ UNCHANGED <<gateVars, txVars, ctx, base, cur, awaits, inTx, stmtVars>>

\* Every flow is finished: the program may stop.
Terminated ==
  /\ \A f \in Flow : pc[f] \in {"finished", "unborn"}
  /\ UNCHANGED vars

\* What the runtime does on its own: promise continuations and the driver.
Continue ==
  \/ \E t \in Tx : Admit(t) \/ Begin(t) \/ Release(t)
  \/ \E f \in Flow : WaitAgain(f) \/ PassStatement(f) \/ PassMethod(f) \/ Execute(f)

\* What the program does.
Call ==
  \/ \E f \in Flow, t \in Tx : CallTransaction(f, t)
  \/ \E f \in Flow, s \in Stmt : CallStatement(f, s)
  \/ \E t \in Tx : Commit(t) \/ Rollback(t)
  \/ \E f, g \in Flow : Fork(f, g)
  \/ \E f \in Flow : Finish(f)

Next == Continue \/ Call \/ Terminated

Spec == Init /\ [][Next]_vars

\* Every promise continuation runs, the driver answers, and a callback returns
\* or throws once it has made the calls it makes.  Nothing else is assumed of
\* the program: a flow need not make a call, nor finish.
Fairness ==
  /\ \A t \in Tx : /\ WF_vars(Admit(t)) /\ WF_vars(Begin(t)) /\ WF_vars(Release(t))
                   /\ WF_vars(Commit(t) \/ Rollback(t))
  /\ \A f \in Flow : /\ WF_vars(Execute(f))
                     /\ WF_vars(WaitAgain(f) \/ PassStatement(f) \/ PassMethod(f))

FairSpec == Spec /\ Fairness

-----------------------------------------------------------------------------
(* Properties. *)

\* The write is in the database for good.
Durable(s) ==
  done[s] = "ok" /\ (landed[s] = None \/ outcome[landed[s]] = "committed")

\* The transaction s was issued in, when that is one on its own connection.
IssuedIn(s, t) == home[s] = t /\ At[s] = At[t]

\* Transactions of one connection never overlap: at most one holds the gate,
\* `active` is its promise, SQLite has no transaction but that one open, and
\* BEGIN never runs inside a transaction.
OneTransactionAtATime ==
  /\ \A t, u \in Tx : phase[t] \in Holding /\ phase[u] \in Holding /\ At[t] = At[u]
                        => t = u
  /\ \A t \in Tx : phase[t] \in Holding <=> active[At[t]] = t
  /\ \A t \in Tx : phase[t] = "open" <=> inTx[At[t]] = t

\* A statement that found a transaction active at the gate never runs inside
\* that transaction, nor inside any other it went on to wait for.
WaitersStayOut == \A s \in Stmt : landed[s] \notin behind[s]

\* A committed transaction holds every write its callback made: none escaped
\* it into another transaction that rolled back.
CommittedIsComplete ==
  \A s \in Stmt, t \in Tx :
    IssuedIn(s, t) /\ done[s] = "ok" /\ outcome[t] = "committed" => Durable(s)

\* A transaction that rolled back leaves none of its callback's writes behind.
RolledBackLeavesNothing ==
  \A s \in Stmt, t \in Tx : IssuedIn(s, t) /\ outcome[t] = "rolledback" => ~Durable(s)

\* A write that waited at the gate is never taken along by a rollback: once
\* its method has returned, only the transaction it was issued in can undo it
\* (the header of tests/integration/transaction-isolation.test.ts).
WaitedWriteSurvives ==
  \A s \in Stmt, t \in Tx :
    done[s] = "ok" /\ behind[s] # {} /\ landed[s] = t /\ home[s] # t
      => outcome[t] # "rolledback"

\* No flow waits for a transaction it is itself running: statements inside go
\* straight through, and a transaction inside a transaction on its connection
\* is refused instead of queued behind it (connection-gate.ts, 5 and 26).
NeverWaitsForItself ==
  /\ \A f \in Flow : pc[f] = "wait" => owner[awaits[f]] # f
  /\ \A t, u \in Tx : phase[t] = "queued" /\ phase[u] \in Holding /\ At[t] = At[u]
                        => owner[t] # owner[u]

\* Every transaction that takes its place in the chain gets its turn and ends.
QueuedRuns == \A t \in Tx : phase[t] = "queued" ~> phase[t] = "settled"

\* Every flow that waits at the gate gets past it.
WaiterPasses == \A f \in Flow : pc[f] = "wait" ~> pc[f] # "wait"

\* Transactions run in the order they were called: when one is admitted, every
\* earlier call on its connection is over and SQLite has closed it.
NoOvertaking ==
  [][\A t, u \in Tx :
       /\ phase[t] = "queued" /\ phase'[t] = "admitted"
       /\ At[u] = At[t] /\ ticket[u] # 0 /\ ticket[u] < ticket[t]
       => phase[u] = "settled" /\ inTx[At[u]] = None]_vars
=============================================================================
