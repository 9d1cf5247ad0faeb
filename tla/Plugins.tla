-------------------------------- MODULE Plugins --------------------------------
(***************************************************************************)
(* A repository with the multi-tenant, soft-delete, ttl and audit plugins  *)
(* (plugins/*/index.ts) in front of one table, and several callers.        *)
(*                                                                         *)
(* A call runs its before-hooks (_buildContext), which add conditions to   *)
(* its filter or columns to its payload; then its one statement; then its  *)
(* after-hooks, of which only the audit plugin's does anything here.       *)
(* Others' calls, the clock and the ttl sweep come in between.  delete()   *)
(* under the soft-delete plugin, and restore(), run a whole update() call  *)
(* inside: the frames of a call are its operations, the inner one last.    *)
(*                                                                         *)
(* A row is known by its tenant column, whether deletedAt is set, and its  *)
(* ttl column.  Payloads of updates leave the tenant column and deletedAt  *)
(* alone.                                                                  *)
(***************************************************************************)
EXTENDS Integers, FiniteSets, Sequences

CONSTANTS
  Id,         \* primary keys
  Caller,     \* callers of the repository
  Tenant,     \* tenants
  TenantOf,   \* the tenant each caller works for; None: resolveTenantId knows none
  Ambient,    \* resolveTenantId reads the request's context, not the call's options
  Method,     \* the methods the callers call
  TtlModes,   \* the modes the ttl plugin may be in: 'scheduled', 'trigger', 'lazy'
  Horizon,    \* bound: the last value of the clock
  NoRow,      \* no row under an id
  None        \* NULL, and "no tenant"

-----------------------------------------------------------------------------
(* The operations each plugin listens to.  Their lists name `distinct` too, *)
(* which builds no context: distinct(), increment() and bulkWrite() are no  *)
(* methods of this module, since no plugin hears of them.                   *)

\* multi-tenant: a condition on the caller's filter, a column of the payload.
QUERY_OPS ==
  {"getById", "getByQuery", "getOne", "findAll", "getOrCreate", "count", "exists",
   "update", "findOneAndUpdate", "delete", "restore", "updateMany", "deleteMany",
   "claim", "claimVersion", "cursor", "aggregate", "aggregatePipeline"}
LIST_OPS  == {"getAll", "aggregatePaginate", "lookupPopulate"}
WRITE_OPS == {"create", "createMany", "upsert"}

\* soft-delete: reads that leave rows with a deletedAt out.
TombstoneReads ==
  {"getById", "getByQuery", "getOne", "findAll", "getOrCreate", "count", "exists",
   "getAll", "aggregate", "aggregatePaginate", "lookupPopulate", "cursor",
   "aggregatePipeline"}

\* ttl: reads that leave expired rows out.
ExpiryReads ==
  {"getById", "getByQuery", "getOne", "findAll", "getOrCreate", "count", "exists", "getAll"}

\* audit: operations with an entry in the store.
AuditedOps == {"create", "update", "delete", "restore", "findOneAndUpdate"}

\* Methods that may insert and are not among WRITE_OPS.
Unstamped == {"getOrCreate", "findOneAndUpdate"}

Patches == {"update", "findOneAndUpdate", "updateMany", "claim", "claimVersion"}
Removes == {"delete", "deleteMany"}
Selects == (QUERY_OPS \cup LIST_OPS) \ (Unstamped \cup Patches \cup Removes \cup {"restore"})
Methods == Selects \cup Patches \cup Removes \cup WRITE_OPS \cup Unstamped
             \cup {"restore", "replace", "getDeleted", "getExpired"}

\* getDeleted() and getExpired() are getAll() with a filter and a flag.
OpOf(m) == IF m \in {"getDeleted", "getExpired"} THEN "getAll" ELSE m

Single == {"getById", "update", "replace", "delete", "create", "restore", "claim", "claimVersion",
           "getOne", "upsert"} \cup Unstamped

ASSUME PluginsAssumption ==
  /\ TenantOf \in [Caller -> Tenant \cup {None}] /\ None \notin Tenant \cup Method
  /\ Ambient \in BOOLEAN
  /\ Method \subseteq Methods
  /\ TtlModes \subseteq {"scheduled", "trigger", "lazy"}
  /\ Horizon \in Nat

VARIABLES
  mode,     \* the ttl plugin's mode
  rows,     \* the table
  clock,    \* the database's time
  method,   \* the method each caller is in, or None
  frames,   \* the operations it has open, the inner one last
  stage,    \* "statement", "after": where the inner one is
  filter,   \* the ids the caller asked for
  fields,   \* the payload: the caller's columns
  quiet,    \* skipPlugins: ['audit']
  \* history of each caller's last call
  owed,     \* the operations whose changes are due an audit entry
  logged,   \* the operations that have one
  answered  \* it returned to the caller

call    == <<method, frames, stage, filter, fields, quiet>>
history == <<owed, logged, answered>>
vars    == <<mode, rows, clock, call, history>>

Expiry == 0 .. Horizon \cup {None}
Rows   == [tenant : Tenant \cup {None}, deleted : BOOLEAN, expires : Expiry]

\* The columns a payload sets; the others keep their value.
Empty == [x \in {} |-> None]

TypeOK ==
  /\ mode   \in TtlModes
  /\ rows   \in [Id -> Rows \cup {NoRow}]
  /\ clock  \in 0 .. Horizon
  /\ method \in [Caller -> Method \cup {None}]
  /\ \A c \in Caller : Len(frames[c]) \in 0 .. 2 /\ (method[c] = None <=> frames[c] = <<>>)
  /\ stage  \in [Caller -> {"statement", "after"}]
  /\ filter \in [Caller -> SUBSET Id]
  /\ \A c \in Caller : DOMAIN fields[c] \subseteq {"deleted", "expires"}
  /\ quiet  \in [Caller -> BOOLEAN]
  /\ owed   \in [Caller -> SUBSET AuditedOps]
  /\ logged \in [Caller -> SUBSET AuditedOps]
  /\ answered \in [Caller -> BOOLEAN]

Init ==
  /\ mode \in TtlModes
  /\ rows \in [Id -> {NoRow} \cup [tenant : Tenant, deleted : {FALSE}, expires : {None, 0}]]
  /\ clock = 0
  /\ method = [c \in Caller |-> None] /\ frames = [c \in Caller |-> <<>>]
  /\ stage  = [c \in Caller |-> "statement"] /\ filter = [c \in Caller |-> {}]
  /\ fields = [c \in Caller |-> Empty] /\ quiet = [c \in Caller |-> FALSE]
  /\ owed = [c \in Caller |-> {}] /\ logged = [c \in Caller |-> {}]
  /\ answered = [c \in Caller |-> FALSE]

-----------------------------------------------------------------------------
(* The hooks. *)

Op(c) == frames[c][Len(frames[c])]

\* The open operations that are due an entry.  skipPlugins reaches the
\* operation it was given to, not the update() inside.
Recorded(c) == {k \in DOMAIN frames[c] : frames[c][k] \in AuditedOps /\ ~(quiet[c] /\ k = 1)}

\* What resolveTenantId returns.  The update() that delete() and restore() run
\* gets no more than `retryPolicy` and `signal` of their options.
Resolved(c) == IF Ambient \/ Len(frames[c]) = 1 THEN TenantOf[c] ELSE None

\* expiredPredicateSql, and its NOT: neither holds of a NULL.
Expired(row) == row.expires # None /\ row.expires < clock
Live(row)    == row.expires # None /\ ~(row.expires < clock)
Dead(i)      == rows[i] # NoRow /\ Expired(rows[i])

\* Mutant: the tenant's condition is for single rows; a list has none.
InScopeUnlisted(c, row) ==
  /\ Op(c) \in QUERY_OPS /\ Resolved(c) # None => row.tenant = Resolved(c)
  /\ Op(c) \in TombstoneReads /\ method[c] # "getDeleted" => ~row.deleted
  /\ Op(c) \in ExpiryReads /\ method[c] # "getExpired" => Live(row)

\* The conditions the before-hooks have added to the filter.
InScope(c, row) ==
  /\ Op(c) \in QUERY_OPS \cup LIST_OPS /\ Resolved(c) # None => row.tenant = Resolved(c)
  /\ Op(c) \in TombstoneReads /\ method[c] # "getDeleted" => ~row.deleted
  /\ Op(c) \in ExpiryReads /\ method[c] # "getExpired" => Live(row)

\* The condition getDeleted() or getExpired() itself adds.
Asked(c, row) ==
  /\ method[c] = "getDeleted" => row.deleted
  /\ method[c] = "getExpired" => Expired(row)

Found(c) == {i \in filter[c] : rows[i] # NoRow /\ InScope(c, rows[i]) /\ Asked(c, rows[i])}

Blank == [tenant |-> None, deleted |-> FALSE, expires |-> None]

\* A row written with payload f over the columns of `old`.
Written(f, old) == [x \in DOMAIN old |-> IF x \in DOMAIN f THEN f[x] ELSE old[x]]

\* stamp(): a row to be written gets the caller's tenant, whatever it had.
Stamped(c, row) ==
  IF Op(c) \in WRITE_OPS /\ Resolved(c) # None THEN [row EXCEPT !.tenant = Resolved(c)] ELSE row

-----------------------------------------------------------------------------
(* A call begins. *)

Start(c, m, ops, ids, f, q) ==
  /\ method[c] = None
  /\ method' = [method EXCEPT ![c] = m]
  /\ frames' = [frames EXCEPT ![c] = ops]
  /\ filter' = [filter EXCEPT ![c] = ids]
  /\ fields' = [fields EXCEPT ![c] = f]
  /\ quiet'  = [quiet EXCEPT ![c] = q]
  /\ owed'   = [owed EXCEPT ![c] = {}]
  /\ logged' = [logged EXCEPT ![c] = {}]
  /\ answered' = [answered EXCEPT ![c] = FALSE]
  /\ UNCHANGED <<mode, rows, clock, stage>>

\* What the payload says of the ttl column; the past, too.
Payloads(m) ==
  IF m \in Selects \cup Removes \cup {"getDeleted", "getExpired"}
  THEN {Empty} ELSE [{"expires"} -> {None, 0}]

\* A method that runs its own statement.  One that writes a new row is refused
\* without a tenant (requireOnWrite).
CallPlain(c, m, ids, q) ==
  /\ m \in Method \ {"restore"}
  /\ ids # {} /\ (m \in Single => Cardinality(ids) = 1)
  /\ m \in WRITE_OPS => TenantOf[c] # None
  /\ q => m \in AuditedOps
  /\ \E f \in Payloads(m) : Start(c, m, <<OpOf(m)>>, ids, f, q)

\* delete() that interceptDelete has made soft: update() writes the tombstone.
\* (In mode 'hard' it is a plain call, and deleteMany() always is.)
CallSoftDelete(c, i, q) ==
  /\ "delete" \in Method
  /\ Start(c, "delete", <<"delete", "update">>, {i}, [deleted |-> TRUE], q)

CallRestore(c, i) ==
  /\ "restore" \in Method
  /\ Start(c, "restore", <<"restore", "update">>, {i}, [deleted |-> FALSE], FALSE)

-----------------------------------------------------------------------------
(* The statements. *)

\* With mode 'trigger' an INSERT prunes the table it leaves.
Pruned(table) ==
  IF mode = "trigger"
  THEN [i \in Id |-> IF table[i] # NoRow /\ Expired(table[i]) THEN NoRow ELSE table[i]]
  ELSE table

\* The statement of c ran and left `table`.
Ran(c, table) ==
  /\ method[c] # None /\ stage[c] = "statement"
  /\ rows'  = table
  /\ stage' = [stage EXCEPT ![c] = "after"]
  /\ owed'  = IF table # rows
              THEN [owed EXCEPT ![c] = {frames[c][k] : k \in Recorded(c)}] ELSE owed
  /\ UNCHANGED <<mode, clock, method, frames, filter, fields, quiet, logged, answered>>

Select(c) == Op(c) \in Selects /\ Ran(c, rows)

\* create() and createMany(): all rows or, on a taken key, none.
Insert(c) ==
  /\ Op(c) \in {"create", "createMany"}
  /\ \A i \in filter[c] : rows[i] = NoRow
  /\ Ran(c, Pruned([i \in Id |-> IF i \in filter[c]
                                 THEN Stamped(c, Written(fields[c], Blank)) ELSE rows[i]]))

\* Mutant: the conflict branch writes a whole new row.
UpsertWhole(c) ==
  /\ Op(c) = "upsert"
  /\ \E i \in filter[c] :
       Ran(c, [rows EXCEPT ![i] = Stamped(c, Written(fields[c], Blank))])

\* INSERT .. ON CONFLICT (id) DO UPDATE: by the key alone.
Upsert(c) ==
  /\ Op(c) = "upsert"
  /\ \E i \in filter[c] :
       IF rows[i] = NoRow
       THEN Ran(c, Pruned([rows EXCEPT ![i] = Stamped(c, Written(fields[c], Blank))]))
       ELSE Ran(c, [rows EXCEPT ![i] = Stamped(c, Written(fields[c], @))])

\* getOrCreate() finds a row, or inserts what the caller gave; so does
\* findOneAndUpdate() with upsert, which updates the row it finds.
FindOrInsert(c) ==
  /\ Op(c) \in Unstamped
  /\ \/ Op(c) = "getOrCreate" /\ Found(c) # {} /\ Ran(c, rows)
     \/ /\ \A i \in filter[c] : rows[i] = NoRow
        /\ \E t \in {None, TenantOf[c]} :
             Ran(c, Pruned([i \in Id |-> IF i \in filter[c]
               THEN [Written(fields[c], Blank) EXCEPT !.tenant = t] ELSE rows[i]]))

Patch(c) ==
  /\ Op(c) \in Patches
  /\ Ran(c, [i \in Id |-> IF i \in Found(c) THEN Written(fields[c], rows[i]) ELSE rows[i]])

\* replace(): the columns the document lacks become NULL.
Replace(c) ==
  /\ Op(c) = "replace"
  /\ Ran(c, [i \in Id |-> IF i \in Found(c)
                          THEN [Written(fields[c], Blank) EXCEPT !.tenant = rows[i].tenant]
                          ELSE rows[i]])

Remove(c) ==
  /\ Op(c) \in Removes
  /\ Ran(c, [i \in Id |-> IF i \in Found(c) THEN NoRow ELSE rows[i]])

Statement(c) ==
  /\ method[c] # None
  /\ \/ Select(c) \/ Insert(c) \/ Upsert(c) \/ FindOrInsert(c)
     \/ Patch(c) \/ Replace(c) \/ Remove(c)

-----------------------------------------------------------------------------
(* The after-hooks. *)

Left(c) ==
  /\ method' = [method EXCEPT ![c] = None]
  /\ frames' = [frames EXCEPT ![c] = <<>>]
  /\ stage'  = [stage EXCEPT ![c] = "statement"]
  /\ filter' = [filter EXCEPT ![c] = {}]
  /\ fields' = [fields EXCEPT ![c] = Empty]
  /\ quiet'  = [quiet EXCEPT ![c] = FALSE]

Return(c) ==
  IF Len(frames[c]) = 1
  THEN Left(c) /\ answered' = [answered EXCEPT ![c] = TRUE]
  ELSE /\ frames' = [frames EXCEPT ![c] = SubSeq(@, 1, Len(@) - 1)]
       /\ UNCHANGED <<method, stage, filter, fields, quiet, answered>>

\* Mutant: skipPlugins silences the update() inside as well.
AfterAllQuiet(c) ==
  /\ method[c] # None /\ stage[c] = "after"
  /\ logged' = IF Op(c) \in AuditedOps /\ ~quiet[c]
               THEN [logged EXCEPT ![c] = @ \cup {Op(c)}] ELSE logged
  /\ Return(c)
  /\ UNCHANGED <<mode, rows, clock, owed>>

\* after:<op> of the inner operation, and back to the one around it.
After(c) ==
  /\ method[c] # None /\ stage[c] = "after"
  /\ logged' = IF Len(frames[c]) \in Recorded(c)
               THEN [logged EXCEPT ![c] = @ \cup {Op(c)}] ELSE logged
  /\ Return(c)
  /\ UNCHANGED <<mode, rows, clock, owed>>

\* The statement or the audit store fails: the method throws, and what its
\* statement did stays.
Throw(c) ==
  /\ method[c] # None
  /\ Left(c)
  /\ UNCHANGED <<mode, rows, clock, history>>

-----------------------------------------------------------------------------
(* Expiry. *)

Tick ==
  /\ clock < Horizon
  /\ clock' = clock + 1
  /\ UNCHANGED <<mode, rows, call, history>>

\* Mutant: only rows that soft-delete still shows.
SweepVisible ==
  /\ mode = "scheduled"
  /\ \E i \in Id : Dead(i) /\ ~rows[i].deleted
  /\ rows' = [i \in Id |-> IF Dead(i) /\ ~rows[i].deleted THEN NoRow ELSE rows[i]]
  /\ UNCHANGED <<mode, clock, call, history>>

\* sweepExpired(), from the interval of mode 'scheduled'.
Sweep ==
  /\ mode = "scheduled"
  /\ \E i \in Id : Dead(i)
  /\ rows' = [i \in Id |-> IF Dead(i) THEN NoRow ELSE rows[i]]
  /\ UNCHANGED <<mode, clock, call, history>>

Next ==
  \/ \E c \in Caller :
       \/ \E m \in Method, ids \in SUBSET Id, q \in BOOLEAN : CallPlain(c, m, ids, q)
       \/ \E i \in Id, q \in BOOLEAN : CallSoftDelete(c, i, q)
       \/ \E i \in Id : CallRestore(c, i)
       \/ Statement(c)
       \/ After(c)
       \/ Throw(c)
  \/ Tick
  \/ Sweep

Spec == Init /\ [][Next]_vars

\* The interval fires; a sweep may fail (onError), not for ever.
FairSpec == Spec /\ SF_vars(Sweep)

-----------------------------------------------------------------------------
(* Properties. *)

Runs(c) == stage[c] = "statement" /\ stage'[c] = "after"

\* A caller finds and changes rows of its own tenant only, through every method
\* the multi-tenant plugin lists, delete() and restore() with their inner
\* update() included, whoever writes the same row meanwhile; and rows it makes
\* with create(), createMany() and upsert() are its tenant's.  What upsert()
\* meets under its key and the expired rows a trigger prunes are another matter.
TenantsApart ==
  [][\A c \in Caller :
       Runs(c) /\ TenantOf[c] # None /\ method[c] # "replace" =>
         /\ Op(c) \notin {"create", "createMany", "upsert"}
              => \A i \in Found(c) : rows[i].tenant = TenantOf[c]
         /\ \A i \in Id : rows'[i] # rows[i] =>
              /\ rows[i] # NoRow /\ Op(c) # "upsert"
                   => rows[i].tenant = TenantOf[c] \/ Expired(rows[i])
              /\ rows'[i] # NoRow /\ Op(c) \notin Unstamped
                   => rows'[i].tenant = TenantOf[c]]_vars

\* A row that is soft-deleted comes back through restore(), or by a replace()
\* that leaves the column out, and through nothing else: no update(), upsert()
\* or claim() revives it.  (Removed for good and made again, it is a new row.)
TombstonesStay ==
  [][\A i \in Id : rows[i] # NoRow /\ rows'[i] # NoRow /\ rows[i].deleted /\ ~rows'[i].deleted
       => \E c \in Caller : Runs(c) /\ method[c] \in {"restore", "replace"}]_vars

\* Every change an audited operation made, and was answered for, has its entry:
\* a caller that learns of no failure finds the change in the audit store, that
\* of the update() inside its delete() or restore() as well.
AuditedOrFailed == \A c \in Caller : answered[c] => owed[c] \subseteq logged[c]

\* In mode 'scheduled' an expired row, hidden or not, is removed, or is given a
\* later expiry.
ExpiredSwept == \A i \in Id : (mode = "scheduled" /\ Dead(i)) ~> ~Dead(i)
=============================================================================
