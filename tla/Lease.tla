-------------------------------- MODULE Lease --------------------------------
(***************************************************************************)
(* leasePlugin (plugins/lease/index.ts): a table as a work queue.          *)
(*                                                                         *)
(* A claim is one call of lease() with its own `leasedBy` token (the doc   *)
(* asks for one per claim) and the extend() and release() calls made with  *)
(* that token.  A reaper is a loop that calls reapExhausted().  Every      *)
(* method reads the clock first and only then runs its findOneAndUpdate,   *)
(* one transaction on the table: hooks, the connection gate and the driver *)
(* lie between, so the transaction may compare and write with a `now` that *)
(* is already old.  A worker that crashed is a claim that takes no further *)
(* step.                                                                   *)
(*                                                                         *)
(* A NULL counter counts as 0 everywhere and is written as 0 here; a NULL  *)
(* leaseExpiresAt is None, and no comparison with it holds.                *)
(***************************************************************************)
EXTENDS Integers, FiniteSets

CONSTANTS
  Row,                \* rows of the table, numbered in the order of `sort`
  Claim,              \* calls of lease(), each with its own leasedBy token
  Reaper,             \* loops calling reapExhausted()
  Status,             \* values of the status column
  DeadLeaseStatuses,  \* statuses whose lapsed lease lease() may recover
  FinalStatuses,      \* the finalStatus values release() is called with
  Due,                \* when `pendingFilter` lets a pending row be claimed
  Durations,          \* the leaseFor values the workers pass
  MaxAttempts,        \* cap on attemptsField
  ReapLimit,          \* rows one reapExhausted() reads
  Horizon,            \* bound: the last value of the clock
  None                \* NULL, and "no row"

\* The constructor's checks: a cap of at least 1, and an exhaustedStatus that
\* is not pending, processing or a dead-lease status.
ASSUME LeaseAssumption ==
  /\ Row \subseteq Nat /\ None \notin Row \cup Claim \cup Nat
  /\ {"pending", "processing", "cancelled", "failed"} \cup FinalStatuses \subseteq Status
  /\ DeadLeaseStatuses \subseteq Status
  /\ "failed" \notin DeadLeaseStatuses
  /\ Due \in [Row -> Nat]
  /\ Durations \subseteq Nat \ {0}
  /\ MaxAttempts \in Nat \ {0} /\ ReapLimit \in Nat \ {0} /\ Horizon \in Nat

VARIABLES
  clock,      \* the time
  \* the row's columns
  status, leasedBy, leaseExpiresAt, attempts,
  \* the claims
  op,         \* the method in flight ("none": the worker works, or is gone)
  now,        \* the clock reading it was called with
  held,       \* the row the last reply gave the claim
  until,      \* the leaseExpiresAt that reply showed
  over,       \* the claim was released, or told that its lease is lost
  \* the reapers
  reapNow,    \* the clock reading of the call in flight (None: no call)
  candidates, \* the rows it read and has not yet tried to move
  reaps       \* history: how often each row was returned by reapExhausted()

rowVars   == <<status, leasedBy, leaseExpiresAt, attempts>>
claimVars == <<op, now, held, until, over>>
reapVars  == <<reapNow, candidates, reaps>>
vars      == <<clock, rowVars, claimVars, reapVars>>

TypeOK ==
  /\ clock          \in 0 .. Horizon
  /\ status         \in [Row -> Status]
  /\ leasedBy       \in [Row -> Claim \cup {None}]
  /\ leaseExpiresAt \in [Row -> Nat \cup {None}]
  /\ attempts       \in [Row -> 0 .. MaxAttempts]
  /\ op             \in [Claim -> {"none", "lease", "extend", "release"}]
  /\ now            \in [Claim -> 0 .. Horizon]
  /\ held           \in [Claim -> Row \cup {None}]
  /\ until          \in [Claim -> Nat]
  /\ over           \in [Claim -> BOOLEAN]
  /\ reapNow        \in [Reaper -> (0 .. Horizon) \cup {None}]
  /\ candidates     \in [Reaper -> SUBSET Row]
  /\ reaps          \in [Row -> Nat]

Init ==
  /\ clock          = 0
  /\ status         = [r \in Row |-> "pending"]
  /\ leasedBy       = [r \in Row |-> None]
  /\ leaseExpiresAt = [r \in Row |-> None]
  /\ attempts       = [r \in Row |-> 0]
  /\ op             = [c \in Claim |-> "none"]
  /\ now            = [c \in Claim |-> 0]
  /\ held           = [c \in Claim |-> None]
  /\ until          = [c \in Claim |-> 0]
  /\ over           = [c \in Claim |-> FALSE]
  /\ reapNow        = [p \in Reaper |-> None]
  /\ candidates     = [p \in Reaper |-> {}]
  /\ reaps          = [r \in Row |-> 0]

-----------------------------------------------------------------------------
(* The conditions the methods compile to SQL. *)

\* Mutant: the boundary `leaseExpiresAt <= now` for a lapsed lease.
LapsedAtBoundary(r, t) == leaseExpiresAt[r] # None /\ leaseExpiresAt[r] <= t

\* `leaseExpiresAt < now`, and `leaseExpiresAt > now`: at equality the lease is
\* neither lapsed nor live.
Lapsed(r, t) == leaseExpiresAt[r] # None /\ leaseExpiresAt[r] < t
Live(r, t)   == leaseExpiresAt[r] # None /\ leaseExpiresAt[r] > t

\* Mutant: the dead arm without its status guard, as before 0.13.
ClaimableWhateverStatus(r, t) ==
  (status[r] = "pending" /\ Due[r] <= t) \/ Lapsed(r, t)

\* Mutant: no dead arm.
ClaimablePendingOnly(r, t) == status[r] = "pending" /\ Due[r] <= t

\* claimable(): pending and passing pendingFilter, or a dead lease.
Claimable(r, t) ==
  \/ status[r] = "pending" /\ Due[r] <= t
  \/ status[r] \in DeadLeaseStatuses /\ Lapsed(r, t)

\* Mutant: the cap tested with <=.
BelowCapOffByOne(r) == attempts[r] <= MaxAttempts

\* The row is not yet leased as often as the cap allows.
BelowCap(r) == attempts[r] < MaxAttempts

\* claimable() AND attemptsField >= maxAttempts.
Exhausted(r, t) == Claimable(r, t) /\ attempts[r] >= MaxAttempts

\* The compare-and-set of extend() and release().
HeldBy(r, c, t) == status[r] = "processing" /\ leasedBy[r] = c /\ Live(r, t)

\* The first of a set of rows in the order of `sort`.
First(S) == CHOOSE r \in S : \A q \in S : r <= q

-----------------------------------------------------------------------------
(* Calls, and their transactions. *)

\* Time passes.
Tick ==
  /\ clock < Horizon
  /\ clock' = clock + 1
  /\ UNCHANGED <<rowVars, claimVars, reapVars>>

\* A method resolves `now` and goes on to its findOneAndUpdate.
Resolve(c, method) ==
  /\ op[c] = "none" /\ ~over[c]
  /\ op'  = [op EXCEPT ![c] = method]
  /\ now' = [now EXCEPT ![c] = clock]
  /\ UNCHANGED <<clock, rowVars, held, until, over, reapVars>>

\* The method returns or throws.
Return(c) ==
  /\ op'  = [op EXCEPT ![c] = "none"]
  /\ now' = [now EXCEPT ![c] = 0]

CallLease(c)   == held[c] = None /\ Resolve(c, "lease")
CallExtend(c)  == held[c] # None /\ Resolve(c, "extend")
CallRelease(c) == held[c] # None /\ Resolve(c, "release")

\* The transaction of lease() finds a row: the first one that matches.
LeaseRow(c, d) ==
  LET free == {r \in Row : Claimable(r, now[c]) /\ BelowCap(r)}
      r    == First(free) IN
  /\ op[c] = "lease" /\ free # {}
  /\ status'         = [status EXCEPT ![r] = "processing"]
  /\ leasedBy'       = [leasedBy EXCEPT ![r] = c]
  /\ leaseExpiresAt' = [leaseExpiresAt EXCEPT ![r] = now[c] + d]
  /\ attempts'       = [attempts EXCEPT ![r] = @ + 1]
  /\ held'           = [held EXCEPT ![c] = r]
  /\ until'          = [until EXCEPT ![c] = now[c] + d]
  /\ Return(c)
  /\ UNCHANGED <<clock, over, reapVars>>

\* ... or none, and the caller may ask again.
LeaseNothing(c) ==
  /\ op[c] = "lease"
  /\ {r \in Row : Claimable(r, now[c]) /\ BelowCap(r)} = {}
  /\ Return(c)
  /\ UNCHANGED <<clock, rowVars, held, until, over, reapVars>>

\* The transaction of extend(), its condition holding.
Extend(c, d) ==
  /\ op[c] = "extend" /\ HeldBy(held[c], c, now[c])
  /\ leaseExpiresAt' = [leaseExpiresAt EXCEPT ![held[c]] = now[c] + d]
  /\ until'          = [until EXCEPT ![c] = now[c] + d]
  /\ Return(c)
  /\ UNCHANGED <<clock, status, leasedBy, attempts, held, over, reapVars>>

\* The worker has nothing to do with the row any more.
GiveUp(c) ==
  /\ over'  = [over EXCEPT ![c] = TRUE]
  /\ held'  = [held EXCEPT ![c] = None]
  /\ until' = [until EXCEPT ![c] = 0]

\* The transaction of release(), its condition holding.
Release(c, final) ==
  LET r == held[c] IN
  /\ op[c] = "release" /\ HeldBy(r, c, now[c])
  /\ status'         = [status EXCEPT ![r] = final]
  /\ leasedBy'       = [leasedBy EXCEPT ![r] = None]
  /\ leaseExpiresAt' = [leaseExpiresAt EXCEPT ![r] = None]
  /\ Return(c)
  /\ GiveUp(c)
  /\ UNCHANGED <<clock, attempts, reapVars>>

\* extend() and release() return null: the lease is lost.
LeaseLost(c) ==
  /\ op[c] \in {"extend", "release"} /\ ~HeldBy(held[c], c, now[c])
  /\ Return(c)
  /\ GiveUp(c)
  /\ UNCHANGED <<clock, rowVars, reapVars>>

\* The transaction fails (busy, a hook that throws) and nothing is written.
CallFails(c) ==
  /\ op[c] # "none"
  /\ Return(c)
  /\ UNCHANGED <<clock, rowVars, held, until, over, reapVars>>

\* The host moves a row out of the queue and leaves the lease columns alone.
Cancel(r) ==
  /\ status[r] \in {"pending", "processing"}
  /\ status' = [status EXCEPT ![r] = "cancelled"]
  /\ UNCHANGED <<clock, leasedBy, leaseExpiresAt, attempts, claimVars, reapVars>>

\* reapExhausted() resolves `now` ...
CallReap(p) ==
  /\ reapNow[p] = None
  /\ reapNow' = [reapNow EXCEPT ![p] = clock]
  /\ UNCHANGED <<clock, rowVars, claimVars, candidates, reaps>>

\* ... reads at most ReapLimit exhausted rows; with none it returns [] ...
ReadExhausted(p) ==
  LET exhausted == {r \in Row : Exhausted(r, reapNow[p])} IN
  /\ reapNow[p] # None /\ candidates[p] = {}
  /\ candidates' = [candidates EXCEPT ![p] =
                     {r \in exhausted : Cardinality({q \in exhausted : q < r}) < ReapLimit}]
  /\ reapNow' = [reapNow EXCEPT ![p] = IF exhausted = {} THEN None ELSE @]
  /\ UNCHANGED <<clock, rowVars, claimVars, reaps>>

\* The bookkeeping of the loop: the candidate was tried, and after the last
\* one the call returns.
Tried(p, r) ==
  /\ candidates' = [candidates EXCEPT ![p] = @ \ {r}]
  /\ reapNow'    = [reapNow EXCEPT ![p] = IF candidates[p] = {r} THEN None ELSE @]

\* Mutant: the move by id alone, without the exhausted condition.
MoveById(p) ==
  LET r == First(candidates[p]) IN
  /\ candidates[p] # {}
  /\ status'         = [status EXCEPT ![r] = "failed"]
  /\ leasedBy'       = [leasedBy EXCEPT ![r] = None]
  /\ leaseExpiresAt' = [leaseExpiresAt EXCEPT ![r] = None]
  /\ reaps'          = [reaps EXCEPT ![r] = @ + 1]
  /\ Tried(p, r)
  /\ UNCHANGED <<clock, attempts, claimVars>>

\* ... and moves them one by one, each with the whole condition again.
MoveExhausted(p) ==
  LET r == First(candidates[p]) IN
  /\ candidates[p] # {} /\ Exhausted(r, reapNow[p])
  /\ status'         = [status EXCEPT ![r] = "failed"]
  /\ leasedBy'       = [leasedBy EXCEPT ![r] = None]
  /\ leaseExpiresAt' = [leaseExpiresAt EXCEPT ![r] = None]
  /\ reaps'          = [reaps EXCEPT ![r] = @ + 1]
  /\ Tried(p, r)
  /\ UNCHANGED <<clock, attempts, claimVars>>

\* A candidate that changed since it was read is left alone.
SkipCandidate(p) ==
  LET r == First(candidates[p]) IN
  /\ candidates[p] # {} /\ ~Exhausted(r, reapNow[p])
  /\ Tried(p, r)
  /\ UNCHANGED <<clock, rowVars, claimVars, reaps>>

Run(c) ==
  \/ \E d \in Durations : LeaseRow(c, d) \/ Extend(c, d)
  \/ LeaseNothing(c)
  \/ \E final \in FinalStatuses : Release(c, final)
  \/ LeaseLost(c)

Reap(p) == CallReap(p) \/ ReadExhausted(p) \/ MoveExhausted(p) \/ SkipCandidate(p)

Next ==
  \/ Tick
  \/ \E c \in Claim : CallLease(c) \/ CallExtend(c) \/ CallRelease(c) \/ Run(c) \/ CallFails(c)
  \/ \E r \in Row : Cancel(r)
  \/ \E p \in Reaper : Reap(p)

Spec == Init /\ [][Next]_vars

\* The clock runs; an idle worker keeps asking for work and does not fail
\* forever; the reapers keep running.  Nothing is assumed of a worker that has
\* a row: it may be gone.
Fairness ==
  /\ WF_vars(Tick)
  /\ \A c \in Claim : /\ WF_vars(CallLease(c))
                      /\ SF_vars(\E d \in Durations : LeaseRow(c, d))
                      /\ WF_vars(Run(c))
  /\ \A p \in Reaper : WF_vars(Reap(p))

FairSpec == Spec /\ Fairness

-----------------------------------------------------------------------------
(* Properties. *)

\* The claim works on r: its last reply said it has the lease, to a time that
\* has not passed.
Holds(c, r) == held[c] = r /\ until[c] >= clock

\* The statuses no method of the plugin moves a row out of.
Terminal == Status \ ({"pending", "processing"} \cup DeadLeaseStatuses)

\* Two workers never work on one row: by the time a second claim gets it, the
\* lease the first one was told of is over, however old the `now` of the calls
\* (the doc of lease(), extend() and release()).
OneLiveHolder ==
  \A r \in Row : \A c, d \in Claim : Holds(c, r) /\ Holds(d, r) => c = d

\* A row leaves a terminal status by no call: a cancelled, failed or done row
\* is not revived by a stale lease, a late release or a slow reaper.
TerminalStays ==
  [][\A r \in Row : status[r] \in Terminal => status'[r] = status[r]]_vars

\* No two calls of reapExhausted() return the same row ("two reapers never both
\* return a row").
ReapedOnce == \A r \in Row : reaps[r] <= 1

\* A reaper moves only rows that were leased as often as the cap allows and
\* that nobody works on ("a row whose lease is still live is left alone").
ReapsAbandoned ==
  [][\A r \in Row : reaps'[r] # reaps[r] =>
       attempts[r] = MaxAttempts /\ \A c \in Claim : ~Holds(c, r)]_vars

\* A row whose holder is gone is leased again or reaped once the lease lapses.
\* (Only where the clock gets past it: leaseExpiresAt < Horizon.)
AbandonedRecovered ==
  \A r \in Row :
    status[r] = "processing" /\ leaseExpiresAt[r] < Horizon
      ~> status[r] # "processing" \/ leaseExpiresAt[r] >= Horizon
=============================================================================
