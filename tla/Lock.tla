-------------------------------- MODULE Lock --------------------------------
(***************************************************************************)
(* createSqliteLockAdapter (lock/index.ts): one lock name, several         *)
(* processes.                                                              *)
(*                                                                         *)
(* A holder is a process with its own adapter, its own holderId and one    *)
(* chain of calls: the flows of one process share a holderId, and the lock *)
(* lets them all in.  Each process reads its own clock, ahead of the       *)
(* slowest one by a constant Skew.  A call awaits the bootstrap DDL, then  *)
(* runs its statements one by one; other processes' statements and the     *)
(* clock run in between, and each statement may fail with or without       *)
(* having been applied.  A process that crashed takes no further step.     *)
(*                                                                         *)
(* The row's acquired_at is left out: it is for diagnostics only.          *)
(***************************************************************************)
EXTENDS Integers

CONSTANTS
  Holder,     \* processes, one holderId each
  Reliable,   \* the ones that keep asking for the lock and do not crash
  Skew,       \* how far each process's clock is ahead of the slowest one
  Drift,      \* a bound on the difference of two processes' clocks
  Lease,      \* the lease each process asks for: leaseMs, or defaultLeaseMs
  LastTime,   \* bound: the last value of the clock
  Nobody      \* no row, no belief

ASSUME LockAssumption ==
  /\ Reliable \subseteq Holder /\ Nobody \notin Holder \cup Nat
  /\ Skew \in [Holder -> Nat]
  /\ Drift \in Nat /\ \A g, h \in Holder : Skew[g] - Skew[h] <= Drift
  /\ Lease \in [Holder -> Nat \ {0}]
  /\ LastTime \in Nat

VARIABLES
  time,       \* the time of the slowest process
  table,      \* the lock table exists
  holder,     \* the row's holder (Nobody: there is no row)
  expires,    \* the row's expires_at
  boot,       \* per process, its `bootstrapped` promise
  at,         \* where its call in flight is
  asked,      \* ... and which call that is
  reading,    \* the clock reading of its tryAcquire
  told        \* the expires_at it saw when tryAcquire last said true

lockRow  == <<table, holder, expires>>
lockVars == <<time, lockRow, boot, at, asked, reading, told>>

\* Date.now() in process h.
Local(h) == time + Skew[h]

LockTypeOK ==
  /\ time    \in 0 .. LastTime
  /\ table   \in BOOLEAN
  /\ holder  \in Holder \cup {Nobody}
  /\ expires \in Nat
  /\ boot    \in [Holder -> {"none", "running", "done"}]
  /\ at      \in [Holder -> {"idle", "boot", "upsert", "select", "delete"}]
  /\ asked   \in [Holder -> {"tryAcquire", "release"}]
  /\ reading \in [Holder -> Nat]
  /\ told    \in [Holder -> Nat \cup {Nobody}]

\* The table may be there already: another run of the program created it.
LockInit ==
  /\ time    = 0
  /\ table   \in BOOLEAN
  /\ holder  = Nobody
  /\ expires = 0
  /\ boot    = [h \in Holder |-> "none"]
  /\ at      = [h \in Holder |-> "idle"]
  /\ asked   = [h \in Holder |-> "tryAcquire"]
  /\ reading = [h \in Holder |-> 0]
  /\ told    = [h \in Holder |-> Nobody]

-----------------------------------------------------------------------------

\* Time passes.
TimePasses ==
  /\ time < LastTime
  /\ time' = time + 1
  /\ UNCHANGED <<lockRow, boot, at, asked, reading, told>>

\* A call reaches ensureBootstrapped(): the first one starts the DDL, the
\* later ones share its promise.
Enter(h, call) ==
  /\ at[h] = "idle"
  /\ at'   = [at EXCEPT ![h] = "boot"]
  /\ asked'   = [asked EXCEPT ![h] = call]
  /\ boot' = [boot EXCEPT ![h] = IF @ = "none" THEN "running" ELSE @]
  /\ UNCHANGED <<time, lockRow, reading>>

CallTryAcquire(h) == Enter(h, "tryAcquire") /\ UNCHANGED told

\* The owner stops its work before it releases.
CallLockRelease(h) ==
  /\ told[h] # Nobody
  /\ Enter(h, "release")
  /\ told' = [told EXCEPT ![h] = Nobody]

\* CREATE TABLE IF NOT EXISTS succeeds ...
BootstrapSucceeds(h) ==
  /\ boot[h] = "running"
  /\ boot'  = [boot EXCEPT ![h] = "done"]
  /\ table' = TRUE
  /\ UNCHANGED <<time, holder, expires, at, asked, reading, told>>

\* Mutant: the rejected promise is kept and every later call awaits it.
RejectionKept(h) ==
  /\ boot[h] = "running"
  /\ boot' = [boot EXCEPT ![h] = "failed"]
  /\ at'   = [at EXCEPT ![h] = "idle"]
  /\ UNCHANGED <<time, lockRow, asked, reading, told>>

\* ... or fails: the promise is reset, so that the next call tries again, and
\* the call that awaits it throws.
BootstrapFails(h) ==
  /\ boot[h] = "running"
  /\ boot' = [boot EXCEPT ![h] = "none"]
  /\ at'   = [at EXCEPT ![h] = "idle"]
  /\ UNCHANGED <<time, lockRow, asked, reading, told>>

\* Mutant: the DDL is started and not awaited.
DdlNotAwaited(h) ==
  /\ at[h] = "boot"
  /\ at'  = [at EXCEPT ![h] = IF asked[h] = "release" THEN "delete" ELSE "upsert"]
  /\ reading' = [reading EXCEPT ![h] = Local(h)]
  /\ UNCHANGED <<time, lockRow, boot, asked, told>>

\* The call goes on to its first statement; tryAcquire reads the clock first.
Bootstrapped(h) ==
  /\ at[h] = "boot" /\ boot[h] = "done"
  /\ at'  = [at EXCEPT ![h] = IF asked[h] = "release" THEN "delete" ELSE "upsert"]
  /\ reading' = [reading EXCEPT ![h] = Local(h)]
  /\ UNCHANGED <<time, lockRow, boot, asked, told>>

\* The INSERT finds no row, or the WHERE of the DO UPDATE holds.
Takes(h) == holder = Nobody \/ expires < reading[h] \/ holder = h

\* The INSERT ... ON CONFLICT DO UPDATE of tryAcquire is applied ...
Upserted(h) ==
  /\ at[h] = "upsert" /\ Takes(h)
  /\ holder'  = h
  /\ expires' = reading[h] + Lease[h]
  /\ UNCHANGED <<time, table, boot, asked, reading, told>>

Upsert(h) == Upserted(h) /\ at' = [at EXCEPT ![h] = "select"]

\* ... or changes nothing: the row is another's and has not expired.
UpsertIgnored(h) ==
  /\ at[h] = "upsert" /\ ~Takes(h)
  /\ at' = [at EXCEPT ![h] = "select"]
  /\ UNCHANGED <<time, lockRow, boot, asked, reading, told>>

\* What the read-back SELECT must show for tryAcquire to answer true.
ReadsBack(h) == holder = h /\ expires > Local(h)

\* tryAcquire answers.
Answer(h) ==
  /\ at[h] = "select"
  /\ at'    = [at EXCEPT ![h] = "idle"]
  /\ told' = [told EXCEPT ![h] = IF ReadsBack(h) THEN expires ELSE Nobody]
  /\ UNCHANGED <<time, lockRow, boot, asked, reading>>

\* Mutant: the DELETE without its holder test.
DeletedByName(h) ==
  /\ at[h] = "delete"
  /\ holder' = Nobody
  /\ UNCHANGED <<time, table, expires, boot, asked, reading, told>>

\* The DELETE of release() is applied: only our own row goes.
Deleted(h) ==
  /\ at[h] = "delete"
  /\ holder' = IF holder = h THEN Nobody ELSE holder
  /\ UNCHANGED <<time, table, expires, boot, asked, reading, told>>

Delete(h) == Deleted(h) /\ at' = [at EXCEPT ![h] = "idle"]

\* A statement fails and the call throws; the statement may have been applied.
Fail(h) ==
  /\ \/ /\ at[h] \in {"upsert", "select", "delete"}
        /\ UNCHANGED <<time, lockRow, boot, asked, reading, told>>
     \/ Upserted(h)
     \/ Deleted(h)
  /\ at' = [at EXCEPT ![h] = "idle"]

\* What the process and its driver do once a call is made.
Continue(h) ==
  \/ BootstrapSucceeds(h) \/ BootstrapFails(h) \/ Bootstrapped(h)
  \/ Upsert(h) \/ UpsertIgnored(h) \/ Answer(h) \/ Delete(h) \/ Fail(h)

LockNext ==
  \/ TimePasses
  \/ \E h \in Holder : CallTryAcquire(h) \/ CallLockRelease(h) \/ Continue(h)

LockSpec == LockInit /\ [][LockNext]_lockVars

\* The clock runs, and a reliable process asks again whenever its last call is
\* over; neither the DDL nor the upsert fails it every time.
LockFairness ==
  /\ WF_lockVars(TimePasses)
  /\ \A h \in Reliable : /\ WF_lockVars(CallTryAcquire(h)) /\ WF_lockVars(Continue(h))
                         /\ SF_lockVars(BootstrapSucceeds(h))
                         /\ SF_lockVars(Bootstrapped(h))
                         /\ SF_lockVars(Upsert(h))

FairLockSpec == LockSpec /\ LockFairness

-----------------------------------------------------------------------------
(* Properties. *)

\* The process works under the lock: tryAcquire said true, and its own clock is
\* not yet within Drift of the expires_at it saw then.  The margin is what the
\* doc's clock-skew section asks of the hosts.
Works(h) == told[h] # Nobody /\ Local(h) + Drift <= told[h]

\* No two processes work under the lock at once: an answer that is old when it
\* arrives, a statement that ran before its call threw, or a late release never
\* lets a second one in while the first one's lease runs.
MutualExclusion == \A g, h \in Holder : Works(g) /\ Works(h) => g = h

\* No statement is sent before the table exists, whichever process creates it
\* and however often that fails.
TableReady == \A h \in Holder : at[h] \in {"upsert", "select", "delete"} => table

\* The lock of a process that is gone is taken by one that keeps asking, once
\* the lease is over on the asker's clock (before the bound on the clock).
OutlivedBy(g) == expires < LastTime + Skew[g]

LapsedLockTaken ==
  \A h \in Holder \ Reliable, g \in Reliable :
    holder = h /\ OutlivedBy(g) ~> holder # h \/ ~OutlivedBy(g)
=============================================================================
