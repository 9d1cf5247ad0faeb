----------------------------- MODULE HoldProofs -----------------------------
(***************************************************************************)
(* Theorems about the two time-limited holds: the lease of a queue's row   *)
(* (Lease), for any number of rows, claims and reapers, any cap and any    *)
(* horizon; and the lock (Lock), for any number of processes, any leases   *)
(* and any clock offsets within Drift.                                     *)
(***************************************************************************)
EXTENDS Lease, Lock, NaturalsInduction, WellFoundedInduction, TLAPS

-----------------------------------------------------------------------------
(* The lease. *)

\* The row lease() and reapExhausted() pick is one of those that match.
LEMMA FirstIsMember ==
  ASSUME NEW S \in SUBSET Row, S # {}
  PROVE  First(S) \in S
<1>1. S \subseteq Nat
  BY LeaseAssumption
<1>2. PICK r \in S : \A q \in S : ~ (<<q, r>> \in OpToRel(<, Nat))
  BY <1>1, NatLessThanWellFounded, WFMin
<1>3. \A q \in S : ~ (q < r)
  BY <1>1, <1>2, Zenon DEF OpToRel
<1>4. \A q \in S : r <= q
  <2> SUFFICES ASSUME NEW q \in S PROVE r <= q
    OBVIOUS
  <2> QED
    BY <1>1, <1>3
<1> QED
  BY <1>4 DEF First

\* One step keeps every column and every variable in its type.
LEMMA TypeStep == TypeOK /\ [Next]_vars => TypeOK'
<1> SUFFICES ASSUME TypeOK, [Next]_vars PROVE TypeOK'
  OBVIOUS
<1> USE LeaseAssumption DEF TypeOK
<1>1. CASE Tick
  BY <1>1 DEF Tick, rowVars, claimVars, reapVars
<1>2. ASSUME NEW c \in Claim, CallLease(c) \/ CallExtend(c) \/ CallRelease(c)
      PROVE  TypeOK'
  <2>1. CASE CallLease(c)
    BY <2>1 DEF CallLease, Resolve, rowVars, reapVars
  <2>2. CASE CallExtend(c)
    BY <2>2 DEF CallExtend, Resolve, rowVars, reapVars
  <2>3. CASE CallRelease(c)
    BY <2>3 DEF CallRelease, Resolve, rowVars, reapVars
  <2> QED
    BY <1>2, <2>1, <2>2, <2>3
<1>3. ASSUME NEW c \in Claim, NEW d \in Durations, LeaseRow(c, d) PROVE TypeOK'
  <2> DEFINE free == {r \in Row : Claimable(r, now[c]) /\ BelowCap(r)}
             r    == First(free)
  <2>1. r \in free
    BY <1>3, FirstIsMember DEF LeaseRow
  <2>2. r \in Row /\ attempts[r] + 1 \in 0 .. MaxAttempts /\ now[c] + d \in Nat
    <3>1. r \in Row /\ attempts[r] < MaxAttempts
      BY <2>1, Zenon DEF BelowCap
    <3>2. attempts[r] \in 0 .. MaxAttempts /\ now[c] \in 0 .. Horizon /\ d \in Nat
      BY <3>1
    <3> QED
      BY <3>1, <3>2
  <2>3. /\ status'         = [status EXCEPT ![r] = "processing"]
        /\ leasedBy'       = [leasedBy EXCEPT ![r] = c]
        /\ leaseExpiresAt' = [leaseExpiresAt EXCEPT ![r] = now[c] + d]
        /\ attempts'       = [attempts EXCEPT ![r] = attempts[r] + 1]
        /\ held'           = [held EXCEPT ![c] = r]
        /\ until'          = [until EXCEPT ![c] = now[c] + d]
        /\ op'  = [op EXCEPT ![c] = "none"] /\ now' = [now EXCEPT ![c] = 0]
        /\ UNCHANGED <<clock, over, reapVars>>
    BY <1>3 DEF LeaseRow, Return
  <2> HIDE DEF r
  <2> QED
    BY <2>2, <2>3 DEF reapVars
<1>4. ASSUME NEW c \in Claim, NEW d \in Durations, Extend(c, d) PROVE TypeOK'
  <2>1. now[c] + d \in Nat
    OBVIOUS
  <2>2. /\ leaseExpiresAt' = [leaseExpiresAt EXCEPT ![held[c]] = now[c] + d]
        /\ until'          = [until EXCEPT ![c] = now[c] + d]
        /\ op'  = [op EXCEPT ![c] = "none"] /\ now' = [now EXCEPT ![c] = 0]
        /\ UNCHANGED <<clock, status, leasedBy, attempts, held, over, reapVars>>
    BY <1>4 DEF Extend, Return
  <2>3. leaseExpiresAt' \in [Row -> Nat \cup {None}]
    BY <2>1, <2>2
  <2> QED
    BY <2>1, <2>2, <2>3 DEF reapVars
<1>5. ASSUME NEW c \in Claim, LeaseNothing(c) \/ LeaseLost(c) \/ CallFails(c) PROVE TypeOK'
  <2>1. CASE LeaseNothing(c)
    BY <2>1 DEF LeaseNothing, Return, rowVars, reapVars
  <2>2. CASE LeaseLost(c)
    BY <2>2 DEF LeaseLost, Return, GiveUp, rowVars, reapVars
  <2>3. CASE CallFails(c)
    BY <2>3 DEF CallFails, Return, rowVars, reapVars
  <2> QED
    BY <1>5, <2>1, <2>2, <2>3
<1>6. ASSUME NEW c \in Claim, NEW final \in FinalStatuses, Release(c, final) PROVE TypeOK'
  <2>1. final \in Status
    OBVIOUS
  <2>2. /\ \E r : /\ status' = [status EXCEPT ![r] = final]
                  /\ leasedBy' = [leasedBy EXCEPT ![r] = None]
                  /\ leaseExpiresAt' = [leaseExpiresAt EXCEPT ![r] = None]
        /\ op'  = [op EXCEPT ![c] = "none"] /\ now' = [now EXCEPT ![c] = 0]
        /\ over'  = [over EXCEPT ![c] = TRUE] /\ held'  = [held EXCEPT ![c] = None]
        /\ until' = [until EXCEPT ![c] = 0]
        /\ UNCHANGED <<clock, attempts, reapVars>>
    BY <1>6 DEF Release, Return, GiveUp
  <2>3. status' \in [Row -> Status]
    BY <2>1, <2>2
  <2>4. leasedBy' \in [Row -> Claim \cup {None}]
    BY <2>2
  <2>5. leaseExpiresAt' \in [Row -> Nat \cup {None}]
    BY <2>2
  <2> QED
    BY <2>2, <2>3, <2>4, <2>5 DEF reapVars
<1>7. ASSUME NEW r \in Row, Cancel(r) PROVE TypeOK'
  BY <1>7 DEF Cancel, claimVars, reapVars
<1>8. ASSUME NEW p \in Reaper, Reap(p) PROVE TypeOK'
  <2>1. CASE CallReap(p)
    BY <2>1 DEF CallReap, rowVars, claimVars
  <2>2. CASE ReadExhausted(p)
    BY <2>2 DEF ReadExhausted, rowVars, claimVars
  <2>3. CASE MoveExhausted(p)
    <3> DEFINE r == First(candidates[p])
    <3>0. r \in Row
      BY <2>3, FirstIsMember DEF MoveExhausted
    <3>1. /\ status' = [status EXCEPT ![r] = "failed"]
          /\ leasedBy' = [leasedBy EXCEPT ![r] = None]
          /\ leaseExpiresAt' = [leaseExpiresAt EXCEPT ![r] = None]
          /\ reaps' = [reaps EXCEPT ![r] = reaps[r] + 1]
          /\ Tried(p, r)
          /\ UNCHANGED <<clock, attempts, claimVars>>
      BY <2>3 DEF MoveExhausted
    <3> HIDE DEF r
    <3>2. status' \in [Row -> Status]
      BY <3>1
    <3>3. leasedBy' \in [Row -> Claim \cup {None}]
      BY <3>1
    <3>4. leaseExpiresAt' \in [Row -> Nat \cup {None}]
      BY <3>1
    <3>5. reaps' \in [Row -> Nat]
      BY <3>0, <3>1
    <3>6. candidates' \in [Reaper -> SUBSET Row] /\ reapNow' \in [Reaper -> (0 .. Horizon) \cup {None}]
      BY <3>1 DEF Tried
    <3> QED
      BY <3>1, <3>2, <3>3, <3>4, <3>5, <3>6 DEF claimVars
  <2>4. CASE SkipCandidate(p)
    BY <2>4 DEF SkipCandidate, Tried, rowVars, claimVars
  <2> QED
    BY <1>8, <2>1, <2>2, <2>3, <2>4 DEF Reap
<1>9. CASE UNCHANGED vars
  BY <1>9 DEF vars, rowVars, claimVars, reapVars
<1> QED
  BY <1>1, <1>2, <1>3, <1>4, <1>5, <1>6, <1>7, <1>8, <1>9 DEF Next, Run

\* The columns of the table and the state of the workers keep their types; in
\* particular no row is ever leased more often than maxAttempts allows.
THEOREM TypeCorrect == Spec => []TypeOK
<1>1. Init => TypeOK
  BY LeaseAssumption DEF Init, TypeOK
<1> QED
  BY <1>1, TypeStep, PTL DEF Spec

-----------------------------------------------------------------------------
(* Why two workers never work on one row, and no reaper takes one away.  A   *)
(* reply that shows a lease to `until` is exactly what the row says, as long *)
(* as `until` has not passed: nobody writes the row's lease but its holder   *)
(* before then, because a clock reading is never ahead of the clock and a    *)
(* dead lease is one that lapsed before the reading.                         *)

\* The clock readings of the calls in flight are not in the future.
ReadingInv ==
  /\ \A c \in Claim : now[c] <= clock
  /\ \A p \in Reaper : reapNow[p] # None => reapNow[p] <= clock
  /\ \A p \in Reaper : candidates[p] # {} => reapNow[p] # None

\* A live reply is what the row says.
ReplyInv ==
  \A c \in Claim, r \in Row : Holds(c, r) =>
    leasedBy[r] = c /\ leaseExpiresAt[r] = until[c] /\ status[r] # "pending"

\* A reaped row was reaped once, and is still where the reaper put it.
ReapedInv == \A r \in Row : reaps[r] <= 1 /\ (reaps[r] # 0 => status[r] = "failed")

LeaseInv == TypeOK /\ ReadingInv /\ ReplyInv /\ ReapedInv

\* Nobody can claim, or reap, a row somebody holds.
LEMMA HeldNotClaimable ==
  ASSUME LeaseInv, NEW c \in Claim, NEW r \in Row, NEW t \in Nat, t <= clock, Holds(c, r)
  PROVE  ~Claimable(r, t)
<1>1. /\ leaseExpiresAt[r] = until[c] /\ status[r] # "pending" /\ until[c] >= clock
      /\ until[c] \in Nat /\ clock \in Nat
  BY DEF LeaseInv, ReplyInv, Holds, TypeOK
<1>2. ~ (until[c] < t)
  BY <1>1
<1> QED
  BY <1>1, <1>2 DEF Claimable, Lapsed

LEMMA LeaseRowKeepsInv ==
  ASSUME LeaseInv, TypeOK', NEW c \in Claim, NEW d \in Durations, LeaseRow(c, d)
  PROVE  LeaseInv'
<1> USE LeaseAssumption
<1> DEFINE free == {q \in Row : Claimable(q, now[c]) /\ BelowCap(q)}
           r    == First(free)
<1>1. r \in free
  BY FirstIsMember DEF LeaseRow
<1>2. r \in Row /\ Claimable(r, now[c])
  BY <1>1
<1>3. /\ status'         = [status EXCEPT ![r] = "processing"]
      /\ leasedBy'       = [leasedBy EXCEPT ![r] = c]
      /\ leaseExpiresAt' = [leaseExpiresAt EXCEPT ![r] = now[c] + d]
      /\ held'           = [held EXCEPT ![c] = r]
      /\ until'          = [until EXCEPT ![c] = now[c] + d]
      /\ now' = [now EXCEPT ![c] = 0]
      /\ UNCHANGED <<clock, reapVars>>
  BY DEF LeaseRow, Return
<1> HIDE DEF r, free
<1>4. now[c] \in Nat /\ now[c] <= clock /\ clock \in Nat
  BY DEF LeaseInv, TypeOK, ReadingInv
<1>5. \A e \in Claim : ~Holds(e, r)
  BY <1>2, <1>4, HeldNotClaimable
<1>6. ReadingInv'
  BY <1>3, <1>4 DEF LeaseInv, TypeOK, ReadingInv, reapVars
<1>7. ReplyInv'
  <2> SUFFICES ASSUME NEW e \in Claim, NEW q \in Row, Holds(e, q)'
               PROVE  leasedBy'[q] = e /\ leaseExpiresAt'[q] = until'[e] /\ status'[q] # "pending"
    BY DEF ReplyInv
  <2>1. CASE e = c
    <3>1. q = r
      BY <1>3, <2>1 DEF Holds, LeaseInv, TypeOK
    <3> QED
      BY <1>2, <1>3, <2>1, <3>1 DEF LeaseInv, TypeOK
  <2>2. CASE e # c
    <3>1. Holds(e, q)
      BY <1>3, <2>2 DEF Holds, LeaseInv, TypeOK
    <3>2. q # r
      BY <1>5, <3>1
    <3> QED
      BY <1>3, <2>2, <3>1, <3>2 DEF LeaseInv, TypeOK, ReplyInv
  <2> QED
    BY <2>1, <2>2
<1>8. ReapedInv'
  <2>1. status[r] # "failed"
    BY <1>2 DEF Claimable
  <2> QED
    BY <1>3, <2>1 DEF LeaseInv, ReapedInv, TypeOK, reapVars
<1> QED
  BY <1>6, <1>7, <1>8 DEF LeaseInv

LEMMA ExtendKeepsInv ==
  ASSUME LeaseInv, TypeOK', NEW c \in Claim, NEW d \in Durations, Extend(c, d)
  PROVE  LeaseInv'
<1> USE LeaseAssumption
<1> DEFINE r == held[c]
<1>1. /\ leaseExpiresAt' = [leaseExpiresAt EXCEPT ![r] = now[c] + d]
      /\ until'          = [until EXCEPT ![c] = now[c] + d]
      /\ now' = [now EXCEPT ![c] = 0]
      /\ status[r] = "processing" /\ leasedBy[r] = c
      /\ UNCHANGED <<clock, status, leasedBy, held, reapVars>>
  BY DEF Extend, Return, HeldBy
<1>2. ReadingInv'
  BY <1>1 DEF LeaseInv, TypeOK, ReadingInv, reapVars
<1>3. ReplyInv'
  <2> SUFFICES ASSUME NEW e \in Claim, NEW q \in Row, Holds(e, q)'
               PROVE  leasedBy'[q] = e /\ leaseExpiresAt'[q] = until'[e] /\ status'[q] # "pending"
    BY DEF ReplyInv
  <2>1. CASE e = c
    BY <1>1, <2>1 DEF Holds, LeaseInv, TypeOK
  <2>2. CASE e # c
    <3>1. Holds(e, q)
      BY <1>1, <2>2 DEF Holds, LeaseInv, TypeOK
    <3>2. q # r
      BY <1>1, <2>2, <3>1 DEF LeaseInv, ReplyInv
    <3> QED
      BY <1>1, <2>2, <3>1, <3>2 DEF LeaseInv, TypeOK, ReplyInv
  <2> QED
    BY <2>1, <2>2
<1>4. ReapedInv'
  BY <1>1 DEF LeaseInv, ReapedInv, reapVars
<1> QED
  BY <1>2, <1>3, <1>4 DEF LeaseInv

LEMMA ReleaseKeepsInv ==
  ASSUME LeaseInv, TypeOK', NEW c \in Claim, NEW final \in FinalStatuses, Release(c, final)
  PROVE  LeaseInv'
<1> USE LeaseAssumption
<1> DEFINE r == held[c]
<1>1. /\ status'         = [status EXCEPT ![r] = final]
      /\ leasedBy'       = [leasedBy EXCEPT ![r] = None]
      /\ leaseExpiresAt' = [leaseExpiresAt EXCEPT ![r] = None]
      /\ now' = [now EXCEPT ![c] = 0]
      /\ held'  = [held EXCEPT ![c] = None] /\ until' = [until EXCEPT ![c] = 0]
      /\ status[r] = "processing" /\ leasedBy[r] = c
      /\ UNCHANGED <<clock, reapVars>>
  BY DEF Release, Return, GiveUp, HeldBy
<1>2. ReadingInv'
  BY <1>1 DEF LeaseInv, TypeOK, ReadingInv, reapVars
<1>3. ReplyInv'
  <2> SUFFICES ASSUME NEW e \in Claim, NEW q \in Row, Holds(e, q)'
               PROVE  leasedBy'[q] = e /\ leaseExpiresAt'[q] = until'[e] /\ status'[q] # "pending"
    BY DEF ReplyInv
  <2>1. e # c
    BY <1>1 DEF Holds, LeaseInv, TypeOK
  <2>2. Holds(e, q)
    BY <1>1, <2>1 DEF Holds, LeaseInv, TypeOK
  <2>3. q # r
    BY <1>1, <2>1, <2>2 DEF LeaseInv, ReplyInv
  <2> QED
    BY <1>1, <2>1, <2>2, <2>3 DEF LeaseInv, TypeOK, ReplyInv
<1>4. ReapedInv'
  BY <1>1 DEF LeaseInv, ReapedInv, TypeOK, reapVars
<1> QED
  BY <1>2, <1>3, <1>4 DEF LeaseInv

LEMMA MoveKeepsInv ==
  ASSUME LeaseInv, TypeOK', NEW p \in Reaper, MoveExhausted(p)
  PROVE  /\ LeaseInv'
         /\ \E r \in Row : /\ \A q \in Row \ {r} : reaps'[q] = reaps[q]
                           /\ attempts[r] = MaxAttempts
                           /\ \A c \in Claim : ~Holds(c, r)
<1> USE LeaseAssumption
<1> DEFINE r == First(candidates[p])
<1>1. r \in Row /\ r \in candidates[p] /\ Exhausted(r, reapNow[p])
  BY FirstIsMember DEF MoveExhausted, LeaseInv, TypeOK
<1>2. /\ status'         = [status EXCEPT ![r] = "failed"]
      /\ leasedBy'       = [leasedBy EXCEPT ![r] = None]
      /\ leaseExpiresAt' = [leaseExpiresAt EXCEPT ![r] = None]
      /\ reaps'          = [reaps EXCEPT ![r] = reaps[r] + 1]
      /\ Tried(p, r)
      /\ UNCHANGED <<clock, attempts, claimVars>>
  BY DEF MoveExhausted
<1> HIDE DEF r
<1>3. reapNow[p] \in Nat /\ reapNow[p] <= clock /\ clock \in Nat
  BY <1>1 DEF LeaseInv, TypeOK, ReadingInv
<1>4. \A c \in Claim : ~Holds(c, r)
  BY <1>1, <1>3, HeldNotClaimable DEF Exhausted
<1>5. ReadingInv'
  BY <1>1, <1>2, <1>3 DEF LeaseInv, TypeOK, ReadingInv, Tried, claimVars
<1>6. ReplyInv'
  BY <1>1, <1>2, <1>4 DEF LeaseInv, TypeOK, ReplyInv, Holds, claimVars
<1>7. ReapedInv'
  <2>1. status[r] # "failed"
    BY <1>1 DEF Exhausted, Claimable
  <2>2. reaps[r] = 0
    BY <1>1, <2>1 DEF LeaseInv, ReapedInv
  <2>3. reaps'[r] = 1 /\ status'[r] = "failed"
    BY <1>1, <1>2, <2>2 DEF LeaseInv, TypeOK
  <2> QED
    BY <1>1, <1>2, <2>3 DEF LeaseInv, ReapedInv, TypeOK
<1>8. attempts[r] = MaxAttempts
  <2>1. attempts[r] >= MaxAttempts /\ attempts[r] \in 0 .. MaxAttempts
    BY <1>1 DEF Exhausted, LeaseInv, TypeOK
  <2> QED
    BY <2>1
<1> QED
  BY <1>1, <1>2, <1>4, <1>5, <1>6, <1>7, <1>8 DEF LeaseInv, TypeOK

\* The steps that write no row and tell no worker anything new.
LEMMA QuietKeepsInv ==
  ASSUME LeaseInv, TypeOK', UNCHANGED <<leasedBy, leaseExpiresAt, reaps>>,
         clock <= clock', ReadingInv',
         \A c \in Claim : (held'[c] = held[c] /\ until'[c] = until[c]) \/ held'[c] = None,
         \A r \in Row : status'[r] = status[r] \/ (status'[r] = "cancelled" /\ status[r] # "failed")
  PROVE  LeaseInv'
<1> USE LeaseAssumption
<1>1. ReplyInv'
  <2> SUFFICES ASSUME NEW c \in Claim, NEW r \in Row, Holds(c, r)'
               PROVE  leasedBy'[r] = c /\ leaseExpiresAt'[r] = until'[c] /\ status'[r] # "pending"
    BY DEF ReplyInv
  <2>1. held'[c] = held[c] /\ until'[c] = until[c]
    BY DEF Holds
  <2>2. Holds(c, r)
    BY <2>1 DEF Holds, LeaseInv, TypeOK
  <2> QED
    BY <2>1, <2>2 DEF LeaseInv, ReplyInv
<1>2. ReapedInv'
  BY DEF LeaseInv, ReapedInv
<1> QED
  BY <1>1, <1>2 DEF LeaseInv

LEMMA LeaseStep == LeaseInv /\ [Next]_vars => LeaseInv'
<1> SUFFICES ASSUME LeaseInv, [Next]_vars PROVE LeaseInv'
  OBVIOUS
<1>0. TypeOK /\ TypeOK' /\ ReadingInv
  BY TypeStep DEF LeaseInv
<1> USE LeaseAssumption
<1>1. CASE Tick
  <2>1. /\ clock' = clock + 1 /\ UNCHANGED <<rowVars, claimVars, reapVars>>
    BY <1>1 DEF Tick
  <2>2. ReadingInv'
    BY <1>0, <2>1 DEF TypeOK, ReadingInv, claimVars, reapVars
  <2> QED
    BY <1>0, <2>1, <2>2, QuietKeepsInv DEF TypeOK, rowVars, claimVars, reapVars
<1>2. ASSUME NEW c \in Claim,
             \/ CallLease(c) \/ CallExtend(c) \/ CallRelease(c)
             \/ LeaseNothing(c) \/ LeaseLost(c) \/ CallFails(c)
      PROVE  LeaseInv'
  <2>1. /\ UNCHANGED <<clock, rowVars, reapVars>>
        /\ now' = [now EXCEPT ![c] = clock] \/ now' = [now EXCEPT ![c] = 0]
        /\ \/ UNCHANGED <<held, until>>
           \/ held' = [held EXCEPT ![c] = None] /\ until' = [until EXCEPT ![c] = 0]
    BY <1>2 DEF CallLease, CallExtend, CallRelease, Resolve, LeaseNothing, LeaseLost,
                CallFails, Return, GiveUp
  <2>2. ReadingInv'
    BY <1>0, <2>1 DEF TypeOK, ReadingInv, reapVars
  <2>3. \A e \in Claim : (held'[e] = held[e] /\ until'[e] = until[e]) \/ held'[e] = None
    BY <1>0, <2>1 DEF TypeOK
  <2> QED
    BY <1>0, <2>1, <2>2, <2>3, QuietKeepsInv DEF TypeOK, rowVars, reapVars
<1>3. ASSUME NEW r \in Row, Cancel(r) PROVE LeaseInv'
  <2>1. /\ status' = [status EXCEPT ![r] = "cancelled"] /\ status[r] \in {"pending", "processing"}
        /\ UNCHANGED <<clock, leasedBy, leaseExpiresAt, claimVars, reapVars>>
    BY <1>3 DEF Cancel
  <2>2. ReadingInv'
    BY <1>0, <2>1 DEF ReadingInv, claimVars, reapVars
  <2> QED
    BY <1>0, <2>1, <2>2, QuietKeepsInv DEF TypeOK, claimVars, reapVars
<1>4. ASSUME NEW p \in Reaper, CallReap(p) \/ ReadExhausted(p) \/ SkipCandidate(p) PROVE LeaseInv'
  <2>1. UNCHANGED <<clock, rowVars, claimVars, reaps>>
    BY <1>4 DEF CallReap, ReadExhausted, SkipCandidate
  <2>2. ReadingInv'
    <3>1. CASE CallReap(p)
      BY <1>0, <3>1 DEF CallReap, TypeOK, ReadingInv, claimVars
    <3>2. CASE ReadExhausted(p)
      <4>1. \A q \in Reaper \ {p} : reapNow'[q] = reapNow[q] /\ candidates'[q] = candidates[q]
        BY <1>0, <3>2 DEF ReadExhausted, TypeOK
      <4>2. reapNow'[p] # None => reapNow'[p] = reapNow[p]
        BY <1>0, <3>2 DEF ReadExhausted, TypeOK
      <4>3. candidates'[p] # {} => reapNow'[p] # None
        BY <1>0, <3>2 DEF ReadExhausted, TypeOK
      <4> QED
        BY <1>0, <2>1, <4>1, <4>2, <4>3 DEF ReadingInv, claimVars
    <3>3. CASE SkipCandidate(p)
      <4> DEFINE r == First(candidates[p])
      <4>1. Tried(p, r)
        BY <3>3 DEF SkipCandidate
      <4>2. candidates[p] # {}
        BY <3>3 DEF SkipCandidate
      <4> HIDE DEF r
      <4> QED
        BY <1>0, <2>1, <4>1, <4>2 DEF Tried, TypeOK, ReadingInv, claimVars
    <3> QED
      BY <1>4, <3>1, <3>2, <3>3
  <2> QED
    BY <1>0, <2>1, <2>2, QuietKeepsInv DEF TypeOK, rowVars, claimVars
<1>5. CASE UNCHANGED vars
  <2>1. ReadingInv'
    BY <1>0, <1>5 DEF ReadingInv, vars, claimVars, reapVars
  <2> QED
    BY <1>0, <1>5, <2>1, QuietKeepsInv DEF TypeOK, vars, rowVars, claimVars, reapVars
<1> QED
  BY <1>0, <1>1, <1>2, <1>3, <1>4, <1>5, LeaseRowKeepsInv, ExtendKeepsInv,
     ReleaseKeepsInv, MoveKeepsInv DEF Next, Run, Reap

LEMMA LeaseInvariant == Spec => []LeaseInv
<1>1. Init => LeaseInv
  BY LeaseAssumption DEF Init, LeaseInv, TypeOK, ReadingInv, ReplyInv, ReapedInv, Holds
<1> QED
  BY <1>1, LeaseStep, PTL DEF Spec

\* Two claims never hold a row at the same time: whatever the calls, their
\* delays and the reapers do, a second worker gets a row only after the time
\* the first one was told of.
THEOREM LeaseExcludes == Spec => []OneLiveHolder
<1>1. LeaseInv => OneLiveHolder
  BY DEF LeaseInv, ReplyInv, OneLiveHolder
<1> QED
  BY <1>1, LeaseInvariant, PTL

\* A row is returned by at most one call of reapExhausted().
THEOREM ReapedAtMostOnce == Spec => []ReapedOnce
<1>1. LeaseInv => ReapedOnce
  BY DEF LeaseInv, ReapedInv, ReapedOnce
<1> QED
  BY <1>1, LeaseInvariant, PTL

\* A reaper moves a row only when it was leased maxAttempts times and no claim
\* holds it at that moment.
THEOREM ReapersRespectHolders == Spec => ReapsAbandoned
<1> DEFINE Abandoned ==
      \A r \in Row : reaps'[r] # reaps[r] =>
        attempts[r] = MaxAttempts /\ \A c \in Claim : ~Holds(c, r)
<1>1. LeaseInv /\ [Next]_vars => [Abandoned]_vars
  <2> SUFFICES ASSUME LeaseInv, [Next]_vars PROVE Abandoned
    OBVIOUS
  <2>0. TypeOK'
    BY TypeStep DEF LeaseInv
  <2>1. CASE \E p \in Reaper : MoveExhausted(p)
    BY <2>0, <2>1, MoveKeepsInv
  <2>2. CASE UNCHANGED reaps
    BY <2>2
  <2> QED
    BY <2>1, <2>2 DEF Next, Run, Reap, Tick, CallLease, CallExtend, CallRelease, Resolve,
       LeaseRow, LeaseNothing, Extend, Release, LeaseLost, CallFails, Cancel,
       CallReap, ReadExhausted, SkipCandidate, vars, reapVars
<1> QED
  BY <1>1, LeaseInvariant, PTL DEF Spec, ReapsAbandoned

\* No call moves a row out of a terminal status.
THEOREM TerminalForGood == Spec => TerminalStays
<1> USE LeaseAssumption
<1> DEFINE Stays == \A r \in Row : status[r] \in Terminal => status'[r] = status[r]
<1>1. LeaseInv /\ [Next]_vars => [Stays]_vars
  <2> SUFFICES ASSUME LeaseInv, [Next]_vars PROVE Stays
    OBVIOUS
  <2>0. status \in [Row -> Status]
    BY DEF LeaseInv, TypeOK
  <2>1. ASSUME NEW c \in Claim, NEW d \in Durations, LeaseRow(c, d) PROVE Stays
    <3> DEFINE free == {q \in Row : Claimable(q, now[c]) /\ BelowCap(q)}
               r    == First(free)
    <3>1. r \in free
      BY <2>1, FirstIsMember DEF LeaseRow
    <3>2. status[r] \notin Terminal
      BY <3>1 DEF Claimable, Terminal
    <3>3. status' = [status EXCEPT ![r] = "processing"]
      BY <2>1 DEF LeaseRow
    <3> HIDE DEF r
    <3> QED
      BY <2>0, <3>2, <3>3
  <2>2. ASSUME NEW c \in Claim, NEW final \in FinalStatuses, Release(c, final) PROVE Stays
    BY <2>0, <2>2 DEF Release, HeldBy, Terminal
  <2>3. ASSUME NEW r \in Row, Cancel(r) PROVE Stays
    BY <2>0, <2>3 DEF Cancel, Terminal
  <2>4. ASSUME NEW p \in Reaper, MoveExhausted(p) PROVE Stays
    <3> DEFINE r == First(candidates[p])
    <3>1. Claimable(r, reapNow[p]) /\ status' = [status EXCEPT ![r] = "failed"]
      BY <2>4 DEF MoveExhausted, Exhausted
    <3>2. status[r] \notin Terminal
      BY <3>1 DEF Claimable, Terminal
    <3> HIDE DEF r
    <3> QED
      BY <2>0, <3>1, <3>2
  <2>5. CASE UNCHANGED status
    BY <2>5
  <2> QED
    BY <2>1, <2>2, <2>3, <2>4, <2>5 DEF Next, Run, Reap, Tick, CallLease, CallExtend,
       CallRelease, Resolve, LeaseNothing, Extend, LeaseLost, CallFails,
       CallReap, ReadExhausted, SkipCandidate, vars, rowVars
<1> QED
  BY <1>1, LeaseInvariant, PTL DEF Spec, TerminalStays

-----------------------------------------------------------------------------
(* The lock. *)

\* A statement is in flight only after the process's DDL has succeeded, and
\* then the table exists.
BootInv ==
  \A h \in Holder :
    /\ boot[h] = "done" => table
    /\ at[h] \in {"upsert", "select", "delete"} => boot[h] = "done"

\* No reading of a clock is ahead of it, and a process's row never expires
\* later than its newest reading plus its lease: so that taking the lock again
\* never shortens it.
TermInv ==
  \A h \in Holder :
    /\ reading[h] <= Local(h)
    /\ holder = h => expires <= Local(h) + Lease[h]
    /\ holder = h /\ at[h] = "upsert" => expires <= reading[h] + Lease[h]

\* A process whose release is under way has stopped working.
ReleaseInv ==
  \A h \in Holder :
    at[h] = "delete" \/ (at[h] = "boot" /\ asked[h] = "release") => told[h] = Nobody

\* A process that works has the row, for at least as long as it was told.
WorkInv == \A h \in Holder : Works(h) => holder = h /\ told[h] <= expires

LockInv == LockTypeOK /\ BootInv /\ TermInv /\ ReleaseInv /\ WorkInv

\* A clock reading is a natural number.
LEMMA LocalNat == LockTypeOK => \A h \in Holder : Local(h) \in Nat
BY LockAssumption DEF LockTypeOK, Local

\* What Fail does: its statement was not applied, or it was.
LEMMA FailCases ==
  ASSUME NEW h \in Holder, Fail(h)
  PROVE  /\ at[h] \in {"upsert", "select", "delete"}
         /\ at' = [at EXCEPT ![h] = "idle"]
         /\ \/ UNCHANGED <<time, table, holder, expires, boot, asked, reading, told>>
            \/ Upserted(h)
            \/ Deleted(h)
BY DEF Fail, Upserted, Deleted, lockRow

\* One step keeps every variable in its type.
LEMMA LockTypeStep == LockTypeOK /\ [LockNext]_lockVars => LockTypeOK'
<1> SUFFICES ASSUME LockTypeOK, [LockNext]_lockVars PROVE LockTypeOK'
  OBVIOUS
<1> USE LockAssumption DEF LockTypeOK
<1>1. CASE TimePasses
  BY <1>1 DEF TimePasses, lockRow
<1>2. ASSUME NEW h \in Holder, CallTryAcquire(h) \/ CallLockRelease(h) PROVE LockTypeOK'
  BY <1>2 DEF CallTryAcquire, CallLockRelease, Enter, lockRow
<1>3. ASSUME NEW h \in Holder, BootstrapSucceeds(h) \/ BootstrapFails(h) PROVE LockTypeOK'
  BY <1>3 DEF BootstrapSucceeds, BootstrapFails, lockRow
<1>4. ASSUME NEW h \in Holder, Bootstrapped(h) PROVE LockTypeOK'
  <2>1. Local(h) \in Nat
    BY DEF Local
  <2> QED
    BY <1>4, <2>1 DEF Bootstrapped, lockRow
<1>5. ASSUME NEW h \in Holder, Upserted(h) PROVE holder' \in Holder /\ expires' \in Nat
  BY <1>5 DEF Upserted
<1>6. ASSUME NEW h \in Holder, Upsert(h) PROVE LockTypeOK'
  <2>1. Upserted(h)
    BY <1>6 DEF Upsert
  <2> QED
    BY <1>6, <2>1, <1>5 DEF Upsert, Upserted
<1>7. ASSUME NEW h \in Holder, UpsertIgnored(h) \/ Answer(h) PROVE LockTypeOK'
  BY <1>7 DEF UpsertIgnored, Answer, lockRow
<1>8. ASSUME NEW h \in Holder, Delete(h) PROVE LockTypeOK'
  BY <1>8 DEF Delete, Deleted
<1>9. ASSUME NEW h \in Holder, Fail(h) PROVE LockTypeOK'
  <2>1. at' \in [Holder -> {"idle", "boot", "upsert", "select", "delete"}]
    BY <1>9, FailCases
  <2>2. CASE UNCHANGED <<time, table, holder, expires, boot, asked, reading, told>>
    BY <2>1, <2>2
  <2>3. CASE Upserted(h)
    BY <2>1, <2>3, <1>5 DEF Upserted
  <2>4. CASE Deleted(h)
    BY <2>1, <2>4 DEF Deleted
  <2> QED
    BY <1>9, <2>2, <2>3, <2>4, FailCases
<1>10. CASE UNCHANGED lockVars
  BY <1>10 DEF lockVars, lockRow
<1> QED
  BY <1>1, <1>2, <1>3, <1>4, <1>6, <1>7, <1>8, <1>9, <1>10 DEF LockNext, Continue

\* The initial states satisfy the invariant.
LEMMA InitLockInv == LockInit => LockInv
<1> SUFFICES ASSUME LockInit PROVE LockInv
  OBVIOUS
<1> USE LockAssumption DEF LockInit
<1>1. LockTypeOK
  BY DEF LockTypeOK
<1>2. BootInv /\ ReleaseInv
  BY DEF BootInv, ReleaseInv
<1>3. TermInv
  <2> SUFFICES ASSUME NEW h \in Holder PROVE reading[h] <= Local(h) /\ holder # h
    BY DEF TermInv
  <2>1. reading[h] = 0 /\ holder = Nobody /\ h # Nobody
    OBVIOUS
  <2>2. Local(h) \in Nat
    BY DEF Local
  <2> QED
    BY <2>1, <2>2
<1>4. WorkInv
  BY DEF WorkInv, Works
<1> QED
  BY <1>1, <1>2, <1>3, <1>4 DEF LockInv

\* BootInv is inductive.
LEMMA BootStep == LockTypeOK /\ BootInv /\ [LockNext]_lockVars => BootInv'
<1> SUFFICES ASSUME LockTypeOK, BootInv, [LockNext]_lockVars PROVE BootInv'
  OBVIOUS
<1> USE DEF LockTypeOK, BootInv
<1>1. CASE TimePasses
  BY <1>1 DEF TimePasses, lockRow
<1>2. ASSUME NEW h \in Holder, CallTryAcquire(h) \/ CallLockRelease(h) PROVE BootInv'
  BY <1>2 DEF CallTryAcquire, CallLockRelease, Enter, lockRow
<1>3. ASSUME NEW h \in Holder, BootstrapSucceeds(h) \/ BootstrapFails(h) PROVE BootInv'
  BY <1>3 DEF BootstrapSucceeds, BootstrapFails, lockRow
<1>4. ASSUME NEW h \in Holder, Bootstrapped(h) PROVE BootInv'
  BY <1>4 DEF Bootstrapped, lockRow
<1>5. ASSUME NEW h \in Holder, UpsertIgnored(h) \/ Answer(h) PROVE BootInv'
  BY <1>5 DEF UpsertIgnored, Answer, lockRow
<1>6. ASSUME NEW h \in Holder, Upsert(h) \/ Delete(h) PROVE BootInv'
  BY <1>6 DEF Upsert, Upserted, Delete, Deleted
<1>7. ASSUME NEW h \in Holder, Fail(h) PROVE BootInv'
  <2>1. UNCHANGED <<table, boot>> /\ at' = [at EXCEPT ![h] = "idle"]
    BY <1>7, FailCases DEF Upserted, Deleted
  <2> QED
    BY <2>1
<1>8. CASE UNCHANGED lockVars
  BY <1>8 DEF lockVars, lockRow
<1> QED
  BY <1>1, <1>2, <1>3, <1>4, <1>5, <1>6, <1>7, <1>8 DEF LockNext, Continue

\* ReleaseInv is inductive.
LEMMA ReleaseStep == LockTypeOK /\ ReleaseInv /\ [LockNext]_lockVars => ReleaseInv'
<1> SUFFICES ASSUME LockTypeOK, ReleaseInv, [LockNext]_lockVars PROVE ReleaseInv'
  OBVIOUS
<1> USE DEF LockTypeOK, ReleaseInv
<1>1. CASE TimePasses
  BY <1>1 DEF TimePasses, lockRow
<1>2. ASSUME NEW h \in Holder, CallTryAcquire(h) PROVE ReleaseInv'
  BY <1>2 DEF CallTryAcquire, Enter, lockRow
<1>3. ASSUME NEW h \in Holder, CallLockRelease(h) PROVE ReleaseInv'
  BY <1>3 DEF CallLockRelease, Enter, lockRow
<1>4. ASSUME NEW h \in Holder, BootstrapSucceeds(h) \/ BootstrapFails(h) PROVE ReleaseInv'
  BY <1>4 DEF BootstrapSucceeds, BootstrapFails, lockRow
<1>5. ASSUME NEW h \in Holder, Bootstrapped(h) PROVE ReleaseInv'
  BY <1>5 DEF Bootstrapped, lockRow
<1>6. ASSUME NEW h \in Holder, UpsertIgnored(h) \/ Answer(h) PROVE ReleaseInv'
  BY <1>6 DEF UpsertIgnored, Answer, lockRow
<1>7. ASSUME NEW h \in Holder, Upsert(h) \/ Delete(h) PROVE ReleaseInv'
  BY <1>7 DEF Upsert, Upserted, Delete, Deleted
<1>8. ASSUME NEW h \in Holder, Fail(h) PROVE ReleaseInv'
  <2>1. UNCHANGED <<asked, told>> /\ at' = [at EXCEPT ![h] = "idle"]
    BY <1>8, FailCases DEF Upserted, Deleted
  <2> QED
    BY <2>1
<1>9. CASE UNCHANGED lockVars
  BY <1>9 DEF lockVars, lockRow
<1> QED
  BY <1>1, <1>2, <1>3, <1>4, <1>5, <1>6, <1>7, <1>8, <1>9 DEF LockNext, Continue

\* What an applied upsert leaves keeps the row's term bounded.
LEMMA UpsertedTerm ==
  ASSUME LockTypeOK, TermInv, NEW h \in Holder, Upserted(h),
         NEW s \in {"idle", "select"}, at' = [at EXCEPT ![h] = s]
  PROVE  TermInv'
<1> USE LockAssumption DEF LockTypeOK
<1>1. /\ holder' = h /\ expires' = reading[h] + Lease[h] /\ reading[h] <= Local(h)
      /\ UNCHANGED <<time, reading>>
  BY DEF Upserted, TermInv
<1> SUFFICES ASSUME NEW g \in Holder
             PROVE  /\ reading'[g] <= Local(g)'
                    /\ holder' = g => expires' <= Local(g)' + Lease[g]
                    /\ holder' = g /\ at'[g] = "upsert" => expires' <= reading'[g] + Lease[g]
  BY DEF TermInv
<1>2. reading'[g] <= Local(g)'
  BY <1>1 DEF TermInv, Local
<1>3. holder' = g => expires' <= Local(g)' + Lease[g]
  <2>1. Local(g)' = Local(g)
    BY <1>1 DEF Local
  <2>2. Local(g) \in Nat
    BY LocalNat
  <2>3. Lease[g] \in Nat
    OBVIOUS
  <2> QED
    BY <1>1, <2>1, <2>2, <2>3
<1>4. holder' = g /\ at'[g] = "upsert" => expires' <= reading'[g] + Lease[g]
  BY <1>1
<1> QED
  BY <1>2, <1>3, <1>4

\* TermInv is inductive.
LEMMA TermStep == LockTypeOK /\ TermInv /\ [LockNext]_lockVars => TermInv'
<1> SUFFICES ASSUME LockTypeOK, TermInv, [LockNext]_lockVars PROVE TermInv'
  OBVIOUS
<1> USE LockAssumption DEF LockTypeOK
<1>1. CASE TimePasses
  BY <1>1 DEF TimePasses, TermInv, Local, lockRow
<1>2. ASSUME NEW h \in Holder, CallTryAcquire(h) \/ CallLockRelease(h) PROVE TermInv'
  BY <1>2 DEF CallTryAcquire, CallLockRelease, Enter, TermInv, Local, lockRow
<1>3. ASSUME NEW h \in Holder, BootstrapSucceeds(h) \/ BootstrapFails(h) PROVE TermInv'
  BY <1>3 DEF BootstrapSucceeds, BootstrapFails, TermInv, Local, lockRow
<1>4. ASSUME NEW h \in Holder, Bootstrapped(h) PROVE TermInv'
  BY <1>4 DEF Bootstrapped, TermInv, Local, lockRow
<1>5. ASSUME NEW h \in Holder, UpsertIgnored(h) \/ Answer(h) PROVE TermInv'
  BY <1>5 DEF UpsertIgnored, Answer, TermInv, Local, lockRow
<1>6. ASSUME NEW h \in Holder, Upsert(h) PROVE TermInv'
  BY <1>6, UpsertedTerm DEF Upsert
<1>7. ASSUME NEW h \in Holder, NEW s \in {"idle"}, Deleted(h), at' = [at EXCEPT ![h] = s]
      PROVE  TermInv'
  BY <1>7 DEF Deleted, TermInv, Local
<1>8. ASSUME NEW h \in Holder, Delete(h) PROVE TermInv'
  BY <1>8, <1>7 DEF Delete
<1>9. ASSUME NEW h \in Holder, Fail(h) PROVE TermInv'
  <2>1. CASE UNCHANGED <<time, table, holder, expires, boot, asked, reading, told>>
    BY <2>1, <1>9, FailCases DEF TermInv, Local
  <2>2. CASE Upserted(h)
    BY <2>2, <1>9, FailCases, UpsertedTerm
  <2>3. CASE Deleted(h)
    BY <2>3, <1>9, <1>7, FailCases
  <2> QED
    BY <1>9, <2>1, <2>2, <2>3, FailCases
<1>10. CASE UNCHANGED lockVars
  BY <1>10 DEF lockVars, TermInv, Local, lockRow
<1> QED
  BY <1>1, <1>2, <1>3, <1>4, <1>5, <1>6, <1>8, <1>9, <1>10 DEF LockNext, Continue

\* An upsert of one process never takes the row from another that works, and
\* its own only gets longer.
LEMMA UpsertedWork ==
  ASSUME LockTypeOK, TermInv, WorkInv, NEW g \in Holder, Upserted(g)
  PROVE  WorkInv'
<1> USE LockAssumption DEF LockTypeOK
<1>1. /\ at[g] = "upsert" /\ Takes(g)
      /\ holder' = g /\ expires' = reading[g] + Lease[g]
      /\ UNCHANGED <<time, told>>
  BY DEF Upserted
<1> SUFFICES ASSUME NEW h \in Holder, Works(h)'
             PROVE  holder' = h /\ told'[h] <= expires'
  BY DEF WorkInv
<1>2. /\ told[h] \in Nat /\ Local(h) + Drift <= told[h]
      /\ holder = h /\ told[h] <= expires
  BY <1>1 DEF Works, Local, WorkInv
<1>3. CASE g = h
  <2>1. expires <= reading[g] + Lease[g]
    BY <1>1, <1>2, <1>3 DEF TermInv
  <2> QED
    BY <1>1, <1>2, <1>3, <2>1
<1>4. CASE g # h
  <2>1. expires < reading[g]
    BY <1>1, <1>2, <1>4 DEF Takes
  <2>2. reading[g] <= Local(g) /\ Skew[g] - Skew[h] <= Drift
    BY DEF TermInv
  <2>3. Local(g) <= Local(h) + Drift
    BY <2>2 DEF Local
  <2>4. Local(g) \in Nat /\ Local(h) \in Nat
    BY DEF Local
  <2> QED
    BY <1>2, <2>1, <2>2, <2>3, <2>4
<1> QED
  BY <1>3, <1>4

\* A delete of one process never removes the row of one that works.
LEMMA DeletedWork ==
  ASSUME LockTypeOK, ReleaseInv, WorkInv, NEW g \in Holder, Deleted(g)
  PROVE  WorkInv'
<1>1. /\ at[g] = "delete" /\ UNCHANGED <<time, told, expires>>
      /\ holder' = IF holder = g THEN Nobody ELSE holder
  BY DEF Deleted
<1>2. told[g] = Nobody
  BY <1>1 DEF ReleaseInv
<1> SUFFICES ASSUME NEW h \in Holder, Works(h)'
             PROVE  holder' = h /\ told'[h] <= expires'
  BY DEF WorkInv
<1>3. Works(h)
  BY <1>1 DEF Works, Local
<1> QED
  BY <1>1, <1>2, <1>3 DEF WorkInv, Works

\* WorkInv is inductive, given the others.
LEMMA WorkStep ==
  LockTypeOK /\ TermInv /\ ReleaseInv /\ WorkInv /\ [LockNext]_lockVars => WorkInv'
<1> SUFFICES ASSUME LockTypeOK, TermInv, ReleaseInv, WorkInv, [LockNext]_lockVars PROVE WorkInv'
  OBVIOUS
<1> USE LockAssumption DEF LockTypeOK
<1>1. CASE TimePasses
  BY <1>1 DEF TimePasses, WorkInv, Works, Local, lockRow
<1>2. ASSUME NEW h \in Holder, CallTryAcquire(h) PROVE WorkInv'
  BY <1>2 DEF CallTryAcquire, Enter, WorkInv, Works, Local, lockRow
<1>3. ASSUME NEW h \in Holder, CallLockRelease(h) PROVE WorkInv'
  BY <1>3 DEF CallLockRelease, Enter, WorkInv, Works, Local, lockRow
<1>4. ASSUME NEW h \in Holder, BootstrapSucceeds(h) \/ BootstrapFails(h) \/ Bootstrapped(h)
      PROVE  WorkInv'
  BY <1>4 DEF BootstrapSucceeds, BootstrapFails, Bootstrapped, WorkInv, Works, Local, lockRow
<1>5. ASSUME NEW h \in Holder, UpsertIgnored(h) PROVE WorkInv'
  BY <1>5 DEF UpsertIgnored, WorkInv, Works, Local, lockRow
<1>6. ASSUME NEW h \in Holder, Answer(h) PROVE WorkInv'
  BY <1>6 DEF Answer, ReadsBack, WorkInv, Works, Local, lockRow
<1>7. ASSUME NEW h \in Holder, Upsert(h) PROVE WorkInv'
  BY <1>7, UpsertedWork DEF Upsert
<1>8. ASSUME NEW h \in Holder, Delete(h) PROVE WorkInv'
  BY <1>8, DeletedWork DEF Delete
<1>9. ASSUME NEW h \in Holder, Fail(h) PROVE WorkInv'
  <2>1. CASE UNCHANGED <<time, table, holder, expires, boot, asked, reading, told>>
    BY <2>1 DEF WorkInv, Works, Local
  <2> QED
    BY <1>9, <2>1, FailCases, UpsertedWork, DeletedWork
<1>10. CASE UNCHANGED lockVars
  BY <1>10 DEF lockVars, WorkInv, Works, Local, lockRow
<1> QED
  BY <1>1, <1>2, <1>3, <1>4, <1>5, <1>6, <1>7, <1>8, <1>9, <1>10 DEF LockNext, Continue

\* The invariant holds in every reachable state.
LEMMA LockInvariant == LockSpec => []LockInv
<1>1. LockInit => LockInv
  BY InitLockInv
<1>2. LockInv /\ [LockNext]_lockVars => LockInv'
  BY LockTypeStep, BootStep, TermStep, ReleaseStep, WorkStep DEF LockInv
<1> QED
  BY <1>1, <1>2, PTL DEF LockSpec

\* Every variable keeps its type (Lock's TypeOK).
THEOREM LockTypeCorrect == LockSpec => []LockTypeOK
<1>1. LockInv => LockTypeOK
  BY DEF LockInv
<1> QED
  BY <1>1, LockInvariant, PTL

\* No two processes work under the lock at once, whatever fails in between and
\* however far their clocks are apart within Drift (tryAcquire and release).
THEOREM LockExcludes == LockSpec => []MutualExclusion
<1>1. LockInv => MutualExclusion
  BY DEF LockInv, WorkInv, MutualExclusion
<1> QED
  BY <1>1, LockInvariant, PTL

\* No statement is sent before the table exists (ensureBootstrapped).
THEOREM TableFirst == LockSpec => []TableReady
<1>1. LockInv => TableReady
  BY DEF LockInv, BootInv, TableReady
<1> QED
  BY <1>1, LockInvariant, PTL
=============================================================================
