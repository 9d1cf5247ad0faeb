---------------------------- MODULE MigratorProofs ----------------------------
(***************************************************************************)
(* Theorems about Migrator, for any migrations, processes and deployments. *)
(*                                                                         *)
(* A transaction is open from its script to its COMMIT, by one process at  *)
(* a time, and until then holds what is committed with the effect, and     *)
(* then the row, of the process's next name; so a COMMIT moves both        *)
(* together, and a rollback neither (OpenIsNext).  Where down() is alone   *)
(* nothing moves under its list, and under that of up() only towards it    *)
(* (DownsKeep, UpsKeep).                                                   *)
(***************************************************************************)
EXTENDS Migrator, TLAPS

USE MigratorAssumption

-----------------------------------------------------------------------------
(* The inductive invariant. *)

Writing(p) == pc[p] \in {"track", "commit"}
Looping(p) == pc[p] = "loop" \/ Writing(p)

WriterWrites == \A p \in Process : Writing(p) <=> writer = p

CallGoesOn == \A p \in Process : call[p] = "none" <=> pc[p] = "idle"

\* What a loop's next name makes of a set of names.
Moved(p, m, S) == IF call[p] = "up" THEN S \cup {m} ELSE S \ {m}

OpenIsNext ==
  \A p \in Process, m \in Name :
    Writing(p) /\ IsNext(p, m) =>
      /\ pending.schema = Moved(p, m, schema)
      /\ pc[p] = "track"  => pending.tracked = tracked
      /\ pc[p] = "commit" => /\ pending.tracked = Moved(p, m, tracked)
                             /\ call[p] = "up" => m \notin tracked

IInv == TypeOK /\ WriterWrites /\ CallGoesOn /\ OpenIsNext /\ TrackedIsApplied

\* Both orders are strict: a loop has one next name.
LEMMA OneNext ==
  ASSUME TypeOK, CallGoesOn, NEW p \in Process, pc[p] # "idle",
         NEW m \in Name, NEW n \in Name, IsNext(p, m), IsNext(p, n)
  PROVE  m = n
<1>1. call[p] \in {"up", "down"}
  BY DEF TypeOK, CallGoesOn
<1>2. m \in todo[p] /\ n \in todo[p]
  BY DEF IsNext
<1>3. CASE call[p] = "up"
  <2>1. m <= n /\ n <= m
    BY <1>2, <1>3 DEF IsNext
  <2>2. m \in Nat /\ n \in Nat
    OBVIOUS
  <2> QED
    BY <2>1, <2>2
<1>4. CASE call[p] = "down"
  <2>1. Byte[m] <= Byte[n] /\ Byte[n] <= Byte[m]
    BY <1>2, <1>4 DEF IsNext
  <2>2. Byte[m] \in Nat /\ Byte[n] \in Nat
    OBVIOUS
  <2> QED
    BY <2>1, <2>2
<1> QED
  BY <1>1, <1>3, <1>4

LEMMA InitInv == Init => IInv
<1> SUFFICES ASSUME Init PROVE IInv
  OBVIOUS
<1>1. TypeOK
  <2>1. Nothing \in [tracked : SUBSET Name, schema : SUBSET Name]
    BY DEF Nothing
  <2>2. downs \in 0 .. Downs /\ runs \in [Name -> Int]
    BY DEF Init
  <2>3. /\ call \in [Process -> {"none", "up", "down"}]
        /\ pc \in [Process -> {"idle", "ensure", "read", "loop", "track", "commit"}]
        /\ target \in [Process -> Name \cup {None}] /\ todo \in [Process -> SUBSET Name]
    BY DEF Init
  <2>4. /\ table \in BOOLEAN /\ tracked \subseteq Name /\ schema \subseteq Name
        /\ writer \in Process \cup {None} /\ pending = Nothing
    BY DEF Init
  <2> QED
    BY <2>1, <2>2, <2>3, <2>4 DEF TypeOK
<1>2. \A p \in Process : ~Writing(p) /\ writer # p
  BY DEF Init, Writing
<1>3. CallGoesOn /\ TrackedIsApplied
  BY DEF Init, CallGoesOn, TrackedIsApplied
<1> QED
  BY <1>1, <1>2, <1>3 DEF IInv, WriterWrites, OpenIsNext

-----------------------------------------------------------------------------
(* Type correctness, action by action. *)

LEMMA NextNames ==
  ASSUME TypeOK, NEW p \in Process, NEW m, IsNext(p, m)
  PROVE  m \in Name
BY DEF TypeOK, IsNext

LEMMA TypeStep == TypeOK /\ [Next]_vars => TypeOK'
<1> SUFFICES ASSUME TypeOK, [Next]_vars PROVE TypeOK'
  OBVIOUS
<1> USE DEF TypeOK
<1>1. ASSUME NEW p \in Process, Up(p) PROVE TypeOK'
  BY <1>1 DEF Up, Call, disk
<1>2. ASSUME NEW p \in Process, NEW to \in Name \cup {None}, Down(p, to) PROVE TypeOK'
  BY <1>2 DEF Down, Call, disk
<1>3. ASSUME NEW p \in Process, EnsureTable(p) PROVE TypeOK'
  BY <1>3 DEF EnsureTable
<1>4. ASSUME NEW p \in Process, Read(p) PROVE TypeOK'
  BY <1>4 DEF Read, AboveTarget, disk
<1>5. ASSUME NEW p \in Process, Script(p) PROVE TypeOK'
  BY <1>5, NextNames DEF Script
<1>6. ASSUME NEW p \in Process, Track(p) PROVE TypeOK'
  <2>1. PICK m \in Name : pending' = [pending EXCEPT !.tracked =
                             IF call[p] = "up" THEN @ \cup {m} ELSE @ \ {m}]
    BY <1>6, NextNames DEF Track
  <2> QED
    BY <1>6, <2>1 DEF Track
<1>7. ASSUME NEW p \in Process, Commit(p) PROVE TypeOK'
  <2>1. PICK m \in Name : /\ todo' = [todo EXCEPT ![p] = @ \ {m}]
                          /\ runs' = [runs EXCEPT ![m] = @ + (IF call[p] = "up" THEN 1 ELSE -1)]
    BY <1>7, NextNames DEF Commit
  <2> QED
    BY <1>7, <2>1 DEF Commit, Nothing
<1>8. ASSUME NEW p \in Process, Return(p) PROVE TypeOK'
  BY <1>8 DEF Return, Over, disk
<1>9. ASSUME NEW p \in Process, Abort(p) PROVE TypeOK'
  BY <1>9 DEF Abort, Over, Nothing
<1>10. CASE UNCHANGED vars
  BY <1>10 DEF vars, disk, local
<1> QED
  BY <1>1, <1>2, <1>3, <1>4, <1>5, <1>6, <1>7, <1>8, <1>9, <1>10 DEF Next, Refuse, Fault

-----------------------------------------------------------------------------
(* The other conjuncts. *)

LEMMA StepInv == IInv /\ [Next]_vars => IInv'
<1> SUFFICES ASSUME IInv, [Next]_vars PROVE IInv'
  OBVIOUS
<1>0. TypeOK /\ TypeOK'
  BY TypeStep DEF IInv
<1> DEFINE Rest == WriterWrites /\ CallGoesOn /\ OpenIsNext /\ TrackedIsApplied
<1> Rest
  BY DEF IInv
<1> USE DEF WriterWrites, CallGoesOn, TrackedIsApplied, Writing
\* A process that is not writing, before and after, says nothing of OpenIsNext.
<1>a. ASSUME NEW p \in Process, ~Writing(p)',
             UNCHANGED <<tracked, schema>>,
             \A q \in Process \ {p} : UNCHANGED <<pc[q], call[q], todo[q]>>,
             writer # p => UNCHANGED <<writer, pending>>,
             writer = p => writer' = None
      PROVE  OpenIsNext' /\ WriterWrites'
  <2>1. ASSUME NEW q \in Process, q # p PROVE Writing(q)' <=> writer' = q
    BY <1>a, <2>1, <1>0 DEF TypeOK
  <2>2. ~Writing(p)' /\ writer' # p
    BY <1>a DEF TypeOK
  <2>3. WriterWrites'
    BY <2>1, <2>2
  <2>4. ASSUME NEW q \in Process, NEW m \in Name, Writing(q)', IsNext(q, m)'
        PROVE  q # p /\ writer # p /\ Writing(q) /\ IsNext(q, m) /\ UNCHANGED <<pc[q], call[q]>>
    <3>1. q # p /\ UNCHANGED <<pc[q], call[q], todo[q]>>
      BY <1>a, <2>4
    <3>2. Writing(q) /\ IsNext(q, m)
      BY <2>4, <3>1 DEF IsNext
    <3> QED
      BY <3>1, <3>2
  <2>5. ASSUME NEW q \in Process, NEW m \in Name, Writing(q)', IsNext(q, m)'
        PROVE  /\ Writing(q) /\ IsNext(q, m)
               /\ UNCHANGED <<pending, tracked, schema, pc[q], call[q]>>
    BY <1>a, <2>4, <2>5
  <2>6. OpenIsNext'
    <3> SUFFICES ASSUME NEW q \in Process, NEW m \in Name, Writing(q)', IsNext(q, m)'
                 PROVE  (/\ pending.schema = Moved(q, m, schema)
                         /\ pc[q] = "track"  => pending.tracked = tracked
                         /\ pc[q] = "commit" => /\ pending.tracked = Moved(q, m, tracked)
                                                /\ call[q] = "up" => m \notin tracked)'
      BY DEF OpenIsNext
    <3>1. /\ Writing(q) /\ IsNext(q, m)
          /\ UNCHANGED <<pending, tracked, schema, pc[q], call[q]>>
      BY <2>5
    <3> QED
      BY <3>1 DEF OpenIsNext, Moved
  <2> QED
    BY <2>3, <2>6
<1>1. ASSUME NEW p \in Process, Up(p) PROVE Rest'
  BY <1>1, <1>a, <1>0 DEF Up, Call, disk, TypeOK
<1>2. ASSUME NEW p \in Process, NEW to \in Name \cup {None}, Down(p, to) PROVE Rest'
  BY <1>2, <1>a, <1>0 DEF Down, Call, disk, TypeOK
<1>3. ASSUME NEW p \in Process, EnsureTable(p) PROVE Rest'
  BY <1>3, <1>a, <1>0 DEF EnsureTable, TypeOK
<1>4. ASSUME NEW p \in Process, Read(p) PROVE Rest'
  BY <1>4, <1>a, <1>0 DEF Read, disk, TypeOK
<1>5. ASSUME NEW p \in Process, Script(p) PROVE Rest'
  <2>1. PICK m \in Name : IsNext(p, m) /\ pending' = [tracked |-> tracked, schema |-> Moved(p, m, schema)]
    BY <1>5, <1>0, NextNames DEF Script, Moved
  <2>2. WriterWrites' /\ CallGoesOn' /\ TrackedIsApplied'
    BY <1>5, <1>0 DEF Script, TypeOK
  <2>3. ASSUME NEW q \in Process, NEW n \in Name, Writing(q)', IsNext(q, n)'
        PROVE  q = p /\ n = m
    <3>1. q = p
      BY <1>5, <2>3, <1>0 DEF Script, TypeOK
    <3>2. IsNext(p, n)
      BY <1>5, <2>3, <3>1 DEF Script, IsNext
    <3>3. pc[p] # "idle"
      BY <1>5 DEF Script
    <3> QED
      BY <3>1, <3>2, <3>3, <2>1, <1>0, OneNext
  <2>4. OpenIsNext'
    BY <1>5, <2>1, <2>3, <1>0 DEF OpenIsNext, Moved, Script, TypeOK
  <2> QED
    BY <2>2, <2>4
<1>6. ASSUME NEW p \in Process, Track(p) PROVE Rest'
  <2>1. PICK m \in Name : /\ IsNext(p, m)
                          /\ call[p] = "up" => m \notin pending.tracked
                          /\ pending' = [pending EXCEPT !.tracked = Moved(p, m, pending.tracked)]
    BY <1>6, <1>0, NextNames DEF Track, Moved
  <2>2. WriterWrites' /\ CallGoesOn' /\ TrackedIsApplied'
    BY <1>6, <1>0 DEF Track, TypeOK
  <2>3. ASSUME NEW q \in Process, NEW n \in Name, Writing(q)', IsNext(q, n)'
        PROVE  q = p /\ n = m
    <3>1. q = p
      BY <1>6, <2>3, <1>0 DEF Track, TypeOK
    <3>2. IsNext(p, n)
      BY <1>6, <2>3, <3>1 DEF Track, IsNext
    <3>3. pc[p] # "idle"
      BY <1>6 DEF Track
    <3> QED
      BY <3>1, <3>2, <3>3, <2>1, <1>0, OneNext
  <2>4. pending.schema = Moved(p, m, schema) /\ pending.tracked = tracked
    BY <1>6, <2>1 DEF Track, OpenIsNext
  <2>5. /\ pending'.schema = Moved(p, m, schema)
        /\ pending'.tracked = Moved(p, m, tracked)
        /\ call[p] = "up" => m \notin tracked
    BY <2>1, <2>4, <1>0 DEF TypeOK
  <2>6. UNCHANGED <<tracked, schema, call>> /\ pc'[p] = "commit"
    BY <1>6, <1>0 DEF Track, TypeOK
  <2>7. OpenIsNext'
    BY <2>3, <2>5, <2>6 DEF OpenIsNext, Moved
  <2> QED
    BY <2>2, <2>7
<1>7. ASSUME NEW p \in Process, Commit(p) PROVE Rest'
  <2>1. PICK m \in Name : IsNext(p, m)
    BY <1>7, <1>0, NextNames DEF Commit
  <2>2. pending.schema = Moved(p, m, schema) /\ pending.tracked = Moved(p, m, tracked)
    BY <1>7, <2>1 DEF Commit, OpenIsNext
  <2>3. TrackedIsApplied'
    BY <1>7, <2>2 DEF Commit, Moved
  <2>4. WriterWrites' /\ CallGoesOn' /\ \A q \in Process : ~Writing(q)'
    BY <1>7, <1>0 DEF Commit, TypeOK
  <2> QED
    BY <2>3, <2>4 DEF OpenIsNext
<1>8. ASSUME NEW p \in Process, Return(p) PROVE Rest'
  BY <1>8, <1>a, <1>0 DEF Return, Over, disk, TypeOK
<1>9. ASSUME NEW p \in Process, Abort(p) PROVE Rest'
  BY <1>9, <1>a, <1>0 DEF Abort, Over, TypeOK
<1>10. ASSUME UNCHANGED vars PROVE Rest'
  <2>1. UNCHANGED <<tracked, schema, writer, pending, call, pc, todo>>
    BY <1>10 DEF vars, disk, local
  <2>2. WriterWrites' /\ CallGoesOn' /\ TrackedIsApplied'
    BY <2>1
  <2>3. \A p \in Process, m \in Name : IsNext(p, m)' = IsNext(p, m)
    BY <2>1 DEF IsNext
  <2>4. OpenIsNext'
    BY <2>1, <2>3 DEF OpenIsNext, Moved
  <2> QED
    BY <2>2, <2>4
<1> HIDE DEF Rest
<1>11. Rest'
  BY <1>1, <1>2, <1>3, <1>4, <1>5, <1>6, <1>7, <1>8, <1>9, <1>10 DEF Next, Refuse, Fault
<1> QED
  BY <1>0, <1>11 DEF IInv, Rest

\* The state keeps its types: a typed store of names, calls and one writer.
THEOREM TypeCorrect == Spec => []TypeOK
<1>1. IInv => TypeOK
  BY DEF IInv
<1> QED
  BY InitInv, StepInv, <1>1, PTL DEF Spec

\* Whatever fails or dies, and however up() and down() of many processes
\* interleave, the tracking table names the migrations that are in the schema.
THEOREM TrackingIsAtomic == Spec => []TrackedIsApplied
<1>1. IInv => TrackedIsApplied
  BY DEF IInv
<1> QED
  BY InitInv, StepInv, <1>1, PTL DEF Spec

-----------------------------------------------------------------------------
(* down() run alone. *)

\* A down() undoes what is tracked still.
DownsKeep ==
  \A p \in Process : call[p] = "down" /\ Looping(p) => todo[p] \subseteq tracked

OrderlyInv == IInv /\ Alone /\ DownsKeep /\ RunOnce

\* A COMMIT, in terms of the migration it is for.
LEMMA CommitMoves ==
  ASSUME IInv, NEW p \in Process, Commit(p)
  PROVE  \E m \in Name :
           /\ IsNext(p, m) /\ m \in todo[p] /\ pc[p] = "commit" /\ call[p] \in {"up", "down"}
           /\ tracked' = Moved(p, m, tracked)
           /\ call[p] = "up" => m \notin tracked
           /\ todo' = [todo EXCEPT ![p] = @ \ {m}]
           /\ runs' = [runs EXCEPT ![m] = @ + (IF call[p] = "up" THEN 1 ELSE -1)]
<1>1. PICK m \in Name : /\ IsNext(p, m)
                        /\ todo' = [todo EXCEPT ![p] = @ \ {m}]
                        /\ runs' = [runs EXCEPT ![m] = @ + (IF call[p] = "up" THEN 1 ELSE -1)]
  BY NextNames DEF Commit, IInv
<1>2. pending.tracked = Moved(p, m, tracked) /\ (call[p] = "up" => m \notin tracked)
  BY <1>1 DEF Commit, IInv, OpenIsNext, Writing
<1>3. call[p] \in {"up", "down"}
  BY DEF Commit, IInv, TypeOK, CallGoesOn
<1> QED
  BY <1>1, <1>2, <1>3 DEF Commit, IsNext

\* Only COMMIT changes what is tracked; and only a read, a COMMIT and the end
\* of a call change a list.
LEMMA OthersStand ==
  ASSUME TypeOK, [Next]_vars, \A p \in Process : ~Commit(p)
  PROVE  /\ UNCHANGED <<tracked, runs>>
         /\ \A q \in Process :
              \/ UNCHANGED <<todo[q], call[q], target[q]>> /\ (Looping(q)' => Looping(q))
              \/ ~Looping(q)'
              \/ Read(q)
<1> DEFINE Stands ==
      /\ UNCHANGED <<tracked, runs>>
      /\ \A q \in Process :
           \/ UNCHANGED <<todo[q], call[q], target[q]>> /\ (Looping(q)' => Looping(q))
           \/ ~Looping(q)'
           \/ Read(q)
<1> USE DEF TypeOK, Looping, Writing
<1>1. ASSUME NEW p \in Process, Up(p) PROVE Stands
  BY <1>1 DEF Up, Call, disk
<1>2. ASSUME NEW p \in Process, NEW to \in Name \cup {None}, Down(p, to) PROVE Stands
  BY <1>2 DEF Down, Call, disk
<1>3. ASSUME NEW p \in Process, EnsureTable(p) PROVE Stands
  BY <1>3 DEF EnsureTable
<1>4. ASSUME NEW p \in Process, Read(p) PROVE Stands
  <2>1. UNCHANGED <<tracked, runs, call, target>>
    BY <1>4 DEF Read, disk
  <2>2. ASSUME NEW q \in Process, q # p PROVE UNCHANGED <<todo[q], pc[q]>>
    BY <1>4, <2>2 DEF Read
  <2> QED
    BY <1>4, <2>1, <2>2
<1>5. ASSUME NEW p \in Process, Script(p) PROVE Stands
  BY <1>5 DEF Script
<1>6. ASSUME NEW p \in Process, Track(p) PROVE Stands
  BY <1>6 DEF Track
<1>8. ASSUME NEW p \in Process, Return(p) PROVE Stands
  BY <1>8 DEF Return, Over, disk
<1>9. ASSUME NEW p \in Process, Abort(p) PROVE Stands
  BY <1>9 DEF Abort, Over
<1>10. ASSUME UNCHANGED vars PROVE Stands
  BY <1>10 DEF vars, disk, local
<1> HIDE DEF Stands
<1>11. Stands
  BY <1>1, <1>2, <1>3, <1>4, <1>5, <1>6, <1>8, <1>9, <1>10 DEF Next, Refuse, Fault
<1> QED
  BY <1>11 DEF Stands

LEMMA OrderlyInit == Init => OrderlyInv
<1> SUFFICES ASSUME Init PROVE OrderlyInv
  OBVIOUS
<1>1. Alone /\ DownsKeep /\ RunOnce
  BY DEF Init, Alone, DownsKeep, RunOnce, Looping, Writing
<1> QED
  BY <1>1, InitInv DEF OrderlyInv

LEMMA OrderlyStep == OrderlyInv /\ [Next /\ Alone']_vars => OrderlyInv'
<1> SUFFICES ASSUME OrderlyInv, [Next /\ Alone']_vars PROVE OrderlyInv'
  OBVIOUS
<1>1. IInv /\ IInv' /\ TypeOK /\ TypeOK' /\ [Next]_vars
  BY StepInv DEF OrderlyInv, IInv
<1>2. Alone'
  BY DEF OrderlyInv, Alone, vars, local
<1>3. ASSUME NEW p \in Process, Commit(p) PROVE DownsKeep' /\ RunOnce'
  <2>1. PICK m \in Name :
          /\ m \in todo[p] /\ pc[p] = "commit" /\ call[p] \in {"up", "down"}
          /\ tracked' = Moved(p, m, tracked)
          /\ call[p] = "up" => m \notin tracked
          /\ todo' = [todo EXCEPT ![p] = @ \ {m}]
          /\ runs' = [runs EXCEPT ![m] = @ + (IF call[p] = "up" THEN 1 ELSE -1)]
    BY <1>1, <1>3, CommitMoves
  <2>2. call[p] = "down" => todo[p] \subseteq tracked
    BY <2>1 DEF OrderlyInv, DownsKeep, Looping, Writing
  <2>3. RunOnce'
    BY <1>1, <2>1, <2>2 DEF OrderlyInv, RunOnce, Moved, TypeOK
  <2>4. UNCHANGED call
    BY <1>3 DEF Commit
  <2>5. ASSUME NEW q \in Process, call'[q] = "down" PROVE todo'[q] \subseteq tracked'
    <3>1. q = p
      BY <2>1, <2>4, <2>5 DEF OrderlyInv, Alone
    <3> QED
      BY <1>1, <2>1, <2>2, <2>4, <2>5, <3>1 DEF Moved, TypeOK
  <2> QED
    BY <2>3, <2>5 DEF DownsKeep
<1>4. ASSUME \A p \in Process : ~Commit(p) PROVE DownsKeep' /\ RunOnce'
  <2>1. UNCHANGED <<tracked, runs>>
    BY <1>1, <1>4, OthersStand
  <2>2. ASSUME NEW q \in Process, call'[q] = "down", Looping(q)' PROVE todo'[q] \subseteq tracked'
    <3>1. CASE UNCHANGED <<todo[q], call[q], target[q]>> /\ Looping(q)
      BY <2>1, <2>2, <3>1 DEF OrderlyInv, DownsKeep
    <3>2. CASE Read(q)
      BY <1>1, <2>1, <2>2, <3>2 DEF Read, AboveTarget, TypeOK
    <3> QED
      BY <1>1, <1>4, <2>2, <3>1, <3>2, OthersStand
  <2> QED
    BY <2>1, <2>2 DEF DownsKeep, OrderlyInv, RunOnce
<1> QED
  BY <1>1, <1>2, <1>3, <1>4 DEF OrderlyInv

\* However many processes call up() at once, no script is committed twice over.
THEOREM RunsOnce == OrderlySpec => []RunOnce
<1>1. OrderlyInv => RunOnce
  BY DEF OrderlyInv
<1> QED
  BY OrderlyInit, OrderlyStep, <1>1, PTL DEF OrderlySpec

-----------------------------------------------------------------------------
(* Processes deployed with a beginning of the same list. *)

\* Names sort alike in SQLite and in localeCompare, and a process that has a
\* migration has those before it.
DeployedInOrder ==
  /\ \A m, n \in Name : m < n => Byte[m] < Byte[n]
  /\ \A p \in Process, m \in Name, n \in Name :
       m \in Provided[p] /\ n < m => n \in Provided[p]

\* An up() has what it does not list.
UpsKeep ==
  \A p \in Process : call[p] = "up" /\ Looping(p) =>
    todo[p] \subseteq Provided[p] /\ Provided[p] \subseteq tracked \cup todo[p]

\* A down() lists the last of what is tracked.
DownsFromTheTop ==
  \A p \in Process : call[p] = "down" /\ Looping(p) =>
    \A n \in Name, k \in Name : n \in tracked \ todo[p] /\ k \in todo[p] => n < k

NoGap == \A m \in Name, n \in Name : m \in tracked /\ n < m => n \in tracked

GapInv == OrderlyInv /\ UpsKeep /\ DownsFromTheTop /\ NoGap

\* The byte order is that of the names.
LEMMA SameOrders ==
  ASSUME DeployedInOrder, NEW m \in Name, NEW n \in Name, Byte[m] <= Byte[n]
  PROVE  m <= n
<1>1. m \in Nat /\ n \in Nat /\ Byte[m] \in Nat /\ Byte[n] \in Nat
  OBVIOUS
<1>2. n < m => Byte[n] < Byte[m]
  BY DEF DeployedInOrder
<1> QED
  BY <1>1, <1>2

\* One COMMIT leaves no gap: up() adds the next one, down() takes the last.
LEMMA CommitLeavesNoGap ==
  ASSUME DeployedInOrder, GapInv, NEW p \in Process, Commit(p)
  PROVE  UpsKeep' /\ DownsFromTheTop' /\ NoGap'
<1>1. PICK m \in Name :
        /\ IsNext(p, m) /\ m \in todo[p] /\ pc[p] = "commit" /\ call[p] \in {"up", "down"}
        /\ tracked' = Moved(p, m, tracked)
        /\ todo' = [todo EXCEPT ![p] = @ \ {m}]
  BY CommitMoves DEF GapInv, OrderlyInv
<1>2. TypeOK /\ UNCHANGED call /\ Looping(p)
  BY <1>1 DEF GapInv, OrderlyInv, IInv, Commit, Looping, Writing
<1>3. ASSUME NEW q \in Process, Looping(q)', q # p
      PROVE  todo'[q] = todo[q] /\ Looping(q) /\ call[q] = "up" /\ call[p] = "up"
  <2>1. todo'[q] = todo[q] /\ Looping(q)
    BY <1>1, <1>2, <1>3 DEF Commit, TypeOK, Looping, Writing
  <2>2. call[q] \in {"up", "down"}
    BY <1>2, <2>1 DEF GapInv, OrderlyInv, IInv, CallGoesOn, TypeOK, Looping, Writing
  <2> QED
    BY <1>1, <1>3, <2>1, <2>2 DEF GapInv, OrderlyInv, Alone
<1>4. CASE call[p] = "up"
  <2>1. todo[p] \subseteq Provided[p] /\ Provided[p] \subseteq tracked \cup todo[p]
    BY <1>2, <1>4 DEF GapInv, UpsKeep
  <2>2. tracked' = tracked \cup {m}
    BY <1>1, <1>4 DEF Moved
  <2>3. todo'[p] = todo[p] \ {m}
    BY <1>1, <1>2 DEF TypeOK
  <2>4. UpsKeep'
    <3> SUFFICES ASSUME NEW q \in Process, call'[q] = "up", Looping(q)'
                 PROVE  todo'[q] \subseteq Provided[q] /\ Provided[q] \subseteq tracked' \cup todo'[q]
      BY DEF UpsKeep
    <3>1. CASE q = p
      BY <2>1, <2>2, <2>3, <3>1
    <3>2. CASE q # p
      BY <1>2, <1>3, <2>2, <3>2 DEF GapInv, UpsKeep
    <3> QED
      BY <3>1, <3>2
  <2>5. DownsFromTheTop'
    BY <1>2, <1>3, <1>4 DEF DownsFromTheTop
  <2>6. ASSUME NEW n \in Name, n < m PROVE n \in tracked
    <3>1. n \in Provided[p]
      BY <1>1, <2>1, <2>6 DEF DeployedInOrder
    <3>2. n \in Nat /\ m \in Nat
      OBVIOUS
    <3>3. n \notin todo[p]
      BY <1>1, <1>4, <2>6, <3>2 DEF IsNext
    <3> QED
      BY <2>1, <3>1, <3>3
  <2>7. NoGap'
    BY <2>2, <2>6 DEF GapInv, NoGap
  <2> QED
    BY <2>4, <2>5, <2>7
<1>5. CASE call[p] = "down"
  <2>1. tracked' = tracked \ {m}
    BY <1>1, <1>5 DEF Moved
  <2>2. todo'[p] = todo[p] \ {m}
    BY <1>1, <1>2 DEF TypeOK
  <2>3. ASSUME NEW k \in Name, k \in tracked, k # m PROVE k < m
    <3>1. k \in Nat /\ m \in Nat
      OBVIOUS
    <3>2. CASE k \in todo[p]
      <4>1. Byte[k] <= Byte[m]
        BY <1>1, <1>5, <3>2 DEF IsNext
      <4>2. k <= m
        BY <4>1, SameOrders
      <4> QED
        BY <2>3, <3>1, <4>2
    <3>3. CASE k \notin todo[p]
      BY <1>1, <1>2, <1>5, <2>3, <3>3 DEF GapInv, DownsFromTheTop
    <3> QED
      BY <3>2, <3>3
  <2>4. UpsKeep'
    BY <1>2, <1>3, <1>5 DEF UpsKeep
  <2>5. DownsFromTheTop'
    <3> SUFFICES ASSUME NEW q \in Process, call'[q] = "down", Looping(q)',
                        NEW n \in Name, NEW k \in Name, n \in tracked' \ todo'[q], k \in todo'[q]
                 PROVE  n < k
      BY DEF DownsFromTheTop
    <3>1. q = p
      BY <1>3, <1>5, <1>2
    <3>2. n \in tracked \ todo[p] /\ k \in todo[p]
      BY <2>1, <2>2, <3>1
    <3> QED
      BY <1>2, <1>5, <3>2 DEF GapInv, DownsFromTheTop
  <2>6. NoGap'
    <3> SUFFICES ASSUME NEW k \in Name, NEW n \in Name, k \in tracked', n < k
                 PROVE  n \in tracked'
      BY DEF NoGap
    <3>1. k \in Nat /\ n \in Nat /\ m \in Nat
      OBVIOUS
    <3>2. k < m
      BY <2>1, <2>3
    <3>3. n \in tracked
      BY <2>1 DEF GapInv, NoGap
    <3> QED
      BY <2>1, <3>1, <3>2, <3>3
  <2> QED
    BY <2>4, <2>5, <2>6
<1> QED
  BY <1>1, <1>4, <1>5

\* A read finds the lists as they are to be.
LEMMA OthersLeaveNoGap ==
  ASSUME DeployedInOrder, GapInv, [Next]_vars, TypeOK, TypeOK', \A p \in Process : ~Commit(p)
  PROVE  UpsKeep' /\ DownsFromTheTop' /\ NoGap'
<1>1. UNCHANGED tracked
  BY OthersStand
<1>2. ASSUME NEW q \in Process, Looping(q)'
      PROVE  (UNCHANGED <<todo[q], call[q]>> /\ Looping(q)) \/ Read(q)
  BY <1>2, OthersStand
<1>3. ASSUME NEW q \in Process, Read(q) PROVE
        /\ call'[q] = "up" => /\ todo'[q] \subseteq Provided[q]
                              /\ Provided[q] \subseteq tracked \cup todo'[q]
        /\ call'[q] = "down" =>
             \A n \in Name, k \in Name : n \in tracked \ todo'[q] /\ k \in todo'[q] => n < k
  <2>1. call' = call /\ todo'[q] = IF call[q] = "up" THEN Provided[q] \ tracked ELSE AboveTarget(q)
    BY <1>3 DEF Read, TypeOK
  <2>2. ASSUME NEW n \in Name, NEW k \in Name, n \in tracked \ AboveTarget(q), k \in AboveTarget(q)
        PROVE  n < k
    <3>1. target[q] \in Name /\ ~(Byte[n] > Byte[target[q]]) /\ Byte[k] > Byte[target[q]]
      BY <2>2 DEF AboveTarget, TypeOK
    <3>2. Byte[n] \in Nat /\ Byte[k] \in Nat /\ Byte[target[q]] \in Nat /\ n \in Nat /\ k \in Nat
      BY <3>1
    <3>3. Byte[n] < Byte[k]
      BY <3>1, <3>2
    <3>4. n <= k
      BY <3>2, <3>3, SameOrders
    <3>5. n # k
      BY <3>2, <3>3
    <3> QED
      BY <3>2, <3>4, <3>5
  <2> QED
    BY <2>1, <2>2
<1>4. UpsKeep'
  BY <1>1, <1>2, <1>3 DEF GapInv, UpsKeep
<1>5. DownsFromTheTop'
  BY <1>1, <1>2, <1>3 DEF GapInv, DownsFromTheTop
<1> QED
  BY <1>1, <1>4, <1>5 DEF GapInv, NoGap

\* Where every process was deployed with a beginning of one list, migrations
\* are applied and undone in its order, and latest() names the last of them.
THEOREM AppliesInOrder ==
  ASSUME DeployedInOrder
  PROVE  OrderlySpec => []AppliedInOrder
<1>1. Init => GapInv
  BY OrderlyInit DEF Init, GapInv, UpsKeep, DownsFromTheTop, NoGap, Looping, Writing
<1>2. GapInv /\ [Next /\ Alone']_vars => GapInv'
  <2> SUFFICES ASSUME GapInv, [Next /\ Alone']_vars PROVE GapInv'
    OBVIOUS
  <2>1. OrderlyInv' /\ TypeOK /\ TypeOK' /\ [Next]_vars
    BY OrderlyStep DEF GapInv, OrderlyInv, IInv
  <2>2. CASE \E p \in Process : Commit(p)
    BY <2>1, <2>2, CommitLeavesNoGap DEF GapInv
  <2>3. CASE \A p \in Process : ~Commit(p)
    BY <2>1, <2>3, OthersLeaveNoGap DEF GapInv
  <2> QED
    BY <2>2, <2>3
<1>3. GapInv => AppliedInOrder
  <2> SUFFICES ASSUME GapInv PROVE AppliedInOrder
    OBVIOUS
  <2>1. tracked \subseteq Name
    BY DEF GapInv, OrderlyInv, IInv, TypeOK
  <2>2. \A m \in tracked, n \in Name : n < m => n \in tracked
    BY <2>1 DEF GapInv, NoGap
  <2>3. \A m \in Name : IsLatest(m) => \A n \in tracked : n <= m
    BY <2>1, SameOrders DEF IsLatest
  <2> QED
    BY <2>2, <2>3 DEF AppliedInOrder
<1> QED
  BY <1>1, <1>2, <1>3, PTL DEF OrderlySpec
=============================================================================
