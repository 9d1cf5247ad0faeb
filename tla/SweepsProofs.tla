---------------------------- MODULE SweepsProofs ----------------------------
(***************************************************************************)
(* Theorems about Sweeps, for every set of ids, every chunk size and any   *)
(* number of writes and retries.                                           *)
(***************************************************************************)
EXTENDS Sweeps, TLAPS, FiniteSetTheorems

\* The passes that go by ids, and those that live on rows leaving the scope.
Keyset == {"soft", "static", "functional"}
Plain  == {"hard", "archive"}

Rows == [Id -> Row \cup {NoRow}]

\* A row that was in scope all the time is in scope.
SteadyInv == steady \subseteq Matching

\* Everything up to the keyset has been treated.
KeysetInv ==
  kind \in Keyset \cup {"stream"} => \A i \in steady : i <= last => Treated(i)

\* What a chunk leaves out is behind the keyset, or behind a full chunk.
ChunkInv ==
  /\ pc = "selected" /\ kind \in Keyset =>
       \A i \in steady \ chunk : i > last => Cardinality(chunk) = Limit /\ \A j \in chunk : j < i
  /\ pc \in {"selected", "stored"} /\ kind \in Plain =>
       \A i \in steady \ chunk : Cardinality(chunk) = Limit

\* What an archive is about to remove is in the sink.
StoredInv == pc = "stored" /\ kind = "archive" => chunk \subseteq sink

\* A stream has yielded nothing beyond its keyset.
SeenInv == pc # "done" /\ kind = "stream" => \A i \in seen : i <= last

IInv == TypeOK /\ SteadyInv /\ KeysetInv /\ ChunkInv /\ StoredInv /\ SeenInv /\ NothingSkipped

-----------------------------------------------------------------------------
(* Chunks. *)

\* The rows a LIMIT may return: a full chunk, or all there are.
LEMMA LimitedTakesAll ==
  ASSUME NEW M \in SUBSET Id, NEW S, Limited(S, M)
  PROVE  /\ S \subseteq M /\ S \in SUBSET Id /\ Cardinality(S) \in Nat
         /\ Cardinality(S) = Limit \/ S = M
<1>1. IsFiniteSet(M)
  BY FS_Subset, SweepsAssumption
<1>2. /\ IsFiniteSet(S) /\ Cardinality(S) <= Cardinality(M)
      /\ Cardinality(S) = Cardinality(M) => S = M
  BY <1>1, FS_Subset DEF Limited
<1>3. Cardinality(S) \in Nat
  BY <1>2, FS_CardinalityType
<1> QED
  BY <1>2, <1>3 DEF Limited

\* In the order of ids, what is left out of a full chunk comes after it.
LEMMA FirstTakesAll ==
  ASSUME NEW M \in SUBSET Id, NEW S, First(S, M)
  PROVE  /\ S \subseteq M /\ S \in SUBSET Id /\ Cardinality(S) \in Nat
         /\ \A j \in M \ S : Cardinality(S) = Limit /\ \A i \in S : i < j
<1>1. Limited(S, M)
  BY DEF First
<1> QED
  BY <1>1, LimitedTakesAll DEF First

-----------------------------------------------------------------------------
(* What a statement does to the rows. *)

LEMMA Scopes ==
  ASSUME TypeOK
  PROVE  /\ Matching \in SUBSET Id /\ Beyond \in SUBSET Id /\ Present \in SUBSET Id
         /\ Matching \subseteq Present
         /\ \A i \in Present : table[i] \in Row
  BY DEF TypeOK, Matching, Beyond, Present

LEMMA Removing ==
  ASSUME TypeOK, NEW S \in SUBSET Id, Remove(S)
  PROVE  /\ table' \in Rows
         /\ steady' = steady \ S
         /\ SteadyInv => SteadyInv'
         /\ \A i \in Id \ S : table'[i] = table[i]
         /\ \A i \in S : table'[i] = NoRow
<1>1. table' = [i \in Id |-> IF i \in S THEN NoRow ELSE table[i]]
  BY DEF Remove, Set
<1>2. steady' = steady \ S
  BY DEF Remove, Set
<1>3. table' \in Rows
  BY <1>1 DEF TypeOK, Rows
<1>4. ASSUME SteadyInv PROVE SteadyInv'
  BY <1>1, <1>2, <1>4 DEF SteadyInv, Matching, Present, TypeOK
<1> QED
  BY <1>1, <1>2, <1>3, <1>4

LEMMA Marks ==
  ASSUME TypeOK, SteadyInv, NEW S \in SUBSET Id, S \subseteq Present, Mark(S)
  PROVE  /\ table' \in Rows
         /\ steady' = steady
         /\ SteadyInv'
         /\ \A i \in Id \ S : table'[i] = table[i]
         /\ \A i \in S : table'[i].mark = Marking
<1>1. table' = [i \in Id |-> IF i \in S THEN [table[i] EXCEPT !.mark = Marking] ELSE table[i]]
  BY DEF Mark, Set
<1>2. Marking \in {"soft", "anonymous"}
  BY DEF Marking
<1>3. \A i \in S : table[i] \in Row
  BY Scopes
<1>4. \A i \in S : /\ table'[i] \in Row
                   /\ table'[i].mark = Marking
                   /\ table'[i].scope = table[i].scope
  BY <1>1, <1>2, <1>3 DEF Row
<1>5. \A i \in Id \ S : table'[i] = table[i]
  BY <1>1
<1>6. table' \in Rows
  BY <1>1, <1>4, <1>5 DEF TypeOK, Rows
<1>7. \A i \in steady : table[i] # NoRow /\ table[i].scope
  BY DEF SteadyInv, Matching, Present
<1>8. \A i \in S : [table[i] EXCEPT !.mark = Marking] = table'[i]
  BY <1>1
<1>9. steady' = {i \in steady : i \in S => table'[i] # NoRow /\ table'[i].scope}
  BY <1>8 DEF Mark, Set
<1>10. steady' = steady
  BY <1>4, <1>7, <1>9, SweepsAssumption
<1>11. SteadyInv'
  BY <1>4, <1>5, <1>7, <1>10, SweepsAssumption DEF SteadyInv, Matching, Present, TypeOK
<1> QED
  BY <1>4, <1>5, <1>6, <1>10, <1>11

LEMMA Writes ==
  ASSUME TypeOK, SteadyInv, NEW i \in Id, Write(i)
  PROVE  /\ table' \in Rows
         /\ steady' \subseteq steady
         /\ SteadyInv'
         /\ \A j \in steady' : table'[j].mark = table[j].mark
<1>1. CASE i \in Present /\ Remove({i})
  <2>1. {i} \in SUBSET Id
    OBVIOUS
  <2> QED
    BY <1>1, <2>1, Removing DEF SteadyInv, Matching, Present
<1>2. CASE i \in Present /\ Set({i}, [j \in {i} |-> [table[i] EXCEPT !.scope = ~@]])
  <2> DEFINE r == [table[i] EXCEPT !.scope = ~@]
  <2>1. r \in Row /\ r # NoRow /\ r.mark = table[i].mark
    BY <1>2, Scopes, SweepsAssumption DEF Row
  <2> HIDE DEF r
  <2>2. Set({i}, [j \in {i} |-> r])
    BY <1>2 DEF r
  <2>3. /\ table' = [k \in Id |-> IF k = i THEN r ELSE table[k]]
        /\ steady' = {k \in steady : k = i => r # NoRow /\ r.scope}
    BY <2>2 DEF Set
  <2>4. table' \in Rows
    BY <2>1, <2>3 DEF TypeOK, Rows
  <2>5. SteadyInv'
    BY <2>1, <2>3 DEF SteadyInv, Matching, Present, TypeOK
  <2> QED
    BY <2>1, <2>3, <2>4, <2>5 DEF TypeOK
<1>3. ASSUME NEW s \in BOOLEAN, i \notin Present,
             Set({i}, [j \in {i} |-> [scope |-> s, mark |-> "none"]])
      PROVE  /\ table' \in Rows
             /\ steady' \subseteq steady
             /\ SteadyInv'
             /\ \A j \in steady' : table'[j].mark = table[j].mark
  <2> DEFINE r == [scope |-> s, mark |-> "none"]
  <2>1. r \in Row
    BY DEF Row
  <2> HIDE DEF r
  <2>2. Set({i}, [j \in {i} |-> r])
    BY <1>3 DEF r
  <2>3. /\ table' = [k \in Id |-> IF k = i THEN r ELSE table[k]]
        /\ steady' = {k \in steady : k = i => r # NoRow /\ r.scope}
    BY <2>2 DEF Set
  <2>4. table' \in Rows
    BY <2>1, <2>3 DEF TypeOK, Rows
  <2>5. i \notin steady
    BY <1>3 DEF SteadyInv, Matching
  <2>6. SteadyInv'
    BY <2>3, <2>5 DEF SteadyInv, Matching, Present, TypeOK
  <2> QED
    BY <2>3, <2>4, <2>5, <2>6 DEF TypeOK
<1> QED
  BY <1>1, <1>2, <1>3 DEF Write

-----------------------------------------------------------------------------
(* What is true of every step. *)

\* The steps that leave the rows alone.
Reads == \/ \E S \in SUBSET Id : HardSelect(S) \/ KeysetSelect(S) \/ ReadChunk(S)
                                   \/ FetchAscending(S) \/ FetchDescending(S)
         \/ SinkStores \/ StatementFails \/ Throws \/ FetchFails

LEMMA ReadsKeep ==
  ASSUME Reads PROVE UNCHANGED <<table, kind, steady, written>> /\ seen \subseteq seen'
<1>1. ASSUME NEW S \in SUBSET Id,
             HardSelect(S) \/ KeysetSelect(S) \/ ReadChunk(S) \/ FetchAscending(S) \/ FetchDescending(S)
      PROVE  UNCHANGED <<table, kind, steady, written>> /\ seen \subseteq seen'
  BY <1>1 DEF HardSelect, KeysetSelect, ReadChunk, FetchAscending, FetchDescending, Batch
<1>2. CASE SinkStores \/ StatementFails \/ Throws \/ FetchFails
  BY <1>2 DEF SinkStores, StatementFails, Throws, FetchFails
<1> QED
  BY <1>1, <1>2 DEF Reads

\* The steps that write rows write some set of them.
LEMMA Removers ==
  ASSUME TypeOK, HardDelete \/ DeleteChunk \/ \E S \in SUBSET Id : HardChunk(S)
  PROVE  /\ UNCHANGED <<kind, last, sink, seen, written>> /\ kind \in Plain
         /\ \E D \in SUBSET Matching : Remove(D)
<1>1. CASE HardDelete \/ DeleteChunk
  <2>1. PICK D \in SUBSET Matching : D = chunk \cap Matching
    OBVIOUS
  <2>2. Remove(D)
    BY <1>1, <2>1 DEF HardDelete, DeleteChunk, Remove, Set
  <2> QED
    BY <1>1, <2>1, <2>2 DEF HardDelete, DeleteChunk, Plain
<1>2. ASSUME NEW S \in SUBSET Id, HardChunk(S)
      PROVE  /\ UNCHANGED <<kind, last, sink, seen, written>> /\ kind \in Plain
             /\ \E D \in SUBSET Matching : Remove(D)
  BY <1>2 DEF HardChunk, Limited, Plain
<1> QED
  BY <1>1, <1>2

LEMMA Markers ==
  ASSUME TypeOK, MarkMany \/ MarkEach \/ \E S \in SUBSET Id : SoftChunk(S)
  PROVE  /\ UNCHANGED <<kind, sink, seen, written>> /\ kind \in Keyset
         /\ \E D \in SUBSET Present : Mark(D)
<1>1. CASE MarkMany
  <2>1. PICK D \in SUBSET Present : D = chunk \cap Matching
    BY Scopes
  <2>2. Mark(D)
    BY <1>1, <2>1 DEF MarkMany, Mark, Set
  <2> QED
    BY <1>1, <2>1, <2>2 DEF MarkMany, Keyset
<1>2. CASE MarkEach
  <2>1. PICK D \in SUBSET Present : D = chunk \cap Present
    OBVIOUS
  <2>2. Mark(D)
    BY <1>2, <2>1 DEF MarkEach, Mark, Set
  <2> QED
    BY <1>2, <2>1, <2>2 DEF MarkEach, Keyset
<1>3. ASSUME NEW S \in SUBSET Id, SoftChunk(S)
      PROVE  /\ UNCHANGED <<kind, sink, seen, written>> /\ kind \in Keyset
             /\ \E D \in SUBSET Present : Mark(D)
  <2>1. S \subseteq Beyond
    BY <1>3 DEF SoftChunk, First, Limited
  <2>2. S \subseteq Present
    BY <2>1 DEF Beyond, Matching
  <2> QED
    BY <1>3, <2>2 DEF SoftChunk, Keyset
<1> QED
  BY <1>1, <1>2, <1>3

LEMMA StepCases ==
  ASSUME Step
  PROVE  \/ Reads
         \/ HardDelete \/ DeleteChunk \/ \E S \in SUBSET Id : HardChunk(S)
         \/ MarkMany \/ MarkEach \/ \E S \in SUBSET Id : SoftChunk(S)
  BY Zenon DEF Step, Reads

\* Whatever happens, steady rows are in scope, and what was treated stays so.
LEMMA Effects ==
  ASSUME TypeOK, SteadyInv, [Next]_vars
  PROVE  /\ table' \in Rows /\ steady' \subseteq steady /\ SteadyInv' /\ kind' = kind
         /\ \A i \in steady' : Treated(i) => Treated(i)'
<1>1. CASE Reads
  BY <1>1, ReadsKeep DEF SteadyInv, Matching, Present, TypeOK, Rows, Treated
<1>2. CASE HardDelete \/ DeleteChunk \/ \E S \in SUBSET Id : HardChunk(S)
  <2>1. PICK D \in SUBSET Matching : Remove(D)
    BY <1>2, Removers
  <2>2. UNCHANGED <<kind, seen>> /\ D \in SUBSET Id
    BY <1>2, Removers, Scopes
  <2>3. \A i \in steady' : table'[i] = table[i]
    BY <2>1, <2>2, Removing DEF SteadyInv, Matching, Present
  <2> QED
    BY <2>1, <2>2, <2>3, Removing DEF Treated
<1>3. CASE MarkMany \/ MarkEach \/ \E S \in SUBSET Id : SoftChunk(S)
  <2>1. PICK D \in SUBSET Present : Mark(D)
    BY <1>3, Markers
  <2>2. UNCHANGED <<kind, seen>> /\ D \in SUBSET Id /\ kind \in Keyset
    BY <1>3, Markers, Scopes
  <2>3. \A i \in steady' : table'[i] = table[i] \/ table'[i].mark = Marking
    BY <2>1, <2>2, Marks DEF SteadyInv, Matching, Present
  <2>4. \A i \in steady' : Treated(i) => Treated(i)'
    BY <2>2, <2>3 DEF Treated, Marking, Keyset
  <2> QED
    BY <2>1, <2>2, <2>4, Marks
<1>4. ASSUME NEW i \in Id, Write(i)
      PROVE  /\ table' \in Rows /\ steady' \subseteq steady /\ SteadyInv' /\ kind' = kind
             /\ \A j \in steady' : Treated(j) => Treated(j)'
  BY <1>4, Writes DEF Write, Treated
<1>5. CASE UNCHANGED vars
  BY <1>5 DEF vars, SteadyInv, Matching, Present, TypeOK, Rows, Treated
<1> QED
  BY <1>1, <1>2, <1>3, <1>4, <1>5, StepCases DEF Next

-----------------------------------------------------------------------------
(* Types. *)

\* What the loop makes of its own variables.
Loop ==
  /\ pc \in {"idle", "fallback", "selected", "stored", "done", "failed"}
  /\ last \in Id \cup {0}
  /\ chunk \subseteq Id /\ sink \subseteq Id /\ seen \subseteq Id
  /\ retries \in 0 .. MaxRetries

LEMMA Outcomes ==
  ASSUME Loop, NEW S \in SUBSET Id, Report(S) \/ Thrown \/ Select(S)
  PROVE  /\ pc' \in {"idle", "selected", "done", "failed"}
         /\ chunk' \subseteq Id
         /\ retries' \in 0 .. MaxRetries
<1>1. CASE Report(S)
  BY <1>1 DEF Report, Loop
<1>2. CASE Thrown
  BY <1>2, SweepsAssumption DEF Thrown, Loop
<1>3. CASE Select(S)
  BY <1>3 DEF Select, Report, Loop
<1> QED
  BY <1>1, <1>2, <1>3

LEMMA Advances ==
  ASSUME Loop, NEW S \in SUBSET Id, Advance(S) \/ ToHighest(S) \/ ToLowest(S)
  PROVE  last' \in Id \cup {0}
  BY DEF Advance, ToHighest, ToLowest, Loop

LEMMA LoopStep ==
  ASSUME TypeOK, [Next]_vars
  PROVE  Loop' /\ written' \in 0 .. MaxWrites
<1>1. Loop
  BY DEF Loop, TypeOK
<1>2. PICK C \in SUBSET Id : C = chunk
  BY DEF TypeOK
<1>3. ASSUME NEW S \in SUBSET Id, HardChunk(S) \/ HardSelect(S) \/ KeysetSelect(S) \/ ReadChunk(S)
      PROVE  Loop' /\ written' \in 0 .. MaxWrites
  <2>1. \/ Report(S) \/ Select(S)
        \/ pc' = "fallback" /\ UNCHANGED <<chunk, retries>>
    BY <1>3 DEF HardChunk, HardSelect, KeysetSelect, ReadChunk
  <2>2. UNCHANGED <<last, sink, seen, written>>
    BY <1>3 DEF HardChunk, HardSelect, KeysetSelect, ReadChunk
  <2>3. /\ pc' \in {"idle", "fallback", "selected", "done", "failed"}
        /\ chunk' \subseteq Id /\ retries' \in 0 .. MaxRetries
    BY <1>1, <2>1, Outcomes DEF Loop
  <2> QED
    BY <1>1, <2>2, <2>3 DEF Loop, TypeOK
<1>4. ASSUME NEW S \in SUBSET Id, SoftChunk(S)
      PROVE  Loop' /\ written' \in 0 .. MaxWrites
  <2>1. \/ Advance(S) /\ Report(S)
        \/ pc' = "fallback" /\ UNCHANGED <<last, chunk, retries>>
    BY <1>4 DEF SoftChunk
  <2>2. UNCHANGED <<sink, seen, written>>
    BY <1>4 DEF SoftChunk
  <2>3. /\ pc' \in {"idle", "fallback", "selected", "done", "failed"}
        /\ chunk' \subseteq Id /\ retries' \in 0 .. MaxRetries
        /\ last' \in Id \cup {0}
    BY <1>1, <2>1, Outcomes, Advances DEF Loop
  <2> QED
    BY <1>1, <2>2, <2>3 DEF Loop, TypeOK
<1>5. ASSUME NEW S \in SUBSET Id, FetchAscending(S) \/ FetchDescending(S)
      PROVE  Loop' /\ written' \in 0 .. MaxWrites
  <2>1. Batch(S) /\ (UNCHANGED last \/ ToHighest(S) \/ ToLowest(S))
    BY <1>5 DEF FetchAscending, FetchDescending
  <2>2. last' \in Id \cup {0}
    BY <1>1, <2>1, Advances DEF Loop
  <2> QED
    BY <1>1, <2>1, <2>2 DEF Batch, Loop, TypeOK
<1>6. CASE HardDelete \/ DeleteChunk
  <2>1. /\ Report(C) \/ Thrown
        /\ UNCHANGED <<last, sink, seen, written>>
    BY <1>2, <1>6 DEF HardDelete, DeleteChunk, Report
  <2> QED
    BY <1>1, <2>1, Outcomes DEF Loop, TypeOK
<1>7. CASE MarkMany \/ MarkEach
  <2>1. /\ \/ Advance(C) /\ Report(C)
           \/ Thrown /\ UNCHANGED last
        /\ UNCHANGED <<sink, seen, written>>
    BY <1>2, <1>7 DEF MarkMany, MarkEach, Report, Advance, ToHighest
  <2>2. last' \in Id \cup {0}
    BY <1>1, <2>1, Advances DEF Loop
  <2> QED
    BY <1>1, <2>1, <2>2, Outcomes DEF Loop, TypeOK
<1>8. CASE SinkStores
  <2>1. \/ pc' = "stored" /\ UNCHANGED <<chunk, retries>>
        \/ Thrown
    BY <1>8 DEF SinkStores
  <2>2. /\ pc' \in {"idle", "selected", "stored", "done", "failed"}
        /\ chunk' \subseteq Id /\ retries' \in 0 .. MaxRetries
    BY <1>1, <2>1, Outcomes DEF Loop
  <2> QED
    BY <1>1, <1>8, <2>2 DEF SinkStores, Loop, TypeOK
<1>9. CASE Throws
  BY <1>1, <1>9, Outcomes DEF Throws, Loop, TypeOK
<1>10. CASE StatementFails \/ FetchFails
  BY <1>10 DEF StatementFails, FetchFails, Loop, TypeOK
<1>11. ASSUME NEW i \in Id, Write(i) PROVE Loop' /\ written' \in 0 .. MaxWrites
  BY <1>11, SweepsAssumption DEF Write, Loop, TypeOK
<1>12. CASE UNCHANGED vars
  BY <1>12 DEF vars, Loop, TypeOK
<1> QED
  BY <1>3, <1>4, <1>5, <1>6, <1>7, <1>8, <1>9, <1>10, <1>11, <1>12 DEF Next, Step

LEMMA TypeStep ==
  ASSUME TypeOK, SteadyInv, [Next]_vars
  PROVE  TypeOK' /\ SteadyInv'
<1>1. /\ table' \in Rows /\ steady' \subseteq steady /\ SteadyInv' /\ kind' = kind
  BY Effects
<1> QED
  BY <1>1, LoopStep DEF Loop, TypeOK, Rows

-----------------------------------------------------------------------------
(* The keyset and the chunks. *)

Progress == KeysetInv /\ ChunkInv /\ StoredInv /\ SeenInv /\ NothingSkipped

\* A chunk that is not full is everything there was.
LEMMA DoneMeansAll ==
  ASSUME NEW S \in SUBSET Id, Report(S), pc' = "done"
  PROVE  Cardinality(S) # Limit
<1>1. S = {} \/ Cardinality(S) < Limit
  BY DEF Report
<1>2. Cardinality({}) = 0
  BY FS_EmptySet
<1>3. Limit \in Nat \ {0}
  BY SweepsAssumption
<1>4. IsFiniteSet(S) /\ Cardinality(S) \in Nat
  BY FS_Subset, FS_CardinalityType, SweepsAssumption
<1>5. CASE S = {}
  BY <1>2, <1>3, <1>5
<1>6. CASE Cardinality(S) < Limit
  BY <1>3, <1>4, <1>6
<1> QED
  BY <1>1, <1>5, <1>6

\* Steps that leave the pass where it is, or end it without success.
LEMMA Still ==
  ASSUME IInv, [Next]_vars,
         UNCHANGED last,
         UNCHANGED seen \/ kind # "stream",
         \/ UNCHANGED <<pc, chunk, sink>>
         \/ pc' \in {"idle", "fallback", "failed"} /\ pc # "done"
  PROVE  Progress'
<1>1. /\ steady' \subseteq steady /\ kind' = kind
      /\ \A i \in steady' : Treated(i) => Treated(i)'
  BY Effects DEF IInv
<1>2. KeysetInv'
  BY <1>1 DEF IInv, KeysetInv
<1>3. ChunkInv'
  BY <1>1 DEF IInv, ChunkInv
<1>4. StoredInv' /\ SeenInv'
  BY <1>1 DEF IInv, StoredInv, SeenInv
<1>5. NothingSkipped'
  BY <1>1 DEF IInv, NothingSkipped
<1> QED
  BY <1>2, <1>3, <1>4, <1>5 DEF Progress

\* Marking a chunk in the order of ids.
LEMMA KeysetChunk ==
  ASSUME IInv, [Next]_vars, NEW S \in SUBSET Id, kind \in Keyset, pc # "done",
         \A i \in steady \ S : i > last => Cardinality(S) = Limit /\ \A j \in S : j < i,
         \A i \in steady' : i \in S => Treated(i)',
         Advance(S), Report(S)
  PROVE  Progress'
<1>1. /\ steady' \subseteq steady /\ kind' = kind /\ kind # "stream" /\ kind \notin Plain
      /\ \A i \in steady' : Treated(i) => Treated(i)'
  BY Effects DEF IInv, Keyset, Plain
<1>2. /\ \A i \in steady : i \in Nat
      /\ last \in Nat
  BY SweepsAssumption DEF IInv, TypeOK
<1>3. ASSUME NEW i \in steady', i <= last' PROVE Treated(i)'
  <2>1. CASE i <= last
    BY <1>1, <2>1 DEF IInv, KeysetInv
  <2>2. CASE i \in S
    BY <2>2
  <2>3. CASE ~(i <= last) /\ i \notin S
    <3>1. \A j \in S : j < i
      BY <1>1, <1>2, <2>3
    <3>2. last' \in S
      BY <1>3, <2>3 DEF Advance, ToHighest
    <3> QED
      BY <1>1, <1>2, <1>3, <3>1, <3>2, SweepsAssumption
  <2> QED
    BY <2>1, <2>2, <2>3
<1>4. ASSUME pc' = "done", NEW i \in steady' PROVE Treated(i)'
  <2>1. Cardinality(S) # Limit
    BY <1>4, DoneMeansAll
  <2>2. i <= last \/ i \in S
    BY <1>1, <1>2, <2>1
  <2> QED
    BY <1>1, <2>2 DEF IInv, KeysetInv
<1>5. pc' \in {"idle", "done"}
  BY DEF Report
<1>6. ChunkInv' /\ StoredInv' /\ SeenInv'
  BY <1>1, <1>5 DEF ChunkInv, StoredInv, SeenInv
<1> QED
  BY <1>3, <1>4, <1>6 DEF Progress, KeysetInv, NothingSkipped

\* Removing a chunk.
LEMMA PlainChunk ==
  ASSUME IInv, [Next]_vars, NEW S \in SUBSET Id, kind \in Plain,
         \A i \in steady \ S : Cardinality(S) = Limit,
         \A i \in steady' : i \notin S,
         Report(S)
  PROVE  Progress'
<1>1. /\ steady' \subseteq steady /\ kind' = kind /\ kind # "stream" /\ kind \notin Keyset
  BY Effects DEF IInv, Keyset, Plain
<1>2. ASSUME pc' = "done" PROVE steady' = {}
  BY <1>1, <1>2, DoneMeansAll
<1>3. pc' \in {"idle", "done"}
  BY DEF Report
<1> QED
  BY <1>1, <1>2, <1>3 DEF Progress, KeysetInv, ChunkInv, StoredInv, SeenInv, NothingSkipped

LEMMA HardChunkStep ==
  ASSUME IInv, [Next]_vars, NEW S \in SUBSET Id, HardChunk(S) PROVE Progress'
<1>1. /\ kind \in Plain /\ kind # "stream" /\ pc = "idle"
      /\ Limited(S, Matching) /\ Remove(S) /\ UNCHANGED last
  BY DEF HardChunk, Plain
<1>2. CASE pc' = "fallback"
  BY <1>1, <1>2, Still
<1>3. CASE Report(S)
  <2>1. Cardinality(S) = Limit \/ S = Matching
    BY <1>1, LimitedTakesAll, Scopes DEF IInv
  <2>2. \A i \in steady' : i \notin S
    BY <1>1, Removing DEF IInv
  <2>3. \A i \in steady \ S : Cardinality(S) = Limit
    BY <2>1 DEF IInv, SteadyInv
  <2> QED
    BY <1>1, <1>3, <2>2, <2>3, PlainChunk
<1> QED
  BY <1>2, <1>3 DEF HardChunk

LEMMA SoftChunkStep ==
  ASSUME IInv, [Next]_vars, NEW S \in SUBSET Id, SoftChunk(S) PROVE Progress'
<1>1. /\ kind = "soft" /\ kind \in Keyset /\ kind # "stream" /\ pc = "idle"
      /\ First(S, Beyond) /\ Mark(S)
  BY DEF SoftChunk, Keyset
<1>2. CASE pc' = "fallback" /\ UNCHANGED last
  BY <1>1, <1>2, Still
<1>3. CASE Advance(S) /\ Report(S)
  <2>1. /\ S \subseteq Beyond
        /\ \A j \in Beyond \ S : Cardinality(S) = Limit /\ \A i \in S : i < j
    BY <1>1, FirstTakesAll, Scopes DEF IInv
  <2>2. \A i \in steady \ S : i > last => Cardinality(S) = Limit /\ \A j \in S : j < i
    BY <2>1 DEF IInv, SteadyInv, Beyond
  <2>3. S \subseteq Present
    BY <2>1 DEF Beyond, Matching
  <2>4. \A i \in S : table'[i].mark = Marking
    BY <1>1, <2>3, Marks DEF IInv
  <2>5. kind' = kind
    BY Effects DEF IInv
  <2>6. \A i \in steady' : i \in S => Treated(i)'
    BY <1>1, <2>4, <2>5 DEF Treated, Marking
  <2> QED
    BY <1>1, <1>3, <2>2, <2>6, KeysetChunk
<1> QED
  BY <1>2, <1>3 DEF SoftChunk

LEMMA PlainSelectStep ==
  ASSUME IInv, [Next]_vars, NEW S \in SUBSET Id, HardSelect(S) \/ ReadChunk(S) PROVE Progress'
<1>1. /\ kind \in Plain /\ kind # "stream" /\ kind \notin Keyset /\ pc # "done"
      /\ Limited(S, Matching) /\ Select(S) /\ UNCHANGED <<last, steady>>
  BY DEF HardSelect, ReadChunk, First, Plain, Keyset
<1>2. /\ Cardinality(S) = Limit \/ S = Matching
      /\ steady \subseteq Matching
  BY <1>1, LimitedTakesAll, Scopes DEF IInv, SteadyInv
<1>3. CASE S = {} /\ Report({})
  <2>1. Report(S)
    BY <1>3
  <2>2. \A i \in steady' : i \notin S
    BY <1>3
  <2> QED
    BY <1>1, <1>2, <2>1, <2>2, PlainChunk
<1>4. CASE pc' = "selected" /\ chunk' = S
  <2>1. kind' = kind
    BY Effects DEF IInv
  <2>2. ChunkInv'
    BY <1>1, <1>2, <1>4, <2>1 DEF ChunkInv
  <2> QED
    BY <1>1, <1>4, <2>1, <2>2 DEF Progress, KeysetInv, StoredInv, SeenInv, NothingSkipped
<1> QED
  BY <1>1, <1>3, <1>4 DEF Select

LEMMA KeysetSelectStep ==
  ASSUME IInv, [Next]_vars, NEW S \in SUBSET Id, KeysetSelect(S) PROVE Progress'
<1>1. /\ kind \in Keyset /\ kind # "stream" /\ kind \notin Plain /\ pc # "done"
      /\ First(S, Beyond) /\ Select(S) /\ UNCHANGED <<table, kind, last, seen, steady>>
  BY DEF KeysetSelect, Plain, Keyset
<1>2. \A j \in Beyond \ S : Cardinality(S) = Limit /\ \A i \in S : i < j
  BY <1>1, FirstTakesAll, Scopes DEF IInv
<1>3. \A i \in steady \ S : i > last => Cardinality(S) = Limit /\ \A j \in S : j < i
  BY <1>2 DEF IInv, SteadyInv, Beyond
<1>4. CASE S = {} /\ Report({})
  <2>1. Report(S) /\ Advance(S)
    BY <1>1, <1>4 DEF Advance
  <2>2. \A i \in steady' : i \in S => Treated(i)'
    BY <1>4
  <2> QED
    BY <1>1, <1>3, <2>1, <2>2, KeysetChunk
<1>5. CASE pc' = "selected" /\ chunk' = S
  <2>1. ChunkInv'
    BY <1>1, <1>3, <1>5 DEF ChunkInv
  <2>2. KeysetInv'
    BY <1>1 DEF IInv, KeysetInv, Treated
  <2> QED
    BY <1>1, <1>5, <2>1, <2>2 DEF Progress, StoredInv, SeenInv, NothingSkipped
<1> QED
  BY <1>1, <1>4, <1>5 DEF Select

LEMMA PlainDeleteStep ==
  ASSUME IInv, [Next]_vars, HardDelete \/ DeleteChunk PROVE Progress'
<1>1. /\ kind \in Plain /\ kind # "stream" /\ pc \in {"selected", "stored"} /\ UNCHANGED <<last, seen>>
      /\ Report(chunk) \/ Thrown
  BY DEF HardDelete, DeleteChunk, Plain
<1>2. CASE Thrown
  BY <1>1, <1>2, Still DEF Thrown
<1>3. CASE Report(chunk)
  <2>1. PICK C \in SUBSET Id : C = chunk
    BY DEF IInv, TypeOK
  <2>2. PICK D \in SUBSET Id : D = chunk \cap Matching
    BY <2>1
  <2>3. Remove(D)
    BY <2>2 DEF HardDelete, DeleteChunk, Remove, Set
  <2>4. steady' = steady \ D /\ steady \subseteq Matching
    BY <2>3, Removing DEF IInv, SteadyInv
  <2>5. \A i \in steady' : i \notin C
    BY <2>1, <2>2, <2>4
  <2>6. \A i \in steady \ C : Cardinality(C) = Limit
    BY <1>1, <2>1 DEF IInv, ChunkInv
  <2>7. Report(C)
    BY <1>3, <2>1 DEF Report
  <2> QED
    BY <1>1, <2>5, <2>6, <2>7, PlainChunk
<1> QED
  BY <1>1, <1>2, <1>3

LEMMA MarkStep ==
  ASSUME IInv, [Next]_vars, MarkMany \/ MarkEach PROVE Progress'
<1>1. /\ kind \in Keyset /\ kind # "stream" /\ pc = "selected" /\ UNCHANGED <<kind, seen>>
      /\ \/ Advance(chunk) /\ Report(chunk)
         \/ Thrown /\ UNCHANGED last
  BY DEF MarkMany, MarkEach, Keyset
<1>2. CASE Thrown /\ UNCHANGED last
  BY <1>1, <1>2, Still DEF Thrown
<1>3. CASE Advance(chunk) /\ Report(chunk)
  <2>1. PICK C \in SUBSET Id : C = chunk
    BY DEF IInv, TypeOK
  <2>2. \A i \in steady \ C : i > last => Cardinality(C) = Limit /\ \A j \in C : j < i
    BY <1>1, <2>1 DEF IInv, ChunkInv
  <2>3. PICK D \in SUBSET Present : Mark(D) /\ C \cap Matching \subseteq D
    <3>1. PICK E \in SUBSET Present : E = IF MarkMany THEN chunk \cap Matching ELSE chunk \cap Present
      BY Scopes DEF IInv
    <3>2. Mark(E)
      BY <3>1 DEF MarkMany, MarkEach, Mark, Set
    <3> QED
      BY <2>1, <3>1, <3>2, Scopes DEF IInv
  <2>4. D \in SUBSET Id
    BY <2>3, Scopes DEF IInv
  <2>5. steady' \subseteq Matching /\ \A i \in D : table'[i].mark = Marking
    BY <2>3, <2>4, Marks DEF IInv, SteadyInv
  <2>6. \A i \in steady' : i \in C => Treated(i)'
    BY <1>1, <2>3, <2>5 DEF Treated, Marking, Keyset
  <2>7. Advance(C) /\ Report(C)
    BY <1>3, <2>1 DEF Advance, ToHighest, Report
  <2> QED
    BY <1>1, <2>2, <2>6, <2>7, KeysetChunk
<1> QED
  BY <1>1, <1>2, <1>3

LEMMA FetchStep ==
  ASSUME IInv, [Next]_vars, NEW S \in SUBSET Id, FetchAscending(S) \/ FetchDescending(S)
  PROVE  Progress'
<1>1. /\ kind \in {"stream", "descending"} /\ pc = "idle" /\ Batch(S) /\ UNCHANGED <<kind, steady>>
  BY DEF FetchAscending, FetchDescending, Batch
<1>2. pc' \in {"idle", "done"} /\ (pc' = "done" <=> Cardinality(S) < Limit)
  BY <1>1 DEF Batch
<1>3. ChunkInv' /\ StoredInv'
  BY <1>2 DEF ChunkInv, StoredInv
<1>4. CASE kind = "descending"
  BY <1>1, <1>3, <1>4 DEF Progress, KeysetInv, SeenInv, NothingSkipped, Keyset
<1>5. CASE kind = "stream"
  <2>1. /\ First(S, Beyond)
        /\ IF Cardinality(S) < Limit THEN UNCHANGED last ELSE ToHighest(S)
        /\ seen' = seen \cup S
    BY <1>5 DEF FetchAscending, FetchDescending, Batch
  <2>2. /\ S \subseteq Beyond /\ Cardinality(S) \in Nat
        /\ \A j \in Beyond \ S : Cardinality(S) = Limit /\ \A i \in S : i < j
    BY <2>1, FirstTakesAll, Scopes DEF IInv
  <2>3. /\ \A i \in steady \ S : i > last => Cardinality(S) = Limit /\ \A j \in S : j < i
        /\ \A i \in steady : i <= last => i \in seen
        /\ \A i \in seen : i <= last
    BY <1>1, <1>5, <2>2 DEF IInv, SteadyInv, KeysetInv, SeenInv, Beyond, Treated
  <2>4. Limit \in Nat /\ last \in Nat /\ \A i \in Id : i \in Nat
    BY SweepsAssumption DEF IInv, TypeOK
  <2>5. steady \subseteq Id /\ seen \subseteq Id /\ \A i \in S : i > last
    BY <2>2 DEF IInv, TypeOK, Beyond
  <2>6. CASE Cardinality(S) < Limit
    <3>1. \A i \in steady : i \in seen'
      BY <2>1, <2>2, <2>3, <2>4, <2>5, <2>6
    <3> QED
      BY <1>1, <1>2, <1>3, <1>5, <2>6, <3>1 DEF Progress, KeysetInv, SeenInv, NothingSkipped, Treated
  <2>7. CASE ~(Cardinality(S) < Limit)
    <3>1. PICK m \in S : last' = m /\ \A j \in S : j <= m
      BY <2>1, <2>7 DEF ToHighest
    <3>2. \A i \in seen' : i <= last'
      BY <2>1, <2>3, <2>4, <2>5, <3>1
    <3>3. ASSUME NEW i \in steady, i <= m PROVE i \in seen'
      BY <2>1, <2>3, <2>4, <2>5, <3>1, <3>3
    <3>4. \A i \in steady' : i <= last' => i \in seen'
      BY <1>1, <3>1, <3>3
    <3> QED
      BY <1>1, <1>2, <1>3, <1>5, <2>7, <3>2, <3>4 DEF Progress, KeysetInv, SeenInv, NothingSkipped, Treated
  <2> QED
    BY <2>6, <2>7
<1> QED
  BY <1>1, <1>4, <1>5

LEMMA OtherSteps ==
  ASSUME IInv, [Next]_vars,
         \/ SinkStores \/ StatementFails \/ Throws \/ FetchFails
         \/ \E i \in Id : Write(i)
         \/ UNCHANGED vars
  PROVE  Progress'
<1>1. CASE SinkStores
  <2>1. /\ kind = "archive" /\ kind # "stream" /\ kind \notin Keyset /\ kind \in Plain
        /\ pc = "selected" /\ sink' = sink \cup chunk /\ UNCHANGED <<kind, last, seen, steady>>
    BY <1>1 DEF SinkStores, Keyset, Plain
  <2>2. CASE Thrown
    BY <2>1, <2>2, Still DEF Thrown
  <2>3. CASE pc' = "stored" /\ UNCHANGED chunk
    <3>1. ChunkInv' /\ StoredInv'
      BY <2>1, <2>3 DEF IInv, ChunkInv, StoredInv
    <3> QED
      BY <2>1, <2>3, <3>1 DEF Progress, KeysetInv, SeenInv, NothingSkipped
  <2> QED
    BY <1>1, <2>2, <2>3 DEF SinkStores
<1>2. CASE StatementFails \/ FetchFails
  BY <1>2, Still DEF StatementFails, FetchFails
<1>3. CASE Throws
  <2>1. pc # "done" /\ pc' \in {"idle", "failed"} /\ UNCHANGED <<last, seen>>
    BY <1>3 DEF Throws, Thrown
  <2> QED
    BY <2>1, Still
<1>4. CASE \E i \in Id : Write(i)
  BY <1>4, Still DEF Write
<1>5. CASE UNCHANGED vars
  BY <1>5, Still DEF vars
<1> QED
  BY <1>1, <1>2, <1>3, <1>4, <1>5

-----------------------------------------------------------------------------
(* Theorems. *)

LEMMA InitInv == Init => IInv
<1> SUFFICES ASSUME Init PROVE IInv
  OBVIOUS
<1>1. \A r \in [scope : BOOLEAN, mark : {"none"}] : r \in Row
  BY DEF Row
<1>2. table \in Rows
  BY <1>1 DEF Init, Rows
<1>3. TypeOK
  BY <1>2, SweepsAssumption DEF Init, TypeOK, Rows, Matching, Present
<1>4. \A i \in steady : ~(i <= last)
  BY <1>3, SweepsAssumption DEF Init, TypeOK
<1> QED
  BY <1>3, <1>4 DEF Init, IInv, SteadyInv, KeysetInv, ChunkInv, StoredInv, SeenInv, NothingSkipped

LEMMA StepInv == IInv /\ [Next]_vars => IInv'
<1> SUFFICES ASSUME IInv, [Next]_vars PROVE IInv'
  OBVIOUS
<1>1. TypeOK' /\ SteadyInv'
  BY TypeStep DEF IInv
<1>2. Progress'
  <2>1. ASSUME NEW S \in SUBSET Id,
               \/ HardChunk(S) \/ HardSelect(S)
               \/ SoftChunk(S) \/ KeysetSelect(S)
               \/ ReadChunk(S) \/ FetchAscending(S) \/ FetchDescending(S)
        PROVE  Progress'
    BY <2>1, HardChunkStep, SoftChunkStep, PlainSelectStep, KeysetSelectStep, FetchStep
  <2>2. CASE HardDelete \/ DeleteChunk \/ MarkMany \/ MarkEach
    BY <2>2, PlainDeleteStep, MarkStep
  <2>3. CASE \/ SinkStores \/ StatementFails \/ Throws \/ FetchFails
             \/ \E i \in Id : Write(i)
             \/ UNCHANGED vars
    BY <2>3, OtherSteps
  <2> QED
    BY <2>1, <2>2, <2>3 DEF Next, Step
<1> QED
  BY <1>1, <1>2 DEF IInv, Progress

LEMMA Invariance == Spec => []IInv
  BY InitInv, StepInv, PTL DEF Spec

\* Every reachable state of a pass has the types of TypeOK.
THEOREM TypeCorrect == Spec => []TypeOK
<1>1. IInv => TypeOK
  BY DEF IInv
<1> QED
  BY <1>1, Invariance, PTL

\* A purge, an archive or a stream by id that says it is done has come to every
\* row that was in scope all the time (purge.ts, archive.ts, cursor()).
THEOREM ReachesEveryRow == Spec => []NothingSkipped
<1>1. IInv => NothingSkipped
  BY DEF IInv
<1> QED
  BY <1>1, Invariance, PTL

\* An archive removes no row that is not in its sink (archive.ts:62).
THEOREM NothingUnarchivedIsRemoved == Spec => StoredBeforeRemoved
<1>1. ASSUME IInv, Step, kind = "archive", NEW i \in Present \ sink
      PROVE  table'[i] # NoRow
  <2>1. CASE DeleteChunk
    <3>1. PICK D \in SUBSET Id : D = chunk \cap Matching
      BY <1>1, Scopes DEF IInv
    <3>2. Remove(D)
      BY <2>1, <3>1 DEF DeleteChunk, Remove, Set
    <3>3. i \in Id \ D
      BY <1>1, <2>1, <3>1 DEF IInv, StoredInv, DeleteChunk, Present
    <3> QED
      BY <1>1, <3>2, <3>3, Removing DEF IInv, Present
  <2>2. CASE Reads
    BY <1>1, <2>2, ReadsKeep DEF Present
  <2> QED
    BY <1>1, <2>1, <2>2 DEF Step, Reads, HardChunk, SoftChunk, HardDelete, MarkMany, MarkEach
<1>2. IInv /\ [Next]_vars => [Step /\ kind = "archive" => \A i \in Present \ sink : table'[i] # NoRow]_vars
  BY <1>1
<1> QED
  BY <1>2, Invariance, PTL DEF Spec, StoredBeforeRemoved

\* No batch of a stream by id overlaps an earlier one (repository.ts:1470).
THEOREM StreamsDoNotRepeat == Spec => YieldedOnce
<1>1. ASSUME IInv, Next, kind = "stream", seen' # seen
      PROVE  chunk' \cap seen = {}
  <2>1. PICK S \in SUBSET Id : FetchAscending(S)
    BY <1>1 DEF Next, Step, HardChunk, HardSelect, SoftChunk, KeysetSelect, ReadChunk, FetchDescending,
                HardDelete, MarkMany, MarkEach, SinkStores, DeleteChunk, StatementFails, Throws,
                FetchFails, Write
  <2>2. chunk' = S /\ S \subseteq Beyond /\ pc = "idle"
    BY <2>1 DEF FetchAscending, Batch, First, Limited
  <2>3. \A i \in Beyond : i > last
    BY DEF Beyond
  <2>4. \A i \in seen : i <= last
    BY <1>1, <2>2 DEF IInv, SeenInv
  <2>5. seen \subseteq Id /\ last \in Nat /\ \A i \in Id : i \in Nat
    BY <1>1, SweepsAssumption DEF IInv, TypeOK
  <2> QED
    BY <2>2, <2>3, <2>4, <2>5
<1>2. IInv /\ [Next]_vars => [kind = "stream" /\ seen' # seen => chunk' \cap seen = {}]_vars
  BY <1>1
<1> QED
  BY <1>2, Invariance, PTL DEF Spec, YieldedOnce

\* A purge that filters, and an archive, write no row that is out of scope when
\* they write it.
THEOREM OthersRowsStay == Spec => OnlyOwnRows
<1>1. ASSUME IInv, Step, kind # "functional", NEW i \in Id, table'[i] # table[i]
      PROVE  i \in Matching
  <2>1. CASE Reads
    BY <1>1, <2>1, ReadsKeep
  <2>2. CASE HardDelete \/ DeleteChunk \/ \E S \in SUBSET Id : HardChunk(S)
    <3>1. PICK D \in SUBSET Matching : Remove(D)
      BY <1>1, <2>2, Removers DEF IInv
    <3> QED
      BY <1>1, <3>1, Removing, Scopes DEF IInv
  <2>3. CASE MarkMany \/ \E S \in SUBSET Id : SoftChunk(S)
    <3>1. PICK D \in SUBSET Matching : Mark(D)
      <4>1. CASE MarkMany
        <5>1. PICK D \in SUBSET Matching : D = chunk \cap Matching
          OBVIOUS
        <5> QED
          BY <4>1, <5>1 DEF MarkMany, Mark, Set
      <4>2. ASSUME NEW S \in SUBSET Id, SoftChunk(S) PROVE \E D \in SUBSET Matching : Mark(D)
        BY <4>2 DEF SoftChunk, First, Limited, Beyond
      <4> QED
        BY <2>3, <4>1, <4>2
    <3>2. D \in SUBSET Id /\ D \subseteq Present
      BY <1>1, Scopes DEF IInv
    <3> QED
      BY <1>1, <3>1, <3>2, Marks DEF IInv
  <2>4. ~MarkEach
    BY <1>1 DEF MarkEach
  <2> QED
    BY <1>1, <2>1, <2>2, <2>3, <2>4, StepCases
<1>2. IInv /\ [Next]_vars =>
        [Step /\ kind # "functional" => \A i \in Id : table'[i] # table[i] => i \in Matching]_vars
  BY <1>1
<1> QED
  BY <1>2, Invariance, PTL DEF Spec, OnlyOwnRows

=============================================================================
