------------------------------- MODULE Sweeps -------------------------------
(***************************************************************************)
(* A pass over a table, chunk by chunk, while others write it: purgeByField*)
(* with its strategies (actions/purge.ts), archiveByFilter (actions/       *)
(* archive.ts) and cursor() (repository/repository.ts).                    *)
(*                                                                         *)
(* The loops around a chunk of a purge or an archive, runChunkedPurge and  *)
(* runChunkedArchive, are another package's: a chunk of none ends the pass,*)
(* a short one may, and a chunk that throws is tried again or ends it.     *)
(* A statement is one step.  It may throw, with or without its effect.     *)
(*                                                                         *)
(* `scope` is whether a row satisfies the predicate of the pass.  The rest *)
(* of a row is what the pass makes of it.                                  *)
(***************************************************************************)
EXTENDS Naturals, FiniteSets

CONSTANTS
  Id,           \* primary keys
  Limit,        \* rows of a chunk (batchSize)
  Kind,         \* the passes there are
  MaxWrites,    \* bound: writes of others
  MaxRetries,   \* bound: chunks tried again
  NoRow

Row == [scope : BOOLEAN, mark : {"none", "soft", "anonymous"}]

ASSUME SweepsAssumption ==
  /\ Id \subseteq Nat \ {0} /\ IsFiniteSet(Id)
  /\ Limit \in Nat \ {0}
  /\ Kind \subseteq {"hard", "soft", "static", "functional", "archive", "stream", "descending"}
  /\ MaxWrites \in Nat /\ MaxRetries \in Nat
  /\ NoRow \notin Row

VARIABLES
  table,      \* the row of an id, or NoRow
  kind,       \* what the pass is
  pc,         \* where it is
  last,       \* the keyset: the id it has come to, or 0
  chunk,      \* the ids it has read
  sink,       \* the ids an archive has stored
  seen,       \* the ids a stream has yielded
  steady,     \* history: the ids in scope from the start until now
  written,    \* writes of others so far
  retries     \* chunks tried again so far

vars == <<table, kind, pc, last, chunk, sink, seen, steady, written, retries>>

TypeOK ==
  /\ table \in [Id -> Row \cup {NoRow}]
  /\ kind \in Kind
  /\ pc \in {"idle", "fallback", "selected", "stored", "done", "failed"}
  /\ last \in Id \cup {0}
  /\ chunk \subseteq Id /\ sink \subseteq Id /\ seen \subseteq Id /\ steady \subseteq Id
  /\ written \in 0 .. MaxWrites
  /\ retries \in 0 .. MaxRetries

-----------------------------------------------------------------------------
(* The table. *)

Present  == {i \in Id : table[i] # NoRow}
Matching == {i \in Present : table[i].scope}

\* Mutants: the keyset is left out, or starts at the row it has come to.
BeyondNothing == Matching
BeyondFrom    == {i \in Matching : i >= last}

\* WHERE ... AND id > last
Beyond == {i \in Matching : i > last}

\* A statement that makes row[i] of each row i of S.
Set(S, row) ==
  /\ table'  = [i \in Id |-> IF i \in S THEN row[i] ELSE table[i]]
  /\ steady' = {i \in steady : i \in S => row[i] # NoRow /\ row[i].scope}

Remove(S) == Set(S, [i \in S |-> NoRow])

\* What the pass makes of a row.
Marking == IF kind = "soft" THEN "soft" ELSE "anonymous"
Mark(S) == Set(S, [i \in S |-> [table[i] EXCEPT !.mark = Marking]])

\* LIMIT without ORDER BY returns any rows ...
Limited(S, M) ==
  /\ S \subseteq M
  /\ Cardinality(S) = IF Cardinality(M) < Limit THEN Cardinality(M) ELSE Limit

\* ... and with ORDER BY id the first, or the last.
First(S, M) == Limited(S, M) /\ \A i \in S, j \in M \ S : i < j
Last(S, M)  == Limited(S, M) /\ \A i \in S, j \in M \ S : i > j

\* The keyset moves to the highest id of a chunk, or to the lowest.
ToHighest(S) == \E i \in S : last' = i /\ \A j \in S : j <= i
ToLowest(S)  == \E i \in S : last' = i /\ \A j \in S : i <= j

-----------------------------------------------------------------------------
(* The loop around a chunk. *)

\* A chunk that came to the rows of S.
Report(S) ==
  /\ pc' \in IF S = {} THEN {"done"}
             ELSE IF Cardinality(S) < Limit THEN {"idle", "done"} ELSE {"idle"}
  /\ chunk' = {}
  /\ UNCHANGED retries

\* A chunk that threw.
Thrown ==
  /\ \/ retries < MaxRetries /\ retries' = retries + 1 /\ pc' = "idle"
     \/ pc' = "failed" /\ UNCHANGED retries
  /\ chunk' = {}

\* A SELECT of the rows to write: none ends the chunk.
Select(S) ==
  \/ S = {} /\ Report({})
  \/ S # {} /\ pc' = "selected" /\ chunk' = S /\ UNCHANGED retries

\* Mutant: the highest id of no rows is null.
AdvanceAlways(S) == IF S = {} THEN last' = NoRow ELSE ToHighest(S)

\* The keyset moves to the end of the chunk, when there is one.
Advance(S) == IF S = {} THEN UNCHANGED last ELSE ToHighest(S)

-----------------------------------------------------------------------------
(* purgeByField *)

\* DELETE ... WHERE id IN (SELECT ... LIMIT n) RETURNING id.  On any error it
\* falls back.
HardChunk(S) ==
  /\ kind = "hard" /\ pc = "idle" /\ Limited(S, Matching)
  /\ Remove(S)
  /\ \/ Report(S)
     \/ pc' = "fallback" /\ UNCHANGED <<chunk, retries>>
  /\ UNCHANGED <<kind, last, sink, seen, written>>

\* Without its effect the statement goes to the fallback just so.
StatementFails ==
  /\ kind \in {"hard", "soft"} /\ pc = "idle"
  /\ pc' = "fallback"
  /\ UNCHANGED <<table, kind, last, chunk, sink, seen, steady, written, retries>>

HardSelect(S) ==
  /\ kind = "hard" /\ pc = "fallback" /\ Limited(S, Matching)
  /\ Select(S)
  /\ UNCHANGED <<table, kind, last, sink, seen, steady, written>>

\* Mutant: by id alone.
HardDeleteById ==
  /\ kind = "hard" /\ pc = "selected"
  /\ Remove(chunk \cap Present)
  /\ Report(chunk) \/ Thrown
  /\ UNCHANGED <<kind, last, sink, seen, written>>

\* deleteMany(field = value AND id IN chunk)
HardDelete ==
  /\ kind = "hard" /\ pc = "selected"
  /\ Remove(chunk \cap Matching)
  /\ Report(chunk) \/ Thrown
  /\ UNCHANGED <<kind, last, sink, seen, written>>

\* UPDATE ... WHERE id IN (SELECT ... ORDER BY id LIMIT n) RETURNING id.
SoftChunk(S) ==
  /\ kind = "soft" /\ pc = "idle" /\ First(S, Beyond)
  /\ Mark(S)
  /\ \/ Advance(S) /\ Report(S)
     \/ pc' = "fallback" /\ UNCHANGED <<last, chunk, retries>>
  /\ UNCHANGED <<kind, sink, seen, written>>

\* Mutant: the keyset moves with the read.
KeysetMoves(S) ==
  /\ \/ kind = "soft" /\ pc = "fallback"
     \/ kind \in {"static", "functional"} /\ pc = "idle"
  /\ First(S, Beyond)
  /\ Select(S) /\ Advance(S)
  /\ UNCHANGED <<table, kind, sink, seen, steady, written>>

\* The rows of a chunk, in the fallback of a soft purge and to anonymize.
KeysetSelect(S) ==
  /\ \/ kind = "soft" /\ pc = "fallback"
     \/ kind \in {"static", "functional"} /\ pc = "idle"
  /\ First(S, Beyond)
  /\ Select(S)
  /\ UNCHANGED <<table, kind, last, sink, seen, steady, written>>

\* updateMany(field = value AND id IN chunk): the keyset moves when it is back.
MarkMany ==
  /\ kind \in {"soft", "static"} /\ pc = "selected"
  /\ Mark(chunk \cap Matching)
  /\ \/ Advance(chunk) /\ Report(chunk)
     \/ Thrown /\ UNCHANGED last
  /\ UNCHANGED <<kind, sink, seen, written>>

\* One transaction with an UPDATE ... WHERE id = ? for every row read.
MarkEach ==
  /\ kind = "functional" /\ pc = "selected"
  /\ Mark(chunk \cap Present)
  /\ \/ Advance(chunk) /\ Report(chunk)
     \/ Thrown /\ UNCHANGED last
  /\ UNCHANGED <<kind, sink, seen, written>>

-----------------------------------------------------------------------------
(* archiveByFilter *)

\* Mutant: the chunk is deleted before the sink has it.
ReadAndGo(S) ==
  /\ kind = "archive" /\ pc = "idle" /\ First(S, Matching)
  /\ pc' = (IF S = {} THEN "done" ELSE "stored") /\ chunk' = S
  /\ UNCHANGED <<table, kind, last, sink, seen, steady, written, retries>>

\* readChunk(): the first rows, with no keyset.
ReadChunk(S) ==
  /\ kind = "archive" /\ pc = "idle" /\ First(S, Matching)
  /\ Select(S)
  /\ UNCHANGED <<table, kind, last, sink, seen, steady, written>>

\* The sink stores the chunk; it may have when it throws.
SinkStores ==
  /\ kind = "archive" /\ pc = "selected"
  /\ sink' = sink \cup chunk
  /\ \/ pc' = "stored" /\ UNCHANGED <<chunk, retries>>
     \/ Thrown
  /\ UNCHANGED <<table, kind, last, seen, steady, written>>

\* deleteChunk(): deleteMany(filter AND id IN chunk).
DeleteChunk ==
  /\ kind = "archive" /\ pc = "stored"
  /\ Remove(chunk \cap Matching)
  /\ Report(chunk) \/ Thrown
  /\ UNCHANGED <<kind, last, sink, seen, written>>

-----------------------------------------------------------------------------
(* cursor() *)

\* A batch: the rows behind the last one's id, in the order that was asked
\* for.  A short batch is the last.
Batch(S) ==
  /\ chunk' = S /\ seen' = seen \cup S
  /\ pc' = IF Cardinality(S) < Limit THEN "done" ELSE "idle"
  /\ UNCHANGED <<table, kind, sink, steady, written, retries>>

FetchAscending(S) ==
  /\ kind = "stream" /\ pc = "idle" /\ First(S, Beyond)
  /\ Batch(S)
  /\ IF Cardinality(S) < Limit THEN UNCHANGED last ELSE ToHighest(S)

\* sort: { id: -1 } continues with id > last all the same.
FetchDescending(S) ==
  /\ kind = "descending" /\ pc = "idle" /\ Last(S, Beyond)
  /\ Batch(S)
  /\ IF Cardinality(S) < Limit THEN UNCHANGED last ELSE ToLowest(S)

FetchFails ==
  /\ kind \in {"stream", "descending"} /\ pc = "idle"
  /\ pc' = "failed"
  /\ UNCHANGED <<table, kind, last, chunk, sink, seen, steady, written, retries>>

-----------------------------------------------------------------------------

\* A step of a chunk throws and has done nothing.
Throws ==
  /\ \/ pc \in {"fallback", "selected", "stored"}
     \/ pc = "idle" /\ kind \in {"static", "functional", "archive"}
  /\ Thrown
  /\ UNCHANGED <<table, kind, last, sink, seen, steady, written>>

\* Others insert a row, remove one, or move one in or out of scope.
Write(i) ==
  /\ written < MaxWrites /\ written' = written + 1
  /\ \/ /\ i \notin Present
        /\ \E s \in BOOLEAN : Set({i}, [j \in {i} |-> [scope |-> s, mark |-> "none"]])
     \/ i \in Present /\ Remove({i})
     \/ i \in Present /\ Set({i}, [j \in {i} |-> [table[i] EXCEPT !.scope = ~@]])
  /\ UNCHANGED <<kind, pc, last, chunk, sink, seen, retries>>

Init ==
  /\ table \in [Id -> {NoRow} \cup [scope : BOOLEAN, mark : {"none"}]]
  /\ kind \in Kind
  /\ pc = "idle" /\ last = 0
  /\ chunk = {} /\ sink = {} /\ seen = {}
  /\ steady = Matching
  /\ written = 0 /\ retries = 0

Step ==
  \/ \E S \in SUBSET Id :
       \/ HardChunk(S) \/ HardSelect(S)
       \/ SoftChunk(S) \/ KeysetSelect(S)
       \/ ReadChunk(S) \/ FetchAscending(S) \/ FetchDescending(S)
  \/ HardDelete \/ MarkMany \/ MarkEach
  \/ SinkStores \/ DeleteChunk
  \/ StatementFails \/ Throws \/ FetchFails

Next == Step \/ \E i \in Id : Write(i)

\* A pass takes its next step: statements answer or throw.
Spec == Init /\ [][Next]_vars /\ WF_vars(Step)

-----------------------------------------------------------------------------

\* What a pass is for.
Treated(i) ==
  CASE kind = "soft"                     -> table[i].mark = "soft"
    [] kind \in {"static", "functional"} -> table[i].mark = "anonymous"
    [] kind = "stream"                   -> i \in seen
    [] OTHER                             -> FALSE

\* A pass that says it is done has come to every row that was in scope all
\* the time, whatever others wrote and whichever statements threw: the keyset
\* moves only past rows that are written (purge.ts:257), a fallback starts
\* where the statement did, a short chunk is the end.  Of a stream this is so
\* in the order of ids only, although repository.ts:1470 says it of any sort.
NothingSkipped == pc = "done" /\ kind # "descending" => \A i \in steady : Treated(i)

\* A purge by one statement, by updateMany() or by deleteMany(), and an archive,
\* write only rows that are in scope as they write them.
OnlyOwnRows ==
  [][Step /\ kind # "functional" => \A i \in Id : table'[i] # table[i] => i \in Matching]_vars

\* An archive removes no row its sink has not stored.
StoredBeforeRemoved ==
  [][Step /\ kind = "archive" => \A i \in Present \ sink : table'[i] # NoRow]_vars

\* No batch of a stream in the order of ids overlaps an earlier one.
YieldedOnce == [][kind = "stream" /\ seen' # seen => chunk' \cap seen = {}]_vars

\* Every pass comes to an end, although a row stays in scope when it is marked.
PassEnds == <>(pc \in {"done", "failed"})
=============================================================================
