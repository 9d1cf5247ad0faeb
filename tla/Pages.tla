--------------------------------- MODULE Pages ---------------------------------
(***************************************************************************)
(* A caller that fetches every page of a request while others write the    *)
(* table: getAll() and PaginationEngine.paginate, PaginationEngine.stream, *)
(* aggregatePaginate() by offset and by keyset, and lookupPopulate().      *)
(*                                                                         *)
(* A page is one statement, or two that run side by side (Promise.all):    *)
(* the rows and, under countStrategy 'exact', their count.  Writers come   *)
(* in between.  The foreign table of every lookup is the table itself.     *)
(* The request is fixed from the first page to the last; requests of kind  *)
(* "match" and "pattern" ask for no page: they carry a leaf and a value,   *)
(* or a LIKE pattern, for the laws of the filter compiler.                 *)
(***************************************************************************)
EXTENDS Aggregates

CONSTANTS
  Id,         \* primary keys
  G, V,       \* values of the columns g and v
  Requests,   \* what callers ask
  MaxWrites,  \* bound: writes during a walk
  NoRow       \* no row under an id

ASSUME PagesAssumption ==
  /\ Id \subseteq Nat \ {0} /\ IsFiniteSet(Id)
  /\ MaxWrites \in Nat
  /\ None \notin Requests

VARIABLES
  request,  \* the request of this walk
  table,    \* the table
  page,     \* the page asked for
  cursor,   \* the decoded `after`, or None on a first page
  open,     \* the statements of this page without an answer: "data", "count"
  data,     \* the rows of this page, the peeked one included
  total,    \* its count
  given,    \* the rows of the pages so far
  done,     \* the last page said that there is no other
  writes,   \* writes so far
  still     \* history: the output rows that were there all the time

walk == <<request, page, cursor, open, data, total, given, done>>
vars == <<table, walk, writes, still>>

Row(i, g, v) == [id |-> Num(i), g |-> g, v |-> v]
RowsOf(t)    == {t[i] : i \in {j \in Id : t[j] # NoRow}}

\* What may be stored under an id.
Slots  == {NoRow} \cup {Row(i, g, v) : i \in Id, g \in G, v \in V}
Tables == {t \in [Id -> Slots] : \A i \in Id : t[i] # NoRow => t[i].id = Num(i)}

ASSUME RowAssumption == None \notin Slots

Walks(req)  == req.kind \in {"list", "stream", "groups", "lookup"}
Keyset(req) == req.kind = "stream" \/ (req.kind = "groups" /\ req.keyset)
Exact(req)  == ~Keyset(req) /\ req.count = "exact"

-----------------------------------------------------------------------------
(* What a request's statements return. *)

\* The rows of its FROM, WHERE and GROUP BY.
Candidates(req, rows) ==
  CASE req.kind \in {"list", "stream"} -> Where(req.where, rows)
    [] req.kind = "groups" -> Grouped(req, Where(req.where, LeftJoins(rows, req.lookups, rows)))
    [] req.kind = "lookup" -> Populated(Where(req.where, rows), req.lookups, rows)

\* Every row of its answer, whatever the page.
Output(req, rows) ==
  IF req.kind = "groups" THEN AggGroups(req, None, rows) ELSE Candidates(req, rows)

\* The data statement without LIMIT and OFFSET: in every order that
\* ORDER BY allows.
Results(req, after, rows) ==
  CASE req.kind = "groups" -> AggRows(req, after, rows)
    [] req.kind = "stream" /\ after # None ->
         Sorted({r \in Where(req.where, rows) : Selects(AfterCursor(req.sort, after, r))}, req.sort)
    [] OTHER -> Sorted(Output(req, rows), req.sort)

\* The count statement; lookupPopulate counts base rows (DISTINCT).
Counts(req, rows) ==
  IF req.kind = "groups" THEN CountAggGroups(req, rows)
  ELSE {Cardinality(Where(req.where, rows))}

\* What a sort is to tell apart; lookupPopulate() sorts by columns of the base rows.
Sortees(req, rows) == IF req.kind = "lookup" THEN Where(req.where, rows) ELSE Candidates(req, rows)

\* validateTopN; and a column is ranked by values of one type (compareValues
\* would convert the others).
Ranking(req) ==
  /\ req.topN.limit \in Nat \ {0}
  /\ req.topN.sort \in Seq([key : STRING, dir : {1, -1}])
  /\ \A t \in Tables, i \in DOMAIN req.topN.sort :
       LET values == {x[req.topN.sort[i].key] : x \in Candidates(req, RowsOf(t))} \ {None}
       IN values \subseteq [number : Int] \/ values \subseteq [text : Int]

\* "sort columns must be totally ordered" (PaginationEngine.ts): whatever is in
\* the table, they hold numbers, texts or NULL, and tell the rows apart.
ASSUME RequestAssumption ==
  \A req \in Requests : Walks(req) =>
    /\ req.limit \in Nat \ {0}
    /\ req.lookups \in Seq(Range(req.lookups))
    /\ req.sort \in Seq([key : STRING, dir : {1, -1}])
    /\ req.kind = "lookup" => \A i \in DOMAIN req.sort : req.sort[i].key \in {"id", "g", "v"}
    /\ req.kind = "groups" /\ req.keyset => req.topN = None
    /\ req.kind = "groups" /\ req.topN # None => Ranking(req)
    /\ \A t \in Tables : \A x, y \in Sortees(req, RowsOf(t)) :
         /\ \A i \in DOMAIN req.sort : x[req.sort[i].key] \in {None} \cup Scalars
         /\ CursorAt(req.sort, x) # None
         /\ Tied(req.sort, x, y) => x = y

\* A document with the value under "a", and one with two values there.
Document(x) == [object |-> IF x = None THEN [k \in {} |-> None] ELSE [a |-> x]]
Pair(x, y)  == [array |-> <<x, y>>]

\* A leaf over values of one type, as the type of its column has it.
Question(req, S) ==
  /\ req.value \in {None} \cup S /\ req.other \in S
  /\ CASE req.leaf.op \in {"eq", "ne"}                 -> req.leaf.arg \in {None} \cup S
       [] req.leaf.op \in {"gt", "gte", "lt", "lte"}   -> req.leaf.arg \in S
       [] req.leaf.op \in {"in", "nin"}                -> req.leaf.arg \subseteq {None} \cup S
       [] req.leaf.op = "exists"                       -> req.leaf.arg \in BOOLEAN
       [] req.leaf.op = "like"                         -> req.leaf.arg \subseteq S
       [] OTHER                                        -> FALSE
  /\ None \notin {Pair(req.value, req.other), Document(req.value),
                  Document(Pair(req.value, req.other))}

ASSUME QuestionAssumption ==
  \A req \in Requests :
    /\ req.kind = "match" => Question(req, [number : Int]) \/ Question(req, [text : Int])
    /\ req.kind = "pattern" => req.pattern \in Seq(Letter)

Statements(req) == IF Exact(req) THEN {"data", "count"} ELSE {"data"}

Init ==
  /\ request \in Requests
  /\ IF Walks(request)
     THEN table \in Tables
     ELSE table = [i \in Id |-> NoRow]
  /\ page = 1 /\ cursor = None
  /\ open = IF Walks(request) THEN Statements(request) ELSE {}
  /\ data = <<>> /\ total = 0 /\ given = <<>>
  /\ done = ~Walks(request) /\ writes = 0
  /\ still = IF Walks(request) /\ Keyset(request) THEN Output(request, RowsOf(table)) ELSE {}

-----------------------------------------------------------------------------
(* A page. *)

\* Without a count one row more is read, to see if there is a next page.
ReadData ==
  /\ "data" \in open
  /\ \E q \in Results(request, cursor, RowsOf(table)) :
       LET from == IF Keyset(request) THEN 0 ELSE (page - 1) * request.limit
           size == IF Exact(request) THEN request.limit ELSE request.limit + 1
       IN data' = SubSeq(q, from + 1, Min({from + size, Len(q)}))
  /\ open' = open \ {"data"}
  /\ UNCHANGED <<request, table, page, cursor, total, given, done, writes, still>>

ReadCount ==
  /\ "count" \in open
  /\ total' \in Counts(request, RowsOf(table))
  /\ open' = open \ {"count"}
  /\ UNCHANGED <<request, table, page, cursor, data, given, done, writes, still>>

\* Mutant: the number of pages is rounded down.
HasNextRoundedDown ==
  IF Exact(request) THEN page < total \div request.limit ELSE Len(data) > request.limit

\* hasNext, hasMore.
HasNext ==
  IF Exact(request) THEN page * request.limit < total ELSE Len(data) > request.limit

\* The envelope, and the caller's next request.
Answer ==
  LET rows == SubSeq(data, 1, Min({request.limit, Len(data)}))
  IN /\ open = {} /\ ~done
     /\ given' = given \o rows
     /\ IF HasNext
        THEN /\ page' = page + 1 /\ done' = FALSE
             /\ cursor' = IF Keyset(request) THEN CursorAt(request.sort, Last(rows)) ELSE None
             /\ open' = Statements(request)
        ELSE done' = TRUE /\ UNCHANGED <<page, cursor, open>>
     /\ data' = <<>>
     /\ UNCHANGED <<request, table, total, writes, still>>

-----------------------------------------------------------------------------
(* Others. *)

Write ==
  /\ ~done /\ writes < MaxWrites
  /\ \E i \in Id, row \in Slots :
       /\ row # table[i] /\ (row # NoRow => row.id = Num(i))
       /\ table' = [table EXCEPT ![i] = row]
  /\ writes' = writes + 1
  /\ still' = IF Keyset(request) THEN still \cap Output(request, RowsOf(table')) ELSE still
  /\ UNCHANGED walk

Next == ReadData \/ ReadCount \/ Answer \/ Write

Spec == Init /\ [][Next]_vars

-----------------------------------------------------------------------------
(* Properties. *)

\* Keys that the comparisons of a cursor with `row` cannot see: in the row that a
\* page ended on, any NULL; in a row to come, one that is sorted down.
NullKey(sort, row)   == \E i \in DOMAIN sort : row[sort[i].key] = None
UnseenKey(sort, row) == \E i \in DOMAIN sort : sort[i].dir = -1 /\ row[sort[i].key] = None

\* No page was continued after a row with a NULL key.
Unbroken == \A k \in 1 .. page - 1 : ~NullKey(request.sort, given[k * request.limit])

\* A walk by keyset meets every row, or group, that was there unchanged from
\* its first page to its last, and none twice, whatever is written meanwhile:
\* "no gaps and no duplicates" (pagination.test.ts).  The sort is to identify
\* the rows (RequestAssumption); NULLs it sorts down come after every page but the
\* first for nothing, and a page that ends on a NULL loses rows.
KeysetMissesNothing ==
  Walks(request) /\ Keyset(request) =>
    /\ \A i, j \in DOMAIN given : i < j => Before(request.sort, given[i], given[j])
    /\ done /\ Unbroken => {r \in still : ~UnseenKey(request.sort, r)} \subseteq ToSet(given)

\* The pages of a table at rest are its rows, each once, in order, under every
\* count strategy, and the total counts them: the groups that HAVING left, the
\* base rows that lookups multiplied.  (The total leaves topN out, and a scalar
\* over no rows.)
OffsetPagesAddUp ==
  Walks(request) /\ ~Keyset(request) /\ done /\ writes = 0 =>
    /\ given \in Results(request, None, RowsOf(table))
    /\ Exact(request) /\ (request.kind = "groups" => request.topN = None /\ ~Scalar(request))
         => total = Len(given)

\* The rows of x's partition, and those of them that are better than x.
Peers(topN, groups, x) == {y \in groups : Partition(topN, y) = Partition(topN, x)}
Ahead(topN, groups, x) == {y \in Peers(topN, groups, x) : Ranks(topN.sort, y, x)}

\* The numbers that SQL's window functions give x: RANK counts the rows that are
\* better (1, 1, 3), DENSE_RANK their tuples (1, 1, 2).
Rank(topN, groups, x) == 1 + Cardinality(Ahead(topN, groups, x))
DenseRank(topN, groups, x) ==
  1 + Cardinality({CursorAt(topN.sort, y) : y \in Ahead(topN, groups, x)})

\* ROW_NUMBER, among equals, is anybody's: as many rows as asked for, and none
\* left out that is better than one kept.
FirstOnes(topN, kept, groups) ==
  \A x \in groups :
    LET peers == Peers(topN, groups, x)
    IN /\ Cardinality(kept \cap peers) = Min({topN.limit, Cardinality(peers)})
       /\ x \notin kept => \A y \in kept \cap peers : ~Ranks(topN.sort, x, y)

\* What 'row_number' and 'dense_rank' keep of some groups: the rows that SQL's
\* function of that name numbers up to the limit.
IsTop(topN, kept, groups) ==
  IF topN.ties = "row_number"
  THEN FirstOnes(topN, kept, groups)
  ELSE kept = {x \in groups : DenseRank(topN, groups, x) <= topN.limit}

\* What 'rank' keeps: every row that RANK numbers up to the limit, and no other
\* unless some of the rows better than it are equals.  (Then it keeps more than
\* the doc of sliceWithTies says: of the ranks 1, 1, 3 and a limit of 2, all three.)
CoversTop(topN, kept, groups) ==
  \A x \in groups :
    /\ Rank(topN, groups, x) <= topN.limit => x \in kept
    /\ x \in kept => \/ Rank(topN, groups, x) <= topN.limit
                     \/ \E y, z \in Ahead(topN, groups, x) : y # z /\ Tied(topN.sort, y, z)

\* topN keeps of each partition what DENSE_RANK and ROW_NUMBER number up to the
\* limit, and for 'rank' at least what RANK does, and that exactly where nothing
\* better is tied (applyTopN, sliceWithTies); LIMIT, applied before, would lose some.
TopNKeepsTheTop ==
  request.kind = "groups" /\ ~request.keyset /\ request.topN # None =>
    \A q \in AggRows(request, None, RowsOf(table)) :
      LET groups == AggGroups(request, None, RowsOf(table))
      IN IF request.topN.ties = "rank"
         THEN CoversTop(request.topN, ToSet(q), groups)
         ELSE IsTop(request.topN, ToSet(q), groups)

\* lookupPopulate() gives every base row once and, in an array, every row that
\* matches it once, however many there are; a group counts every base row once
\* under joins to one row at most.  For one array lookup per request: two
\* multiply each other.
JoinedOnce ==
  LET rows == RowsOf(table) IN
  CASE request.kind = "lookup" ->
         LET base == Where(request.where, rows)
             out  == Output(request, rows)
         IN /\ Cardinality(out) = Cardinality(base)
            /\ \A r \in base : \E o \in out :
                 /\ o.id = r.id
                 /\ \A k \in DOMAIN request.lookups :
                      LET spec == request.lookups[k]
                          hits == Matches(spec, r, rows)
                          Object(f) == [c \in spec.select |-> f[c]]
                      IN ~spec.single =>
                           /\ DOMAIN o[spec.as].array = {Object(f) : f \in hits}
                           /\ \A p \in DOMAIN o[spec.as].array :
                                o[spec.as].array[p] = Cardinality({f \in hits : Object(f) = p})
    [] request.kind = "groups" /\ request.having.op = "true"
         /\ (\A k \in DOMAIN request.lookups : request.lookups[k].single) ->
         LET joined == Where(request.measures.n.where,
                             Where(request.where, LeftJoins(rows, request.lookups, rows)))
             In(j, g) == \A c \in DOMAIN GroupKey(request, j) : g[c] = GroupKey(request, j)[c]
         IN /\ \A j \in joined : \E g \in AggGroups(request, None, rows) : In(j, g)
            /\ \A g \in AggGroups(request, None, rows) :
                 g.n.number = Cardinality({r \in rows : \E j \in joined : j.id = r.id /\ In(j, g)})
    [] OTHER -> TRUE

\* The three forms of a leaf select alike.  A column and a path to the same
\* value in a document; an array of two and its elements, of which `ne` and
\* `nin` ask all and the others one; WHERE and HAVING.  And the GLOB that a
\* case-sensitive LIKE is rewritten to matches what the LIKE matches.  (`nin`
\* of nothing selects rows without the value in a column only; lists with a
\* null are plain SQL in HAVING.)
LeavesAgree ==
  CASE request.kind = "match" ->
         LET f == request.leaf
             x == request.value
             y == request.other
             On(v)  == Selects(ScalarLeaf(f, v))
         IN /\ ~(f.op = "nin" /\ f.arg = {} /\ x = None) => On(x) = JsonLeaf(f, Document(x), <<"a">>)
            /\ x # None =>
                 JsonLeaf(f, Document(Pair(x, y)), <<"a">>)
                   = (IF f.op \in {"ne", "nin"} THEN On(x) /\ On(y) ELSE On(x) \/ On(y))
            /\ f.op \in Comparisons \/ (f.op \in {"in", "nin"} /\ None \notin f.arg)
                 => HavingLeaf(f, x) = ScalarLeaf(f, x)
    [] request.kind = "pattern" -> LikeParts(request.pattern) = GlobParts(LikeToGlob(request.pattern))
    [] OTHER -> TRUE
=============================================================================
