------------------------------- MODULE Aggregates -------------------------------
(***************************************************************************)
(* executeAgg (aggregate/execute.ts): LEFT JOINs, WHERE, GROUP BY columns  *)
(* and date bins, measures, HAVING or a keyset cursor, ORDER BY, LIMIT and *)
(* OFFSET, and the ranking within partitions that topN.ts does afterwards; *)
(* and countAggGroups (aggregate/count.ts).                                *)
(*                                                                         *)
(* A request is a record of groupBy, bins, measures, where, lookups,       *)
(* having, sort, topN, page and limit.  An output row is a record of its   *)
(* groups, bins and measures.  Dates are numbers, seconds since 1970.      *)
(* Averages and the calendar's own buckets (day, month, ...) are left out. *)
(***************************************************************************)
EXTENDS Lookups, FiniteSetsExt

Num(n) == [number |-> n]

-----------------------------------------------------------------------------
(* GROUP BY and measures. *)

\* INTEGER / INTEGER of SQLite: toward zero.
Quotient(a, b) == IF a >= 0 THEN a \div b ELSE -((-a) \div b)

\* compileCustomBin: the start of the bin of a date.
Bin(date, every) == IF date = None THEN None ELSE Num(Quotient(date.number, every) * every)

Measured(m, rows) ==
  LET known  == {r \in rows : r[m.col] # None}
      values == {r[m.col].number : r \in known}
  IN CASE m.op = "count"         -> Num(Cardinality(IF m.col = "*" THEN rows ELSE known))
       [] m.op = "countDistinct" -> Num(Cardinality(values))
       [] OTHER ->
            IF known = {} THEN None
            ELSE CASE m.op = "sum" -> Num(MapThenSumSet(LAMBDA r : r[m.col].number, known))
                   [] m.op = "min" -> Num(Min(values))
                   [] m.op = "max" -> Num(Max(values))

\* FILTER (WHERE ..)
Measure(m, group) == Measured(m, Where(m.where, group))

GroupKey(req, row) ==
  Extended([c \in req.groupBy |-> row[c]],
           [b \in DOMAIN req.bins |-> Bin(row[req.bins[b].field], req.bins[b].every)])

Scalar(req) == req.groupBy = {} /\ DOMAIN req.bins = {}

\* One row per group; without groups one row, of an empty table as well.
Grouped(req, rows) ==
  LET keys == IF Scalar(req) THEN {[x \in {} |-> None]} ELSE {GroupKey(req, r) : r \in rows}
      Measures(k) == LET group == {r \in rows : Scalar(req) \/ GroupKey(req, r) = k}
                     IN [a \in DOMAIN req.measures |-> Measure(req.measures[a], group)]
  IN {Extended(k, Measures(k)) : k \in keys}

\* substituteMeasureAliases: leaves over a measure or a bin are rewritten, those
\* over a group's column are compiled as in WHERE.
Having(aliases, f, row) ==
  LET value[g \in Filter] ==
        CASE g.op = "true"  -> TRUE
          [] g.op = "false" -> FALSE
          [] g.op = "and"   -> And3({value[h] : h \in g.children})
          [] g.op = "or"    -> Or3({value[h] : h \in g.children})
          [] g.op = "not"   -> Not3(value[g.child])
          [] OTHER -> IF g.col \in aliases THEN HavingLeaf(g, row[g.col])
                                           ELSE ScalarLeaf(g, row[g.col])
  IN value[f]

-----------------------------------------------------------------------------
(* Order. *)

\* ORDER BY: NULL before every value.
Precedes(x, y) == y # None /\ (x = None \/ Selects(Below(x, y)))

Before(sort, x, y) ==
  \E i \in DOMAIN sort :
    /\ \A j \in 1 .. i - 1 : x[sort[j].key] = y[sort[j].key]
    /\ LET key == sort[i].key
       IN IF sort[i].dir = 1 THEN Precedes(x[key], y[key]) ELSE Precedes(y[key], x[key])

\* The sequences ORDER BY may give.
Sorted(rows, sort) ==
  {q \in SetToSeqs(rows) : \A i, j \in DOMAIN q : i < j => ~Before(sort, q[j], q[i])}

\* Mutant: rows that tie with the cursor in the first key are taken for seen.
AfterCursorFirstKey(sort, cursor, row) ==
  LET key == sort[1].key
  IN IF sort[1].dir = 1 THEN Below(cursor[key], row[key]) ELSE Below(row[key], cursor[key])

\* buildCursorPredicate, buildKeysetHaving: (a > A) OR (a = A AND b > B) ..,
\* with SQL's comparisons, to which NULL is neither less nor equal.
AfterCursor(sort, cursor, row) ==
  Or3({And3({Equal(row[sort[j].key], cursor[sort[j].key]) : j \in 1 .. i - 1}
              \cup {LET key == sort[i].key
                    IN IF sort[i].dir = 1 THEN Below(cursor[key], row[key])
                                          ELSE Below(row[key], cursor[key])}) : i \in DOMAIN sort})

\* encodeCursor, encodeAggCursor: the sort keys of the last row of a page.
CursorAt(sort, row) == [key \in {sort[i].key : i \in DOMAIN sort} |-> row[key]]

-----------------------------------------------------------------------------
(* applyTopN. *)

\* compareValues: null after every value, and before under -1.
Ranks(sort, x, y) ==
  \E i \in DOMAIN sort :
    /\ \A j \in 1 .. i - 1 : x[sort[j].key] = y[sort[j].key]
    /\ LET a == IF sort[i].dir = 1 THEN x[sort[i].key] ELSE y[sort[i].key]
           b == IF sort[i].dir = 1 THEN y[sort[i].key] ELSE x[sort[i].key]
       IN a # None /\ (b = None \/ Selects(Below(a, b)))

Tied(sort, x, y) == \A i \in DOMAIN sort : x[sort[i].key] = y[sort[i].key]

Partition(topN, row) == [c \in topN.by |-> row[c]]

\* The members of a set in the order of `less`, a set of pairs.
Arranged(S, less) ==
  [n \in 1 .. Cardinality(S) |->
     CHOOSE x \in S : Cardinality({y \in S : <<y, x>> \in less}) = n - 1]

Ascending(S) == {p \in S \X S : p[1] < p[2]}

\* A stable sort of one partition.
Stably(sort, rows) ==
  {p \in (DOMAIN rows) \X (DOMAIN rows) :
     \/ Ranks(sort, rows[p[1]], rows[p[2]])
     \/ Tied(sort, rows[p[1]], rows[p[2]]) /\ p[1] < p[2]}

Ranked(topN, rows) ==
  LET order == Arranged(DOMAIN rows, Stably(topN.sort, rows))
  IN [k \in DOMAIN order |-> rows[order[k]]]

\* Mutant: ties with the last row kept are dropped.
SliceWithoutTies(topN, ranked) ==
  SubSeq(ranked, 1, Min({topN.limit, Len(ranked)}))

\* sliceWithTies: for 'rank' as for 'dense_rank', the rows of the first `limit`
\* distinct tuples.
SliceWithTies(topN, ranked) ==
  IF topN.ties = "row_number" \/ Len(ranked) <= topN.limit
  THEN SubSeq(ranked, 1, Min({topN.limit, Len(ranked)}))
  ELSE LET Tuple(k) == CursorAt(topN.sort, ranked[k])
           kept == {k \in DOMAIN ranked : Cardinality({Tuple(j) : j \in 1 .. k}) <= topN.limit}
       IN SubSeq(ranked, 1, Max(kept))

\* The rows at some of their places.
At(rows, places) ==
  LET order == Arranged(places, Ascending(places))
  IN [n \in DOMAIN order |-> rows[order[n]]]

\* The places where a partition comes first, and those of its rows.
Firsts(topN, rows) ==
  {k \in DOMAIN rows : \A j \in 1 .. k - 1 : Partition(topN, rows[j]) # Partition(topN, rows[k])}
Bucket(topN, rows, k) ==
  At(rows, {j \in DOMAIN rows : Partition(topN, rows[j]) = Partition(topN, rows[k])})

\* Partition by partition, in the order they first come.
ApplyTopN(topN, rows) ==
  LET first == Arranged(Firsts(topN, rows), Ascending(Firsts(topN, rows)))
  IN FlattenSeq([n \in DOMAIN first |->
                   SliceWithTies(topN, Ranked(topN, Bucket(topN, rows, first[n])))])

-----------------------------------------------------------------------------
(* executeAgg and countAggGroups, over the rows of the table. *)

\* `cursor` is None on a first page, `having` [op |-> "true"] if there is none.
\* Drizzle keeps one HAVING: the cursor's replaces the request's.
AggGroups(req, cursor, table) ==
  {g \in Grouped(req, Where(req.where, LeftJoins(table, req.lookups, table))) :
     IF cursor # None THEN Selects(AfterCursor(req.sort, cursor, g))
     ELSE req.having.op = "true"
            \/ Selects(Having(DOMAIN req.measures \cup DOMAIN req.bins, req.having, g))}

\* The row sequences of a request, before LIMIT and OFFSET, which wait for topN.
Sliced(req, rows) == IF req.topN = None THEN rows ELSE ApplyTopN(req.topN, rows)

AggRows(req, cursor, table) ==
  {Sliced(req, q) : q \in Sorted(AggGroups(req, cursor, table), req.sort)}

\* The full aggregate, unsorted, for HAVING, lookups and bins; else a SELECT of its own,
\* that knows nothing of topN, and for a scalar asks if there is a row.
CountAggGroups(req, table) ==
  LET plain == Where(req.where, table)
  IN IF req.having.op # "true" \/ req.lookups # <<>> \/ DOMAIN req.bins # {}
     THEN {Len(Sliced(req, q)) : q \in Sorted(AggGroups(req, None, table), <<>>)}
     ELSE IF Scalar(req) THEN {IF plain = {} THEN 0 ELSE 1}
     ELSE {Cardinality({GroupKey(req, r) : r \in plain})}
=============================================================================
