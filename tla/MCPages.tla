-------------------------------- MODULE MCPages --------------------------------
(* Requests over a table of three rows, for TLC. *)
EXTENDS Pages

Ints  == {Num(1), Num(2)}
Marks == {None, Num(1)}

All  == [op |-> "true"]
With == [op |-> "eq", col |-> "g", arg |-> Num(1)]
Has  == [op |-> "exists", col |-> "v", arg |-> TRUE]

Twice == [op |-> "gt", col |-> "n", arg |-> Num(1)]

By(key, dir) == <<[key |-> key, dir |-> dir]>>

Ask(kind, where, sort) ==
  [kind |-> kind, where |-> where, sort |-> sort, limit |-> 1, count |-> "exact",
   keyset |-> FALSE, lookups |-> <<>>]

Letters == {"a", "%", "_", "\\", "*", "?", "[", "]"}

Asked == {All, With, Has, [op |-> "not", child |-> With], Twice}

Lists ==
  {[Ask("list", w, By("v", -1) \o By("id", 1)) EXCEPT !.count = c, !.limit = 2] :
     w \in {All, Has}, c \in {"exact", "none"}}
  \cup {Ask("stream", w, s) : w \in {All, [op |-> "not", child |-> With]},
          s \in {By("v", 1) \o By("id", -1), By("v", -1) \o By("id", 1), By("g", -1) \o By("id", 1)}}

\* g is the id of another row: `parent` has one match, `children` many.
Parent   == [as |-> "parent", local |-> "g", foreign |-> "id", where |-> Has, single |-> TRUE,
             select |-> {"id", "v"}, named |-> [id |-> "parent.id", g |-> "parent.g", v |-> "parent.v"]]
Children == [as |-> "children", local |-> "id", foreign |-> "g", where |-> All, single |-> FALSE,
             select |-> {"v"}, named |-> [id |-> "kids.id", g |-> "kids.g", v |-> "kids.v"]]

Populates ==
  {[Ask("lookup", w, By("id", 1)) EXCEPT !.lookups = l, !.count = c] :
     w \in {All, With}, l \in {<<Parent>>, <<Children>>, <<Parent, Children>>},
     c \in {"exact", "none"}}

Measures == [n |-> [op |-> "count", col |-> "*", where |-> All],
             s |-> [op |-> "sum", col |-> "v", where |-> All]]

Aggregate(by, sort) ==
  Ask("groups", All, sort)
    @@ [groupBy |-> by, bins |-> [x \in {} |-> None], measures |-> Measures,
        having |-> All, topN |-> None]

\* Groups of one size, ranked by g alone: two of them tie.
TwoBest(ties) == [by |-> {"n"}, sort |-> By("g", 1), limit |-> 2, ties |-> ties]

ByPair == Aggregate({"g", "v"}, By("g", 1) \o By("v", 1))

Groupings ==
  LET ByG == Aggregate({"g"}, By("n", -1) \o By("g", 1))
      Best(ties) == [by |-> {"g"}, sort |-> By("n", -1), limit |-> 1, ties |-> ties]
      Marked(dir) == [by |-> {"n"}, sort |-> By("v", dir) \o By("g", 1), limit |-> 2, ties |-> "rank"]
  IN {ByG, ByPair, [ByG EXCEPT !.keyset = TRUE], [ByPair EXCEPT !.keyset = TRUE],
      [ByG EXCEPT !.keyset = TRUE, !.having = Twice],
      [ByG EXCEPT !.having = Twice], [ByG EXCEPT !.count = "none", !.where = Has],
      Aggregate({}, <<>>),
      [Aggregate({}, By("era", 1)) EXCEPT !.bins = [era |-> [field |-> "id", every |-> 2]]],
      [Aggregate({"parent.v"}, By("parent.v", 1)) EXCEPT !.lookups = <<Parent>>]}
     \cup {[ByPair EXCEPT !.topN = t, !.limit = 2] :
              t \in {Best("rank"), Best("dense_rank"), Best("row_number"), Marked(1), Marked(-1),
                     TwoBest("rank"), TwoBest("dense_rank"), TwoBest("row_number")}}

Text(n) == [text |-> n]
Leaves(a, b) ==
  [op : {"eq", "ne"}, arg : {None, a, b}] \cup [op : {"gt", "gte", "lt", "lte"}, arg : {a, b}]
    \cup [op : {"in", "nin"}, arg : SUBSET {None, a, b}] \cup [op : {"exists"}, arg : BOOLEAN]

Questions(a, b, likes) ==
  [kind : {"match"}, leaf : Leaves(a, b) \cup likes, value : {None, a, b}, other : {a, b}]

Every ==
  Lists \cup Populates \cup Groupings
    \cup Questions(Num(1), Num(2), {})
    \cup Questions(Text(1), Text(2), [op : {"like"}, arg : SUBSET {Text(1), Text(2)}])
    \cup [kind : {"pattern"}, pattern : BoundedSeq(Letter, 3)]
=============================================================================
