-------------------------------- MODULE Filters --------------------------------
(***************************************************************************)
(* What a compiled filter selects: compileFilterToDrizzle (filter/         *)
(* compile.ts) on scalar columns and on JSON documents, and the rewriting  *)
(* of leaves over an aggregate's output in HAVING (aggregate/having.ts).   *)
(*                                                                         *)
(* A filter is translated by the value its SQL has on a row: TRUE, FALSE,  *)
(* or None for NULL; a WHERE that is left out (`undefined`) is TRUE.       *)
(* Values are typed: [number |-> 1], [text |-> 1], [bool |-> TRUE],        *)
(* [null |-> TRUE] inside a document, [array |-> <<..>>], [object |-> f];  *)
(* a text is known by its place in the order of texts.  None is SQL NULL.  *)
(***************************************************************************)
EXTENDS Integers, Sequences, FiniteSets

CONSTANTS
  None,         \* SQL NULL, and "no such value"
  JsonColumns,  \* the columns of text mode 'json'
  Filter,       \* the filters that are asked, and their parts
  Letter        \* what LIKE patterns are made of

\* What ORDER BY and the comparisons of SQL tell apart.
Scalars == [number : Int] \cup [text : Int]

ASSUME FilterAssumption ==
  /\ None \notin Scalars \cup BOOLEAN
  /\ \A f \in Filter : /\ f.op \in {"and", "or"} => f.children \subseteq Filter
                      /\ f.op = "not" => f.child \in Filter
  /\ {"*", "?", "[", "]"} \subseteq Letter

Type(x)  == CHOOSE t \in DOMAIN x : TRUE
Is(x, t) == x # None /\ Type(x) = t

-----------------------------------------------------------------------------
(* Three-valued logic. *)

Not3(a)  == IF a = None THEN None ELSE ~a
And3(S)  == IF FALSE \in S THEN FALSE ELSE IF None \in S THEN None ELSE TRUE
Or3(S)   == Not3(And3({Not3(a) : a \in S}))
Selects(v) == v = TRUE

-----------------------------------------------------------------------------
(* Leaves on a scalar column: SQLite's comparisons. *)

Equal(x, y) == IF x = None \/ y = None THEN None ELSE x = y

\* Numbers by value, texts by their order, every text above every number.
Below(x, y) ==
  CASE x = None \/ y = None               -> None
    [] Is(x, "number") /\ Is(y, "number") -> x.number < y.number
    [] Is(x, "text") /\ Is(y, "text")     -> x.text < y.text
    [] OTHER                              -> Is(x, "number")

\* The comparisons that the drivers of WHERE and HAVING share.
Compare(op, x, y) ==
  CASE op = "eq"  -> IF y = None THEN x = None ELSE Equal(x, y)
    [] op = "ne"  -> IF y = None THEN x # None ELSE Not3(Equal(x, y))
    [] op = "gt"  -> Below(y, x)
    [] op = "gte" -> Or3({Below(y, x), Equal(x, y)})
    [] op = "lt"  -> Below(x, y)
    [] op = "lte" -> Or3({Below(x, y), Equal(x, y)})
    [] op = "exists" -> (x # None) = y

Comparisons == {"eq", "ne", "gt", "gte", "lt", "lte", "exists"}

\* SQL's own IN, over any members.
InList(x, ys) == Or3({Equal(x, y) : y \in ys})

\* `like` is known by the texts its pattern matches.
ScalarLeaf(f, x) ==
  LET some == f.arg \ {None} IN
  CASE f.op \in Comparisons -> Compare(f.op, x, f.arg)
    [] f.op = "in"  -> Or3({InList(x, some)} \cup (IF None \in f.arg THEN {x = None} ELSE {}))
    [] f.op = "nin" -> CASE f.arg = {} -> TRUE
                         [] f.arg = {None} -> x # None
                         [] OTHER -> Not3(InList(x, some))
    [] f.op = "like" -> IF x = None THEN None ELSE x \in f.arg

-----------------------------------------------------------------------------
(* Leaves on a JSON document, or on a dotted path into one. *)

\* One segment of walkJson.  An array is entered by index, when the segment is
\* one, and fans out to its objects.
Enter(node, step) ==
  LET entries == {node.array[k] : k \in DOMAIN node.array}
      Field(x) == IF step \in DOMAIN x.object THEN {x.object[step]} ELSE {}
  IN CASE Is(node, "array") ->
            {node.array[k] : k \in {j \in DOMAIN node.array : j - 1 = step}}
              \cup UNION {Field(x) : x \in {y \in entries : Is(y, "object")}}
       [] Is(node, "object") -> Field(node)
       [] OTHER -> {}

\* walkJson: the values at the end of the path.
Reached(doc, path) ==
  LET at[k \in 0 .. Len(path)] ==
        IF k = 0 THEN {doc} \ {None} ELSE UNION {Enter(node, path[k]) : node \in at[k - 1]}
  IN at[Len(path)]

\* jsonSome's candidates: the values reached, and the elements of an array reached.
JsonEach(doc, path) ==
  Reached(doc, path)
    \cup UNION {{x.array[k] : k \in DOMAIN x.array} :
                 x \in {y \in Reached(doc, path) : Is(y, "array")}}

JsonPresent(doc, path) ==
  IF path = <<>> THEN doc # None ELSE \E x \in Reached(doc, path) : ~Is(x, "null")

\* Booleans order as 1 and 0; a number and a text do not compare.
JsonNumber(x) == IF Is(x, "bool") THEN (IF x.bool THEN 1 ELSE 0) ELSE x.number
JsonBelow(x, y) ==
  CASE {Type(x), Type(y)} \subseteq {"number", "bool"} -> JsonNumber(x) < JsonNumber(y)
    [] {Type(x), Type(y)} = {"text"}                   -> x.text < y.text
    [] OTHER                                           -> FALSE

JsonAtMost(x, y) ==
  JsonBelow(x, y) \/ ({Type(x), Type(y)} \subseteq {"number", "bool"} /\ JsonNumber(x) = JsonNumber(y))
                  \/ x = y

\* Leaves, from the candidates and whether there is a value.  `ne` and `nin`:
\* present, and no value or element is the argument.
JsonTest(f, xs, present) ==
  CASE f.op = "eq"  -> IF f.arg = None THEN ~present ELSE f.arg \in xs
    [] f.op = "ne"  -> present /\ f.arg \notin xs
    [] f.op = "gt"  -> \E x \in xs : JsonBelow(f.arg, x)
    [] f.op = "gte" -> \E x \in xs : JsonAtMost(f.arg, x)
    [] f.op = "lt"  -> \E x \in xs : JsonBelow(x, f.arg)
    [] f.op = "lte" -> \E x \in xs : JsonAtMost(x, f.arg)
    [] f.op = "in"  -> xs \cap (f.arg \ {None}) # {} \/ (None \in f.arg /\ ~present)
    [] f.op = "nin" -> present /\ xs \cap f.arg = {}
    [] f.op = "exists" -> present = f.arg
    [] f.op = "like"   -> xs \cap f.arg # {}

\* Mutant: whole values only, not the elements of an array.
JsonLeafWhole(f, doc, path) ==
  JsonTest(f, Reached(doc, path), JsonPresent(doc, path))

JsonLeaf(f, doc, path) ==
  JsonTest(f, JsonEach(doc, path), JsonPresent(doc, path))

-----------------------------------------------------------------------------
(* Filters. *)

\* A field is a column, and the path below it when the column holds JSON.
Leaf(f, row) ==
  IF f.col \in JsonColumns THEN JsonLeaf(f, row[f.col], f.path) ELSE ScalarLeaf(f, row[f.col])

Sql(f, row) ==
  LET value[g \in Filter] ==
        CASE g.op = "true"  -> TRUE
          [] g.op = "false" -> FALSE
          [] g.op = "and"   -> And3({value[h] : h \in g.children})
          [] g.op = "or"    -> Or3({value[h] : h \in g.children})
          [] g.op = "not"   -> Not3(value[g.child])
          [] OTHER          -> Leaf(g, row)
  IN value[f]

Where(f, rows) == {r \in rows : Selects(Sql(f, r))}

\* renderCompare: a leaf over a measure or a bucket of the output row.
HavingLeaf(f, x) ==
  CASE f.op \in Comparisons -> Compare(f.op, x, f.arg)
    [] f.op = "in"  -> InList(x, f.arg)
    [] f.op = "nin" -> IF f.arg = {} THEN TRUE ELSE Not3(InList(x, f.arg))

-----------------------------------------------------------------------------
(* likeToGlob.  A pattern or a text is a sequence of letters; "%", "_" and *)
(* "\\" are special to LIKE .. ESCAPE, "*", "?" and "[" to GLOB.           *)

\* Left to right: `part` says of the letters that are left how many the next
\* part `eats`, and what comes `out` for it.
Scan(part, text) ==
  LET from[i \in 1 .. Len(text) + 1] ==
        IF i > Len(text) THEN <<>>
        ELSE LET next == part[SubSeq(text, i, Len(text))] IN next.out \o from[i + next.eats]
  IN from[1]

Texts == Seq(Letter) \ {<<>>}

Eat(n, out) == [eats |-> n, out |-> out]

Escapes(p) == Len(p) > 1 /\ p[1] = "\\" /\ p[2] \in {"%", "_", "\\"}

\* What a pattern is made of: a literal letter, any letter, or any text.
LikePart == [p \in Texts |->
  CASE Escapes(p)   -> Eat(2, <<[literal |-> p[2]]>>)
    [] p[1] = "%"   -> Eat(1, <<[any |-> TRUE]>>)
    [] p[1] = "_"   -> Eat(1, <<[one |-> TRUE]>>)
    [] OTHER        -> Eat(1, <<[literal |-> p[1]]>>)]

LikeParts(p) == Scan(LikePart, p)

\* likeToGlob quotes what GLOB would take for a wildcard.
QuotedPart == [p \in Texts |->
  CASE Escapes(p)               -> Eat(2, <<p[2]>>)
    [] p[1] = "%"               -> Eat(1, <<"*">>)
    [] p[1] = "_"               -> Eat(1, <<"?">>)
    [] p[1] \in {"*", "?", "["} -> Eat(1, <<"[", p[1], "]">>)
    [] OTHER                    -> Eat(1, <<p[1]>>)]

LikeToGlob(p) == Scan(QuotedPart, p)

\* SQLite's GLOB: a class is "[", its letters, "]"; "]" elsewhere is literal.
GlobPart == [g \in Texts |->
  CASE g[1] = "*" -> Eat(1, <<[any |-> TRUE]>>)
    [] g[1] = "?" -> Eat(1, <<[one |-> TRUE]>>)
    [] g[1] = "[" /\ Len(g) > 2 /\ g[3] = "]" -> Eat(3, <<[literal |-> g[2]]>>)
    [] OTHER      -> Eat(1, <<[literal |-> g[1]]>>)]

GlobParts(g) == Scan(GlobPart, g)
=============================================================================
