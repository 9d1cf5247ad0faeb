----------------------------- MODULE PagesProofs -----------------------------
(***************************************************************************)
(* Theorems about Pages, for any table, any requests whose sort orders     *)
(* what it sorts (RequestAssumption), and any writes.                         *)
(***************************************************************************)
EXTENDS Pages, FiniteSetTheorems, SequenceTheorems, NaturalsInduction,
        WellFoundedInduction, TLAPS

-----------------------------------------------------------------------------
(* SQL's comparisons. *)

Logical == BOOLEAN \cup {None}

\* A number is a number and no text, a text is a text and no number, and what
\* they hold is all there is to them.
LEMMA NumberIs ==
  ASSUME NEW x \in [number : Int]
  PROVE  x # None /\ Is(x, "number") /\ ~Is(x, "text") /\ x.number \in Int
<1>1. DOMAIN x = {"number"}
  OBVIOUS
<1>2. Type(x) = "number"
  BY <1>1 DEF Type
<1> QED
  BY <1>2, FilterAssumption DEF Is, Scalars

LEMMA TextIs ==
  ASSUME NEW x \in [text : Int]
  PROVE  x # None /\ Is(x, "text") /\ ~Is(x, "number") /\ x.text \in Int
<1>1. DOMAIN x = {"text"}
  OBVIOUS
<1>2. Type(x) = "text"
  BY <1>1 DEF Type
<1> QED
  BY <1>2, FilterAssumption DEF Is, Scalars

\* `<` on two scalars, case by case.
LEMMA BelowIs ==
  ASSUME NEW x \in Scalars, NEW y \in Scalars
  PROVE  /\ Below(x, y) \in BOOLEAN
         /\ x \in [number : Int] /\ y \in [number : Int] => (Below(x, y) <=> x.number < y.number)
         /\ x \in [text : Int] /\ y \in [text : Int] => (Below(x, y) <=> x.text < y.text)
         /\ x \in [number : Int] /\ y \in [text : Int] => Below(x, y)
         /\ x \in [text : Int] /\ y \in [number : Int] => ~Below(x, y)
<1>1. CASE x \in [number : Int] /\ y \in [number : Int]
  <2>1. Below(x, y) = (x.number < y.number)
    BY <1>1, NumberIs, TextIs DEF Below
  <2>2. (x.number < y.number) \in BOOLEAN
    OBVIOUS
  <2>3. ~(x \in [text : Int]) /\ ~(y \in [text : Int])
    BY <1>1, NumberIs, TextIs
  <2> QED
    BY <1>1, <2>1, <2>2, <2>3, Zenon
<1>2. CASE x \in [text : Int] /\ y \in [text : Int]
  <2>1. Below(x, y) = (x.text < y.text)
    BY <1>2, NumberIs, TextIs DEF Below
  <2>2. (x.text < y.text) \in BOOLEAN
    OBVIOUS
  <2>3. ~(x \in [number : Int]) /\ ~(y \in [number : Int])
    BY <1>2, NumberIs, TextIs
  <2> QED
    BY <1>2, <2>1, <2>2, <2>3, Zenon
<1>3. CASE x \in [number : Int] /\ y \in [text : Int]
  BY <1>3, NumberIs, TextIs DEF Below
<1>4. CASE x \in [text : Int] /\ y \in [number : Int]
  <2>1. ~(x \in [number : Int]) /\ ~(y \in [text : Int])
    BY <1>4, NumberIs, TextIs
  <2>2. Below(x, y) = FALSE
    BY <1>4, NumberIs, TextIs DEF Below, Is
  <2> QED
    BY <1>4, <2>1, <2>2, Zenon
<1> QED
  BY <1>1, <1>2, <1>3, <1>4, NumberIs, TextIs DEF Scalars

LEMMA SameContents ==
  /\ \A x, y \in [number : Int] : x.number = y.number => x = y
  /\ \A x, y \in [text : Int] : x.text = y.text => x = y
OBVIOUS

\* `<` is a strict total order of the scalars.
LEMMA BelowOrders ==
  ASSUME NEW x \in Scalars, NEW y \in Scalars
  PROVE  /\ Below(x, y) \in BOOLEAN
         /\ ~(Below(x, y) /\ Below(y, x))
         /\ Below(x, y) \/ Below(y, x) \/ x = y
         /\ x = y => ~Below(x, y)
<1>1. CASE x \in [number : Int] /\ y \in [number : Int]
  BY <1>1, BelowIs, NumberIs, SameContents
<1>2. CASE x \in [text : Int] /\ y \in [text : Int]
  BY <1>2, BelowIs, TextIs, SameContents
<1>3. CASE x \in [number : Int] /\ y \in [text : Int]
  BY <1>3, BelowIs, NumberIs, TextIs
<1>4. CASE x \in [text : Int] /\ y \in [number : Int]
  BY <1>4, BelowIs, NumberIs, TextIs
<1> QED
  BY <1>1, <1>2, <1>3, <1>4 DEF Scalars

LEMMA BelowTransitive ==
  ASSUME NEW x \in Scalars, NEW y \in Scalars, NEW z \in Scalars,
         Below(x, y), Below(y, z)
  PROVE  Below(x, z)
<1>1. CASE x \in [number : Int] /\ z \in [number : Int]
  <2>1. y \in [number : Int]
    BY <1>1, BelowIs, NumberIs, TextIs DEF Scalars
  <2> QED
    BY <1>1, <2>1, BelowIs, NumberIs
<1>2. CASE x \in [text : Int] /\ z \in [text : Int]
  <2>1. y \in [text : Int]
    BY <1>2, BelowIs, NumberIs, TextIs DEF Scalars
  <2> QED
    BY <1>2, <2>1, BelowIs, TextIs
<1>3. CASE x \in [number : Int] /\ z \in [text : Int]
  BY <1>3, BelowIs
<1>4. CASE x \in [text : Int] /\ z \in [number : Int]
  <2>1. CASE y \in [number : Int]
    BY <1>4, <2>1, BelowIs
  <2>2. CASE y \in [text : Int]
    BY <1>4, <2>2, BelowIs
  <2> QED
    BY <2>1, <2>2 DEF Scalars
<1> QED
  BY <1>1, <1>2, <1>3, <1>4 DEF Scalars
-----------------------------------------------------------------------------
(* ORDER BY. *)

Sortable == {None} \cup Scalars

\* NULL first, then `<`: a strict total order too.
LEMMA PrecedesOrders ==
  ASSUME NEW x \in Sortable, NEW y \in Sortable
  PROVE  /\ Precedes(x, y) \in BOOLEAN
         /\ ~(Precedes(x, y) /\ Precedes(y, x))
         /\ Precedes(x, y) \/ Precedes(y, x) \/ x = y
         /\ ~Precedes(x, x)
<1>1. None \notin Scalars
  BY FilterAssumption
<1>2. CASE x \in Scalars /\ y \in Scalars
  <2>1. /\ Below(x, y) \in BOOLEAN /\ Below(y, x) \in BOOLEAN
        /\ ~(Below(x, y) /\ Below(y, x))
        /\ Below(x, y) \/ Below(y, x) \/ x = y
        /\ ~Below(x, x)
    BY <1>2, BelowOrders
  <2>2. x # None /\ y # None
    BY <1>1, <1>2
  <2> QED
    BY <2>1, <2>2, Zenon DEF Precedes, Selects
<1>3. CASE x = None \/ y = None
  <2>1. /\ Precedes(x, y) \in BOOLEAN
        /\ y = None => ~Precedes(x, y)
        /\ x = None /\ y # None => Precedes(x, y)
        /\ x = None => ~Precedes(y, x)
    BY Zenon DEF Precedes
  <2>2. CASE x = None
    BY <2>1, <2>2, Zenon DEF Precedes
  <2>3. CASE x \in Scalars /\ y = None
    <3>1. ~Below(x, x) /\ x # None
      BY <1>1, <2>3, BelowOrders
    <3> QED
      BY <2>1, <2>3, <3>1, Zenon DEF Precedes, Selects
  <2> QED
    BY <1>3, <2>2, <2>3 DEF Sortable
<1> QED
  BY <1>2, <1>3 DEF Sortable

LEMMA PrecedesTransitive ==
  ASSUME NEW x \in Sortable, NEW y \in Sortable, NEW z \in Sortable,
         Precedes(x, y), Precedes(y, z)
  PROVE  Precedes(x, z)
<1>1. y # None /\ z # None
  BY DEF Precedes
<1>2. CASE x = None
  BY <1>1, <1>2 DEF Precedes
<1>3. CASE x # None
  <2>1. x \in Scalars /\ y \in Scalars /\ z \in Scalars
    BY <1>1, <1>3 DEF Sortable
  <2>2. Below(x, y) /\ Below(y, z)
    BY <1>1, <1>3 DEF Precedes, Selects
  <2>3. Below(x, z) = TRUE
    <3>1. Below(x, z)
      BY <2>1, <2>2, BelowTransitive
    <3>2. Below(x, z) \in BOOLEAN
      BY <2>1, BelowOrders
    <3> QED
      BY <3>1, <3>2
  <2> QED
    BY <1>1, <2>3 DEF Precedes, Selects
<1> QED
  BY <1>2, <1>3

\* What ORDER BY compares in a row.
Sorts == Seq([key : STRING, dir : {1, -1}])
Fits(sort, row) == \A i \in DOMAIN sort : row[sort[i].key] \in Sortable

\* One key of ORDER BY, in its direction.
KeyLess(sort, i, x, y) ==
  IF sort[i].dir = 1 THEN Precedes(x[sort[i].key], y[sort[i].key])
                     ELSE Precedes(y[sort[i].key], x[sort[i].key])

LEMMA DirIs ==
  ASSUME NEW sort \in Sorts, NEW i \in DOMAIN sort
  PROVE  sort[i].dir = 1 \/ sort[i].dir = -1
<1> DEFINE Key == [key : STRING, dir : {1, -1}]
<1>1. sort \in Seq(Key) /\ i \in 1 .. Len(sort)
  BY LenProperties DEF Sorts
<1> HIDE DEF Key
<1>2. sort[i] \in Key
  BY <1>1, ElementOfSeq
<1> QED
  BY <1>2 DEF Key

Agree(sort, i, x, y) == \A j \in 1 .. i - 1 : x[sort[j].key] = y[sort[j].key]

LEMMA BeforeIs ==
  ASSUME NEW sort, NEW x, NEW y
  PROVE  Before(sort, x, y) <=> \E i \in DOMAIN sort : Agree(sort, i, x, y) /\ KeyLess(sort, i, x, y)
BY DEF Before, Agree, KeyLess

LEMMA BeforeTransitive ==
  ASSUME NEW sort \in Sorts, NEW x, NEW y, NEW z,
         Fits(sort, x), Fits(sort, y), Fits(sort, z),
         Before(sort, x, y), Before(sort, y, z)
  PROVE  Before(sort, x, z)
<1>1. PICK i \in DOMAIN sort : Agree(sort, i, x, y) /\ KeyLess(sort, i, x, y)
  BY BeforeIs
<1>2. PICK j \in DOMAIN sort : Agree(sort, j, y, z) /\ KeyLess(sort, j, y, z)
  BY BeforeIs
<1>3. i \in Nat /\ j \in Nat /\ i >= 1 /\ j >= 1
  BY DEF Sorts
<1>4. CASE i < j
  <2>1. Agree(sort, i, x, z)
    BY <1>1, <1>2, <1>3, <1>4 DEF Agree
  <2>2. y[sort[i].key] = z[sort[i].key]
    BY <1>2, <1>3, <1>4 DEF Agree
  <2>3. KeyLess(sort, i, x, z)
    BY <1>1, <2>2 DEF KeyLess
  <2> QED
    BY <2>1, <2>3, BeforeIs
<1>5. CASE j < i
  <2>1. Agree(sort, j, x, z)
    BY <1>1, <1>2, <1>3, <1>5 DEF Agree
  <2>2. x[sort[j].key] = y[sort[j].key]
    BY <1>1, <1>3, <1>5 DEF Agree
  <2>3. KeyLess(sort, j, x, z)
    BY <1>2, <2>2 DEF KeyLess
  <2> QED
    BY <2>1, <2>3, BeforeIs
<1>6. CASE i = j
  <2>1. Agree(sort, i, x, z)
    BY <1>1, <1>2, <1>6 DEF Agree
  <2>2. KeyLess(sort, i, x, z)
    BY <1>1, <1>2, <1>6, PrecedesTransitive DEF KeyLess, Fits
  <2> QED
    BY <2>1, <2>2, BeforeIs
<1> QED
  BY <1>3, <1>4, <1>5, <1>6

LEMMA BeforeAsymmetric ==
  ASSUME NEW sort \in Sorts, NEW x, NEW y,
         Fits(sort, x), Fits(sort, y), Before(sort, x, y)
  PROVE  ~Before(sort, y, x)
<1> SUFFICES ASSUME Before(sort, y, x) PROVE FALSE
  OBVIOUS
<1>1. Before(sort, x, x)
  BY BeforeTransitive
<1>2. PICK i \in DOMAIN sort : KeyLess(sort, i, x, x)
  BY <1>1, BeforeIs
<1> QED
  BY <1>2, PrecedesOrders DEF KeyLess, Fits

\* The least element of a set of positions.
LEMMA LeastPosition ==
  ASSUME NEW S \in SUBSET Nat, S # {}
  PROVE  \E n \in S : \A m \in S : n <= m
<1>1. PICK n \in S : \A m \in S : ~(<<m, n>> \in OpToRel(<, Nat))
  BY NatLessThanWellFounded, WFMin
<1>2. \A m \in S : ~(m < n)
  BY <1>1, Zenon DEF OpToRel
<1> QED
  BY <1>2

LEMMA BeforeTotal ==
  ASSUME NEW sort \in Sorts, NEW x, NEW y,
         Fits(sort, x), Fits(sort, y), ~Tied(sort, x, y)
  PROVE  Before(sort, x, y) \/ Before(sort, y, x)
<1> DEFINE S == {i \in DOMAIN sort : x[sort[i].key] # y[sort[i].key]}
<1>1. S \in SUBSET Nat /\ S # {}
  BY DEF Tied, Sorts
<1>2. PICK i \in S : \A m \in S : i <= m
  BY <1>1, LeastPosition
<1>3. Agree(sort, i, x, y) /\ Agree(sort, i, y, x)
  <2>1. \A j \in 1 .. i - 1 : j \in DOMAIN sort /\ ~(i <= j)
    BY <1>2 DEF Sorts
  <2> QED
    BY <1>2, <2>1 DEF Agree
<1>4. KeyLess(sort, i, x, y) \/ KeyLess(sort, i, y, x)
  BY <1>2, PrecedesOrders DEF KeyLess, Fits
<1> QED
  BY <1>2, <1>3, <1>4, BeforeIs

-----------------------------------------------------------------------------
(* A cursor. *)

\* NOT, AND and OR in three values.
LEMMA LogicalNone == None \notin BOOLEAN
BY FilterAssumption

LEMMA AndSelects ==
  ASSUME NEW S \in SUBSET Logical
  PROVE  And3(S) \in Logical /\ (Selects(And3(S)) <=> S \subseteq {TRUE})
<1>1. CASE FALSE \in S
  BY <1>1 DEF And3, Selects, Logical
<1>2. CASE FALSE \notin S /\ None \in S
  BY <1>2, LogicalNone DEF And3, Selects, Logical
<1>3. CASE FALSE \notin S /\ None \notin S
  BY <1>3 DEF And3, Selects, Logical
<1> QED
  BY <1>1, <1>2, <1>3

LEMMA OrSelects ==
  ASSUME NEW S \in SUBSET Logical
  PROVE  Selects(Or3(S)) <=> TRUE \in S
<1> DEFINE N == {Not3(a) : a \in S}
<1>1. \A a \in Logical : Not3(a) \in Logical /\ (Not3(a) = FALSE <=> a = TRUE) /\ (Not3(a) = TRUE <=> a = FALSE)
  BY LogicalNone DEF Not3, Logical
<1>2. N \in SUBSET Logical
  BY <1>1
<1>3. And3(N) \in Logical /\ (FALSE \in N => And3(N) = FALSE) /\ (And3(N) = FALSE => FALSE \in N)
  BY <1>2, LogicalNone, AndSelects DEF And3
<1>4. FALSE \in N <=> TRUE \in S
  BY <1>1
<1>5. Or3(S) = Not3(And3(N))
  BY DEF Or3
<1>6. Not3(And3(N)) = TRUE <=> And3(N) = FALSE
  BY <1>1, <1>3
<1> QED
  BY <1>3, <1>4, <1>5, <1>6 DEF Selects

\* One branch of the cursor's predicate.
Branch(sort, i, after, row) ==
  {Equal(row[sort[j].key], after[sort[j].key]) : j \in 1 .. i - 1}
    \cup {LET key == sort[i].key
          IN IF sort[i].dir = 1 THEN Below(after[key], row[key]) ELSE Below(row[key], after[key])}

\* SQL's `=` and `<` select what is equal, or less, and not NULL.
LEMMA EqualSelects ==
  ASSUME NEW x \in Sortable, NEW y \in Sortable
  PROVE  Equal(x, y) \in Logical /\ (Selects(Equal(x, y)) <=> x = y /\ x # None)
BY LogicalNone DEF Equal, Selects, Logical

LEMMA BelowSelects ==
  ASSUME NEW x \in Sortable, NEW y \in Sortable
  PROVE  Below(x, y) \in Logical /\ (Selects(Below(x, y)) <=> x # None /\ y # None /\ Precedes(x, y))
<1>1. CASE x = None \/ y = None
  <2>1. Below(x, y) = None
    BY <1>1 DEF Below, Is
  <2> QED
    BY <1>1, <2>1, LogicalNone DEF Selects, Logical
<1>2. CASE x # None /\ y # None
  <2>1. Below(x, y) \in BOOLEAN
    BY <1>2, BelowOrders DEF Sortable
  <2>2. Below(x, y) \in Logical
    BY <2>1, Zenon DEF Logical
  <2>3. Precedes(x, y) <=> Selects(Below(x, y))
    BY <1>2, Zenon DEF Precedes
  <2> QED
    BY <1>2, <2>2, <2>3
<1> QED
  BY <1>1, <1>2

\* A branch selects the rows that agree with the cursor before its key, and
\* come after it in its key, without NULLs.
LEMMA BranchSelects ==
  ASSUME NEW sort \in Sorts, NEW c, NEW row, Fits(sort, c), Fits(sort, row),
         NEW i \in DOMAIN sort
  PROVE  /\ Branch(sort, i, CursorAt(sort, c), row) \in SUBSET Logical
         /\ Selects(And3(Branch(sort, i, CursorAt(sort, c), row))) <=>
              /\ Agree(sort, i, c, row) /\ KeyLess(sort, i, c, row)
              /\ \A j \in 1 .. i : c[sort[j].key] # None
              /\ row[sort[i].key] # None
<1> DEFINE k == CursorAt(sort, c)
<1> DEFINE B == Branch(sort, i, k, row)
<1> DEFINE last == IF sort[i].dir = 1 THEN Below(k[sort[i].key], row[sort[i].key])
                                      ELSE Below(row[sort[i].key], k[sort[i].key])
<1>1. \A j \in DOMAIN sort : k[sort[j].key] = c[sort[j].key]
  BY DEF CursorAt
<1>2. i \in Nat /\ i >= 1 /\ \A j \in 1 .. i : j \in DOMAIN sort
  BY DEF Sorts
<1>3. B = {Equal(row[sort[j].key], k[sort[j].key]) : j \in 1 .. i - 1} \cup {last}
  BY DEF Branch
<1> HIDE DEF k, B, last
<1>4. \A j \in 1 .. i - 1 :
        /\ Equal(row[sort[j].key], k[sort[j].key]) \in Logical
        /\ Selects(Equal(row[sort[j].key], k[sort[j].key]))
             <=> row[sort[j].key] = c[sort[j].key] /\ row[sort[j].key] # None
  <2> SUFFICES ASSUME NEW j \in 1 .. i - 1
               PROVE  /\ Equal(row[sort[j].key], k[sort[j].key]) \in Logical
                      /\ Selects(Equal(row[sort[j].key], k[sort[j].key]))
                           <=> row[sort[j].key] = c[sort[j].key] /\ row[sort[j].key] # None
    OBVIOUS
  <2>1. j \in DOMAIN sort
    BY <1>2
  <2>2. row[sort[j].key] \in Sortable /\ c[sort[j].key] \in Sortable
    BY <2>1 DEF Fits
  <2> QED
    BY <1>1, <2>1, <2>2, EqualSelects
<1>5. /\ last \in Logical
      /\ Selects(last) <=> KeyLess(sort, i, c, row) /\ c[sort[i].key] # None /\ row[sort[i].key] # None
  BY <1>1, BelowSelects DEF last, KeyLess, Fits
<1>6. B \in SUBSET Logical
  BY <1>3, <1>4, <1>5
<1>7. B \subseteq {TRUE} <=> Selects(last) /\ \A j \in 1 .. i - 1 : Selects(Equal(row[sort[j].key], k[sort[j].key]))
  BY <1>3 DEF Selects
<1>8. (\A j \in 1 .. i - 1 : Selects(Equal(row[sort[j].key], k[sort[j].key])))
        <=> Agree(sort, i, c, row) /\ \A j \in 1 .. i - 1 : c[sort[j].key] # None
  BY <1>4 DEF Agree
<1>9. (\A j \in 1 .. i : c[sort[j].key] # None)
        <=> c[sort[i].key] # None /\ \A j \in 1 .. i - 1 : c[sort[j].key] # None
  BY <1>2
<1>10. Selects(And3(B)) <=> B \subseteq {TRUE}
  BY <1>6, AndSelects
<1> QED
  BY <1>5, <1>6, <1>7, <1>8, <1>9, <1>10 DEF B, k

\* What the cursor's predicate selects comes after the row it was taken from;
LEMMA SelectedIsAfter ==
  ASSUME NEW sort \in Sorts, NEW c, NEW row, Fits(sort, c), Fits(sort, row),
         Selects(AfterCursor(sort, CursorAt(sort, c), row))
  PROVE  Before(sort, c, row)
<1> DEFINE S == {And3(Branch(sort, i, CursorAt(sort, c), row)) : i \in DOMAIN sort}
<1>1. AfterCursor(sort, CursorAt(sort, c), row) = Or3(S)
  BY DEF AfterCursor, Branch
<1>2. S \in SUBSET Logical
  <2>1. \A i \in DOMAIN sort : Branch(sort, i, CursorAt(sort, c), row) \in SUBSET Logical
    BY BranchSelects
  <2>2. \A i \in DOMAIN sort : And3(Branch(sort, i, CursorAt(sort, c), row)) \in Logical
    BY <2>1, AndSelects
  <2> QED
    BY <2>2
<1>3. PICK i \in DOMAIN sort : Selects(And3(Branch(sort, i, CursorAt(sort, c), row)))
  BY <1>1, <1>2, OrSelects DEF Selects
<1> QED
  BY <1>3, BranchSelects, BeforeIs

\* ... and it selects all of them that it can see.
LEMMA AfterIsSelected ==
  ASSUME NEW sort \in Sorts, NEW c, NEW row, Fits(sort, c), Fits(sort, row),
         Before(sort, c, row), ~NullKey(sort, c), ~UnseenKey(sort, row)
  PROVE  Selects(AfterCursor(sort, CursorAt(sort, c), row))
<1> DEFINE S == {And3(Branch(sort, i, CursorAt(sort, c), row)) : i \in DOMAIN sort}
<1>1. AfterCursor(sort, CursorAt(sort, c), row) = Or3(S)
  BY DEF AfterCursor, Branch
<1>2. S \in SUBSET Logical
  <2>1. \A i \in DOMAIN sort : Branch(sort, i, CursorAt(sort, c), row) \in SUBSET Logical
    BY BranchSelects
  <2>2. \A i \in DOMAIN sort : And3(Branch(sort, i, CursorAt(sort, c), row)) \in Logical
    BY <2>1, AndSelects
  <2> QED
    BY <2>2
<1>3. PICK i \in DOMAIN sort : Agree(sort, i, c, row) /\ KeyLess(sort, i, c, row)
  BY BeforeIs
<1>4. \A j \in 1 .. i : j \in DOMAIN sort /\ c[sort[j].key] # None
  BY <1>3 DEF NullKey, Sorts
<1>5. row[sort[i].key] # None
  <2>1. CASE sort[i].dir = 1
    BY <1>3, <2>1 DEF KeyLess, Precedes
  <2>2. CASE sort[i].dir = -1
    BY <1>3, <2>2 DEF UnseenKey
  <2> QED
    BY <1>3, <2>1, <2>2, DirIs
<1>6. Selects(And3(Branch(sort, i, CursorAt(sort, c), row)))
  BY <1>3, <1>4, <1>5, BranchSelects
<1> QED
  BY <1>1, <1>2, <1>3, <1>6, OrSelects DEF Selects

-----------------------------------------------------------------------------
(* What a statement sorts is finite. *)

\* The values of a function on a finite set are finitely many.
LEMMA ImageFinite ==
  ASSUME NEW S, IsFiniteSet(S), NEW f
  PROVE  IsFiniteSet({f[x] : x \in S})
<1>1. [x \in S |-> f[x]] \in Surjection(S, {f[x] : x \in S})
  BY DEF Surjection
<1> QED
  BY <1>1, FS_Surjection

LEMMA RowsFinite == ASSUME NEW t PROVE IsFiniteSet(RowsOf(t))
<1> DEFINE f == [i \in Id |-> t[i]]
<1>1. IsFiniteSet({f[i] : i \in Id})
  BY PagesAssumption, ImageFinite
<1>2. RowsOf(t) \in SUBSET {f[i] : i \in Id}
  BY DEF RowsOf
<1> QED
  BY <1>1, <1>2, FS_Subset

LEMMA WhereFinite ==
  ASSUME NEW f, NEW rows, IsFiniteSet(rows)
  PROVE  IsFiniteSet(Where(f, rows)) /\ Where(f, rows) \subseteq rows
BY FS_Subset DEF Where

\* A join of finite tables is finite.
LEMMA JoinFinite ==
  ASSUME NEW rows, NEW spec, NEW foreign, IsFiniteSet(rows), IsFiniteSet(foreign)
  PROVE  IsFiniteSet(LeftJoin(rows, spec, foreign))
<1> DEFINE Of(r) == {Joined(spec, r, m) : m \in OrNone(Matches(spec, r, foreign))}
<1>1. \A r : IsFiniteSet(Of(r))
  <2> SUFFICES ASSUME NEW r PROVE IsFiniteSet(Of(r))
    OBVIOUS
  <2> DEFINE S == OrNone(Matches(spec, r, foreign))
  <2> DEFINE f == [m \in S |-> Joined(spec, r, m)]
  <2>1. Matches(spec, r, foreign) \in SUBSET foreign
    BY DEF Matches
  <2>2. IsFiniteSet(S)
    BY <2>1, FS_Subset, FS_Singleton DEF OrNone
  <2> HIDE DEF S
  <2>3. IsFiniteSet({f[m] : m \in S})
    BY <2>2, ImageFinite
  <2>4. {f[m] : m \in S} = Of(r)
    BY DEF S
  <2> QED
    BY <2>3, <2>4
<1> HIDE DEF Of
<1> DEFINE g == [r \in rows |-> Of(r)]
<1>2. IsFiniteSet({g[r] : r \in rows})
  BY ImageFinite
<1>3. \A T \in {g[r] : r \in rows} : IsFiniteSet(T)
  BY <1>1
<1>4. IsFiniteSet(UNION {g[r] : r \in rows})
  BY <1>2, <1>3, FS_UNION
<1>5. UNION {g[r] : r \in rows} = LeftJoin(rows, spec, foreign)
  BY DEF LeftJoin, Of
<1> QED
  BY <1>4, <1>5

\* The chain of joins: what LeftJoins computes, lookup by lookup.
IsChain(joined, m, rows, specs, foreign) ==
  joined = [n \in 0 .. m |-> IF n = 0 THEN rows ELSE LeftJoin(joined[n - 1], specs[n], foreign)]

LEMMA ChainExists ==
  ASSUME NEW rows, NEW specs, NEW foreign
  PROVE  \A m \in Nat : \E joined : IsChain(joined, m, rows, specs, foreign)
<1> DEFINE Bad == {m \in Nat : ~\E joined : IsChain(joined, m, rows, specs, foreign)}
<1> SUFFICES ASSUME Bad # {} PROVE FALSE
  OBVIOUS
<1>1. PICK m \in Bad : \A k \in Bad : m <= k
  BY LeastPosition
<1>2. CASE m = 0
  <2>1. IsChain([n \in 0 .. 0 |-> rows], 0, rows, specs, foreign)
    BY DEF IsChain
  <2> QED
    BY <1>1, <1>2, <2>1
<1>3. CASE m # 0
  <2>1. m - 1 \in Nat /\ m - 1 \notin Bad
    BY <1>1, <1>3
  <2>2. PICK f : IsChain(f, m - 1, rows, specs, foreign)
    BY <2>1
  <2> DEFINE g == [n \in 0 .. m |-> IF n = 0 THEN rows ELSE LeftJoin(f[n - 1], specs[n], foreign)]
  <2>3. \A n \in 0 .. m - 1 : f[n] = IF n = 0 THEN rows ELSE LeftJoin(f[n - 1], specs[n], foreign)
    BY <2>2 DEF IsChain
  <2>4. \A n \in 0 .. m - 1 : g[n] = f[n]
    BY <2>1, <2>3
  <2>5. \A n \in 0 .. m : n # 0 => g[n - 1] = f[n - 1]
    <3> SUFFICES ASSUME NEW n \in 0 .. m, n # 0 PROVE g[n - 1] = f[n - 1]
      OBVIOUS
    <3>1. n - 1 \in 0 .. m - 1
      BY <2>1
    <3> HIDE DEF g
    <3> QED
      BY <2>4, <3>1
  <2>6. g = [n \in 0 .. m |-> IF n = 0 THEN rows ELSE LeftJoin(g[n - 1], specs[n], foreign)]
    BY <2>5
  <2> HIDE DEF g
  <2>7. IsChain(g, m, rows, specs, foreign)
    BY <2>6 DEF IsChain
  <2> QED
    BY <1>1, <2>7
<1> QED
  BY <1>2, <1>3

\* joined[n] is rows after the first n lookups.
Steps(joined, rows, specs, foreign) ==
  /\ LeftJoins(rows, specs, foreign) = joined[Len(specs)]
  /\ joined[0] = rows
  /\ \A n \in 1 .. Len(specs) : joined[n] = LeftJoin(joined[n - 1], specs[n], foreign)

LEMMA LeftJoinsIs ==
  ASSUME NEW rows, NEW specs, NEW foreign, Len(specs) \in Nat
  PROVE  \E joined : Steps(joined, rows, specs, foreign)
<1> DEFINE j == CHOOSE joined : IsChain(joined, Len(specs), rows, specs, foreign)
<1>1. IsChain(j, Len(specs), rows, specs, foreign)
  BY ChainExists
<1>2. LeftJoins(rows, specs, foreign) = j[Len(specs)]
  BY DEF LeftJoins, IsChain
<1>3. \A n \in 0 .. Len(specs) : j[n] = IF n = 0 THEN rows ELSE LeftJoin(j[n - 1], specs[n], foreign)
  BY <1>1 DEF IsChain
<1> HIDE DEF j
<1>4. \A n \in 1 .. Len(specs) : j[n] = LeftJoin(j[n - 1], specs[n], foreign)
  BY <1>3
<1>5. j[0] = rows
  BY <1>3
<1>6. Steps(j, rows, specs, foreign)
  BY <1>2, <1>4, <1>5 DEF Steps
<1> QED
  BY <1>6

LEMMA LeftJoinsFinite ==
  ASSUME NEW rows, NEW specs, NEW foreign, Len(specs) \in Nat,
         IsFiniteSet(rows), IsFiniteSet(foreign)
  PROVE  IsFiniteSet(LeftJoins(rows, specs, foreign))
<1>0. PICK joined : Steps(joined, rows, specs, foreign)
  BY LeftJoinsIs
<1>1. /\ LeftJoins(rows, specs, foreign) = joined[Len(specs)]
      /\ joined[0] = rows
      /\ \A n \in 1 .. Len(specs) : joined[n] = LeftJoin(joined[n - 1], specs[n], foreign)
  BY <1>0 DEF Steps
<1> DEFINE Bad == {n \in 0 .. Len(specs) : ~IsFiniteSet(joined[n])}
<1>2. Bad = {}
  <2> SUFFICES ASSUME Bad # {} PROVE FALSE
    OBVIOUS
  <2> Bad \in SUBSET Nat
    OBVIOUS
  <2>1. PICK n \in Bad : \A k \in Bad : n <= k
    BY LeastPosition
  <2>2. n # 0
    BY <1>1, <2>1
  <2>3. n - 1 \in 0 .. Len(specs) /\ n - 1 \notin Bad /\ n \in 1 .. Len(specs)
    BY <2>1, <2>2
  <2>4. IsFiniteSet(LeftJoin(joined[n - 1], specs[n], foreign))
    BY <2>3, JoinFinite
  <2> QED
    BY <1>1, <2>1, <2>3, <2>4
<1>3. Len(specs) \in 0 .. Len(specs)
  OBVIOUS
<1> QED
  BY <1>1, <1>2, <1>3

LEMMA GroupedFinite ==
  ASSUME NEW req, NEW rows, IsFiniteSet(rows)
  PROVE  IsFiniteSet(Grouped(req, rows))
<1> DEFINE f == [r \in rows |-> GroupKey(req, r)]
<1> DEFINE keys == IF Scalar(req) THEN {[x \in {} |-> None]} ELSE {GroupKey(req, r) : r \in rows}
<1>1. IsFiniteSet({f[r] : r \in rows})
  BY ImageFinite
<1>2. {f[r] : r \in rows} = {GroupKey(req, r) : r \in rows}
  OBVIOUS
<1>3. IsFiniteSet(keys)
  BY <1>1, <1>2, FS_Singleton
<1> HIDE DEF keys
<1> DEFINE Out(k) == Extended(k, LET group == {r \in rows : Scalar(req) \/ GroupKey(req, r) = k}
                                 IN [a \in DOMAIN req.measures |-> Measure(req.measures[a], group)])
<1>4. Grouped(req, rows) = {Out(k) : k \in keys}
  BY Zenon DEF Grouped, keys
<1> HIDE DEF Out
<1> DEFINE g == [k \in keys |-> Out(k)]
<1>5. IsFiniteSet({g[k] : k \in keys})
  <2> HIDE DEF g
  <2> QED
    BY <1>3, ImageFinite
<1>6. {g[k] : k \in keys} = {Out(k) : k \in keys}
  OBVIOUS
<1> QED
  BY <1>4, <1>5, <1>6

\* The rows a walk by keyset chooses from are finite, and its answer is some of
\* them.
LEMMA CandidatesFinite ==
  ASSUME NEW req \in Requests, Walks(req), Keyset(req), NEW t
  PROVE  IsFiniteSet(Candidates(req, RowsOf(t)))
<1>1. req.kind = "stream" \/ req.kind = "groups"
  BY DEF Keyset
<1>2. CASE req.kind = "stream"
  BY <1>2, RowsFinite, WhereFinite DEF Candidates
<1>3. CASE req.kind = "groups"
  <2>1. Len(req.lookups) \in Nat
    BY RequestAssumption, LenProperties
  <2>2. IsFiniteSet(Where(req.where, LeftJoins(RowsOf(t), req.lookups, RowsOf(t))))
    BY <2>1, RowsFinite, LeftJoinsFinite, WhereFinite
  <2> QED
    BY <1>3, <2>2, GroupedFinite DEF Candidates
<1> QED
  BY <1>1, <1>2, <1>3

-----------------------------------------------------------------------------
(* What a statement returns. *)

LEMMA RequestIs ==
  ASSUME NEW req \in Requests, Walks(req)
  PROVE  /\ req.limit \in Nat \ {0}
         /\ req.sort \in Sorts
         /\ \A t \in Tables : \A x, y \in Sortees(req, RowsOf(t)) :
              Fits(req.sort, x) /\ (Tied(req.sort, x, y) => x = y)
BY RequestAssumption DEF Sorts, Fits, Sortable

\* A walk by keyset sorts what it returns.
LEMMA KeysetSorts ==
  ASSUME NEW req \in Requests, Walks(req), Keyset(req)
  PROVE  /\ \A t \in Tables : \A x, y \in Candidates(req, RowsOf(t)) :
              Fits(req.sort, x) /\ (Tied(req.sort, x, y) => x = y) /\ CursorAt(req.sort, x) # None
         /\ req.kind = "groups" => req.topN = None
<1>1. req.kind # "lookup"
  BY DEF Keyset
<1>2. \A t : Sortees(req, RowsOf(t)) = Candidates(req, RowsOf(t))
  BY <1>1 DEF Sortees
<1> QED
  BY <1>2, RequestIs, RequestAssumption DEF Keyset

\* An order of a finite set has each of its members.
LEMMA SortedIs ==
  ASSUME NEW A, IsFiniteSet(A), NEW sort, NEW q \in Sorted(A, sort)
  PROVE  /\ q \in Seq(A) /\ Len(q) = Cardinality(A)
         /\ \A i, j \in 1 .. Len(q) : i < j => q[i] # q[j] /\ ~Before(sort, q[j], q[i])
         /\ \A r \in A : \E i \in 1 .. Len(q) : q[i] = r
<1> DEFINE n == Cardinality(A)
<1>1. n \in Nat
  BY FS_CardinalityType
<1>2. /\ q \in [1 .. n -> A]
      /\ \A i, j \in 1 .. n : i # j => q[i] # q[j]
      /\ \A i, j \in 1 .. n : i < j => ~Before(sort, q[j], q[i])
  BY DEF Sorted, SetToSeqs
<1>3. q \in Injection(1 .. n, A)
  BY <1>2 DEF Injection, IsInjective
<1>4. IsFiniteSet(1 .. n) /\ Cardinality(1 .. n) = n
  BY <1>1, FS_Interval
<1>5. q \in Surjection(1 .. n, A)
  BY <1>3, <1>4, FS_Injection
<1>6. q \in Seq(A) /\ Len(q) = n
  BY <1>1, <1>2
<1>7. \A r \in A : \E i \in 1 .. n : q[i] = r
  BY <1>5 DEF Surjection
<1>8. \A i, j \in 1 .. n : i < j => q[i] # q[j]
  BY <1>1, <1>2
<1> QED
  BY <1>2, <1>6, <1>7, <1>8

\* What a page of a keyset walk is taken from: after a cursor, HAVING is gone.
Chosen(req, after, rows) ==
  IF after = None THEN Output(req, rows)
  ELSE {r \in Candidates(req, rows) : Selects(AfterCursor(req.sort, after, r))}

LEMMA ChosenIsCandidate ==
  ASSUME NEW req, Walks(req), NEW after, NEW rows
  PROVE  Chosen(req, after, rows) \subseteq Candidates(req, rows)
BY DEF Chosen, Output, AggGroups, Candidates, Walks

LEMMA KeysetResults ==
  ASSUME NEW req \in Requests, Walks(req), Keyset(req), NEW after, NEW rows
  PROVE  Results(req, after, rows) = Sorted(Chosen(req, after, rows), req.sort)
<1>1. CASE req.kind = "groups"
  <2>1. req.topN = None
    BY <1>1, KeysetSorts
  <2>2. AggGroups(req, after, rows) = Chosen(req, after, rows)
    <3>1. CASE after = None
      BY <1>1, <3>1 DEF Chosen, Output
    <3>2. CASE after # None
      BY <1>1, <3>2 DEF AggGroups, Chosen, Candidates
    <3> QED
      BY <3>1, <3>2
  <2>3. Results(req, after, rows) = {q : q \in Sorted(AggGroups(req, after, rows), req.sort)}
    BY <1>1, <2>1 DEF Results, AggRows, Sliced
  <2> QED
    BY <2>2, <2>3
<1>2. CASE req.kind = "stream" /\ after # None
  BY <1>2 DEF Results, Chosen, Candidates
<1>3. CASE req.kind = "stream" /\ after = None
  BY <1>3 DEF Results, Chosen
<1> QED
  BY <1>1, <1>2, <1>3 DEF Keyset

\* The rows of a statement are in order, and they are all there.
LEMMA ResultIs ==
  ASSUME NEW req \in Requests, Walks(req), Keyset(req), NEW after, NEW t \in Tables,
         NEW q \in Results(req, after, RowsOf(t))
  PROVE  /\ q \in Seq(Chosen(req, after, RowsOf(t)))
         /\ \A i, j \in 1 .. Len(q) : i < j => Before(req.sort, q[i], q[j])
         /\ \A r \in Chosen(req, after, RowsOf(t)) : \E i \in 1 .. Len(q) : q[i] = r
<1> DEFINE A == Chosen(req, after, RowsOf(t))
<1>1. A \in SUBSET Candidates(req, RowsOf(t))
  BY ChosenIsCandidate
<1>2. IsFiniteSet(A)
  BY <1>1, CandidatesFinite, FS_Subset
<1>3. q \in Sorted(A, req.sort)
  BY KeysetResults
<1> HIDE DEF A
<1>4. /\ q \in Seq(A)
      /\ \A i, j \in 1 .. Len(q) : i < j => q[i] # q[j] /\ ~Before(req.sort, q[j], q[i])
      /\ \A r \in A : \E i \in 1 .. Len(q) : q[i] = r
  BY <1>2, <1>3, SortedIs
<1>5. ASSUME NEW i \in 1 .. Len(q), NEW j \in 1 .. Len(q), i < j
      PROVE  Before(req.sort, q[i], q[j])
  <2>1. q[i] \in A /\ q[j] \in A
    BY <1>4, ElementOfSeq
  <2>2. q[i] \in Candidates(req, RowsOf(t)) /\ q[j] \in Candidates(req, RowsOf(t))
    BY <1>1, <2>1
  <2>3. Fits(req.sort, q[i]) /\ Fits(req.sort, q[j]) /\ ~Tied(req.sort, q[i], q[j])
    BY <1>4, <1>5, <2>2, KeysetSorts
  <2> QED
    BY <1>4, <1>5, <2>3, BeforeTotal, RequestIs
<1> QED
  BY <1>4, <1>5 DEF A

LEMMA MinOfTwo ==
  ASSUME NEW a \in Int, NEW b \in Int
  PROVE  Min({a, b}) = IF a <= b THEN a ELSE b
<1>1. \E x \in {a, b} : \A y \in {a, b} : x <= y
  OBVIOUS
<1>2. Min({a, b}) \in {a, b} /\ \A y \in {a, b} : Min({a, b}) <= y
  BY <1>1 DEF Min
<1> QED
  BY <1>2

-----------------------------------------------------------------------------
(* A walk by keyset. *)

\* All the rows that a request may ever return.
Answers(req) == UNION {Candidates(req, RowsOf(t)) : t \in Tables}

\* The rows that a walk is not to miss.
Sought == {r \in still : ~UnseenKey(request.sort, r)}

InOrder(q)      == \A i, j \in 1 .. Len(q) : i < j => Before(request.sort, q[i], q[j])
AllBefore(q, r) == \A i \in 1 .. Len(q) : Before(request.sort, q[i], r)

\* Where a walk is: pages are full while there is a next one, and the cursor is
\* taken from the last row given.
ShapeInv ==
  /\ request \in Requests /\ table \in Tables
  /\ page \in Nat \ {0} /\ open \in {{}, {"data"}} /\ done \in BOOLEAN
  /\ given \in Seq(Answers(request)) /\ data \in Seq(Answers(request))
  /\ Len(data) <= request.limit + 1
  /\ done => open = {}
  /\ open # {} => data = <<>>
  /\ still \subseteq Output(request, RowsOf(table))
  /\ ~done => /\ Len(given) = (page - 1) * request.limit
              /\ cursor = IF page = 1 THEN None ELSE CursorAt(request.sort, given[Len(given)])

\* Pages are in order, each by itself and one after the other.
OrderInv ==
  /\ InOrder(given) /\ InOrder(data)
  /\ \A j \in 1 .. Len(data) : AllBefore(given, data[j])

\* A row that is sought and not given yet is still ahead: of the cursor, and when
\* the page has been read, on it or after it.
ReachInv ==
  Unbroken =>
    IF done THEN Sought \subseteq ToSet(given)
    ELSE \A r \in Sought \ ToSet(given) :
           /\ AllBefore(given, r)
           /\ open = {} => r \in ToSet(data) \/ (Len(data) = request.limit + 1 /\ AllBefore(data, r))

ByKeyset  == Walks(request) /\ Keyset(request)
KeysetInv == ByKeyset => ShapeInv /\ OrderInv /\ ReachInv

LEMMA AnswerIs ==
  ASSUME NEW req \in Requests, Walks(req), Keyset(req), NEW r \in Answers(req)
  PROVE  Fits(req.sort, r) /\ CursorAt(req.sort, r) # None
<1>1. PICK t \in Tables : r \in Candidates(req, RowsOf(t))
  BY DEF Answers
<1>2. Fits(req.sort, r)
  BY <1>1, KeysetSorts
<1>3. CursorAt(req.sort, r) # None
  BY <1>1, KeysetSorts
<1> QED
  BY <1>2, <1>3

LEMMA OnePlace == \A k, m, l \in Nat : 1 <= k /\ k <= m /\ 1 <= l => 1 <= k * l /\ k * l <= m * l
<1> SUFFICES ASSUME NEW k \in Nat, NEW m \in Nat, NEW l \in Nat, 1 <= k, k <= m, 1 <= l
             PROVE  1 <= k * l /\ k * l <= m * l
  OBVIOUS
<1>1. (k - 1) * l >= 0 /\ (m - k) * l >= 0
  OBVIOUS
<1>2. k * l = (k - 1) * l + l /\ m * l = k * l + (m - k) * l
  OBVIOUS
<1>3. k * l \in Nat /\ m * l \in Nat /\ (k - 1) * l \in Int /\ (m - k) * l \in Int
  OBVIOUS
<1> QED
  BY <1>1, <1>2, <1>3

LEMMA ByKeysetIs ==
  ASSUME ByKeyset, request \in Requests
  PROVE  /\ Statements(request) = {"data"} /\ ~Exact(request)
         /\ request.limit \in Nat \ {0} /\ request.sort \in Sorts
BY RequestIs DEF ByKeyset, Statements, Exact

LEMMA KeysetInit == Init => KeysetInv
<1> SUFFICES ASSUME Init, ByKeyset PROVE ShapeInv /\ OrderInv /\ ReachInv
  BY DEF KeysetInv
<1>1. /\ request \in Requests /\ table \in Tables /\ page = 1 /\ cursor = None
      /\ open = {"data"} /\ data = <<>> /\ given = <<>> /\ done = FALSE
      /\ still = Output(request, RowsOf(table))
  BY ByKeysetIs DEF Init, ByKeyset
<1>2. request.limit \in Nat \ {0}
  BY <1>1, ByKeysetIs
<1>3. ShapeInv
  <2>1. <<>> \in Seq(Answers(request)) /\ Len(<<>>) = 0
    BY EmptySeq
  <2>2. (1 - 1) * request.limit = 0 /\ 0 <= request.limit + 1
    BY <1>2
  <2>3. Len(given) = (page - 1) * request.limit /\ Len(data) <= request.limit + 1
    BY <1>1, <2>1, <2>2
  <2>4. open \in {{}, {"data"}} /\ done \in BOOLEAN
    BY <1>1, Zenon
  <2>5. given \in Seq(Answers(request)) /\ data \in Seq(Answers(request))
    BY <1>1, <2>1, Zenon
  <2> QED
    BY <1>1, <2>3, <2>4, <2>5 DEF ShapeInv
<1>4. OrderInv
  BY <1>1 DEF OrderInv, InOrder, AllBefore
<1>5. ReachInv
  BY <1>1 DEF ReachInv, AllBefore
<1> QED
  BY <1>3, <1>4, <1>5

\* A page is read: what comes after the cursor, from the table as it is now.
LEMMA KeysetRead == KeysetInv /\ ReadData => KeysetInv'
<1> SUFFICES ASSUME ByKeyset, ShapeInv, OrderInv, ReachInv, ReadData
             PROVE  ShapeInv' /\ OrderInv' /\ ReachInv'
  BY DEF KeysetInv, ReadData, ByKeyset
<1> DEFINE S == request.sort
           L == request.limit
           A == Chosen(request, cursor, RowsOf(table))
<1>1. /\ UNCHANGED <<request, table, page, cursor, total, given, done, writes, still>>
      /\ open = {"data"} /\ open' = {} /\ ~done /\ data = <<>>
  BY DEF ReadData, ShapeInv
<1>2. /\ request \in Requests /\ Walks(request) /\ Keyset(request) /\ ~Exact(request)
      /\ L \in Nat \ {0} /\ S \in Sorts /\ table \in Tables
  BY ByKeysetIs DEF ByKeyset, ShapeInv
<1>3. PICK q \in Results(request, cursor, RowsOf(table)) :
        data' = SubSeq(q, 1, Min({L + 1, Len(q)}))
  <2>1. 0 + 1 = 1 /\ 0 + (L + 1) = L + 1
    BY <1>2
  <2>2. PICK q \in Results(request, cursor, RowsOf(table)) :
          data' = SubSeq(q, 0 + 1, Min({0 + (L + 1), Len(q)}))
    BY <1>2 DEF ReadData
  <2> QED
    BY <2>1, <2>2
<1>4. /\ q \in Seq(A)
      /\ \A i, j \in 1 .. Len(q) : i < j => Before(S, q[i], q[j])
      /\ \A r \in A : \E i \in 1 .. Len(q) : q[i] = r
  BY <1>2, ResultIs
<1>5. A \subseteq Candidates(request, RowsOf(table)) /\ A \subseteq Answers(request)
  BY <1>2, ChosenIsCandidate DEF Answers
<1> HIDE DEF A
<1> DEFINE m == IF L + 1 <= Len(q) THEN L + 1 ELSE Len(q)
<1>6. m \in Nat /\ m <= Len(q) /\ m <= L + 1 /\ (m < Len(q) => m = L + 1) /\ Len(q) \in Nat
  BY <1>2, <1>4
<1>7. /\ data' \in Seq(Answers(request)) /\ Len(data') = m
      /\ \A i \in 1 .. m : data'[i] = q[i]
  <2>1. Min({L + 1, Len(q)}) = m
    BY <1>2, <1>6, MinOfTwo
  <2>2. \A i \in 1 .. m : q[i] \in Answers(request)
    BY <1>4, <1>5, <1>6, ElementOfSeq
  <2> HIDE DEF m
  <2>3. /\ SubSeq(q, 1, m) \in Seq(Answers(request))
        /\ Len(SubSeq(q, 1, m)) = IF 1 <= m THEN m - 1 + 1 ELSE 0
        /\ \A i \in 1 .. m - 1 + 1 : SubSeq(q, 1, m)[i] = q[1 + i - 1]
    BY <1>6, <2>2, SubSeqProperties
  <2>4. m - 1 + 1 = m /\ (1 <= m \/ m = 0) /\ \A i \in 1 .. m : 1 + i - 1 = i
    BY <1>6
  <2>5. data' = SubSeq(q, 1, m)
    BY <1>3, <2>1
  <2> QED
    BY <2>3, <2>4, <2>5
<1> HIDE DEF m
<1>8. ShapeInv'
  BY <1>1, <1>2, <1>6, <1>7 DEF ShapeInv
<1>9. \A i \in 1 .. m : q[i] \in A /\ q[i] \in Answers(request) /\ Fits(S, q[i])
  BY <1>2, <1>4, <1>5, <1>6, ElementOfSeq, AnswerIs
\* After the first page there is a row the cursor was taken from.
<1> DEFINE c == given[Len(given)]
<1>10. /\ given \in Seq(Answers(request)) /\ Len(given) = (page - 1) * L /\ Len(given) \in Nat
       /\ page \in Nat \ {0}
       /\ page = 1 => cursor = None
       /\ page # 1 => cursor = CursorAt(S, c)
  BY <1>1 DEF ShapeInv
<1>11. page = 1 => Len(given) = 0
  BY <1>2, <1>10
<1>12. page # 1 => Len(given) >= 1 /\ c \in Answers(request) /\ Fits(S, c) /\ cursor # None
  <2> SUFFICES ASSUME page # 1 PROVE Len(given) >= 1 /\ c \in Answers(request) /\ Fits(S, c) /\ cursor # None
    OBVIOUS
  <2>1. Len(given) >= 1
    BY <1>2, <1>10, OnePlace
  <2>2. c \in Answers(request)
    BY <1>10, <2>1, ElementOfSeq
  <2> QED
    BY <1>2, <1>10, <2>1, <2>2, AnswerIs
<1>13. \A i \in 1 .. Len(given) : Fits(S, given[i])
  BY <1>2, <1>10, ElementOfSeq, AnswerIs
<1>14. OrderInv'
  <2>1. ASSUME NEW i \in 1 .. Len(data'), NEW j \in 1 .. Len(data'), i < j
        PROVE  Before(S, data'[i], data'[j])
    <3>1. i \in 1 .. Len(q) /\ j \in 1 .. Len(q) /\ data'[i] = q[i] /\ data'[j] = q[j]
      BY <1>6, <1>7
    <3> QED
      BY <1>4, <2>1, <3>1
  <2>2. ASSUME NEW j \in 1 .. m PROVE AllBefore(given, q[j])
    <3> SUFFICES ASSUME NEW i \in 1 .. Len(given) PROVE Before(S, given[i], q[j])
      BY DEF AllBefore
    <3>1. page # 1
      BY <1>11
    <3>2. Selects(AfterCursor(S, CursorAt(S, c), q[j]))
      BY <1>9, <1>10, <1>12, <3>1 DEF A, Chosen
    <3>3. Before(S, c, q[j])
      BY <1>2, <1>9, <1>12, <3>1, <3>2, SelectedIsAfter
    <3>4. CASE i = Len(given)
      BY <3>3, <3>4
    <3>5. CASE i # Len(given)
      <4>1. Before(S, given[i], c)
        BY <1>10, <3>5 DEF OrderInv, InOrder
      <4> QED
        BY <1>2, <1>9, <1>12, <1>13, <3>1, <3>3, <4>1, BeforeTransitive
    <3> QED
      BY <3>4, <3>5
  <2> QED
    BY <1>1, <1>7, <2>1, <2>2 DEF OrderInv, InOrder, AllBefore
<1>15. ReachInv'
  <2> SUFFICES ASSUME Unbroken', NEW r \in (Sought \ ToSet(given))'
               PROVE  AllBefore(given, r) /\ (r \in ToSet(data') \/ (Len(data') = L + 1 /\ AllBefore(data', r)))
    BY <1>1 DEF ReachInv, AllBefore
  <2>1. Unbroken /\ r \in Sought \ ToSet(given)
    BY <1>1 DEF Unbroken, Sought, ToSet
  <2>2. AllBefore(given, r)
    BY <1>1, <2>1 DEF ReachInv
  <2>3. r \in Output(request, RowsOf(table)) /\ ~UnseenKey(S, r)
    BY <2>1 DEF Sought, ShapeInv
  <2>4. r \in Candidates(request, RowsOf(table)) /\ Fits(S, r)
    <3>1. Output(request, RowsOf(table)) = Chosen(request, None, RowsOf(table))
      BY DEF Chosen
    <3>2. r \in Candidates(request, RowsOf(table))
      BY <1>2, <2>3, <3>1, ChosenIsCandidate
    <3> QED
      BY <1>2, <3>2, KeysetSorts
  <2>5. r \in A
    <3>1. CASE page = 1
      BY <1>10, <2>3, <3>1 DEF A, Chosen
    <3>2. CASE page # 1
      <4>1. Before(S, c, r)
        BY <1>10, <1>12, <2>2, <3>2 DEF AllBefore
      <4>2. ~NullKey(S, c)
        BY <1>10, <2>1, <3>2 DEF Unbroken
      <4>3. Selects(AfterCursor(S, CursorAt(S, c), r))
        BY <1>2, <1>12, <2>3, <2>4, <3>2, <4>1, <4>2, AfterIsSelected
      <4> QED
        BY <1>10, <1>12, <2>4, <3>2, <4>3 DEF A, Chosen
    <3> QED
      BY <3>1, <3>2
  <2>6. PICK i \in 1 .. Len(q) : q[i] = r
    BY <1>4, <2>5
  <2>7. CASE i <= m
    <3>1. i \in DOMAIN data' /\ data'[i] = r
      BY <1>6, <1>7, <2>6, <2>7, LenProperties
    <3> QED
      BY <2>2, <3>1 DEF ToSet
  <2>8. CASE i > m
    <3>1. m = L + 1 /\ Len(data') = m
      BY <1>6, <1>7, <2>6, <2>8
    <3>2. ASSUME NEW j \in 1 .. m PROVE Before(S, data'[j], r)
      <4>1. j \in 1 .. Len(q) /\ j < i /\ data'[j] = q[j]
        BY <1>6, <1>7, <2>8
      <4> QED
        BY <1>4, <2>6, <4>1
    <3> QED
      BY <2>2, <3>1, <3>2 DEF AllBefore
  <2> QED
    BY <1>6, <2>6, <2>7, <2>8
<1> QED
  BY <1>8, <1>14, <1>15

LEMMA PlaceAfter ==
  ASSUME NEW k \in Nat, NEW n \in Nat
  PROVE  /\ \A i \in 1 .. n : k + i \in 1 .. k + n /\ ~(k + i <= k) /\ k + i - k = i
         /\ \A i \in 1 .. k + n : i <= k \/ (i - k \in 1 .. n /\ i = k + (i - k))
  OBVIOUS

\* A page is handed out, and the next one asked for from its last row.
LEMMA KeysetAnswer == KeysetInv /\ Answer => KeysetInv'
<1> SUFFICES ASSUME ByKeyset, ShapeInv, OrderInv, ReachInv, Answer
             PROVE  ShapeInv' /\ OrderInv' /\ ReachInv'
  BY DEF KeysetInv, Answer, ByKeyset
<1> DEFINE S == request.sort
           L == request.limit
           n == IF L <= Len(data) THEN L ELSE Len(data)
           rows == SubSeq(data, 1, n)
           next == Len(data) > L
<1>1. /\ open = {} /\ ~done /\ data' = <<>> /\ UNCHANGED <<request, table, total, writes, still>>
      /\ request \in Requests /\ L \in Nat \ {0} /\ S \in Sorts /\ table \in Tables
      /\ Keyset(request) /\ ~Exact(request) /\ Statements(request) = {"data"}
  BY ByKeysetIs DEF Answer, ShapeInv, ByKeyset
<1>2. /\ given \in Seq(Answers(request)) /\ data \in Seq(Answers(request))
      /\ Len(given) = (page - 1) * L /\ Len(given) \in Nat /\ Len(data) \in Nat /\ Len(data) <= L + 1
      /\ page \in Nat \ {0}
  BY <1>1 DEF ShapeInv
<1>3. n \in Nat /\ n <= L /\ n <= Len(data) /\ (next => n = L) /\ (~next => n = Len(data))
  BY <1>1, <1>2
<1>4. /\ given' = given \o rows
      /\ next => /\ page' = page + 1 /\ done' = FALSE /\ open' = {"data"}
                 /\ cursor' = CursorAt(S, Last(rows))
      /\ ~next => done' = TRUE /\ UNCHANGED <<page, cursor, open>>
  <2>1. Min({L, Len(data)}) = n
    BY <1>1, <1>2, MinOfTwo
  <2>2. HasNext <=> next
    BY <1>1 DEF HasNext
  <2> QED
    BY <1>1, <2>1, <2>2 DEF Answer
<1>5. rows \in Seq(Answers(request)) /\ Len(rows) = n /\ \A i \in 1 .. n : rows[i] = data[i]
  <2> HIDE DEF n
  <2>1. \A i \in 1 .. n : data[i] \in Answers(request)
    BY <1>2, <1>3, ElementOfSeq
  <2>2. /\ SubSeq(data, 1, n) \in Seq(Answers(request))
        /\ Len(SubSeq(data, 1, n)) = IF 1 <= n THEN n - 1 + 1 ELSE 0
        /\ \A i \in 1 .. n - 1 + 1 : SubSeq(data, 1, n)[i] = data[1 + i - 1]
    BY <1>3, <2>1, SubSeqProperties
  <2>3. n - 1 + 1 = n /\ (1 <= n \/ n = 0) /\ \A i \in 1 .. n : 1 + i - 1 = i
    BY <1>3
  <2> QED
    BY <2>2, <2>3
<1> HIDE DEF rows, n
<1>6. /\ given' \in Seq(Answers(request)) /\ Len(given') = Len(given) + n
      /\ \A i \in 1 .. Len(given) : given'[i] = given[i]
      /\ \A i \in 1 .. n : given'[Len(given) + i] = data[i]
      /\ \A i \in 1 .. Len(given') : i <= Len(given) \/ \E j \in 1 .. n : i = Len(given) + j
  <2>1. /\ given' \in Seq(Answers(request)) /\ Len(given') = Len(given) + n
        /\ \A i \in 1 .. Len(given) + n : given'[i] = IF i <= Len(given) THEN given[i] ELSE rows[i - Len(given)]
    BY <1>2, <1>4, <1>5, ConcatProperties
  <2>2. \A i \in 1 .. Len(given) : given'[i] = given[i]
    BY <1>2, <1>3, <2>1
  <2>3. ASSUME NEW i \in 1 .. n PROVE given'[Len(given) + i] = data[i]
    <3>1. Len(given) + i \in 1 .. Len(given) + n /\ ~(Len(given) + i <= Len(given)) /\ Len(given) + i - Len(given) = i
      BY <1>2, <1>3, PlaceAfter, Zenon
    <3> QED
      BY <1>5, <2>1, <3>1
  <2>4. ASSUME NEW i \in 1 .. Len(given'), ~(i <= Len(given)) PROVE \E j \in 1 .. n : i = Len(given) + j
    <3>1. i - Len(given) \in 1 .. n /\ i = Len(given) + (i - Len(given))
      <4>1. i \in 1 .. Len(given) + n
        BY <2>1
      <4> QED
        BY <1>2, <1>3, <2>4, <4>1, PlaceAfter, Zenon
    <3> QED
      BY <3>1
  <2> QED
    BY <2>1, <2>2, <2>3, <2>4
<1>7. ShapeInv'
  <2>1. data' \in Seq(Answers(request)) /\ Len(data') <= L + 1
    BY <1>1, EmptySeq
  <2>2. CASE next
    <3>1. Len(given') = page * L
      <4>1. (page - 1) * L + L = page * L
        BY <1>1, <1>2
      <4> QED
        BY <1>2, <1>3, <1>6, <2>2, <4>1
    <3>2. page + 1 - 1 = page /\ page + 1 # 1 /\ page + 1 \in Nat \ {0}
      BY <1>2
    <3>3. Last(rows) = given'[Len(given')]
      BY <1>1, <1>3, <1>5, <1>6, <2>2 DEF Last
    <3>4. open' \in {{}, {"data"}} /\ done' \in BOOLEAN
      BY <1>4, <2>2, Zenon
    <3>5. Len(given') = (page' - 1) * L /\ page' # 1 /\ page' \in Nat \ {0}
      <4>1. page' = page + 1
        BY <1>4, <2>2
      <4>2. page' - 1 = page /\ page' # 1 /\ page' \in Nat \ {0}
        BY <1>2, <4>1
      <4>3. (page' - 1) * L = page * L
        BY <4>2
      <4> QED
        BY <3>1, <4>2, <4>3
    <3>6. cursor' = CursorAt(S, given'[Len(given')])
      BY <1>4, <2>2, <3>3
    <3>7. given' \in Seq(Answers(request))
      BY <1>6
    <3>8. ~done' /\ open' # {} /\ still' \subseteq Output(request, RowsOf(table))
      BY <1>1, <1>4, <2>2 DEF ShapeInv
    <3> QED
      BY <1>1, <2>1, <3>4, <3>5, <3>6, <3>7, <3>8 DEF ShapeInv
  <2>3. CASE ~next
    <3>1. page' \in Nat \ {0} /\ open' \in {{}, {"data"}} /\ done' = TRUE /\ open' = {}
      BY <1>1, <1>2, <1>4, <2>3, Zenon
    <3> QED
      BY <1>1, <1>6, <2>1, <3>1 DEF ShapeInv
  <2> QED
    BY <2>2, <2>3
<1>8. OrderInv'
  <2>1. ASSUME NEW i \in 1 .. Len(given'), NEW j \in 1 .. Len(given'), i < j
        PROVE  Before(S, given'[i], given'[j])
    <3>1. CASE j <= Len(given)
      <4>1. i \in 1 .. Len(given) /\ j \in 1 .. Len(given)
        BY <1>2, <1>3, <1>6, <2>1, <3>1
      <4> QED
        BY <1>6, <2>1, <4>1 DEF OrderInv, InOrder
    <3>2. CASE i <= Len(given) /\ ~(j <= Len(given))
      <4>1. PICK k \in 1 .. n : j = Len(given) + k
        BY <1>6, <3>2
      <4>2. i \in 1 .. Len(given) /\ k \in 1 .. Len(data)
        BY <1>2, <1>3, <1>6, <3>2
      <4> QED
        BY <1>6, <4>1, <4>2 DEF OrderInv, AllBefore
    <3>3. CASE ~(i <= Len(given))
      <4>1. PICK h \in 1 .. n : i = Len(given) + h
        BY <1>6, <3>3
      <4>2. ~(j <= Len(given))
        BY <1>2, <1>3, <1>6, <2>1, <3>3
      <4>3. PICK k \in 1 .. n : j = Len(given) + k
        BY <1>6, <4>2
      <4>4. h \in 1 .. Len(data) /\ k \in 1 .. Len(data) /\ h < k
        BY <1>2, <1>3, <2>1, <4>1, <4>3
      <4> QED
        BY <1>6, <4>1, <4>3, <4>4 DEF OrderInv, InOrder
    <3> QED
      BY <3>1, <3>2, <3>3
  <2>2. Len(data') = 0
    BY <1>1
  <2> QED
    BY <1>1, <2>1, <2>2 DEF OrderInv, InOrder
<1>9. Unbroken' => Unbroken
  <2> SUFFICES ASSUME Unbroken', NEW k \in 1 .. page - 1 PROVE ~NullKey(S, given[k * L])
    BY DEF Unbroken
  <2>1. k \in 1 .. page' - 1
    BY <1>2, <1>4
  <2>2. k * L \in 1 .. Len(given)
    <3>1. k \in Nat /\ page - 1 \in Nat /\ 1 <= k /\ k <= page - 1 /\ L \in Nat /\ 1 <= L
      BY <1>1, <1>2
    <3>2. 1 <= k * L /\ k * L <= (page - 1) * L /\ k * L \in Nat
      BY <3>1, OnePlace
    <3> QED
      BY <1>2, <3>2
  <2>3. ~NullKey(S, given'[k * L])
    BY <1>1, <2>1 DEF Unbroken
  <2> QED
    BY <1>6, <2>2, <2>3
<1>10. ReachInv'
  <2> SUFFICES ASSUME Unbroken', NEW r \in (Sought \ ToSet(given))'
               PROVE  next /\ AllBefore(given', r)
    <3>1. done' => ~next
      BY <1>4
    <3>2. next => open' # {}
      BY <1>4
    <3>3. ReachInv' <=> (Unbroken' => IF done' THEN Sought' \subseteq ToSet(given')
                                      ELSE \A r \in Sought' \ ToSet(given') :
                                             /\ AllBefore(given', r)
                                             /\ open' = {} => r \in ToSet(data') \/ (Len(data') = L + 1 /\ AllBefore(data', r)))
      BY <1>1 DEF ReachInv, AllBefore
    <3> QED
      BY <3>1, <3>2, <3>3
  <2>1. \A i \in 1 .. Len(given') : given'[i] # r
    <3>1. DOMAIN given' = 1 .. Len(given')
      BY <1>6, LenProperties
    <3>2. r \notin {given'[i] : i \in DOMAIN given'}
      BY DEF ToSet
    <3> QED
      BY <3>1, <3>2
  <2>2. r \in Sought
    BY <1>1 DEF Sought
  <2>3. r \notin ToSet(given)
    <3>1. \A i \in 1 .. Len(given) : i \in 1 .. Len(given') /\ given'[i] = given[i]
      BY <1>2, <1>3, <1>6
    <3>2. DOMAIN given = 1 .. Len(given)
      BY <1>2, LenProperties
    <3> QED
      BY <2>1, <3>1, <3>2 DEF ToSet
  <2>4. /\ AllBefore(given, r)
        /\ r \in ToSet(data) \/ (Len(data) = L + 1 /\ AllBefore(data, r))
    BY <1>1, <1>9, <2>2, <2>3 DEF ReachInv
  <2>5. \A i \in 1 .. n : data[i] # r
    <3> SUFFICES ASSUME NEW i \in 1 .. n PROVE data[i] # r
      OBVIOUS
    <3>1. Len(given) + i \in 1 .. Len(given')
      BY <1>2, <1>3, <1>6
    <3> QED
      BY <1>6, <2>1, <3>1
  <2>6. next /\ \A i \in 1 .. n : Before(S, data[i], r)
    <3>1. CASE r \in ToSet(data)
      <4>1. PICK j \in 1 .. Len(data) : data[j] = r
        BY <1>2, <3>1, LenProperties DEF ToSet
      <4>2. j > n /\ next
        BY <1>2, <1>3, <2>5, <4>1
      <4>3. ASSUME NEW i \in 1 .. n PROVE Before(S, data[i], r)
        <5>1. i \in 1 .. Len(data) /\ i < j
          BY <1>2, <1>3, <4>2
        <5> QED
          BY <4>1, <5>1 DEF OrderInv, InOrder
      <4> QED
        BY <4>2, <4>3
    <3>2. CASE Len(data) = L + 1 /\ AllBefore(data, r)
      <4>1. next
        BY <1>1, <3>2
      <4>2. \A i \in 1 .. n : i \in 1 .. Len(data)
        BY <1>2, <1>3
      <4> QED
        BY <3>2, <4>1, <4>2 DEF AllBefore
    <3> QED
      BY <2>4, <3>1, <3>2
  <2>7. ASSUME NEW i \in 1 .. Len(given') PROVE Before(S, given'[i], r)
    <3>1. CASE i <= Len(given)
      <4>1. i \in 1 .. Len(given)
        BY <1>2, <3>1
      <4> QED
        BY <1>6, <2>4, <4>1 DEF AllBefore
    <3>2. CASE ~(i <= Len(given))
      <4>1. PICK j \in 1 .. n : i = Len(given) + j
        BY <1>6, <3>2
      <4> QED
        BY <1>6, <2>6, <4>1
    <3> QED
      BY <3>1, <3>2
  <2> QED
    BY <2>6, <2>7 DEF AllBefore
<1> QED
  BY <1>7, <1>8, <1>10

\* A write of others changes the table, and only shrinks what is sought.
LEMMA WriteKeepsTable == table \in Tables /\ Write => table' \in Tables
<1> SUFFICES ASSUME table \in Tables, Write PROVE table' \in Tables
  OBVIOUS
<1>1. PICK i \in Id, row \in Slots :
        /\ row # table[i] /\ (row # NoRow => row.id = Num(i))
        /\ table' = [table EXCEPT ![i] = row]
  BY DEF Write
<1>2. /\ table \in [Id -> Slots]
      /\ \A j \in Id : table[j] # NoRow => table[j].id = Num(j)
  BY DEF Tables
<1>3. table' \in [Id -> Slots]
  BY <1>1, <1>2
<1>4. \A j \in Id : table'[j] = IF j = i THEN row ELSE table[j]
  BY <1>1, <1>2
<1>5. \A j \in Id : table'[j] # NoRow => table'[j].id = Num(j)
  BY <1>1, <1>2, <1>4
<1> QED
  BY <1>3, <1>5 DEF Tables

LEMMA KeysetWrite == KeysetInv /\ Write => KeysetInv'
<1> SUFFICES ASSUME ByKeyset, ShapeInv, OrderInv, ReachInv, Write
             PROVE  ShapeInv' /\ OrderInv' /\ ReachInv'
  <2>1. Write => UNCHANGED request
    BY DEF Write, walk
  <2> QED
    BY <2>1 DEF KeysetInv, ByKeyset
<1>1. /\ UNCHANGED <<request, page, cursor, open, data, total, given, done>>
      /\ Keyset(request)
      /\ still' \subseteq still /\ still' \subseteq Output(request, RowsOf(table'))
  BY DEF Write, walk, ByKeyset
<1>2. table' \in Tables
  BY WriteKeepsTable DEF ShapeInv
<1>3. ShapeInv'
  BY <1>1, <1>2 DEF ShapeInv
<1>4. OrderInv'
  BY <1>1 DEF OrderInv, InOrder, AllBefore
<1>5. ReachInv'
  <2>1. Sought' \subseteq Sought /\ (Unbroken' <=> Unbroken)
    BY <1>1 DEF Sought, Unbroken
  <2> QED
    BY <1>1, <2>1 DEF ReachInv, AllBefore
<1> QED
  BY <1>3, <1>4, <1>5

LEMMA KeysetStep == KeysetInv /\ [Next]_vars => KeysetInv'
<1> SUFFICES ASSUME KeysetInv, [Next]_vars PROVE KeysetInv'
  OBVIOUS
<1>1. CASE ReadData
  BY <1>1, KeysetRead
<1>2. CASE ReadCount
  BY <1>2 DEF ReadCount, KeysetInv, ShapeInv, ByKeyset
<1>3. CASE Answer
  BY <1>3, KeysetAnswer
<1>4. CASE Write
  BY <1>4, KeysetWrite
<1>5. CASE UNCHANGED vars
  BY <1>5 DEF vars, walk, KeysetInv, ByKeyset, ShapeInv, OrderInv, ReachInv, InOrder, AllBefore,
              Sought, Unbroken
<1> QED
  BY <1>1, <1>2, <1>3, <1>4, <1>5 DEF Next

LEMMA KeysetInvImplies == KeysetInv => KeysetMissesNothing
<1> SUFFICES ASSUME ByKeyset, ShapeInv, OrderInv, ReachInv
             PROVE  /\ \A i, j \in DOMAIN given : i < j => Before(request.sort, given[i], given[j])
                    /\ done /\ Unbroken => {r \in still : ~UnseenKey(request.sort, r)} \subseteq ToSet(given)
  BY DEF KeysetInv, KeysetMissesNothing, ByKeyset
<1>1. DOMAIN given = 1 .. Len(given)
  BY LenProperties DEF ShapeInv
<1> QED
  BY <1>1 DEF OrderInv, InOrder, ReachInv, Sought

\* A walk by keyset (stream(), aggregatePaginate() with `after`) misses no row
\* that was there all the time and gives none twice, in whatever table, for any
\* request whose sort orders its rows, and whatever others write between pages.
THEOREM KeysetWalksMissNothing == Spec => []KeysetMissesNothing
<1>1. Spec => []KeysetInv
  BY KeysetInit, KeysetStep, PTL DEF Spec
<1> QED
  BY <1>1, KeysetInvImplies, PTL

\* Induction on how much of a sequence is left.
LEMMA FromTheEnd ==
  ASSUME NEW n \in Nat, NEW S, n + 1 \in S,
         \A i \in 1 .. n : (i + 1) .. (n + 1) \subseteq S => i \in S
  PROVE  1 .. n + 1 \subseteq S
<1> DEFINE Bad == {k \in Nat : k <= n /\ n + 1 - k \notin S}
<1> SUFFICES ASSUME NEW i \in 1 .. n + 1, i \notin S PROVE FALSE
  OBVIOUS
<1>1. n + 1 - i \in Nat /\ n + 1 - i <= n /\ n + 1 - (n + 1 - i) = i
  OBVIOUS
<1>2. n + 1 - i \in Bad
  BY <1>1
<1>3. PICK k \in Bad : \A l \in Bad : k <= l
  BY <1>2, LeastPosition
<1>4. k \in Nat /\ k <= n /\ n + 1 - k \notin S /\ k # 0
  BY <1>3
<1>5. n + 1 - k \in 1 .. n
  BY <1>4
<1>6. ASSUME NEW j \in (n + 1 - k + 1) .. (n + 1) PROVE j \in S
  <2>1. n + 1 - j \in Nat /\ n + 1 - j <= n /\ n + 1 - (n + 1 - j) = j /\ n + 1 - j < k
    BY <1>4
  <2>2. n + 1 - j \notin Bad
    BY <1>3, <2>1
  <2> QED
    BY <2>1, <2>2
<1> QED
  BY <1>4, <1>5, <1>6

-----------------------------------------------------------------------------
(* A LIKE and the GLOB that it is rewritten to. *)

Rest(text, i) == SubSeq(text, i, Len(text))

\* What a scan has for the letters from `i` on.
ScanStep(from, part, text, i) ==
  IF i > Len(text) THEN <<>> ELSE part[Rest(text, i)].out \o from[i + part[Rest(text, i)].eats]

IsScan(from, part, text) == from = [i \in 1 .. Len(text) + 1 |-> ScanStep(from, part, text, i)]

\* Every part eats a letter or more.
Eats(part) == \A t \in Texts : part[t].eats \in 1 .. Len(t)

LEMMA RestIs ==
  ASSUME NEW text \in Seq(Letter), NEW i \in 1 .. Len(text)
  PROVE  Rest(text, i) \in Texts /\ Len(Rest(text, i)) = Len(text) + 1 - i
         /\ \A j \in 1 .. Len(text) + 1 - i : Rest(text, i)[j] = text[i + j - 1]
<1>1. i \in Nat /\ 1 <= i /\ i <= Len(text) /\ Len(text) \in Nat
  OBVIOUS
<1>2. \A j \in i .. Len(text) : text[j] \in Letter
  <2> SUFFICES ASSUME NEW j \in i .. Len(text) PROVE text[j] \in Letter
    OBVIOUS
  <2>1. j \in 1 .. Len(text)
    BY <1>1
  <2> QED
    BY <2>1, ElementOfSeq
<1>3. /\ SubSeq(text, i, Len(text)) \in Seq(Letter)
      /\ Len(SubSeq(text, i, Len(text))) = IF i <= Len(text) THEN Len(text) - i + 1 ELSE 0
      /\ \A j \in 1 .. Len(text) - i + 1 : SubSeq(text, i, Len(text))[j] = text[i + j - 1]
  BY <1>1, <1>2, SubSeqProperties
<1>4. Len(text) - i + 1 = Len(text) + 1 - i
  BY <1>1
<1>5. SubSeq(text, i, Len(text)) # <<>>
  BY <1>1, <1>3
<1> QED
  BY <1>1, <1>3, <1>4, <1>5 DEF Rest, Texts

LEMMA RestEnds == ASSUME NEW text \in Seq(Letter) PROVE Rest(text, Len(text) + 1) = <<>>
  BY SubSeqProperties DEF Rest

LEMMA ScanExists ==
  ASSUME NEW part, Eats(part), NEW text \in Seq(Letter)
  PROVE  \E from : IsScan(from, part, text)
<1> DEFINE n == Len(text)
           Upto(f, k) == f = [i \in 1 .. n + 1 |-> IF i + k > n THEN ScanStep(f, part, text, i) ELSE <<>>]
           S == {k \in Nat : \E f : Upto(f, k)}
<1>1. n \in Nat
  OBVIOUS
<1>2. 0 \in S
  <2> DEFINE f == [i \in 1 .. n + 1 |-> <<>>]
  <2>1. Upto(f, 0)
    BY <1>1 DEF ScanStep
  <2> QED
    BY <2>1
<1>3. ASSUME NEW k \in Nat, k \in S PROVE k + 1 \in S
  <2>1. PICK f : Upto(f, k)
    BY <1>3
  <2> DEFINE g == [i \in 1 .. n + 1 |-> IF i + (k + 1) > n THEN ScanStep(f, part, text, i) ELSE <<>>]
  <2>2. ASSUME NEW i \in 1 .. n + 1, i + (k + 1) > n PROVE ScanStep(g, part, text, i) = ScanStep(f, part, text, i)
    <3>1. CASE i > n
      BY <3>1 DEF ScanStep
    <3>2. CASE ~(i > n)
      <4> DEFINE e == part[Rest(text, i)].eats
      <4>1. i \in 1 .. Len(text)
        BY <1>1, <3>2
      <4>2. e \in 1 .. n + 1 - i
        BY <4>1, RestIs DEF Eats
      <4> HIDE DEF e
      <4>3. i + e \in 1 .. n + 1 /\ i + e + k > n /\ i + e + (k + 1) > n
        BY <1>1, <2>2, <4>1, <4>2
      <4>4. g[i + e] = f[i + e]
        BY <2>1, <4>3
      <4> HIDE DEF g
      <4> QED
        BY <3>2, <4>4 DEF ScanStep, e
    <3> QED
      BY <3>1, <3>2
  <2>3. Upto(g, k + 1)
    BY <2>2
  <2> HIDE DEF g
  <2>4. \E h : Upto(h, k + 1)
    BY <2>3
  <2> HIDE DEF Upto
  <2> QED
    BY <2>4
<1>4. n \in S
  <2> HIDE DEF S
  <2>1. Nat \subseteq S
    <3> DEFINE Bad == Nat \ S
    <3> SUFFICES ASSUME Bad # {} PROVE FALSE
      OBVIOUS
    <3>1. PICK m \in Bad : \A l \in Bad : m <= l
      BY LeastPosition
    <3>2. m \in Nat /\ m # 0 /\ m - 1 \in Nat /\ m - 1 + 1 = m
      BY <1>2, <3>1
    <3>3. m - 1 \in S
      BY <3>1, <3>2
    <3> QED
      BY <1>3, <3>1, <3>2, <3>3
  <2> QED
    BY <1>1, <2>1
<1>5. PICK f : Upto(f, n)
  BY <1>4
<1>6. f = [i \in 1 .. n + 1 |-> ScanStep(f, part, text, i)]
  <2>1. \A i \in 1 .. n + 1 : i + n > n
    BY <1>1
  <2> QED
    BY <1>5, <2>1
<1> QED
  BY <1>6 DEF IsScan

LEMMA ScanIs ==
  ASSUME NEW part, Eats(part), NEW text \in Seq(Letter)
  PROVE  \E from : /\ Scan(part, text) = from[1]
                   /\ from[Len(text) + 1] = <<>>
                   /\ \A i \in 1 .. Len(text) :
                        from[i] = part[Rest(text, i)].out \o from[i + part[Rest(text, i)].eats]
<1> DEFINE f == CHOOSE from : IsScan(from, part, text)
<1>1. IsScan(f, part, text)
  BY ScanExists
<1>2. Scan(part, text) = f[1]
  BY DEF Scan, IsScan, ScanStep, Rest
<1> HIDE DEF f
<1>3. \A i \in 1 .. Len(text) + 1 : f[i] = ScanStep(f, part, text, i)
  BY <1>1 DEF IsScan
<1>4. f[Len(text) + 1] = <<>>
  BY <1>3 DEF ScanStep
<1>5. ASSUME NEW i \in 1 .. Len(text)
      PROVE  f[i] = part[Rest(text, i)].out \o f[i + part[Rest(text, i)].eats]
  <2>1. i \in 1 .. Len(text) + 1 /\ ~(i > Len(text))
    OBVIOUS
  <2>2. f[i] = ScanStep(f, part, text, i)
    BY <1>3, <2>1
  <2> QED
    BY <2>1, <2>2, Zenon DEF ScanStep
<1> QED
  BY <1>2, <1>4, <1>5
LEMMA NotEmpty == ASSUME NEW S, NEW s \in Seq(S), Len(s) # 0 PROVE s # <<>>
  BY EmptySeq

\* The letters from `i` on are `o` and then `t`, which starts at `k`.
Splits(text, i, o, t, k) ==
  /\ text \in Seq(Letter) /\ i \in 1 .. Len(text) /\ o \in Seq(Letter) /\ t \in Seq(Letter)
  /\ k = i + Len(o) /\ Rest(text, i) = o \o t

LEMMA RestAfter ==
  ASSUME NEW text, NEW i, NEW o, NEW t, NEW k, Splits(text, i, o, t, k)
  PROVE  k \in 1 .. Len(text) + 1 /\ Rest(text, k) = t
<1> SUFFICES i + Len(o) \in 1 .. Len(text) + 1 /\ Rest(text, i + Len(o)) = t
  BY DEF Splits
<1> USE DEF Splits
<1>1. Len(text) \in Nat /\ Len(o) \in Nat /\ Len(t) \in Nat
  OBVIOUS
<1>2. Len(o) + Len(t) = Len(text) + 1 - i
  <2>1. Len(o \o t) = Len(o) + Len(t)
    BY ConcatProperties
  <2> QED
    BY <2>1, RestIs
<1>3. i + Len(o) \in 1 .. Len(text) + 1
  BY <1>1, <1>2
<1>4. CASE Len(t) = 0
  <2>1. i + Len(o) = Len(text) + 1 /\ t = <<>>
    BY <1>1, <1>2, <1>4, EmptySeq
  <2> QED
    BY <1>3, <2>1, RestEnds
<1>5. CASE Len(t) # 0
  <2> DEFINE h == i + Len(o)
  <2>1. h \in 1 .. Len(text) /\ Len(text) + 1 - h = Len(t)
    BY <1>1, <1>2, <1>5
  <2>2. Rest(text, h) \in Seq(Letter) /\ Len(Rest(text, h)) = Len(t)
    BY <2>1, RestIs DEF Texts
  <2>3. ASSUME NEW j \in 1 .. Len(t) PROVE Rest(text, h)[j] = t[j]
    <3>1. Rest(text, h)[j] = text[h + j - 1]
      BY <2>1, RestIs
    <3>2. Len(o) + j \in 1 .. Len(text) + 1 - i /\ i + (Len(o) + j) - 1 = h + j - 1
      BY <1>1, <1>2
    <3>3. Rest(text, i)[Len(o) + j] = text[h + j - 1]
      BY <3>2, RestIs
    <3>4. (o \o t)[Len(o) + j] = t[j]
      <4>1. Len(o) + j \in 1 .. Len(o) + Len(t) /\ ~(Len(o) + j <= Len(o)) /\ Len(o) + j - Len(o) = j
        BY <1>1
      <4> QED
        BY <4>1, ConcatProperties
    <3> QED
      BY <3>1, <3>3, <3>4
  <2> HIDE DEF h
  <2>4. Rest(text, h) = t
    BY <2>2, <2>3, SeqEqual
  <2> QED
    BY <1>3, <2>4 DEF h
<1> QED
  BY <1>4, <1>5

\* The parts, case by case.
LEMMA LikePartIs ==
  ASSUME NEW t \in Texts
  PROVE  /\ Escapes(t) => LikePart[t] = Eat(2, <<[literal |-> t[2]]>>)
         /\ ~Escapes(t) /\ t[1] = "%" => LikePart[t] = Eat(1, <<[any |-> TRUE]>>)
         /\ ~Escapes(t) /\ t[1] = "_" => LikePart[t] = Eat(1, <<[one |-> TRUE]>>)
         /\ ~Escapes(t) /\ t[1] \notin {"%", "_"} => LikePart[t] = Eat(1, <<[literal |-> t[1]]>>)
<1>1. Escapes(t) => t[1] = "\\"
  BY DEF Escapes
<1>2. Escapes(t) => LikePart[t] = Eat(2, <<[literal |-> t[2]]>>)
  BY <1>1 DEF LikePart
<1>3. ~Escapes(t) /\ t[1] = "%" => LikePart[t] = Eat(1, <<[any |-> TRUE]>>)
  BY DEF LikePart
<1>4. ~Escapes(t) /\ t[1] = "_" => LikePart[t] = Eat(1, <<[one |-> TRUE]>>)
  BY DEF LikePart
<1>5. ~Escapes(t) /\ t[1] \notin {"%", "_"} => LikePart[t] = Eat(1, <<[literal |-> t[1]]>>)
  BY DEF LikePart
<1> QED
  BY <1>2, <1>3, <1>4, <1>5

LEMMA QuotedPartIs ==
  ASSUME NEW t \in Texts
  PROVE  /\ Escapes(t) => QuotedPart[t] = Eat(2, <<t[2]>>)
         /\ ~Escapes(t) /\ t[1] = "%" => QuotedPart[t] = Eat(1, <<"*">>)
         /\ ~Escapes(t) /\ t[1] = "_" => QuotedPart[t] = Eat(1, <<"?">>)
         /\ ~Escapes(t) /\ t[1] \in {"*", "?", "["} => QuotedPart[t] = Eat(1, <<"[", t[1], "]">>)
         /\ ~Escapes(t) /\ t[1] \notin {"%", "_", "*", "?", "["} => QuotedPart[t] = Eat(1, <<t[1]>>)
<1>1. Escapes(t) => t[1] = "\\"
  BY DEF Escapes
<1>2. Escapes(t) => QuotedPart[t] = Eat(2, <<t[2]>>)
  BY <1>1 DEF QuotedPart
<1>3. ~Escapes(t) /\ t[1] = "%" => QuotedPart[t] = Eat(1, <<"*">>)
  BY DEF QuotedPart
<1>4. ~Escapes(t) /\ t[1] = "_" => QuotedPart[t] = Eat(1, <<"?">>)
  BY DEF QuotedPart
<1>5. ~Escapes(t) /\ t[1] \in {"*", "?", "["} => QuotedPart[t] = Eat(1, <<"[", t[1], "]">>)
  BY DEF QuotedPart
<1>6. ~Escapes(t) /\ t[1] \notin {"%", "_", "*", "?", "["} => QuotedPart[t] = Eat(1, <<t[1]>>)
  BY DEF QuotedPart
<1> QED
  BY <1>2, <1>3, <1>4, <1>5, <1>6

LEMMA GlobPartIs ==
  ASSUME NEW g \in Texts
  PROVE  /\ g[1] = "*" => GlobPart[g] = Eat(1, <<[any |-> TRUE]>>)
         /\ g[1] = "?" => GlobPart[g] = Eat(1, <<[one |-> TRUE]>>)
         /\ g[1] = "[" /\ Len(g) > 2 /\ g[3] = "]" => GlobPart[g] = Eat(3, <<[literal |-> g[2]]>>)
         /\ g[1] = "[" /\ ~(Len(g) > 2 /\ g[3] = "]") => GlobPart[g] = Eat(1, <<[literal |-> g[1]]>>)
         /\ g[1] \notin {"*", "?", "["} => GlobPart[g] = Eat(1, <<[literal |-> g[1]]>>)
BY DEF GlobPart

LEMMA EatIs == ASSUME NEW n, NEW o PROVE Eat(n, o).eats = n /\ Eat(n, o).out = o
BY DEF Eat

LEMMA PartsEat == Eats(LikePart) /\ Eats(QuotedPart) /\ Eats(GlobPart)
<1> SUFFICES ASSUME NEW t \in Texts
             PROVE  LikePart[t].eats \in 1 .. Len(t) /\ QuotedPart[t].eats \in 1 .. Len(t)
                    /\ GlobPart[t].eats \in 1 .. Len(t)
  BY DEF Eats
<1>1. Len(t) \in Nat /\ Len(t) >= 1
  BY EmptySeq DEF Texts
<1>2. LikePart[t].eats = 1 \/ (Escapes(t) /\ LikePart[t].eats = 2)
  <2>1. (\E o : LikePart[t] = Eat(1, o)) \/ (Escapes(t) /\ \E o : LikePart[t] = Eat(2, o))
    BY LikePartIs, Zenon
  <2> QED
    BY <2>1, EatIs
<1>3. QuotedPart[t].eats = 1 \/ (Escapes(t) /\ QuotedPart[t].eats = 2)
  <2>1. (\E o : QuotedPart[t] = Eat(1, o)) \/ (Escapes(t) /\ \E o : QuotedPart[t] = Eat(2, o))
    BY QuotedPartIs, Zenon
  <2> QED
    BY <2>1, EatIs
<1>4. GlobPart[t].eats = 1 \/ (Len(t) > 2 /\ GlobPart[t].eats = 3)
  <2>1. (\E o : GlobPart[t] = Eat(1, o)) \/ (Len(t) > 2 /\ \E o : GlobPart[t] = Eat(3, o))
    BY GlobPartIs, Zenon
  <2> QED
    BY <2>1, EatIs
<1>5. Escapes(t) => Len(t) > 1
  BY DEF Escapes
<1> QED
  BY <1>1, <1>2, <1>3, <1>4, <1>5


\* What a part is quoted as, GLOB reads as that part, whatever comes after it.
LEMMA PartsAgree ==
  ASSUME NEW p \in Texts, NEW t \in Seq(Letter)
  PROVE  LET out == QuotedPart[p].out
             g   == out \o t
         IN /\ QuotedPart[p].eats = LikePart[p].eats
            /\ out \in Texts /\ g \in Texts
            /\ GlobPart[g].eats = Len(out) /\ GlobPart[g].out = LikePart[p].out
<1> DEFINE out == QuotedPart[p].out
           g   == out \o t
<1> SUFFICES /\ QuotedPart[p].eats = LikePart[p].eats
             /\ out \in Texts /\ g \in Texts
             /\ GlobPart[g].eats = Len(out) /\ GlobPart[g].out = LikePart[p].out
  OBVIOUS
<1>1. p \in Seq(Letter) /\ p # <<>> /\ Len(p) \in Nat /\ 1 \in 1 .. Len(p) /\ p[1] \in Letter
  BY EmptySeq, ElementOfSeq DEF Texts
<1>2. ASSUME NEW k, NEW o \in Texts, NEW w, o \o t \in Texts,
             QuotedPart[p] = Eat(k, o), LikePart[p] = Eat(k, w), GlobPart[o \o t] = Eat(Len(o), w)
      PROVE  /\ QuotedPart[p].eats = LikePart[p].eats
             /\ out \in Texts /\ g \in Texts
             /\ GlobPart[g].eats = Len(out) /\ GlobPart[g].out = LikePart[p].out
  <2>1. out = o /\ LikePart[p].out = w /\ QuotedPart[p].eats = k /\ LikePart[p].eats = k
    BY <1>2, EatIs
  <2>2. g = o \o t
    BY <2>1
  <2>3. GlobPart[g].eats = Len(o) /\ GlobPart[g].out = w
    BY <1>2, <2>2, EatIs
  <2> QED
    BY <1>2, <2>1, <2>2, <2>3
<1> HIDE DEF out, g
<1>3. ASSUME NEW c \in Letter PROVE <<c>> \o t \in Texts /\ (<<c>> \o t)[1] = c /\ <<c>> \in Texts /\ Len(<<c>>) = 1
  <2>1. <<c>> \in Seq(Letter) /\ Len(<<c>>) = 1 /\ <<c>>[1] = c
    OBVIOUS
  <2>2. <<c>> \o t \in Seq(Letter) /\ Len(<<c>> \o t) = 1 + Len(t) /\ (<<c>> \o t)[1] = c
    BY <2>1, ConcatProperties
  <2>3. <<c>> # <<>> /\ <<c>> \o t # <<>>
    BY <2>1, <2>2, EmptySeq
  <2> QED
    BY <2>1, <2>2, <2>3 DEF Texts
<1>4. ASSUME NEW c \in Letter, c \notin {"*", "?", "["}
      PROVE  GlobPart[<<c>> \o t] = Eat(Len(<<c>>), <<[literal |-> c]>>)
  <2> DEFINE h == <<c>> \o t
  <2>1. h \in Texts /\ h[1] = c /\ Len(<<c>>) = 1
    BY <1>3
  <2> HIDE DEF h
  <2>2. GlobPart[h] = Eat(1, <<[literal |-> h[1]]>>)
    BY <1>4, <2>1, GlobPartIs
  <2> QED
    BY <2>1, <2>2 DEF h
<1>5. CASE Escapes(p)
  <2>1. Len(p) > 1 /\ p[2] \notin {"*", "?", "["}
    BY <1>5, Zenon DEF Escapes
  <2>2. 2 \in 1 .. Len(p)
    BY <1>1, <2>1
  <2>3. p[2] \in Letter /\ p[2] \notin {"*", "?", "["}
    BY <1>1, <2>1, <2>2, ElementOfSeq
  <2>4. LikePart[p] = Eat(2, <<[literal |-> p[2]]>>) /\ QuotedPart[p] = Eat(2, <<p[2]>>)
    BY <1>5, LikePartIs, QuotedPartIs
  <2>5. <<p[2]>> \in Texts /\ <<p[2]>> \o t \in Texts
    BY <1>3, <2>3
  <2>6. GlobPart[<<p[2]>> \o t] = Eat(Len(<<p[2]>>), <<[literal |-> p[2]]>>)
    BY <1>4, <2>3
  <2> QED
    BY <1>2, <2>4, <2>5, <2>6, Zenon
<1>6. CASE ~Escapes(p) /\ p[1] = "%"
  <2>1. LikePart[p] = Eat(1, <<[any |-> TRUE]>>) /\ QuotedPart[p] = Eat(1, <<"*">>)
    BY <1>6, LikePartIs, QuotedPartIs
  <2>2. "*" \in Letter
    BY FilterAssumption
  <2>3. GlobPart[<<"*">> \o t] = Eat(Len(<<"*">>), <<[any |-> TRUE]>>)
    BY <1>3, <2>2, GlobPartIs
  <2>4. <<"*">> \in Texts /\ <<"*">> \o t \in Texts
    BY <1>3, <2>2
  <2> QED
    BY <1>2, <2>1, <2>3, <2>4, Zenon
<1>7. CASE ~Escapes(p) /\ p[1] = "_"
  <2>1. LikePart[p] = Eat(1, <<[one |-> TRUE]>>) /\ QuotedPart[p] = Eat(1, <<"?">>)
    BY <1>7, LikePartIs, QuotedPartIs
  <2>2. "?" \in Letter
    BY FilterAssumption
  <2>3. GlobPart[<<"?">> \o t] = Eat(Len(<<"?">>), <<[one |-> TRUE]>>)
    BY <1>3, <2>2, GlobPartIs
  <2>4. <<"?">> \in Texts /\ <<"?">> \o t \in Texts
    BY <1>3, <2>2
  <2> QED
    BY <1>2, <2>1, <2>3, <2>4, Zenon
<1>8. CASE ~Escapes(p) /\ p[1] \in {"*", "?", "["}
  <2> DEFINE c == p[1]
             o == <<"[", c, "]">>
             h == o \o t
  <2>1. LikePart[p] = Eat(1, <<[literal |-> c]>>) /\ QuotedPart[p] = Eat(1, o)
    BY <1>8, LikePartIs, QuotedPartIs
  <2>2. o \in Seq(Letter) /\ Len(o) = 3 /\ o[1] = "[" /\ o[2] = c /\ o[3] = "]"
    BY <1>1, FilterAssumption
  <2> HIDE DEF o, c
  <2>3. /\ h \in Seq(Letter) /\ Len(h) = 3 + Len(t) /\ Len(t) \in Nat
        /\ \A i \in 1 .. 3 + Len(t) : h[i] = IF i <= 3 THEN o[i] ELSE t[i - 3]
    <3>1. /\ h \in Seq(Letter) /\ Len(h) = Len(o) + Len(t)
          /\ \A i \in 1 .. Len(o) + Len(t) : h[i] = IF i <= Len(o) THEN o[i] ELSE t[i - Len(o)]
      BY <2>2, ConcatProperties
    <3> HIDE DEF h
    <3> QED
      BY <2>2, <3>1
  <2> HIDE DEF h
  <2>4. 1 \in 1 .. 3 + Len(t) /\ 2 \in 1 .. 3 + Len(t) /\ 3 \in 1 .. 3 + Len(t) /\ Len(h) > 2
    BY <2>3
  <2>5. h[1] = "[" /\ h[2] = c /\ h[3] = "]"
    BY <2>2, <2>3, <2>4
  <2>6. o # <<>> /\ h # <<>>
    <3>1. Len(o) # 0 /\ Len(h) # 0
      BY <2>2, <2>3
    <3> QED
      BY <2>2, <2>3, <3>1, NotEmpty, Zenon
  <2>7. o \in Texts /\ h \in Texts
    BY <2>2, <2>3, <2>6 DEF Texts
  <2>8. GlobPart[h] = Eat(3, <<[literal |-> c]>>)
    BY <2>4, <2>5, <2>7, GlobPartIs
  <2> QED
    BY <1>2, <2>1, <2>2, <2>7, <2>8, Zenon DEF h
<1>9. CASE ~Escapes(p) /\ p[1] \notin {"%", "_", "*", "?", "["}
  <2>1. LikePart[p] = Eat(1, <<[literal |-> p[1]]>>) /\ QuotedPart[p] = Eat(1, <<p[1]>>)
    BY <1>9, LikePartIs, QuotedPartIs
  <2>2. <<p[1]>> \in Texts /\ <<p[1]>> \o t \in Texts
    BY <1>1, <1>3
  <2>3. GlobPart[<<p[1]>> \o t] = Eat(Len(<<p[1]>>), <<[literal |-> p[1]]>>)
    BY <1>1, <1>4, <1>9
  <2> QED
    BY <1>2, <2>1, <2>2, <2>3, Zenon
<1> QED
  BY <1>5, <1>6, <1>7, <1>8, <1>9

\* The GLOB of a LIKE matches what the LIKE matches: it has the same parts.
LEMMA GlobIsLike ==
  ASSUME NEW p \in Seq(Letter)
  PROVE  LikeParts(p) = GlobParts(LikeToGlob(p))
<1> DEFINE n == Len(p)
<1>1. n \in Nat
  OBVIOUS
<1>2. PICK L : /\ LikeParts(p) = L[1] /\ L[n + 1] = <<>>
               /\ \A i \in 1 .. n : L[i] = LikePart[Rest(p, i)].out \o L[i + LikePart[Rest(p, i)].eats]
  <2>1. Eats(LikePart)
    BY PartsEat
  <2>2. \E f : /\ Scan(LikePart, p) = f[1]
               /\ f[Len(p) + 1] = <<>>
               /\ \A i \in 1 .. Len(p) :
                    f[i] = LikePart[Rest(p, i)].out \o f[i + LikePart[Rest(p, i)].eats]
    BY <2>1, ScanIs
  <2> QED
    BY <2>2 DEF LikeParts
<1>3. PICK Q : /\ LikeToGlob(p) = Q[1] /\ Q[n + 1] = <<>>
               /\ \A i \in 1 .. n : Q[i] = QuotedPart[Rest(p, i)].out \o Q[i + QuotedPart[Rest(p, i)].eats]
  <2>1. Eats(QuotedPart)
    BY PartsEat
  <2>2. \E f : /\ Scan(QuotedPart, p) = f[1]
               /\ f[Len(p) + 1] = <<>>
               /\ \A i \in 1 .. Len(p) :
                    f[i] = QuotedPart[Rest(p, i)].out \o f[i + QuotedPart[Rest(p, i)].eats]
    BY <2>1, ScanIs
  <2> QED
    BY <2>2 DEF LikeToGlob
<1> DEFINE e(i) == LikePart[Rest(p, i)].eats
           o(i) == QuotedPart[Rest(p, i)].out
<1>4. ASSUME NEW i \in 1 .. n
      PROVE  /\ e(i) = QuotedPart[Rest(p, i)].eats /\ i + e(i) \in (i + 1) .. (n + 1)
             /\ Rest(p, i) \in Texts
  <2>1. Rest(p, i) \in Texts /\ Len(Rest(p, i)) = n + 1 - i
    BY RestIs
  <2>2. e(i) \in 1 .. n + 1 - i
    BY <2>1, PartsEat DEF Eats
  <2>3. e(i) = QuotedPart[Rest(p, i)].eats
    BY <2>1, EmptySeq, PartsAgree
  <2> HIDE DEF e
  <2> QED
    BY <1>1, <2>1, <2>2, <2>3
<1>5. 1 .. n + 1 \subseteq {i \in 1 .. n + 1 : Q[i] \in Seq(Letter)}
  <2> DEFINE S == {i \in 1 .. n + 1 : Q[i] \in Seq(Letter)}
  <2>1. n + 1 \in S
    <3>1. n + 1 \in 1 .. n + 1
      BY <1>1
    <3>2. Q[n + 1] \in Seq(Letter)
      BY <1>3, EmptySeq, Zenon
    <3> QED
      BY <3>1, <3>2
  <2>2. ASSUME NEW i \in 1 .. n, (i + 1) .. (n + 1) \subseteq S PROVE i \in S
    <3>1. Q[i + e(i)] \in Seq(Letter)
      BY <1>4, <2>2
    <3>2. o(i) \in Seq(Letter) /\ o(i) \o Q[i + e(i)] \in Seq(Letter)
      BY <1>4, <3>1, PartsAgree DEF Texts
    <3>3. Q[i] = o(i) \o Q[i + e(i)]
      BY <1>3, <1>4
    <3>4. i \in 1 .. n + 1
      BY <1>1
    <3> QED
      BY <3>2, <3>3, <3>4
  <2> HIDE DEF S
  <2>3. 1 .. n + 1 \subseteq S
    BY <1>1, <2>1, <2>2, FromTheEnd
  <2> QED
    BY <2>3 DEF S
<1> DEFINE g == Q[1]
           m == Len(g)
<1>6. g \in Seq(Letter) /\ m \in Nat
  <2>1. 1 \in 1 .. n + 1
    BY <1>1
  <2> QED
    BY <1>5, <2>1
<1> HIDE DEF g
<1>7. PICK H : /\ GlobParts(g) = H[1] /\ H[m + 1] = <<>>
               /\ \A j \in 1 .. m : H[j] = GlobPart[Rest(g, j)].out \o H[j + GlobPart[Rest(g, j)].eats]
  <2>1. Eats(GlobPart)
    BY PartsEat
  <2>2. \E f : /\ Scan(GlobPart, g) = f[1]
               /\ f[Len(g) + 1] = <<>>
               /\ \A i \in 1 .. Len(g) :
                    f[i] = GlobPart[Rest(g, i)].out \o f[i + GlobPart[Rest(g, i)].eats]
    BY <1>6, <2>1, ScanIs
  <2> QED
    BY <2>2 DEF GlobParts
<1> HIDE DEF m
<1> DEFINE S == {i \in 1 .. n + 1 : \A j \in 1 .. m + 1 : Rest(g, j) = Q[i] => H[j] = L[i]}
<1>8. n + 1 \in S
  <2> SUFFICES ASSUME NEW j \in 1 .. m + 1, Rest(g, j) = <<>> PROVE H[j] = <<>>
    BY <1>1, <1>2, <1>3
  <2>1. j \notin 1 .. m
    BY <1>6, RestIs DEF m, Texts
  <2>2. j = m + 1
    BY <1>6, <2>1
  <2> QED
    BY <1>7, <2>2
<1>9. ASSUME NEW i \in 1 .. n, (i + 1) .. (n + 1) \subseteq S PROVE i \in S
  <2> DEFINE k == i + e(i)
             t == Q[k]
  <2>1. k \in S /\ k \in 1 .. n + 1 /\ t \in Seq(Letter)
    <3>1. k \in (i + 1) .. (n + 1)
      BY <1>4
    <3> HIDE DEF k
    <3>2. k \in 1 .. n + 1
      BY <1>1, <3>1
    <3> QED
      BY <1>5, <1>9, <3>1, <3>2
  <2>2. Q[i] = o(i) \o t /\ L[i] = LikePart[Rest(p, i)].out \o L[k]
    BY <1>2, <1>3, <1>4
  <2>3. /\ o(i) \in Texts /\ o(i) \o t \in Texts
        /\ GlobPart[o(i) \o t].eats = Len(o(i)) /\ GlobPart[o(i) \o t].out = LikePart[Rest(p, i)].out
    BY <1>4, <2>1, PartsAgree
  <2> HIDE DEF t, k, o
  <2> SUFFICES ASSUME NEW j \in 1 .. m + 1, Rest(g, j) = Q[i] PROVE H[j] = L[i]
    <3>1. i \in 1 .. n + 1
      BY <1>1
    <3> QED
      BY <3>1
  <2>4. j \in 1 .. m
    <3>1. j # m + 1
      BY <1>6, <2>2, <2>3, RestEnds DEF m, Texts
    <3> QED
      BY <1>6, <3>1
  <2>5. j + Len(o(i)) \in 1 .. m + 1 /\ Rest(g, j + Len(o(i))) = t
    <3>1. o(i) \in Seq(Letter) /\ Rest(g, j) = o(i) \o t /\ j \in 1 .. Len(g)
      BY <2>2, <2>3, <2>4 DEF m, Texts
    <3> DEFINE h == j + Len(o(i))
    <3>2. Splits(g, j, o(i), t, h)
      BY <1>6, <2>1, <3>1 DEF Splits
    <3> HIDE DEF h
    <3>3. h \in 1 .. Len(g) + 1 /\ Rest(g, h) = t
      BY <3>2, RestAfter
    <3> QED
      BY <3>3 DEF h, m
  <2>6. H[j] = LikePart[Rest(p, i)].out \o H[j + Len(o(i))]
    BY <1>7, <2>2, <2>3, <2>4
  <2>7. H[j + Len(o(i))] = L[k]
    BY <2>1, <2>5 DEF t
  <2> QED
    BY <2>2, <2>6, <2>7
<1>10. 1 \in S
  <2> HIDE DEF S
  <2>1. 1 .. n + 1 \subseteq S
    BY <1>1, <1>8, <1>9, FromTheEnd
  <2> QED
    BY <1>1, <2>1
<1>11. Rest(g, 1) = g /\ 1 \in 1 .. m + 1
  BY <1>6, SubSeqFull DEF Rest, m
<1> QED
  BY <1>2, <1>3, <1>7, <1>10, <1>11 DEF g

-----------------------------------------------------------------------------
(* A leaf in its three forms. *)

\* Values of one type.
OneType(S) == S = [number : Int] \/ S = [text : Int]

LEMMA OneTypeIs ==
  ASSUME NEW S, OneType(S), NEW x \in S
  PROVE  /\ x \in Scalars /\ x # None /\ Type(x) \in {"number", "text"}
         /\ ~Is(x, "array") /\ ~Is(x, "object") /\ ~Is(x, "null") /\ ~Is(x, "bool")
<1>1. CASE S = [number : Int]
  <2>1. DOMAIN x = {"number"} /\ x \in Scalars
    BY <1>1 DEF Scalars
  <2>2. Type(x) = "number"
    BY <2>1 DEF Type
  <2> QED
    BY <2>1, <2>2, FilterAssumption DEF Is
<1>2. CASE S = [text : Int]
  <2>1. DOMAIN x = {"text"} /\ x \in Scalars
    BY <1>2 DEF Scalars
  <2>2. Type(x) = "text"
    BY <2>1 DEF Type
  <2> QED
    BY <2>1, <2>2, FilterAssumption DEF Is
<1> QED
  BY <1>1, <1>2 DEF OneType

\* Within a type, documents compare as columns do.
LEMMA JsonOrders ==
  ASSUME NEW S, OneType(S), NEW x \in S, NEW y \in S
  PROVE  /\ JsonBelow(x, y) \in BOOLEAN /\ (JsonBelow(x, y) <=> Below(x, y))
         /\ JsonAtMost(x, y) \in BOOLEAN /\ (JsonAtMost(x, y) <=> Below(x, y) \/ x = y)
<1>1. CASE S = [number : Int]
  <2>1. Type(x) = "number" /\ Type(y) = "number" /\ x.number \in Int /\ y.number \in Int
    BY <1>1, NumberIs DEF Is
  <2>2. ~Is(x, "bool") /\ ~Is(y, "bool")
    BY OneTypeIs
  <2>3. JsonNumber(x) = x.number /\ JsonNumber(y) = y.number
    BY <2>2 DEF JsonNumber
  <2>4. {Type(x), Type(y)} \subseteq {"number", "bool"} /\ {Type(x), Type(y)} # {"text"}
    BY <2>1
  <2>5. JsonBelow(x, y) = (x.number < y.number)
    BY <2>3, <2>4 DEF JsonBelow
  <2>6. (x.number < y.number) \in BOOLEAN
    BY <2>1
  <2>7. x \in Scalars /\ y \in Scalars
    BY OneTypeIs
  <2>8. Below(x, y) <=> x.number < y.number
    BY <1>1, <2>7, BelowIs
  <2>9. x.number = y.number <=> x = y
    BY <1>1, SameContents
  <2>10. JsonAtMost(x, y) = (JsonBelow(x, y) \/ x.number = y.number \/ x = y)
    BY <2>3, <2>4 DEF JsonAtMost
  <2> QED
    BY <2>5, <2>6, <2>8, <2>9, <2>10, Zenon
<1>2. CASE S = [text : Int]
  <2>1. Type(x) = "text" /\ Type(y) = "text"
    BY <1>2, TextIs DEF Is
  <2>2. ~({Type(x), Type(y)} \subseteq {"number", "bool"}) /\ {Type(x), Type(y)} = {"text"}
    BY <2>1
  <2>3. JsonBelow(x, y) = (x.text < y.text)
    BY <2>2 DEF JsonBelow
  <2>4. (x.text < y.text) \in BOOLEAN
    BY <2>1, <1>2
  <2>5. x \in Scalars /\ y \in Scalars
    BY OneTypeIs
  <2>6. Below(x, y) <=> x.text < y.text
    BY <1>2, <2>5, BelowIs
  <2>7. JsonAtMost(x, y) = (JsonBelow(x, y) \/ x = y)
    BY <2>2 DEF JsonAtMost
  <2> QED
    BY <2>3, <2>4, <2>6, <2>7, Zenon
<1> QED
  BY <1>1, <1>2 DEF OneType

\* An array compares with no scalar.
LEMMA PairIs ==
  ASSUME NEW S, OneType(S), NEW x \in S, NEW y \in S, NEW z \in S, Pair(x, y) # None
  PROVE  LET p == Pair(x, y) IN
         /\ Is(p, "array") /\ ~Is(p, "null") /\ p \notin S /\ p # z
         /\ p.array = <<x, y>>
         /\ ~JsonBelow(p, z) /\ ~JsonBelow(z, p) /\ ~JsonAtMost(p, z) /\ ~JsonAtMost(z, p)
<1> DEFINE p == Pair(x, y)
<1>1. DOMAIN p = {"array"} /\ p.array = <<x, y>>
  BY DEF Pair
<1>2. Type(p) = "array" /\ p # None
  BY <1>1 DEF Type
<1> HIDE DEF p
<1>3. Is(p, "array") /\ ~Is(p, "null")
  BY <1>2 DEF Is
<1>4. p \notin S /\ p # z
  BY <1>3, OneTypeIs
<1>5. /\ ~({Type(p), Type(z)} \subseteq {"number", "bool"}) /\ {Type(p), Type(z)} # {"text"}
      /\ ~({Type(z), Type(p)} \subseteq {"number", "bool"}) /\ {Type(z), Type(p)} # {"text"}
  BY <1>2
<1>6. ~JsonBelow(p, z) /\ ~JsonBelow(z, p)
  BY <1>5 DEF JsonBelow
<1>7. ~JsonAtMost(p, z) /\ ~JsonAtMost(z, p)
  BY <1>4, <1>5, <1>6 DEF JsonAtMost
<1> QED
  BY <1>1, <1>3, <1>4, <1>6, <1>7 DEF p

\* A path of one segment.
LEMMA ReachedIs ==
  ASSUME NEW doc, NEW step
  PROVE  Reached(doc, <<step>>) = UNION {Enter(node, step) : node \in {doc} \ {None}}
<1> DEFINE A == {doc} \ {None}
           B == UNION {Enter(node, step) : node \in A}
           Is1(at) == at = [k \in 0 .. Len(<<step>>) |->
                              IF k = 0 THEN {doc} \ {None}
                              ELSE UNION {Enter(node, <<step>>[k]) : node \in at[k - 1]}]
           f == [k \in 0 .. 1 |-> IF k = 0 THEN A ELSE B]
<1>1. Len(<<step>>) = 1 /\ <<step>>[1] = step
  OBVIOUS
<1>2. f[0] = A /\ f[1] = B
  OBVIOUS
<1>3. Is1(f)
  <2> SUFFICES ASSUME NEW k \in 0 .. 1
               PROVE  f[k] = IF k = 0 THEN {doc} \ {None}
                             ELSE UNION {Enter(node, <<step>>[k]) : node \in f[k - 1]}
    BY <1>1
  <2>1. CASE k = 0
    BY <1>2, <2>1
  <2>2. CASE k = 1
    <3>1. f[k - 1] = A /\ <<step>>[k] = step
      BY <1>1, <1>2, <2>2
    <3> HIDE DEF f
    <3> QED
      BY <1>2, <2>2, <3>1
  <2> QED
    BY <2>1, <2>2
<1> DEFINE g == CHOOSE at : Is1(at)
<1> HIDE DEF f
<1>4. Is1(g)
  BY <1>3
<1>5. Reached(doc, <<step>>) = g[Len(<<step>>)]
  BY DEF Reached
<1> HIDE DEF g
<1>6. g[0] = A
  BY <1>1, <1>4
<1>7. g[1] = UNION {Enter(node, <<step>>[1]) : node \in g[1 - 1]}
  BY <1>1, <1>4
<1> QED
  BY <1>1, <1>5, <1>6, <1>7

\* A path to a value.
LEMMA DocumentIs ==
  ASSUME NEW v, Document(v) # None
  PROVE  Reached(Document(v), <<"a">>) = {v} \ {None}
<1> DEFINE d == Document(v)
           o == d.object
<1>1. DOMAIN d = {"object"} /\ o = IF v = None THEN [k \in {} |-> None] ELSE [a |-> v]
  BY DEF Document
<1>2. (v = None => DOMAIN o = {}) /\ (v # None => "a" \in DOMAIN o /\ o["a"] = v)
  BY <1>1
<1> HIDE DEF d
<1>3. Type(d) = "object" /\ d # None
  BY <1>1 DEF Type, d
<1>4. Is(d, "object") /\ ~Is(d, "array")
  BY <1>3 DEF Is
<1>5. Enter(d, "a") = IF "a" \in DOMAIN o THEN {o["a"]} ELSE {}
  BY <1>4 DEF Enter
<1>6. Enter(d, "a") = {v} \ {None}
  BY <1>2, <1>5
<1>7. Reached(d, <<"a">>) = UNION {Enter(node, "a") : node \in {d} \ {None}}
  BY ReachedIs
<1>8. UNION {Enter(node, "a") : node \in {d} \ {None}} = Enter(d, "a")
  BY <1>3
<1> QED
  BY <1>6, <1>7, <1>8 DEF d

LEMMA PathIs == <<"a">> # <<>>
OBVIOUS

LEMMA ValueEach ==
  ASSUME NEW S, OneType(S), NEW x \in {None} \cup S, Document(x) # None
  PROVE  /\ JsonEach(Document(x), <<"a">>) = {x} \ {None}
         /\ JsonPresent(Document(x), <<"a">>) \in BOOLEAN
         /\ JsonPresent(Document(x), <<"a">>) <=> x # None
<1> DEFINE R == Reached(Document(x), <<"a">>)
<1>1. R = {x} \ {None}
  BY DocumentIs
<1>2. \A y \in R : ~Is(y, "array") /\ ~Is(y, "null")
  BY <1>1, OneTypeIs
<1>3. JsonEach(Document(x), <<"a">>) =
        R \cup UNION {{y.array[k] : k \in DOMAIN y.array} : y \in {z \in R : Is(z, "array")}}
  BY DEF JsonEach
<1>4. JsonPresent(Document(x), <<"a">>) = \E y \in R : ~Is(y, "null")
  BY PathIs DEF JsonPresent
<1> HIDE DEF R
<1>5. {z \in R : Is(z, "array")} = {}
  BY <1>2
<1>6. JsonEach(Document(x), <<"a">>) = R
  BY <1>3, <1>5
<1>7. (\E y \in R : ~Is(y, "null")) \in BOOLEAN /\ ((\E y \in R : ~Is(y, "null")) <=> x # None)
  BY <1>1, <1>2
<1> QED
  BY <1>1, <1>4, <1>6, <1>7, Zenon

LEMMA PairEach ==
  ASSUME NEW S, OneType(S), NEW x \in S, NEW y \in S,
         Pair(x, y) # None, Document(Pair(x, y)) # None
  PROVE  /\ JsonEach(Document(Pair(x, y)), <<"a">>) = {Pair(x, y), x, y}
         /\ JsonPresent(Document(Pair(x, y)), <<"a">>) = TRUE
<1> DEFINE p == Pair(x, y)
           R == Reached(Document(p), <<"a">>)
<1>1. R = {p}
  BY DocumentIs
<1>2. Is(p, "array") /\ ~Is(p, "null") /\ p.array = <<x, y>>
  BY PairIs
<1>3. JsonEach(Document(p), <<"a">>) =
        R \cup UNION {{z.array[k] : k \in DOMAIN z.array} : z \in {z \in R : Is(z, "array")}}
  BY DEF JsonEach
<1>4. JsonPresent(Document(p), <<"a">>) = \E z \in R : ~Is(z, "null")
  BY PathIs DEF JsonPresent
<1> HIDE DEF R, p
<1>5. {z \in R : Is(z, "array")} = {p}
  BY <1>1, <1>2
<1>6. {p.array[k] : k \in DOMAIN p.array} = {x, y}
  <2>1. DOMAIN <<x, y>> = 1 .. 2 /\ <<x, y>>[1] = x /\ <<x, y>>[2] = y
    OBVIOUS
  <2>2. 1 .. 2 = {1, 2}
    OBVIOUS
  <2> QED
    BY <1>2, <2>1, <2>2
<1>7. JsonEach(Document(p), <<"a">>) = {p, x, y}
  BY <1>1, <1>3, <1>5, <1>6
<1>8. \E z \in R : ~Is(z, "null")
  BY <1>1, <1>2
<1> QED
  BY <1>4, <1>7, <1>8 DEF p

\* What a leaf over a column asks of its value, in two values.
Asks(f, S) ==
  \/ f.op \in {"eq", "ne"} /\ f.arg \in {None} \cup S
  \/ f.op \in {"gt", "gte", "lt", "lte"} /\ f.arg \in S
  \/ f.op \in {"in", "nin"} /\ f.arg \subseteq {None} \cup S
  \/ f.op = "exists" /\ f.arg \in BOOLEAN
  \/ f.op = "like" /\ f.arg \subseteq S

Picks(f, x) ==
  \/ f.op = "eq" /\ x = f.arg
  \/ f.op = "ne" /\ x # None /\ x # f.arg
  \/ f.op = "gt" /\ x # None /\ Below(f.arg, x)
  \/ f.op = "gte" /\ x # None /\ (Below(f.arg, x) \/ x = f.arg)
  \/ f.op = "lt" /\ x # None /\ Below(x, f.arg)
  \/ f.op = "lte" /\ x # None /\ (Below(x, f.arg) \/ x = f.arg)
  \/ f.op = "nin" /\ (f.arg = {} \/ (x # None /\ x \notin f.arg))
  \/ f.op = "exists" /\ (x # None <=> f.arg)
  \/ f.op \in {"in", "like"} /\ x \in f.arg

\* SQL's `=` and `<` on the values of a leaf.
LEMMA TypedSelects ==
  ASSUME NEW S, OneType(S), NEW x \in {None} \cup S, NEW y \in S
  PROVE  /\ Equal(x, y) \in Logical /\ (Selects(Equal(x, y)) <=> x = y)
         /\ Below(x, y) \in Logical /\ (Selects(Below(x, y)) <=> x # None /\ Below(x, y))
         /\ Below(y, x) \in Logical /\ (Selects(Below(y, x)) <=> x # None /\ Below(y, x))
         /\ Selects(Not3(Equal(x, y))) <=> x # None /\ x # y
<1>1. x \in Sortable /\ y \in Sortable /\ y # None /\ (x # None => x \in Scalars /\ y \in Scalars)
  BY OneTypeIs DEF Sortable
<1>2. Equal(x, y) \in Logical /\ (Selects(Equal(x, y)) <=> x = y)
  BY <1>1, EqualSelects
<1>3. Below(x, y) \in Logical /\ Below(y, x) \in Logical
  BY <1>1, BelowSelects
<1>4. Selects(Not3(Equal(x, y))) <=> x # None /\ x # y
  BY <1>1, LogicalNone DEF Equal, Not3, Selects
<1>5. CASE x = None
  <2>1. Below(x, y) = None /\ Below(y, x) = None
    BY <1>5 DEF Below, Is
  <2> QED
    BY <1>2, <1>3, <1>4, <1>5, <2>1, LogicalNone DEF Selects
<1>6. CASE x # None
  <2>1. Below(x, y) \in BOOLEAN /\ Below(y, x) \in BOOLEAN
    BY <1>1, <1>6, BelowIs
  <2>2. (Selects(Below(x, y)) <=> Below(x, y)) /\ (Selects(Below(y, x)) <=> Below(y, x))
    BY <2>1, Zenon DEF Selects
  <2> QED
    BY <1>2, <1>3, <1>4, <1>6, <2>2
<1> QED
  BY <1>5, <1>6

\* IN over such values.
LEMMA InListIs ==
  ASSUME NEW S, OneType(S), NEW x \in {None} \cup S, NEW ys \in SUBSET S
  PROVE  InList(x, ys) \in Logical /\ (Selects(InList(x, ys)) <=> x \in ys)
                                   /\ (Selects(Not3(InList(x, ys))) <=> ys = {} \/ (x # None /\ x \notin ys))
<1> DEFINE E == {Equal(x, y) : y \in ys}
           N == {Not3(a) : a \in E}
<1>1. \A y \in ys : y \in S
  OBVIOUS
<1>2. \A y \in ys : /\ Equal(x, y) \in Logical /\ (Selects(Equal(x, y)) <=> x = y)
                    /\ (Selects(Not3(Equal(x, y))) <=> x # None /\ x # y)
  BY <1>1, TypedSelects
<1>3. E \in SUBSET Logical
  BY <1>2
<1>4. \A a \in Logical : Not3(a) \in Logical /\ Not3(Not3(a)) = a
  BY LogicalNone DEF Not3, Logical
<1>5. N \in SUBSET Logical
  BY <1>3, <1>4
<1>6. And3(N) \in Logical /\ (Selects(And3(N)) <=> N \subseteq {TRUE})
  BY <1>5, AndSelects
<1>7. InList(x, ys) = Or3(E) /\ Or3(E) = Not3(And3(N))
  BY DEF InList, Or3
<1>8. TRUE \in E <=> \E y \in ys : Selects(Equal(x, y))
  BY DEF Selects
<1>9. N \subseteq {TRUE} <=> \A y \in ys : Selects(Not3(Equal(x, y)))
  BY DEF Selects
<1> HIDE DEF E, N
<1>10. Selects(Or3(E)) <=> TRUE \in E
  BY <1>3, OrSelects
<1>11. Not3(InList(x, ys)) = And3(N)
  BY <1>4, <1>6, <1>7
<1>12. InList(x, ys) \in Logical
  BY <1>4, <1>6, <1>7
<1>13. Selects(InList(x, ys)) <=> x \in ys
  BY <1>2, <1>7, <1>8, <1>10
<1>14. Selects(Not3(InList(x, ys))) <=> ys = {} \/ (x # None /\ x \notin ys)
  BY <1>2, <1>6, <1>9, <1>11
<1> QED
  BY <1>12, <1>13, <1>14

LEMMA ScalarPicks ==
  ASSUME NEW S, OneType(S), NEW f, Asks(f, S), NEW x \in {None} \cup S
  PROVE  Selects(ScalarLeaf(f, x)) <=> Picks(f, x)
<1>1. CASE f.op \in {"eq", "ne", "gt", "gte", "lt", "lte", "exists"}
  <2>1. ScalarLeaf(f, x) = Compare(f.op, x, f.arg)
    BY <1>1 DEF ScalarLeaf, Comparisons
  <2>2. CASE f.op = "eq"
    <3>1. Compare(f.op, x, f.arg) = IF f.arg = None THEN x = None ELSE Equal(x, f.arg)
      BY <2>2 DEF Compare
    <3>2. Picks(f, x) <=> x = f.arg
      BY <2>2 DEF Picks
    <3>3. f.arg \in {None} \cup S
      BY <2>2 DEF Asks
    <3>4. CASE f.arg = None
      BY <2>1, <3>1, <3>2, <3>4 DEF Selects
    <3>5. CASE f.arg # None
      BY <2>1, <3>1, <3>2, <3>3, <3>5, TypedSelects
    <3> QED
      BY <3>4, <3>5
  <2>3. CASE f.op = "ne"
    <3>1. Compare(f.op, x, f.arg) = IF f.arg = None THEN x # None ELSE Not3(Equal(x, f.arg))
      BY <2>3 DEF Compare
    <3>2. Picks(f, x) <=> x # None /\ x # f.arg
      BY <2>3 DEF Picks
    <3>3. f.arg \in {None} \cup S
      BY <2>3 DEF Asks
    <3>4. CASE f.arg = None
      BY <2>1, <3>1, <3>2, <3>4 DEF Selects
    <3>5. CASE f.arg # None
      BY <2>1, <3>1, <3>2, <3>3, <3>5, TypedSelects
    <3> QED
      BY <3>4, <3>5
  <2>4. CASE f.op \in {"gt", "gte", "lt", "lte"}
    <3>1. f.arg \in S
      BY <2>4 DEF Asks
    <3> DEFINE y == f.arg
    <3>2. /\ Equal(x, y) \in Logical /\ (Selects(Equal(x, y)) <=> x = y)
          /\ Below(x, y) \in Logical /\ (Selects(Below(x, y)) <=> x # None /\ Below(x, y))
          /\ Below(y, x) \in Logical /\ (Selects(Below(y, x)) <=> x # None /\ Below(y, x))
      BY <3>1, TypedSelects
    <3>3. y # None
      BY <3>1, OneTypeIs
    <3>4. \A a, b \in Logical : Selects(Or3({a, b})) <=> Selects(a) \/ Selects(b)
      <4> SUFFICES ASSUME NEW a \in Logical, NEW b \in Logical
                   PROVE  Selects(Or3({a, b})) <=> Selects(a) \/ Selects(b)
        OBVIOUS
      <4>1. Selects(Or3({a, b})) <=> TRUE \in {a, b}
        BY OrSelects
      <4> QED
        BY <4>1 DEF Selects
    <3>5. CASE f.op = "gt"
      BY <2>1, <3>2, <3>5 DEF Compare, Picks
    <3>6. CASE f.op = "gte"
      <4>1. Compare(f.op, x, y) = Or3({Below(y, x), Equal(x, y)})
        BY <3>6 DEF Compare
      <4>2. Picks(f, x) <=> x # None /\ (Below(y, x) \/ x = y)
        BY <3>6 DEF Picks
      <4> QED
        BY <2>1, <3>2, <3>3, <3>4, <4>1, <4>2
    <3>7. CASE f.op = "lt"
      BY <2>1, <3>2, <3>7 DEF Compare, Picks
    <3>8. CASE f.op = "lte"
      <4>1. Compare(f.op, x, y) = Or3({Below(x, y), Equal(x, y)})
        BY <3>8 DEF Compare
      <4>2. Picks(f, x) <=> x # None /\ (Below(x, y) \/ x = y)
        BY <3>8 DEF Picks
      <4> QED
        BY <2>1, <3>2, <3>3, <3>4, <4>1, <4>2
    <3> QED
      BY <2>4, <3>5, <3>6, <3>7, <3>8
  <2>5. CASE f.op = "exists"
    <3>1. f.arg \in BOOLEAN
      BY <2>5 DEF Asks
    <3>2. Compare(f.op, x, f.arg) = ((x # None) = f.arg)
      BY <2>5 DEF Compare
    <3>3. Picks(f, x) <=> (x # None <=> f.arg)
      BY <2>5 DEF Picks
    <3>4. Selects((x # None) = f.arg) <=> (x # None <=> f.arg)
      BY <3>1, Zenon DEF Selects
    <3> QED
      BY <2>1, <3>2, <3>3, <3>4
  <2> QED
    BY <1>1, <2>2, <2>3, <2>4, <2>5
<1>2. CASE f.op = "in"
  <2> DEFINE some == f.arg \ {None}
             v == InList(x, some)
             N == IF None \in f.arg THEN {x = None} ELSE {}
  <2>1. ScalarLeaf(f, x) = Or3({v} \cup N)
    BY <1>2 DEF ScalarLeaf, Comparisons
  <2>2. some \in SUBSET S
    BY <1>2 DEF Asks
  <2>3. v \in Logical /\ (Selects(v) <=> x \in some)
    BY <2>2, InListIs
  <2>4. N \in SUBSET Logical /\ (TRUE \in N <=> None \in f.arg /\ x = None)
    BY DEF Logical
  <2> HIDE DEF v, N
  <2>5. Selects(Or3({v} \cup N)) <=> TRUE \in {v} \cup N
    BY <2>3, <2>4, OrSelects
  <2>6. Picks(f, x) <=> x \in f.arg
    BY <1>2 DEF Picks
  <2> QED
    BY <2>1, <2>3, <2>4, <2>5, <2>6 DEF Selects
<1>3. CASE f.op = "nin"
  <2> DEFINE some == f.arg \ {None}
  <2>1. some \in SUBSET S
    BY <1>3 DEF Asks
  <2> HIDE DEF some
  <2>2. Selects(Not3(InList(x, some))) <=> some = {} \/ (x # None /\ x \notin some)
    BY <2>1, InListIs
  <2>3. Picks(f, x) <=> f.arg = {} \/ (x # None /\ x \notin f.arg)
    BY <1>3 DEF Picks
  <2>4. ScalarLeaf(f, x) = CASE f.arg = {} -> TRUE
                             [] f.arg = {None} -> x # None
                             [] OTHER -> Not3(InList(x, some))
    BY <1>3 DEF ScalarLeaf, Comparisons, some
  <2>5. CASE f.arg = {}
    BY <2>3, <2>4, <2>5 DEF Selects
  <2>6. CASE f.arg = {None}
    BY <2>3, <2>4, <2>6 DEF Selects
  <2>7. CASE f.arg # {} /\ f.arg # {None}
    <3>1. ScalarLeaf(f, x) = Not3(InList(x, some))
      BY <2>4, <2>7
    <3>2. some # {}
      BY <2>7 DEF some
    <3> QED
      BY <2>2, <2>3, <3>1, <3>2 DEF some
  <2> QED
    BY <2>5, <2>6, <2>7
<1>4. CASE f.op = "like"
  <2>1. f.arg \subseteq S
    BY <1>4 DEF Asks
  <2>2. ScalarLeaf(f, x) = IF x = None THEN None ELSE x \in f.arg
    BY <1>4 DEF ScalarLeaf, Comparisons
  <2>3. None \notin S
    BY OneTypeIs
  <2> QED
    BY <1>4, <2>1, <2>2, <2>3, LogicalNone DEF Selects, Picks
<1> QED
  BY <1>1, <1>2, <1>3, <1>4 DEF Asks

\* The same leaf asked of a document with the value.
LEMMA ValuePicks ==
  ASSUME NEW S, OneType(S), NEW f, Asks(f, S), NEW x \in {None} \cup S, Document(x) # None,
         ~(f.op = "nin" /\ f.arg = {} /\ x = None)
  PROVE  /\ JsonLeaf(f, Document(x), <<"a">>) \in BOOLEAN
         /\ JsonLeaf(f, Document(x), <<"a">>) <=> Picks(f, x)
<1> DEFINE xs == {x} \ {None}
           present == JsonPresent(Document(x), <<"a">>)
           test == JsonTest(f, xs, present)
<1>1. JsonLeaf(f, Document(x), <<"a">>) = test
  BY ValueEach DEF JsonLeaf
<1>2. present \in BOOLEAN /\ (present <=> x # None)
  BY ValueEach
<1>3. None \notin S
  BY OneTypeIs
<1> HIDE DEF present
<1> SUFFICES test \in BOOLEAN /\ (test <=> Picks(f, x))
  BY <1>1, Zenon
<1>4. CASE f.op = "eq"
  <2>1. test = IF f.arg = None THEN ~present ELSE f.arg \in xs
    BY <1>4 DEF JsonTest
  <2>2. Picks(f, x) <=> x = f.arg
    BY <1>4 DEF Picks
  <2>3. CASE f.arg = None
    <3>1. test = ~present
      BY <2>1, <2>3
    <3> QED
      BY <1>2, <2>2, <2>3, <3>1
  <2>4. CASE f.arg # None
    <3>1. test = (f.arg \in xs)
      BY <2>1, <2>4
    <3> HIDE DEF test
    <3>2. (f.arg \in xs) \in BOOLEAN
      OBVIOUS
    <3>3. test \in BOOLEAN
      BY <3>1, <3>2, Zenon
    <3>4. f.arg \in xs <=> x = f.arg
      BY <2>4
    <3>5. test <=> x = f.arg
      BY <3>1, <3>4, Zenon
    <3> QED
      BY <2>2, <3>3, <3>5, Zenon
  <2> QED
    BY <2>3, <2>4
<1>5. CASE f.op = "ne"
  BY <1>2, <1>3, <1>5 DEF Asks, Picks, JsonTest
<1>6. CASE f.op \in {"gt", "gte", "lt", "lte"}
  <2> DEFINE y == f.arg
  <2>1. y \in S
    BY <1>6 DEF Asks
  <2>2. x # None => /\ JsonBelow(x, y) \in BOOLEAN /\ (JsonBelow(x, y) <=> Below(x, y))
                    /\ JsonAtMost(x, y) \in BOOLEAN /\ (JsonAtMost(x, y) <=> Below(x, y) \/ x = y)
                    /\ JsonBelow(y, x) \in BOOLEAN /\ (JsonBelow(y, x) <=> Below(y, x))
                    /\ JsonAtMost(y, x) \in BOOLEAN /\ (JsonAtMost(y, x) <=> Below(y, x) \/ y = x)
    BY <2>1, JsonOrders
  <2> HIDE DEF y
  <2>3. CASE f.op = "gt"
    <3>1. test = \E z \in xs : JsonBelow(y, z)
      BY <2>3 DEF JsonTest, y
    <3>2. Picks(f, x) <=> x # None /\ Below(y, x)
      BY <2>3 DEF Picks, y
    <3> QED
      BY <2>2, <3>1, <3>2
  <2>4. CASE f.op = "gte"
    <3>1. test = \E z \in xs : JsonAtMost(y, z)
      BY <2>4 DEF JsonTest, y
    <3>2. Picks(f, x) <=> x # None /\ (Below(y, x) \/ x = y)
      BY <2>4 DEF Picks, y
    <3> QED
      BY <2>2, <3>1, <3>2
  <2>5. CASE f.op = "lt"
    <3>1. test = \E z \in xs : JsonBelow(z, y)
      BY <2>5 DEF JsonTest, y
    <3>2. Picks(f, x) <=> x # None /\ Below(x, y)
      BY <2>5 DEF Picks, y
    <3> QED
      BY <2>2, <3>1, <3>2
  <2>6. CASE f.op = "lte"
    <3>1. test = \E z \in xs : JsonAtMost(z, y)
      BY <2>6 DEF JsonTest, y
    <3>2. Picks(f, x) <=> x # None /\ (Below(x, y) \/ x = y)
      BY <2>6 DEF Picks, y
    <3> QED
      BY <2>2, <3>1, <3>2
  <2> QED
    BY <1>6, <2>3, <2>4, <2>5, <2>6
<1>7. CASE f.op = "in"
  BY <1>2, <1>3, <1>7 DEF Asks, Picks, JsonTest
<1>8. CASE f.op = "nin"
  BY <1>2, <1>3, <1>8 DEF Asks, Picks, JsonTest
<1>9. CASE f.op = "exists"
  <2>1. test = (present = f.arg)
    BY <1>9 DEF JsonTest
  <2>2. f.arg \in BOOLEAN
    BY <1>9 DEF Asks
  <2>3. Picks(f, x) <=> (x # None <=> f.arg)
    BY <1>9 DEF Picks
  <2> HIDE DEF test
  <2>4. (present = f.arg) \in BOOLEAN /\ ((present = f.arg) <=> (present <=> f.arg))
    BY <1>2, <2>2, Zenon
  <2> QED
    BY <1>2, <2>1, <2>3, <2>4
<1>10. CASE f.op = "like"
  BY <1>2, <1>3, <1>10 DEF Asks, Picks, JsonTest
<1> QED
  BY <1>4, <1>5, <1>6, <1>7, <1>8, <1>9, <1>10 DEF Asks

\* And of one with two values: `ne` and `nin` ask both, the others either.
LEMMA PairPicks ==
  ASSUME NEW S, OneType(S), NEW f, Asks(f, S), NEW x \in S, NEW y \in S,
         Pair(x, y) # None, Document(Pair(x, y)) # None
  PROVE  /\ JsonLeaf(f, Document(Pair(x, y)), <<"a">>) \in BOOLEAN
         /\ JsonLeaf(f, Document(Pair(x, y)), <<"a">>) <=>
              IF f.op \in {"ne", "nin"} THEN Picks(f, x) /\ Picks(f, y) ELSE Picks(f, x) \/ Picks(f, y)
<1> DEFINE p == Pair(x, y)
           xs == {p, x, y}
           test == JsonTest(f, xs, TRUE)
           both == IF f.op \in {"ne", "nin"} THEN Picks(f, x) /\ Picks(f, y) ELSE Picks(f, x) \/ Picks(f, y)
<1>1. JsonLeaf(f, Document(p), <<"a">>) = test
  <2>1. JsonEach(Document(p), <<"a">>) = xs /\ JsonPresent(Document(p), <<"a">>) = TRUE
    BY PairEach
  <2> HIDE DEF p
  <2> QED
    BY <2>1 DEF JsonLeaf
<1>2. None \notin S /\ p \notin {None} \cup S
  BY OneTypeIs, PairIs
<1>3. \A z \in S : ~JsonBelow(p, z) /\ ~JsonBelow(z, p) /\ ~JsonAtMost(p, z) /\ ~JsonAtMost(z, p)
  BY PairIs
<1> HIDE DEF p
<1> SUFFICES test \in BOOLEAN /\ (test <=> both)
  BY <1>1, Zenon DEF p
<1>4. CASE f.op = "eq"
  <2>1. test = IF f.arg = None THEN ~TRUE ELSE f.arg \in xs
    BY <1>4 DEF JsonTest
  <2>2. \A v \in {x, y} : Picks(f, v) <=> v = f.arg
    BY <1>4 DEF Picks
  <2>3. f.arg \in {None} \cup S
    BY <1>4 DEF Asks
  <2>4. both <=> x = f.arg \/ y = f.arg
    BY <1>4, <2>2
  <2>5. CASE f.arg = None
    <3>1. test = FALSE
      BY <2>1, <2>5
    <3> QED
      BY <1>2, <2>4, <2>5, <3>1
  <2>6. CASE f.arg # None
    <3>1. test = (f.arg \in xs)
      BY <2>1, <2>6
    <3> HIDE DEF test
    <3>2. (f.arg \in xs) \in BOOLEAN
      OBVIOUS
    <3>3. test \in BOOLEAN
      BY <3>1, <3>2, Zenon
    <3>4. f.arg \in xs <=> x = f.arg \/ y = f.arg
      BY <1>2, <2>3, <2>6
    <3>5. test <=> x = f.arg \/ y = f.arg
      BY <3>1, <3>4, Zenon
    <3> QED
      BY <2>4, <3>3, <3>5, Zenon
  <2> QED
    BY <2>5, <2>6
<1>5. CASE f.op = "ne"
  BY <1>2, <1>5 DEF Asks, Picks, JsonTest
<1>6. CASE f.op \in {"gt", "gte", "lt", "lte"}
  <2> DEFINE z == f.arg
  <2>1. z \in S
    BY <1>6 DEF Asks
  <2>2. \A v \in {x, y} : v # None /\
          /\ JsonBelow(v, z) \in BOOLEAN /\ (JsonBelow(v, z) <=> Below(v, z))
          /\ JsonAtMost(v, z) \in BOOLEAN /\ (JsonAtMost(v, z) <=> Below(v, z) \/ v = z)
          /\ JsonBelow(z, v) \in BOOLEAN /\ (JsonBelow(z, v) <=> Below(z, v))
          /\ JsonAtMost(z, v) \in BOOLEAN /\ (JsonAtMost(z, v) <=> Below(z, v) \/ z = v)
    BY <1>2, <2>1, JsonOrders
  <2> HIDE DEF z
  <2>3. CASE f.op = "gt"
    <3>1. test = \E v \in xs : JsonBelow(z, v)
      BY <2>3 DEF JsonTest, z
    <3>2. \A v \in {x, y} : Picks(f, v) <=> v # None /\ Below(z, v)
      BY <2>3 DEF Picks, z
    <3> QED
      BY <1>3, <2>1, <2>2, <2>3, <3>1, <3>2
  <2>4. CASE f.op = "gte"
    <3>1. test = \E v \in xs : JsonAtMost(z, v)
      BY <2>4 DEF JsonTest, z
    <3>2. \A v \in {x, y} : Picks(f, v) <=> v # None /\ (Below(z, v) \/ v = z)
      BY <2>4 DEF Picks, z
    <3> QED
      BY <1>3, <2>1, <2>2, <2>4, <3>1, <3>2
  <2>5. CASE f.op = "lt"
    <3>1. test = \E v \in xs : JsonBelow(v, z)
      BY <2>5 DEF JsonTest, z
    <3>2. \A v \in {x, y} : Picks(f, v) <=> v # None /\ Below(v, z)
      BY <2>5 DEF Picks, z
    <3> QED
      BY <1>3, <2>1, <2>2, <2>5, <3>1, <3>2
  <2>6. CASE f.op = "lte"
    <3>1. test = \E v \in xs : JsonAtMost(v, z)
      BY <2>6 DEF JsonTest, z
    <3>2. \A v \in {x, y} : Picks(f, v) <=> v # None /\ (Below(v, z) \/ v = z)
      BY <2>6 DEF Picks, z
    <3> QED
      BY <1>3, <2>1, <2>2, <2>6, <3>1, <3>2
  <2> QED
    BY <1>6, <2>3, <2>4, <2>5, <2>6
<1>7. CASE f.op = "in"
  BY <1>2, <1>7 DEF Asks, Picks, JsonTest
<1>8. CASE f.op = "nin"
  <2>1. test = (TRUE /\ xs \cap f.arg = {})
    BY <1>8 DEF JsonTest
  <2>2. both <=> (f.arg = {} \/ x \notin f.arg) /\ (f.arg = {} \/ y \notin f.arg)
    BY <1>2, <1>8 DEF Picks
  <2>3. f.arg \subseteq {None} \cup S
    BY <1>8 DEF Asks
  <2>4. p \notin f.arg
    BY <1>2, <2>3
  <2> QED
    BY <2>1, <2>2, <2>4
<1>9. CASE f.op = "exists"
  <2>1. test = (TRUE = f.arg)
    BY <1>9 DEF JsonTest
  <2>2. f.arg \in BOOLEAN
    BY <1>9 DEF Asks
  <2>3. both <=> f.arg
    BY <1>2, <1>9 DEF Picks
  <2> HIDE DEF test, both
  <2>4. (TRUE = f.arg) \in BOOLEAN /\ ((TRUE = f.arg) <=> f.arg)
    BY <2>2, Zenon
  <2> QED
    BY <2>1, <2>3, <2>4
<1>10. CASE f.op = "like"
  BY <1>2, <1>10 DEF Asks, Picks, JsonTest
<1> QED
  BY <1>4, <1>5, <1>6, <1>7, <1>8, <1>9, <1>10 DEF Asks

\* And of the value in HAVING.
LEMMA HavingIs ==
  ASSUME NEW S, OneType(S), NEW f, Asks(f, S), NEW x \in {None} \cup S,
         f.op \in Comparisons \/ (f.op \in {"in", "nin"} /\ None \notin f.arg)
  PROVE  HavingLeaf(f, x) = ScalarLeaf(f, x)
<1>1. CASE f.op \in Comparisons
  BY <1>1 DEF HavingLeaf, ScalarLeaf
<1>2. CASE f.op = "in" /\ None \notin f.arg
  <2> DEFINE v == InList(x, f.arg)
  <2>1. f.arg \in SUBSET S /\ f.arg \ {None} = f.arg
    BY <1>2 DEF Asks
  <2>2. v \in Logical
    BY <2>1, InListIs
  <2>3. HavingLeaf(f, x) = v
    BY <1>2 DEF HavingLeaf, Comparisons
  <2>4. ScalarLeaf(f, x) = Or3({InList(x, f.arg \ {None})} \cup {})
    BY <1>2 DEF ScalarLeaf, Comparisons
  <2>5. ScalarLeaf(f, x) = Or3({v})
    BY <2>1, <2>4
  <2> HIDE DEF v
  <2>6. Or3({v}) = Not3(And3({Not3(v)}))
    BY DEF Or3
  <2>7. And3({Not3(v)}) = Not3(v) /\ Not3(Not3(v)) = v
    BY <2>2, LogicalNone DEF And3, Not3, Logical
  <2> QED
    BY <2>3, <2>5, <2>6, <2>7
<1>3. CASE f.op = "nin" /\ None \notin f.arg
  <2>1. f.arg \ {None} = f.arg /\ f.arg # {None}
    BY <1>3 DEF Asks
  <2>2. HavingLeaf(f, x) = IF f.arg = {} THEN TRUE ELSE Not3(InList(x, f.arg))
    BY <1>3 DEF HavingLeaf, Comparisons
  <2>3. ScalarLeaf(f, x) = CASE f.arg = {} -> TRUE
                             [] f.arg = {None} -> x # None
                             [] OTHER -> Not3(InList(x, f.arg \ {None}))
    BY <1>3 DEF ScalarLeaf, Comparisons
  <2>4. CASE f.arg = {}
    BY <2>1, <2>2, <2>3, <2>4
  <2>5. CASE f.arg # {}
    <3>1. ScalarLeaf(f, x) = Not3(InList(x, f.arg \ {None}))
      BY <2>1, <2>3, <2>5
    <3> QED
      BY <2>1, <2>2, <2>5, <3>1
  <2> QED
    BY <2>4, <2>5
<1> QED
  BY <1>1, <1>2, <1>3

\* The leaf and the value of a "match", and the pattern of a "pattern".
LEMMA QuestionIs ==
  ASSUME NEW req \in Requests, req.kind = "match"
  PROVE  \E S : OneType(S) /\ Question(req, S)
BY QuestionAssumption DEF OneType

\* The leaves and patterns of one request.
RequestInv == request \in Requests

LEMMA RequestStays == Spec => []RequestInv
<1>1. Init => RequestInv
  BY DEF Init, RequestInv
<1>2. RequestInv /\ [Next]_vars => RequestInv'
  BY DEF RequestInv, Next, ReadData, ReadCount, Answer, Write, vars, walk
<1> QED
  BY <1>1, <1>2, PTL DEF Spec

LEMMA LeavesOfRequest == RequestInv => LeavesAgree
<1> SUFFICES ASSUME request \in Requests PROVE LeavesAgree
  BY DEF RequestInv
<1>1. CASE request.kind = "match"
  <2> DEFINE f == request.leaf
             x == request.value
             y == request.other
             On(v) == Selects(ScalarLeaf(f, v))
  <2>1. PICK S : OneType(S) /\ Question(request, S)
    BY <1>1, QuestionIs
  <2>2. x \in {None} \cup S /\ y \in S /\ Document(x) # None /\ Document(Pair(x, y)) # None /\ Pair(x, y) # None
    BY <2>1 DEF Question
  <2>3. Asks(f, S)
    BY <2>1 DEF Question, Asks
  <2>4. LeavesAgree <=>
          /\ ~(f.op = "nin" /\ f.arg = {} /\ x = None) => On(x) = JsonLeaf(f, Document(x), <<"a">>)
          /\ x # None =>
               JsonLeaf(f, Document(Pair(x, y)), <<"a">>)
                 = (IF f.op \in {"ne", "nin"} THEN On(x) /\ On(y) ELSE On(x) \/ On(y))
          /\ f.op \in Comparisons \/ (f.op \in {"in", "nin"} /\ None \notin f.arg)
               => HavingLeaf(f, x) = ScalarLeaf(f, x)
    BY <1>1 DEF LeavesAgree
  <2> HIDE DEF f, x, y
  <2>5. (On(x) <=> Picks(f, x)) /\ (On(y) <=> Picks(f, y))
    BY <2>1, <2>2, <2>3, ScalarPicks
  <2>6. ASSUME ~(f.op = "nin" /\ f.arg = {} /\ x = None)
        PROVE  On(x) = JsonLeaf(f, Document(x), <<"a">>)
    <3>1. /\ JsonLeaf(f, Document(x), <<"a">>) \in BOOLEAN
          /\ JsonLeaf(f, Document(x), <<"a">>) <=> Picks(f, x)
      BY <2>1, <2>2, <2>3, <2>6, ValuePicks
    <3>2. On(x) \in BOOLEAN
      BY DEF Selects
    <3> HIDE DEF On
    <3> QED
      BY <2>5, <3>1, <3>2, Zenon
  <2>7. ASSUME x # None
        PROVE  JsonLeaf(f, Document(Pair(x, y)), <<"a">>)
                 = (IF f.op \in {"ne", "nin"} THEN On(x) /\ On(y) ELSE On(x) \/ On(y))
    <3> DEFINE j == JsonLeaf(f, Document(Pair(x, y)), <<"a">>)
    <3>1. j \in BOOLEAN
      BY <2>1, <2>2, <2>3, <2>7, PairPicks
    <3>2. j <=> IF f.op \in {"ne", "nin"} THEN Picks(f, x) /\ Picks(f, y) ELSE Picks(f, x) \/ Picks(f, y)
      BY <2>1, <2>2, <2>3, <2>7, PairPicks
    <3> HIDE DEF j, On
    <3>3. CASE f.op \in {"ne", "nin"}
      <4>1. j <=> On(x) /\ On(y)
        BY <2>5, <3>2, <3>3
      <4>2. j = (On(x) /\ On(y))
        BY <3>1, <4>1, Zenon
      <4> QED
        BY <3>3, <4>2 DEF j
    <3>4. CASE f.op \notin {"ne", "nin"}
      <4>1. j <=> On(x) \/ On(y)
        BY <2>5, <3>2, <3>4
      <4>2. j = (On(x) \/ On(y))
        BY <3>1, <4>1, Zenon
      <4> QED
        BY <3>4, <4>2 DEF j
    <3> QED
      BY <3>3, <3>4
  <2>8. ASSUME f.op \in Comparisons \/ (f.op \in {"in", "nin"} /\ None \notin f.arg)
        PROVE  HavingLeaf(f, x) = ScalarLeaf(f, x)
    BY <2>1, <2>2, <2>3, <2>8, HavingIs
  <2> QED
    BY <2>4, <2>6, <2>7, <2>8 DEF f, x, y
<1>2. CASE request.kind = "pattern"
  <2>1. request.pattern \in Seq(Letter)
    BY <1>2, QuestionAssumption
  <2>2. LikeParts(request.pattern) = GlobParts(LikeToGlob(request.pattern))
    BY <2>1, GlobIsLike
  <2> QED
    BY <1>2, <2>2 DEF LeavesAgree
<1>3. CASE request.kind \notin {"match", "pattern"}
  BY <1>3 DEF LeavesAgree
<1> QED
  BY <1>1, <1>2, <1>3

\* The three forms of every leaf select alike, and a case-sensitive LIKE and the
\* GLOB it is rewritten to match the same texts: whatever is asked.
THEOREM LeavesSelectAlike == Spec => []LeavesAgree
BY RequestStays, LeavesOfRequest, PTL

-----------------------------------------------------------------------------
(* What a walk by offset pages through: one sequence. *)

\* A sort that tells rows apart has one order.
LEMMA OneOrder ==
  ASSUME NEW A, IsFiniteSet(A), NEW sort \in Sorts,
         \A x, y \in A : Fits(sort, x) /\ (Tied(sort, x, y) => x = y),
         NEW p \in Sorted(A, sort), NEW q \in Sorted(A, sort)
  PROVE  p = q
<1> DEFINE n == Cardinality(A)
<1>1. /\ p \in Seq(A) /\ Len(p) = n
      /\ \A i, j \in 1 .. Len(p) : i < j => p[i] # p[j] /\ ~Before(sort, p[j], p[i])
      /\ \A r \in A : \E i \in 1 .. Len(p) : p[i] = r
  BY SortedIs
<1>2. /\ q \in Seq(A) /\ Len(q) = n
      /\ \A i, j \in 1 .. Len(q) : i < j => q[i] # q[j] /\ ~Before(sort, q[j], q[i])
      /\ \A r \in A : \E i \in 1 .. Len(q) : q[i] = r
  BY SortedIs
<1> HIDE DEF n
<1>3. n \in Nat /\ \A i \in 1 .. n : p[i] \in A /\ q[i] \in A
  BY <1>1, <1>2, LenProperties, ElementOfSeq
<1> DEFINE Bad == {i \in 1 .. n : p[i] # q[i]}
<1>4. Bad = {}
  <2> SUFFICES ASSUME Bad # {} PROVE FALSE
    OBVIOUS
  <2>1. Bad \in SUBSET Nat
    BY <1>3
  <2>2. PICK i \in Bad : \A k \in Bad : i <= k
    BY <2>1, LeastPosition
  <2>3. i \in 1 .. n /\ p[i] # q[i] /\ \A k \in 1 .. n : k < i => p[k] = q[k]
    BY <1>3, <2>2
  <2>4. PICK j \in 1 .. n : q[j] = p[i]
    BY <1>1, <1>2, <1>3, <2>3
  <2>5. PICK k \in 1 .. n : p[k] = q[i]
    BY <1>1, <1>2, <1>3, <2>3
  <2>6. i < j
    <3>1. j # i
      BY <2>3, <2>4
    <3>2. ~(j < i)
      BY <1>1, <1>3, <2>3, <2>4
    <3> QED
      BY <1>3, <2>3, <3>1, <3>2
  <2>7. i < k
    <3>1. k # i
      BY <2>3, <2>5
    <3>2. ~(k < i)
      BY <1>2, <1>3, <2>3, <2>5
    <3> QED
      BY <1>3, <2>3, <3>1, <3>2
  <2>8. ~Before(sort, q[j], q[i]) /\ ~Before(sort, p[k], p[i])
    BY <1>1, <1>2, <2>3, <2>6, <2>7
  <2>9. ~Before(sort, p[i], q[i]) /\ ~Before(sort, q[i], p[i])
    BY <2>4, <2>5, <2>8
  <2>10. p[i] \in A /\ q[i] \in A
    BY <1>3, <2>3
  <2> QED
    BY <2>3, <2>9, <2>10, BeforeTotal
<1>5. \A i \in 1 .. n : p[i] = q[i]
  BY <1>4
<1> QED
  BY <1>1, <1>2, <1>5, SeqEqual

\* The columns of a row come through a lookup as they are.
LEMMA ExtendedIs ==
  ASSUME NEW row, NEW more, NEW c \in DOMAIN row
  PROVE  c \in DOMAIN Extended(row, more) /\ Extended(row, more)[c] = row[c]
BY DEF Extended

\* Rows of a table are known by their ids.
LEMMA RowsAre ==
  ASSUME NEW t \in Tables
  PROVE  /\ \A r \in RowsOf(t) : DOMAIN r = {"id", "g", "v"}
         /\ \A r, s \in RowsOf(t) : r.id = s.id => r = s
<1>1. \A i \in Id : t[i] # NoRow => \E a, b : t[i] = Row(i, a, b)
  <2> SUFFICES ASSUME NEW i \in Id, t[i] # NoRow PROVE \E a, b : t[i] = Row(i, a, b)
    OBVIOUS
  <2>1. t[i] \in Slots /\ t[i].id = Num(i)
    BY DEF Tables
  <2>2. PICK k \in Id, a \in G, b \in V : t[i] = Row(k, a, b)
    BY <2>1 DEF Slots
  <2>3. Num(k) = Num(i)
    BY <2>1, <2>2 DEF Row
  <2>4. Row(k, a, b) = Row(i, a, b)
    BY <2>3 DEF Row
  <2> QED
    BY <2>2, <2>4
<1>2. ASSUME NEW r \in RowsOf(t) PROVE DOMAIN r = {"id", "g", "v"}
  <2>1. PICK i \in Id : t[i] # NoRow /\ r = t[i]
    BY DEF RowsOf
  <2>2. PICK a, b : r = Row(i, a, b)
    BY <1>1, <2>1
  <2> QED
    BY <2>2 DEF Row
<1>3. ASSUME NEW r \in RowsOf(t), NEW s \in RowsOf(t), r.id = s.id PROVE r = s
  <2>1. PICK i \in Id : t[i] # NoRow /\ r = t[i]
    BY DEF RowsOf
  <2>2. PICK j \in Id : t[j] # NoRow /\ s = t[j]
    BY DEF RowsOf
  <2>3. r.id = Num(i) /\ s.id = Num(j)
    BY <2>1, <2>2 DEF Tables
  <2>4. Num(i).number = Num(j).number
    BY <1>3, <2>3
  <2>5. i = j
    BY <2>4 DEF Num
  <2> QED
    BY <2>1, <2>2, <2>5
<1> QED
  BY <1>2, <1>3

LEMMA RowIs ==
  ASSUME NEW t \in Tables, NEW r \in RowsOf(t)
  PROVE  r = [c \in {"id", "g", "v"} |-> r[c]] /\ r # None
<1>1. PICK i \in Id : t[i] # NoRow /\ r = t[i]
  BY DEF RowsOf
<1>2. r \in {Row(k, a, b) : k \in Id, a \in G, b \in V} /\ r \in Slots
  BY <1>1 DEF Tables, Slots
<1>3. PICK k \in Id, a \in G, b \in V : r = Row(k, a, b)
  BY <1>2
<1> QED
  BY <1>2, <1>3, RowAssumption DEF Row

\* A join keeps the ids, and to one row at most it keeps them apart.
HasIds(rows)    == \A r \in rows : "id" \in DOMAIN r
IdsApart(rows)  == \A r, s \in rows : r.id = s.id => r = s
Covers(js, rows) ==
  /\ \A r \in rows : \E j \in js : j.id = r.id
  /\ \A j \in js : \E r \in rows : j.id = r.id

LEMMA OneMatch ==
  ASSUME NEW t \in Tables, NEW spec, spec.foreign = "id", NEW row,
         NEW f \in Matches(spec, row, RowsOf(t)), NEW h \in Matches(spec, row, RowsOf(t))
  PROVE  f = h
<1>1. f \in RowsOf(t) /\ h \in RowsOf(t)
  BY DEF Matches
<1>2. Selects(Equal(f["id"], row[spec.local])) /\ Selects(Equal(h["id"], row[spec.local]))
  BY DEF Matches
<1>3. \A x, y : Selects(Equal(x, y)) => x = y
  BY LogicalNone DEF Selects, Equal
<1>4. f["id"] = row[spec.local] /\ h["id"] = row[spec.local]
  BY <1>2, <1>3
<1>5. f.id = h.id
  BY <1>4
<1> QED
  BY <1>1, <1>5, RowsAre

LEMMA JoinKeeps ==
  ASSUME NEW t \in Tables, NEW spec, NEW rows, HasIds(rows)
  PROVE  /\ HasIds(LeftJoin(rows, spec, RowsOf(t)))
         /\ Covers(LeftJoin(rows, spec, RowsOf(t)), rows)
         /\ spec.foreign = "id" /\ IdsApart(rows) => IdsApart(LeftJoin(rows, spec, RowsOf(t)))
<1> DEFINE M(r) == OrNone(Matches(spec, r, RowsOf(t)))
           J == LeftJoin(rows, spec, RowsOf(t))
<1>1. J = UNION {{Joined(spec, r, m) : m \in M(r)} : r \in rows}
  BY DEF LeftJoin
<1>2. \A r \in rows : \A m : "id" \in DOMAIN Joined(spec, r, m) /\ Joined(spec, r, m).id = r.id
  <2> SUFFICES ASSUME NEW r \in rows, NEW m
               PROVE  "id" \in DOMAIN Joined(spec, r, m) /\ Joined(spec, r, m).id = r.id
    OBVIOUS
  <2>1. "id" \in DOMAIN r
    BY DEF HasIds
  <2>2. \E more : Joined(spec, r, m) = Extended(r, more)
    BY DEF Joined
  <2>3. PICK more : Joined(spec, r, m) = Extended(r, more)
    BY <2>2
  <2>4. "id" \in DOMAIN Extended(r, more) /\ Extended(r, more)["id"] = r["id"]
    BY <2>1, ExtendedIs
  <2> QED
    BY <2>3, <2>4
<1>3. \A r \in rows : M(r) # {}
  BY DEF OrNone
<1> HIDE DEF J, M
<1>4. \A j \in J : \E r \in rows : \E m \in M(r) : j = Joined(spec, r, m)
  BY <1>1
<1>5. \A r \in rows : \A m \in M(r) : Joined(spec, r, m) \in J
  BY <1>1
<1>6. HasIds(J)
  BY <1>2, <1>4 DEF HasIds
<1>7. Covers(J, rows)
  BY <1>2, <1>3, <1>4, <1>5 DEF Covers
<1>8. ASSUME spec.foreign = "id", IdsApart(rows), NEW j \in J, NEW k \in J, j.id = k.id
      PROVE  j = k
  <2>1. PICK r \in rows : \E m \in M(r) : j = Joined(spec, r, m)
    BY <1>4
  <2>2. PICK m \in M(r) : j = Joined(spec, r, m)
    BY <2>1
  <2>3. PICK s \in rows : \E n \in M(s) : k = Joined(spec, s, n)
    BY <1>4
  <2>4. PICK n \in M(s) : k = Joined(spec, s, n)
    BY <2>3
  <2>5. r = s
    BY <1>2, <1>8, <2>2, <2>4 DEF IdsApart
  <2>6. m = n
    <3>1. CASE Matches(spec, r, RowsOf(t)) = {}
      BY <2>5, <3>1 DEF M, OrNone
    <3>2. CASE Matches(spec, r, RowsOf(t)) # {}
      <4>1. m \in Matches(spec, r, RowsOf(t)) /\ n \in Matches(spec, r, RowsOf(t))
        BY <2>5, <3>2 DEF M, OrNone
      <4> QED
        BY <1>8, <4>1, OneMatch
    <3> QED
      BY <3>1, <3>2
  <2> QED
    BY <2>2, <2>4, <2>5, <2>6
<1>9. spec.foreign = "id" /\ IdsApart(rows) => IdsApart(J)
  BY <1>8 DEF IdsApart
<1> QED
  BY <1>6, <1>7, <1>9 DEF J

\* So does a chain of joins.
LEMMA JoinsKeep ==
  ASSUME NEW t \in Tables, NEW specs, Len(specs) \in Nat, NEW rows, HasIds(rows)
  PROVE  /\ HasIds(LeftJoins(rows, specs, RowsOf(t)))
         /\ Covers(LeftJoins(rows, specs, RowsOf(t)), rows)
         /\ (\A k \in 1 .. Len(specs) : specs[k].foreign = "id") /\ IdsApart(rows)
              => IdsApart(LeftJoins(rows, specs, RowsOf(t)))
<1>0. PICK joined : Steps(joined, rows, specs, RowsOf(t))
  BY LeftJoinsIs
<1>1. /\ LeftJoins(rows, specs, RowsOf(t)) = joined[Len(specs)]
      /\ joined[0] = rows
      /\ \A n \in 1 .. Len(specs) : joined[n] = LeftJoin(joined[n - 1], specs[n], RowsOf(t))
  BY <1>0 DEF Steps
<1> DEFINE Good(n) == /\ HasIds(joined[n]) /\ Covers(joined[n], rows)
                      /\ (\A k \in 1 .. Len(specs) : specs[k].foreign = "id") /\ IdsApart(rows)
                           => IdsApart(joined[n])
           Bad == {n \in 0 .. Len(specs) : ~Good(n)}
<1>2. Bad = {}
  <2> SUFFICES ASSUME Bad # {} PROVE FALSE
    OBVIOUS
  <2>1. Bad \in SUBSET Nat
    OBVIOUS
  <2>2. PICK n \in Bad : \A k \in Bad : n <= k
    BY <2>1, LeastPosition
  <2>3. Good(0)
    BY <1>1 DEF Covers
  <2>4. n # 0 /\ n \in 0 .. Len(specs) /\ ~Good(n)
    BY <2>2, <2>3
  <2>5. n - 1 \in 0 .. Len(specs) /\ n - 1 \notin Bad /\ n \in 1 .. Len(specs)
    BY <2>2, <2>4
  <2>6. Good(n - 1)
    BY <2>5
  <2>7. joined[n] = LeftJoin(joined[n - 1], specs[n], RowsOf(t))
    BY <1>1, <2>5
  <2>8. /\ HasIds(joined[n]) /\ Covers(joined[n], joined[n - 1])
        /\ specs[n].foreign = "id" /\ IdsApart(joined[n - 1]) => IdsApart(joined[n])
    BY <2>6, <2>7, JoinKeeps
  <2>9. Covers(joined[n], rows)
    BY <2>6, <2>8 DEF Covers
  <2>10. Good(n)
    BY <2>5, <2>6, <2>8, <2>9
  <2> QED
    BY <2>4, <2>10
<1>3. Len(specs) \in 0 .. Len(specs)
  OBVIOUS
<1>4. Good(Len(specs))
  BY <1>2, <1>3
<1> QED
  BY <1>1, <1>4

\* lookupPopulate() gives one row for a base row, with its columns, when what
\* is not an array is a row with the key.
Keyed(specs) == \A k \in DOMAIN specs : specs[k].single => specs[k].foreign = "id"

LEMMA PopulatedIs ==
  ASSUME NEW t \in Tables, NEW specs, Len(specs) \in Nat, DOMAIN specs = 1 .. Len(specs), Keyed(specs),
         NEW base \in SUBSET RowsOf(t)
  PROVE  \E h : /\ Populated(base, specs, RowsOf(t)) = {h[r] : r \in base}
                /\ \A r \in base : /\ h[r] = Hydrated(r, specs, OfRow(LeftJoins(base, specs, RowsOf(t)), r))
                                   /\ \A c \in {"id", "g", "v"} : h[r][c] = r[c]
<1> DEFINE J == LeftJoins(base, specs, RowsOf(t))
           Of(r) == OfRow(J, r)
           h == [r \in base |-> Hydrated(r, specs, Of(r))]
<1>1. HasIds(base) /\ IdsApart(base) /\ \A r \in base : DOMAIN r = {"id", "g", "v"}
  BY RowsAre DEF HasIds, IdsApart
<1>2. /\ Covers(J, base)
      /\ (\A k \in 1 .. Len(specs) : specs[k].foreign = "id") => IdsApart(J)
  BY <1>1, JoinsKeep
<1> HIDE DEF J
<1>3. ASSUME NEW r \in base PROVE Groups(Of(r), specs) = {Of(r)}
  <2>1. CASE \E k \in DOMAIN specs : ~specs[k].single
    BY <2>1 DEF Groups
  <2>2. CASE ~\E k \in DOMAIN specs : ~specs[k].single
    <3>1. Groups(Of(r), specs) = {{j} : j \in Of(r)}
      BY <2>2 DEF Groups
    <3>2. IdsApart(J)
      BY <1>2, <2>2 DEF Keyed
    <3>3. PICK j \in J : j.id = r.id
      BY <1>2 DEF Covers
    <3>4. Of(r) = {j}
      BY <3>2, <3>3 DEF OfRow, IdsApart
    <3> QED
      BY <3>1, <3>4
  <2> QED
    BY <2>1, <2>2
<1>4. Populated(base, specs, RowsOf(t))
        = UNION {{Hydrated(r, specs, group) : group \in Groups(Of(r), specs)} : r \in base}
  BY DEF Populated, J
<1> HIDE DEF Of
<1>5. Populated(base, specs, RowsOf(t)) = {Hydrated(r, specs, Of(r)) : r \in base}
  BY <1>3, <1>4
<1>6. Populated(base, specs, RowsOf(t)) = {h[r] : r \in base}
  BY <1>5
<1>7. ASSUME NEW r \in base, NEW c \in {"id", "g", "v"} PROVE h[r][c] = r[c]
  <2>1. h[r] = Hydrated(r, specs, Of(r)) /\ c \in DOMAIN r
    BY <1>1
  <2>2. \E more : Hydrated(r, specs, Of(r)) = Extended(r, more)
    BY DEF Hydrated
  <2> HIDE DEF h
  <2> QED
    BY <2>1, <2>2, ExtendedIs
<1>8. \A r \in base : h[r] = Hydrated(r, specs, OfRow(LeftJoins(base, specs, RowsOf(t)), r))
  BY DEF Of, J
<1> HIDE DEF h
<1> QED
  BY <1>6, <1>7, <1>8

\* An image under a function that keeps its arguments apart has their number.
LEMMA ImageCounts ==
  ASSUME NEW S, IsFiniteSet(S), NEW f, \A x, y \in S : f[x] = f[y] => x = y
  PROVE  IsFiniteSet({f[x] : x \in S}) /\ Cardinality({f[x] : x \in S}) = Cardinality(S)
<1> DEFINE T == {f[x] : x \in S}
           g == [x \in S |-> f[x]]
<1>1. ExistsBijection(S, T)
  <2>1. g \in Surjection(S, T)
    BY DEF Surjection
  <2>2. g \in Injection(S, T)
    BY DEF Injection, IsInjective
  <2> QED
    BY <2>1, <2>2 DEF Bijection, ExistsBijection
<1> HIDE DEF T, g
<1>2. Cardinality(S) = Cardinality(T) /\ IsFiniteSet(T)
  BY <1>1, FS_Bijection
<1> QED
  BY <1>2 DEF T

\* What a sort by the columns of base rows makes of their images.
LEMMA LookupIs ==
  ASSUME NEW req \in Requests, req.kind = "lookup", Keyed(req.lookups), NEW t \in Tables
  PROVE  LET A == Candidates(req, RowsOf(t))
         IN /\ IsFiniteSet(A) /\ Cardinality(A) = Cardinality(Where(req.where, RowsOf(t)))
            /\ \A x, y \in A : Fits(req.sort, x) /\ (Tied(req.sort, x, y) => x = y)
<1> DEFINE base == Where(req.where, RowsOf(t))
           specs == req.lookups
           sort == req.sort
           A == Candidates(req, RowsOf(t))
<1>1. Walks(req) /\ Len(specs) \in Nat /\ DOMAIN specs = 1 .. Len(specs)
  BY RequestAssumption, LenProperties DEF Walks
<1>2. IsFiniteSet(base) /\ base \in SUBSET RowsOf(t)
  BY RowsFinite, WhereFinite
<1>3. A = Populated(base, specs, RowsOf(t))
  BY DEF Candidates
<1>4. \A x, y \in base : Fits(sort, x) /\ (Tied(sort, x, y) => x = y)
  <2>1. Sortees(req, RowsOf(t)) = base
    BY DEF Sortees
  <2> HIDE DEF base
  <2> QED
    BY <1>1, <2>1, RequestIs
<1>5. \A i \in DOMAIN sort : sort[i].key \in {"id", "g", "v"}
  BY <1>1, RequestAssumption
<1> HIDE DEF base, specs, A
<1>6. PICK h : /\ A = {h[r] : r \in base}
               /\ \A r \in base : \A c \in {"id", "g", "v"} : h[r][c] = r[c]
  BY <1>1, <1>2, <1>3, PopulatedIs DEF specs
<1>7. \A r \in base : h[r].id = r.id
  BY <1>6
<1>8. \A x, y \in base : h[x] = h[y] => x = y
  <2>1. \A x, y \in base : x.id = y.id => x = y
    BY <1>2, RowsAre
  <2> QED
    BY <1>7, <2>1
<1>9. IsFiniteSet(A) /\ Cardinality(A) = Cardinality(base)
  BY <1>2, <1>6, <1>8, ImageCounts
<1>10. ASSUME NEW r \in base PROVE Fits(sort, h[r])
  <2>1. Fits(sort, r)
    BY <1>4
  <2> QED
    BY <1>5, <1>6, <2>1 DEF Fits
<1>11. ASSUME NEW r \in base, NEW s \in base, Tied(sort, h[r], h[s]) PROVE r = s
  <2>1. \A i \in DOMAIN sort : h[r][sort[i].key] = r[sort[i].key] /\ h[s][sort[i].key] = s[sort[i].key]
    BY <1>5, <1>6
  <2>2. Tied(sort, r, s)
    BY <1>11, <2>1 DEF Tied
  <2> QED
    BY <1>4, <2>2
<1>12. \A x, y \in A : Fits(sort, x) /\ (Tied(sort, x, y) => x = y)
  BY <1>6, <1>10, <1>11
<1> QED
  BY <1>9, <1>12 DEF A, base

-----------------------------------------------------------------------------
(* Sorting within partitions. *)

\* A strict order of a finite set, as a set of pairs.
Orders(less, S) ==
  /\ \A x \in S : <<x, x>> \notin less
  /\ \A x, y, z \in S : <<x, y>> \in less /\ <<y, z>> \in less => <<x, z>> \in less
  /\ \A x, y \in S : x = y \/ <<x, y>> \in less \/ <<y, x>> \in less

LEMMA ArrangedIs ==
  ASSUME NEW S, IsFiniteSet(S), NEW less, Orders(less, S)
  PROVE  /\ Arranged(S, less) \in Seq(S) /\ Len(Arranged(S, less)) = Cardinality(S)
         /\ \A i, j \in 1 .. Cardinality(S) : i < j => <<Arranged(S, less)[i], Arranged(S, less)[j]>> \in less
         /\ \A x \in S : \E i \in 1 .. Cardinality(S) : Arranged(S, less)[i] = x
<1> DEFINE n == Cardinality(S)
           Pred(x) == {y \in S : <<y, x>> \in less}
           rank(x) == Cardinality(Pred(x))
           q == Arranged(S, less)
<1>1. n \in Nat
  BY FS_CardinalityType
<1>2. ASSUME NEW x \in S PROVE IsFiniteSet(Pred(x)) /\ rank(x) \in Nat /\ rank(x) + 1 \in 1 .. n
  <2>1. Pred(x) \in SUBSET S /\ Pred(x) # S
    BY DEF Orders
  <2> HIDE DEF Pred
  <2>2. IsFiniteSet(Pred(x)) /\ rank(x) <= n /\ rank(x) # n
    BY <2>1, FS_Subset
  <2>3. rank(x) \in Nat
    BY <2>2, FS_CardinalityType
  <2> QED
    BY <1>1, <2>2, <2>3
<1>3. ASSUME NEW x \in S, NEW y \in S, <<x, y>> \in less PROVE rank(x) < rank(y)
  <2>1. Pred(x) \in SUBSET Pred(y) /\ x \in Pred(y) /\ x \notin Pred(x)
    BY <1>3 DEF Orders
  <2>2. IsFiniteSet(Pred(y)) /\ rank(x) \in Nat /\ rank(y) \in Nat
    BY <1>2
  <2> HIDE DEF Pred
  <2>3. rank(x) <= rank(y) /\ rank(x) # rank(y)
    BY <2>1, <2>2, FS_Subset
  <2> QED
    BY <2>2, <2>3
<1> HIDE DEF n, Pred, rank
<1>4. ASSUME NEW x \in S, NEW y \in S, rank(x) = rank(y) PROVE x = y
  <2>1. rank(x) \in Nat /\ rank(y) \in Nat
    BY <1>2
  <2>2. ~(rank(x) < rank(y)) /\ ~(rank(y) < rank(x))
    BY <1>4, <2>1
  <2>3. <<x, y>> \notin less /\ <<y, x>> \notin less
    BY <1>3, <2>2
  <2> QED
    BY <2>3 DEF Orders
<1> DEFINE f == [x \in S |-> rank(x) + 1]
<1>5. f \in Injection(S, 1 .. n)
  <2>1. \A x \in S : f[x] = rank(x) + 1 /\ f[x] \in 1 .. n /\ rank(x) \in Nat
    BY <1>2
  <2>2. f \in [S -> 1 .. n]
    BY <2>1
  <2>3. ASSUME NEW x \in S, NEW y \in S, f[x] = f[y] PROVE x = y
    <3>1. rank(x) = rank(y)
      BY <2>1, <2>3
    <3> QED
      BY <1>4, <3>1
  <2> HIDE DEF f
  <2> QED
    BY <2>2, <2>3 DEF Injection, IsInjective
<1>6. IsFiniteSet(1 .. n) /\ Cardinality(1 .. n) = n
  BY <1>1, FS_Interval
<1>7. f \in Surjection(S, 1 .. n)
  BY <1>5, <1>6, FS_Injection DEF n
<1>8. ASSUME NEW k \in 1 .. n PROVE \E x \in S : rank(x) = k - 1
  <2>1. PICK x \in S : f[x] = k
    BY <1>7 DEF Surjection
  <2>2. rank(x) \in Nat /\ rank(x) + 1 = k
    BY <1>2, <2>1
  <2> QED
    BY <1>1, <2>2
<1>9. q = [k \in 1 .. n |-> CHOOSE x \in S : rank(x) = k - 1]
  BY DEF Arranged, n, rank, Pred
<1> HIDE DEF q
<1>10. \A k \in 1 .. n : q[k] \in S /\ rank(q[k]) = k - 1
  BY <1>8, <1>9
<1>11. q \in Seq(S) /\ Len(q) = n
  <2>1. q \in [1 .. n -> S]
    BY <1>9, <1>10
  <2> QED
    BY <1>1, <2>1
<1>12. ASSUME NEW i \in 1 .. n, NEW j \in 1 .. n, i < j PROVE <<q[i], q[j]>> \in less
  <2>1. q[i] \in S /\ q[j] \in S /\ rank(q[i]) = i - 1 /\ rank(q[j]) = j - 1
    BY <1>10
  <2>2. q[i] # q[j] /\ ~(rank(q[j]) < rank(q[i]))
    BY <1>1, <1>12, <2>1
  <2>3. <<q[j], q[i]>> \notin less
    BY <1>3, <2>1, <2>2
  <2> QED
    BY <2>1, <2>2, <2>3 DEF Orders
<1>13. ASSUME NEW x \in S PROVE \E i \in 1 .. n : q[i] = x
  <2>1. rank(x) \in Nat /\ rank(x) + 1 \in 1 .. n
    BY <1>2
  <2>2. q[rank(x) + 1] \in S /\ rank(q[rank(x) + 1]) = rank(x) + 1 - 1
    BY <1>10, <2>1
  <2>3. rank(q[rank(x) + 1]) = rank(x)
    BY <2>1, <2>2
  <2> QED
    BY <1>4, <2>1, <2>2, <2>3
<1> QED
  BY <1>11, <1>12, <1>13 DEF q, n

\* A sequence has each member of a set once.
Lists(q, S) ==
  /\ q \in Seq(S)
  /\ \A i, j \in 1 .. Len(q) : i < j => q[i] # q[j]
  /\ \A x \in S : \E i \in 1 .. Len(q) : q[i] = x

Once(q) == \A i, j \in 1 .. Len(q) : i < j => q[i] # q[j]

\* The places of a sequence in their own order, and the rows at some of them.
LEMMA AscendingOrders == ASSUME NEW S \in SUBSET Nat PROVE Orders(Ascending(S), S)
BY DEF Orders, Ascending

LEMMA ApartIs ==
  ASSUME NEW q, Len(q) \in Nat, \A i, j \in 1 .. Len(q) : i < j => q[i] # q[j],
         NEW i \in 1 .. Len(q), NEW j \in 1 .. Len(q), q[i] = q[j]
  PROVE  i = j
OBVIOUS

LEMMA AscendingLists ==
  ASSUME NEW n \in Nat, NEW places \in SUBSET (1 .. n)
  PROVE  Lists(Arranged(places, Ascending(places)), places)
<1> DEFINE order == Arranged(places, Ascending(places))
           m == Cardinality(places)
<1>1. IsFiniteSet(places) /\ m \in Nat /\ places \in SUBSET Nat
  <2>1. IsFiniteSet(1 .. n)
    BY FS_Interval
  <2>2. IsFiniteSet(places)
    BY <2>1, FS_Subset
  <2> QED
    BY <2>2, FS_CardinalityType
<1>2. Orders(Ascending(places), places)
  BY <1>1, AscendingOrders
<1>3. /\ order \in Seq(places) /\ Len(order) = m
      /\ \A i, j \in 1 .. m : i < j => <<order[i], order[j]>> \in Ascending(places)
      /\ \A k \in places : \E i \in 1 .. m : order[i] = k
  BY <1>1, <1>2, ArrangedIs
<1> HIDE DEF order, m
<1>4. ASSUME NEW i \in 1 .. m, NEW j \in 1 .. m, i < j PROVE order[i] # order[j]
  <2>1. <<order[i], order[j]>> \in Ascending(places)
    BY <1>3, <1>4
  <2>2. order[i] \in places /\ order[j] \in places /\ order[i] < order[j]
    BY <2>1 DEF Ascending
  <2>3. order[i] \in Nat /\ order[j] \in Nat
    BY <1>1, <2>2, Zenon
  <2> QED
    BY <2>2, <2>3
<1> QED
  BY <1>3, <1>4 DEF Lists, order

LEMMA AtIs ==
  ASSUME NEW A, NEW rows, Lists(rows, A), NEW places \in SUBSET (1 .. Len(rows))
  PROVE  Lists(At(rows, places), {rows[k] : k \in places})
<1> DEFINE order == Arranged(places, Ascending(places))
           n == Len(order)
           q == At(rows, places)
           B == {rows[k] : k \in places}
<1>1. Len(rows) \in Nat
  BY LenProperties DEF Lists
<1>2. Lists(order, places)
  BY <1>1, AscendingLists
<1>3. q = [i \in DOMAIN order |-> rows[order[i]]]
  BY DEF At
<1> HIDE DEF order, q
<1>4. n \in Nat /\ DOMAIN order = 1 .. n /\ \A i \in 1 .. n : order[i] \in places
  BY <1>2, LenProperties, ElementOfSeq DEF Lists
<1>5. \A i \in 1 .. n : q[i] = rows[order[i]] /\ q[i] \in B
  BY <1>3, <1>4
<1> HIDE DEF n, B
<1>6. q \in Seq(B) /\ Len(q) = n
  <2>1. q \in [1 .. n -> B]
    BY <1>3, <1>4, <1>5
  <2> QED
    BY <1>4, <2>1
<1>7. ASSUME NEW i \in 1 .. n, NEW j \in 1 .. n, i < j PROVE q[i] # q[j]
  <2>1. order[i] # order[j]
    BY <1>2, <1>7 DEF Lists, n
  <2>2. order[i] \in 1 .. Len(rows) /\ order[j] \in 1 .. Len(rows)
    BY <1>4, <1>7
  <2>3. rows[order[i]] # rows[order[j]]
    BY <1>1, <2>1, <2>2, ApartIs DEF Lists
  <2> QED
    BY <1>5, <2>3
<1>8. ASSUME NEW x \in B PROVE \E i \in 1 .. n : q[i] = x
  <2>1. PICK k \in places : x = rows[k]
    BY DEF B
  <2>2. PICK i \in 1 .. n : order[i] = k
    BY <1>2 DEF Lists, n
  <2> QED
    BY <1>5, <2>1, <2>2
<1> QED
  BY <1>6, <1>7, <1>8 DEF Lists, B, q

\* How topN compares two values of a column: NULL comes last.
Leads(a, b) == a # None /\ (b = None \/ Selects(Below(a, b)))

LEMMA LeadsOrders ==
  ASSUME NEW x \in Sortable, NEW y \in Sortable
  PROVE  /\ ~Leads(x, x)
         /\ Leads(x, y) \/ Leads(y, x) \/ x = y
<1>1. None \notin Scalars
  BY FilterAssumption
<1>2. CASE x \in Scalars /\ y \in Scalars
  <2>1. /\ Below(x, y) \in BOOLEAN /\ Below(y, x) \in BOOLEAN
        /\ Below(x, y) \/ Below(y, x) \/ x = y
        /\ ~Below(x, x)
    BY <1>2, BelowOrders
  <2>2. x # None /\ y # None
    BY <1>1, <1>2
  <2> QED
    BY <2>1, <2>2, Zenon DEF Leads, Selects
<1>3. CASE x = None
  BY <1>3 DEF Leads
<1>4. CASE x \in Scalars /\ y = None
  <2>1. ~Below(x, x) /\ Below(x, x) \in BOOLEAN
    BY <1>4, BelowOrders
  <2>2. x # None
    BY <1>1, <1>4
  <2> QED
    BY <1>4, <2>1, <2>2, Zenon DEF Leads, Selects
<1> QED
  BY <1>2, <1>3, <1>4 DEF Sortable

LEMMA LeadsTransitive ==
  ASSUME NEW x \in Sortable, NEW y \in Sortable, NEW z \in Sortable, Leads(x, y), Leads(y, z)
  PROVE  Leads(x, z)
<1>1. x # None /\ y # None
  BY DEF Leads
<1>2. CASE z = None
  BY <1>1, <1>2 DEF Leads
<1>3. CASE z # None
  <2>1. x \in Scalars /\ y \in Scalars /\ z \in Scalars
    BY <1>1, <1>3 DEF Sortable
  <2>2. Below(x, y) /\ Below(y, z)
    BY <1>1, <1>3 DEF Leads, Selects
  <2>3. Below(x, z) = TRUE
    <3>1. Below(x, z)
      BY <2>1, <2>2, BelowTransitive
    <3>2. Below(x, z) \in BOOLEAN
      BY <2>1, BelowOrders
    <3> QED
      BY <3>1, <3>2
  <2> QED
    BY <1>1, <2>3 DEF Leads, Selects
<1> QED
  BY <1>2, <1>3

KeyLeads(sort, i, x, y) ==
  IF sort[i].dir = 1 THEN Leads(x[sort[i].key], y[sort[i].key])
                     ELSE Leads(y[sort[i].key], x[sort[i].key])

LEMMA RanksIs ==
  ASSUME NEW sort, NEW x, NEW y
  PROVE  Ranks(sort, x, y) <=> \E i \in DOMAIN sort : Agree(sort, i, x, y) /\ KeyLeads(sort, i, x, y)
BY DEF Ranks, Agree, KeyLeads, Leads

\* compareBy is an order of the tuples of sort keys.
LEMMA RanksTransitive ==
  ASSUME NEW sort \in Sorts, NEW x, NEW y, NEW z,
         Fits(sort, x), Fits(sort, y), Fits(sort, z),
         Ranks(sort, x, y), Ranks(sort, y, z)
  PROVE  Ranks(sort, x, z)
<1>1. PICK i \in DOMAIN sort : Agree(sort, i, x, y) /\ KeyLeads(sort, i, x, y)
  BY RanksIs
<1>2. PICK j \in DOMAIN sort : Agree(sort, j, y, z) /\ KeyLeads(sort, j, y, z)
  BY RanksIs
<1>3. i \in Nat /\ j \in Nat /\ i >= 1 /\ j >= 1
  BY DEF Sorts
<1>4. CASE i < j
  <2>1. Agree(sort, i, x, z)
    BY <1>1, <1>2, <1>3, <1>4 DEF Agree
  <2>2. y[sort[i].key] = z[sort[i].key]
    BY <1>2, <1>3, <1>4 DEF Agree
  <2>3. KeyLeads(sort, i, x, z)
    BY <1>1, <2>2 DEF KeyLeads
  <2> QED
    BY <2>1, <2>3, RanksIs
<1>5. CASE j < i
  <2>1. Agree(sort, j, x, z)
    BY <1>1, <1>2, <1>3, <1>5 DEF Agree
  <2>2. x[sort[j].key] = y[sort[j].key]
    BY <1>1, <1>3, <1>5 DEF Agree
  <2>3. KeyLeads(sort, j, x, z)
    BY <1>2, <2>2 DEF KeyLeads
  <2> QED
    BY <2>1, <2>3, RanksIs
<1>6. CASE i = j
  <2>1. Agree(sort, i, x, z)
    BY <1>1, <1>2, <1>6 DEF Agree
  <2>2. KeyLeads(sort, i, x, z)
    BY <1>1, <1>2, <1>6, LeadsTransitive DEF KeyLeads, Fits
  <2> QED
    BY <2>1, <2>2, RanksIs
<1> QED
  BY <1>3, <1>4, <1>5, <1>6

LEMMA RanksStrict ==
  ASSUME NEW sort \in Sorts, NEW x, Fits(sort, x)
  PROVE  ~Ranks(sort, x, x)
BY RanksIs, LeadsOrders DEF KeyLeads, Fits

LEMMA RanksTotal ==
  ASSUME NEW sort \in Sorts, NEW x, NEW y,
         Fits(sort, x), Fits(sort, y), ~Tied(sort, x, y)
  PROVE  Ranks(sort, x, y) \/ Ranks(sort, y, x)
<1> DEFINE S == {i \in DOMAIN sort : x[sort[i].key] # y[sort[i].key]}
<1>1. S \in SUBSET Nat /\ S # {}
  BY DEF Tied, Sorts
<1>2. PICK i \in S : \A m \in S : i <= m
  BY <1>1, LeastPosition
<1>3. Agree(sort, i, x, y) /\ Agree(sort, i, y, x)
  <2>1. \A j \in 1 .. i - 1 : j \in DOMAIN sort /\ ~(i <= j)
    BY <1>2 DEF Sorts
  <2> QED
    BY <1>2, <2>1 DEF Agree
<1>4. KeyLeads(sort, i, x, y) \/ KeyLeads(sort, i, y, x)
  BY <1>2, LeadsOrders DEF KeyLeads, Fits
<1> QED
  BY <1>2, <1>3, <1>4, RanksIs

\* Rows that tie rank alike, and have the same tuple.
LEMMA TiedRanks ==
  ASSUME NEW sort \in Sorts, NEW x, NEW y, NEW z, Tied(sort, x, y)
  PROVE  /\ Ranks(sort, x, z) <=> Ranks(sort, y, z)
         /\ Ranks(sort, z, x) <=> Ranks(sort, z, y)
<1>1. \A i \in DOMAIN sort : x[sort[i].key] = y[sort[i].key] /\ \A j \in 1 .. i - 1 : j \in DOMAIN sort
  BY DEF Tied, Sorts
<1>2. \A i \in DOMAIN sort : /\ Agree(sort, i, x, z) <=> Agree(sort, i, y, z)
                             /\ Agree(sort, i, z, x) <=> Agree(sort, i, z, y)
  BY <1>1 DEF Agree
<1>3. \A i \in DOMAIN sort : /\ KeyLeads(sort, i, x, z) <=> KeyLeads(sort, i, y, z)
                             /\ KeyLeads(sort, i, z, x) <=> KeyLeads(sort, i, z, y)
  BY <1>1 DEF KeyLeads
<1> QED
  BY <1>2, <1>3, RanksIs

LEMMA TiedIsTuple ==
  ASSUME NEW sort, NEW x, NEW y
  PROVE  Tied(sort, x, y) <=> CursorAt(sort, x) = CursorAt(sort, y)
<1> DEFINE K == {sort[i].key : i \in DOMAIN sort}
<1>1. Tied(sort, x, y) <=> \A k \in K : x[k] = y[k]
  BY DEF Tied
<1>2. CursorAt(sort, x) = [k \in K |-> x[k]] /\ CursorAt(sort, y) = [k \in K |-> y[k]]
  BY DEF CursorAt
<1> HIDE DEF K
<1>3. (\A k \in K : x[k] = y[k]) <=> [k \in K |-> x[k]] = [k \in K |-> y[k]]
  <2> DEFINE f == [k \in K |-> x[k]]
             g == [k \in K |-> y[k]]
  <2>1. \A k \in K : f[k] = x[k] /\ g[k] = y[k]
    OBVIOUS
  <2>2. f = [k \in K |-> f[k]] /\ g = [k \in K |-> g[k]]
    OBVIOUS
  <2>3. (\A k \in K : x[k] = y[k]) => f = g
    OBVIOUS
  <2>4. f = g => \A k \in K : x[k] = y[k]
    <3> HIDE DEF f, g
    <3> QED
      BY <2>1
  <2> QED
    BY <2>3, <2>4
<1> QED
  BY <1>1, <1>2, <1>3

\* The order of a partition: a stable sort of its rows.
InRanks(sort, q) == \A i, j \in 1 .. Len(q) : i < j => ~Ranks(sort, q[j], q[i])

LEMMA StablyOrders ==
  ASSUME NEW sort \in Sorts, NEW B, \A x \in B : Fits(sort, x), NEW q \in Seq(B)
  PROVE  Orders(Stably(sort, q), 1 .. Len(q))
<1> DEFINE R(i, j) == Ranks(sort, q[i], q[j])
           E(i, j) == Tied(sort, q[i], q[j])
           D == 1 .. Len(q)
<1>1. Len(q) \in Nat /\ DOMAIN q = D
  BY LenProperties
<1>2. \A i \in D : q[i] \in B /\ Fits(sort, q[i])
  BY ElementOfSeq
<1>3. \A i, j \in D : <<i, j>> \in Stably(sort, q) <=> R(i, j) \/ (E(i, j) /\ i < j)
  BY <1>1 DEF Stably
<1>4. \A i \in D : ~R(i, i)
  BY <1>2, RanksStrict
<1>5. \A i, j \in D : R(i, j) \/ R(j, i) \/ E(i, j)
  BY <1>2, RanksTotal
<1>6. \A i, j, k \in D : /\ R(i, j) /\ R(j, k) => R(i, k)
                         /\ E(i, j) => (R(i, k) <=> R(j, k)) /\ (R(k, i) <=> R(k, j))
                         /\ E(i, j) => E(j, i)
                         /\ E(i, j) /\ E(j, k) => E(i, k)
  <2> SUFFICES ASSUME NEW i \in D, NEW j \in D, NEW k \in D
               PROVE  /\ R(i, j) /\ R(j, k) => R(i, k)
                      /\ E(i, j) => (R(i, k) <=> R(j, k)) /\ (R(k, i) <=> R(k, j))
                      /\ E(i, j) => E(j, i)
                      /\ E(i, j) /\ E(j, k) => E(i, k)
    OBVIOUS
  <2>1. R(i, j) /\ R(j, k) => R(i, k)
    BY <1>2, RanksTransitive
  <2>2. E(i, j) => (R(i, k) <=> R(j, k)) /\ (R(k, i) <=> R(k, j))
    BY TiedRanks
  <2>3. (E(i, j) => E(j, i)) /\ (E(i, j) /\ E(j, k) => E(i, k))
    BY DEF Tied
  <2> QED
    BY <2>1, <2>2, <2>3
<1> HIDE DEF R, E
<1>7. ASSUME NEW i \in D, NEW j \in D, NEW k \in D,
             <<i, j>> \in Stably(sort, q), <<j, k>> \in Stably(sort, q)
      PROVE  <<i, k>> \in Stably(sort, q)
  <2>1. R(i, j) \/ (E(i, j) /\ i < j)
    BY <1>3, <1>7
  <2>2. R(j, k) \/ (E(j, k) /\ j < k)
    BY <1>3, <1>7
  <2>3. R(i, k) \/ (E(i, k) /\ i < k)
    <3>1. CASE R(i, j) /\ R(j, k)
      BY <1>6, <3>1
    <3>2. CASE R(i, j) /\ E(j, k)
      BY <1>6, <3>2
    <3>3. CASE E(i, j) /\ R(j, k)
      BY <1>6, <3>3
    <3>4. CASE E(i, j) /\ i < j /\ E(j, k) /\ j < k
      <4>1. E(i, k)
        BY <1>6, <3>4
      <4>2. i < k
        BY <1>1, <3>4
      <4> QED
        BY <4>1, <4>2
    <3> QED
      BY <2>1, <2>2, <3>1, <3>2, <3>3, <3>4
  <2> QED
    BY <1>3, <2>3
<1>8. ASSUME NEW i \in D PROVE <<i, i>> \notin Stably(sort, q)
  BY <1>1, <1>3, <1>4
<1>9. ASSUME NEW i \in D, NEW j \in D, i # j
      PROVE  <<i, j>> \in Stably(sort, q) \/ <<j, i>> \in Stably(sort, q)
  <2>1. i < j \/ j < i
    BY <1>1, <1>9
  <2> QED
    BY <1>3, <1>5, <1>6, <2>1
<1> QED
  BY <1>7, <1>8, <1>9 DEF Orders

LEMMA RankedIs ==
  ASSUME NEW topN, topN.sort \in Sorts, NEW B, \A x \in B : Fits(topN.sort, x), NEW q, Lists(q, B)
  PROVE  Lists(Ranked(topN, q), B) /\ InRanks(topN.sort, Ranked(topN, q))
<1> DEFINE sort == topN.sort
           D == 1 .. Len(q)
           order == Arranged(D, Stably(sort, q))
           r == Ranked(topN, q)
           n == Len(q)
<1>1. q \in Seq(B) /\ n \in Nat /\ DOMAIN q = D
  BY LenProperties DEF Lists
<1>2. IsFiniteSet(D) /\ Cardinality(D) = n
  BY <1>1, FS_Interval
<1>3. Orders(Stably(sort, q), D)
  BY <1>1, StablyOrders
<1>4. /\ order \in Seq(D) /\ Len(order) = n
      /\ \A i, j \in 1 .. n : i < j => <<order[i], order[j]>> \in Stably(sort, q)
      /\ \A k \in D : \E i \in 1 .. n : order[i] = k
  <2> HIDE DEF D, n
  <2> QED
    BY <1>2, <1>3, ArrangedIs
<1>5. r = [k \in DOMAIN order |-> q[order[k]]]
  BY <1>1 DEF Ranked
<1> HIDE DEF order, r
<1>6. DOMAIN order = 1 .. n /\ \A i \in 1 .. n : order[i] \in D /\ q[order[i]] \in B
  BY <1>1, <1>4, LenProperties, ElementOfSeq
<1>7. r \in Seq(B) /\ Len(r) = n /\ \A i \in 1 .. n : r[i] = q[order[i]]
  <2>1. r \in [1 .. n -> B]
    BY <1>5, <1>6
  <2> QED
    BY <1>1, <1>5, <1>6, <2>1
<1>8. ASSUME NEW i \in 1 .. n, NEW j \in 1 .. n, i < j
      PROVE  r[i] # r[j] /\ ~Ranks(sort, r[j], r[i])
  <2>1. order[i] \in D /\ order[j] \in D /\ <<order[i], order[j]>> \in Stably(sort, q)
    BY <1>4, <1>6, <1>8
  <2>2. order[i] # order[j] /\ <<order[j], order[i]>> \notin Stably(sort, q)
    BY <1>3, <2>1 DEF Orders
  <2>3. q[order[i]] # q[order[j]]
    BY <1>1, <2>1, <2>2, ApartIs DEF Lists
  <2>4. ~Ranks(sort, q[order[j]], q[order[i]])
    BY <1>1, <2>1, <2>2 DEF Stably
  <2> QED
    BY <1>7, <2>3, <2>4
<1>9. ASSUME NEW x \in B PROVE \E i \in 1 .. n : r[i] = x
  <2>1. PICK k \in D : q[k] = x
    BY DEF Lists
  <2>2. PICK i \in 1 .. n : order[i] = k
    BY <1>4, <2>1
  <2> QED
    BY <1>7, <2>1, <2>2
<1> QED
  BY <1>7, <1>8, <1>9 DEF Lists, InRanks, r

LEMMA MaxOf ==
  ASSUME NEW n \in Nat, NEW S \in SUBSET (1 .. n), S # {}
  PROVE  Max(S) \in S /\ \A k \in S : k <= Max(S)
<1> DEFINE T == {m \in Nat : n - m \in S}
<1>1. \A k \in S : k \in 1 .. n
  OBVIOUS
<1>2. T # {}
  <2>1. PICK k \in S : TRUE
    OBVIOUS
  <2>2. n - k \in Nat /\ n - (n - k) = k
    BY <1>1
  <2> QED
    BY <2>2
<1>3. PICK m \in T : \A t \in T : m <= t
  BY <1>2, LeastPosition
<1>4. \A k \in S : k <= n - m
  <2> SUFFICES ASSUME NEW k \in S PROVE k <= n - m
    OBVIOUS
  <2>1. k \in Int /\ n - k \in Nat /\ n - (n - k) = k
    BY <1>1
  <2>2. n - k \in T
    BY <2>1
  <2>3. m <= n - k
    BY <1>3, <2>2
  <2> QED
    BY <2>1, <2>3
<1>5. \E k \in S : \A y \in S : k >= y
  <2>1. n - m \in S
    OBVIOUS
  <2>2. \A y \in S : n - m >= y
    BY <1>1, <1>4
  <2> QED
    BY <2>1, <2>2
<1>6. Max(S) \in S /\ \A y \in S : Max(S) >= y
  BY <1>5 DEF Max
<1> QED
  BY <1>1, <1>6

LEMMA ListCounts ==
  ASSUME NEW B, NEW q, Lists(q, B)
  PROVE  /\ IsFiniteSet(B) /\ Len(q) \in Nat /\ Cardinality(B) = Len(q)
         /\ \A i \in 1 .. Len(q) : q[i] \in B
<1> DEFINE n == Len(q)
<1>1. n \in Nat /\ \A i \in 1 .. n : q[i] \in B
  BY LenProperties, ElementOfSeq DEF Lists
<1>2. IsFiniteSet(1 .. n) /\ Cardinality(1 .. n) = n
  BY <1>1, FS_Interval
<1>3. \A i, j \in 1 .. n : q[i] = q[j] => i = j
  BY <1>1, ApartIs DEF Lists
<1>4. B = {q[i] : i \in 1 .. n}
  BY <1>1 DEF Lists
<1> DEFINE D == 1 .. n
<1>a. IsFiniteSet(D) /\ Cardinality(D) = n /\ B = {q[i] : i \in D} /\ \A i, j \in D : q[i] = q[j] => i = j
  BY <1>2, <1>3, <1>4
<1> HIDE DEF D, n
<1>5. IsFiniteSet({q[i] : i \in D}) /\ Cardinality({q[i] : i \in D}) = Cardinality(D)
  BY <1>a, ImageCounts
<1> QED
  BY <1>1, <1>a, <1>5 DEF n

\* The first rows of a ranking.
Within(m, r) == m \in 0 .. Len(r)
Begins(s, m, r, B) ==
  /\ s \in Seq(B) /\ ToSet(s) = {r[i] : i \in 1 .. m} /\ Once(s)
  /\ Cardinality({r[i] : i \in 1 .. m}) = m

LEMMA FirstRows ==
  ASSUME NEW B, NEW r, Lists(r, B), NEW m, Within(m, r)
  PROVE  Begins(SubSeq(r, 1, m), m, r, B)
<1> DEFINE s == SubSeq(r, 1, m)
<1>1. Len(r) \in Nat /\ \A i \in 1 .. Len(r) : r[i] \in B
  BY ListCounts
<1>2. m \in Nat /\ m <= Len(r) /\ \A i \in 1 .. m : i \in 1 .. Len(r) /\ r[i] \in B
  BY <1>1 DEF Within
<1>3. s \in Seq(B) /\ Len(s) = m /\ \A i \in 1 .. m : s[i] = r[i]
  <2>1. /\ s \in Seq(B) /\ Len(s) = IF 1 <= m THEN m - 1 + 1 ELSE 0
        /\ \A i \in 1 .. m - 1 + 1 : s[i] = r[1 + i - 1]
    BY <1>1, <1>2, SubSeqProperties
  <2>2. m - 1 + 1 = m /\ (1 <= m \/ m = 0) /\ \A i \in 1 .. m : 1 + i - 1 = i
    BY <1>2
  <2> QED
    BY <2>1, <2>2
<1> HIDE DEF s
<1>4. DOMAIN s = 1 .. m
  BY <1>3, LenProperties
<1>5. ToSet(s) = {r[i] : i \in 1 .. m}
  BY <1>3, <1>4 DEF ToSet
<1>6. Cardinality({r[i] : i \in 1 .. m}) = m
  <2> DEFINE D == 1 .. m
  <2>1. IsFiniteSet(D) /\ Cardinality(D) = m
    BY <1>2, FS_Interval
  <2>2. \A i, j \in D : r[i] = r[j] => i = j
    BY <1>1, <1>2, ApartIs DEF Lists
  <2> HIDE DEF D
  <2>3. Cardinality({r[i] : i \in D}) = m
    BY <2>1, <2>2, ImageCounts
  <2> QED
    BY <2>3 DEF D
<1>7. Once(s)
  BY <1>2, <1>3 DEF Once, Lists
<1> QED
  BY <1>3, <1>5, <1>6, <1>7 DEF Begins, s

\* The tuples that rank before a row, and those of the first k rows.
BetterThan(sort, S, x) == {CursorAt(sort, y) : y \in {z \in S : Ranks(sort, z, x)}}
TuplesTo(sort, r, k) == {CursorAt(sort, r[j]) : j \in 1 .. k}

LEMMA TuplesCount ==
  ASSUME NEW sort, NEW r, NEW k \in Nat
  PROVE  /\ IsFiniteSet(TuplesTo(sort, r, k)) /\ Cardinality(TuplesTo(sort, r, k)) \in Nat
         /\ Cardinality(TuplesTo(sort, r, k)) <= k
         /\ \A i \in 1 .. k : Cardinality(TuplesTo(sort, r, i)) <= Cardinality(TuplesTo(sort, r, k))
<1> DEFINE T == TuplesTo(sort, r, k)
           f == [j \in 1 .. k |-> CursorAt(sort, r[j])]
<1>1. f \in Surjection(1 .. k, T)
  BY DEF Surjection, TuplesTo
<1>2. IsFiniteSet(1 .. k) /\ Cardinality(1 .. k) = k
  BY FS_Interval
<1> HIDE DEF f, T
<1>3. IsFiniteSet(T) /\ Cardinality(T) <= k
  BY <1>1, <1>2, FS_Surjection
<1>4. ASSUME NEW i \in 1 .. k PROVE Cardinality(TuplesTo(sort, r, i)) <= Cardinality(T)
  <2>1. \A j \in 1 .. i : j \in 1 .. k
    OBVIOUS
  <2>2. TuplesTo(sort, r, i) \in SUBSET T
    BY <2>1 DEF TuplesTo, T
  <2> QED
    BY <1>3, <2>2, FS_Subset
<1> QED
  BY <1>3, <1>4, FS_CardinalityType DEF T

LEMMA BetterIs ==
  ASSUME NEW sort \in Sorts, NEW B, \A x \in B : Fits(sort, x),
         NEW r, Lists(r, B), InRanks(sort, r), NEW k \in 1 .. Len(r)
  PROVE  /\ Cardinality(BetterThan(sort, B, r[k])) \in Nat
         /\ Cardinality(TuplesTo(sort, r, k)) = Cardinality(BetterThan(sort, B, r[k])) + 1
<1> DEFINE Q == BetterThan(sort, B, r[k])
           T == TuplesTo(sort, r, k)
           c == CursorAt(sort, r[k])
<1>1. Len(r) \in Nat /\ \A i \in 1 .. Len(r) : r[i] \in B /\ Fits(sort, r[i])
  BY ListCounts
<1>2. c \notin Q
  <2> SUFFICES ASSUME c \in Q PROVE FALSE
    OBVIOUS
  <2>1. PICK y \in B : Ranks(sort, y, r[k]) /\ CursorAt(sort, y) = CursorAt(sort, r[k])
    BY DEF BetterThan
  <2>2. Tied(sort, y, r[k])
    BY <2>1, TiedIsTuple
  <2>3. Ranks(sort, r[k], r[k])
    BY <2>1, <2>2, TiedRanks
  <2> QED
    BY <1>1, <2>3, RanksStrict
<1>3. ASSUME NEW j \in 1 .. k PROVE CursorAt(sort, r[j]) \in Q \cup {c}
  <2>1. j \in 1 .. Len(r) /\ (j = k \/ j < k)
    BY <1>1
  <2>2. CASE Tied(sort, r[j], r[k])
    BY <2>2, TiedIsTuple
  <2>3. CASE ~Tied(sort, r[j], r[k])
    <3>1. j # k
      BY <2>3 DEF Tied
    <3>2. ~Ranks(sort, r[k], r[j])
      BY <2>1, <3>1 DEF InRanks
    <3>3. Ranks(sort, r[j], r[k])
      BY <1>1, <2>1, <2>3, <3>2, RanksTotal
    <3> QED
      BY <1>1, <2>1, <3>3 DEF BetterThan
  <2> QED
    BY <2>2, <2>3
<1>4. ASSUME NEW y \in B, Ranks(sort, y, r[k]) PROVE CursorAt(sort, y) \in T
  <2>1. PICK j \in 1 .. Len(r) : r[j] = y
    BY DEF Lists
  <2>2. ~(k < j)
    BY <1>4, <2>1 DEF InRanks
  <2>3. j \in 1 .. k
    BY <1>1, <2>2
  <2> QED
    BY <2>1, <2>3 DEF TuplesTo
<1>5. T = Q \cup {c}
  <2>1. T \subseteq Q \cup {c}
    BY <1>3 DEF TuplesTo
  <2>2. Q \subseteq T
    BY <1>4 DEF BetterThan
  <2>3. k \in 1 .. k
    BY <1>1
  <2>4. c \in T
    BY <2>3 DEF TuplesTo
  <2> QED
    BY <2>1, <2>2, <2>4
<1>6. IsFiniteSet(T)
  <2>1. k \in Nat
    BY <1>1
  <2> QED
    BY <2>1, TuplesCount
<1> HIDE DEF Q, T, c
<1>7. IsFiniteSet(Q)
  BY <1>5, <1>6, FS_Subset
<1> QED
  BY <1>2, <1>5, <1>7, FS_AddElement, FS_CardinalityType DEF Q, T

\* What sliceWithTies keeps of one partition: the rows with fewer than `limit`
\* better tuples, for 'rank' as for 'dense_rank'.
OneTop(topN, kept, B) ==
  /\ kept \subseteq B
  /\ IF topN.ties = "row_number"
     THEN /\ Cardinality(kept) = Min({topN.limit, Cardinality(B)})
          /\ \A x \in B \ kept, y \in kept : ~Ranks(topN.sort, x, y)
     ELSE kept = {x \in B : Cardinality(BetterThan(topN.sort, B, x)) < topN.limit}

\* A cut of a ranking before the first row with `limit` better tuples.
Cut(topN, r, m) ==
  /\ m \in 0 .. Len(r)
  /\ \A k \in 1 .. Len(r) : k <= m <=> Cardinality(TuplesTo(topN.sort, r, k)) <= topN.limit

LEMMA CutIsTop ==
  ASSUME NEW topN, topN.sort \in Sorts, topN.limit \in Nat, topN.ties # "row_number",
         NEW B, \A x \in B : Fits(topN.sort, x), NEW r, Lists(r, B), InRanks(topN.sort, r),
         NEW m, Cut(topN, r, m)
  PROVE  OneTop(topN, {r[i] : i \in 1 .. m}, B)
<1> DEFINE Few(x) == Cardinality(BetterThan(topN.sort, B, x)) < topN.limit
           kept == {r[i] : i \in 1 .. m}
<1>1. Len(r) \in Nat /\ (\A i \in 1 .. Len(r) : r[i] \in B) /\ m \in 0 .. Len(r)
  BY ListCounts DEF Cut
<1>2. ASSUME NEW k \in 1 .. Len(r) PROVE k <= m <=> Few(r[k])
  <2>1. /\ Cardinality(BetterThan(topN.sort, B, r[k])) \in Nat
        /\ Cardinality(TuplesTo(topN.sort, r, k)) = Cardinality(BetterThan(topN.sort, B, r[k])) + 1
    BY BetterIs
  <2>2. k <= m <=> Cardinality(TuplesTo(topN.sort, r, k)) <= topN.limit
    BY DEF Cut
  <2> QED
    BY <2>1, <2>2
<1>3. \A i \in 1 .. m : i \in 1 .. Len(r) /\ i <= m
  BY <1>1
<1>4. \A i \in 1 .. Len(r) : i <= m => i \in 1 .. m
  BY <1>1
<1> HIDE DEF Few
<1>5. kept \subseteq {x \in B : Few(x)}
  BY <1>1, <1>2, <1>3
<1>6. ASSUME NEW x \in B, Few(x) PROVE x \in kept
  <2>1. PICK i \in 1 .. Len(r) : r[i] = x
    BY DEF Lists
  <2> QED
    BY <1>2, <1>4, <1>6, <2>1
<1>7. kept = {x \in B : Few(x)}
  BY <1>5, <1>6
<1> QED
  BY <1>5, <1>7 DEF OneTop, Few

LEMMA SliceKeeps ==
  ASSUME NEW topN, topN.sort \in Sorts, topN.limit \in Nat \ {0},
         NEW B, \A x \in B : Fits(topN.sort, x), NEW r, Lists(r, B), InRanks(topN.sort, r)
  PROVE  /\ SliceWithTies(topN, r) \in Seq(B) /\ Once(SliceWithTies(topN, r))
         /\ OneTop(topN, ToSet(SliceWithTies(topN, r)), B)
<1> DEFINE n == Len(r)
           L == topN.limit
           least == Min({L, n})
           Tuples(k) == TuplesTo(topN.sort, r, k)
<1>1. n \in Nat /\ IsFiniteSet(B) /\ Cardinality(B) = n /\ \A i \in 1 .. n : r[i] \in B
  BY ListCounts
<1>2. least = (IF L <= n THEN L ELSE n) /\ least \in 0 .. n
  <2>1. least = (IF L <= n THEN L ELSE n)
    BY <1>1, MinOfTwo
  <2> HIDE DEF least
  <2> QED
    BY <1>1, <2>1
<1>3. \A k \in 1 .. n : /\ Cardinality(Tuples(k)) \in Nat /\ Cardinality(Tuples(k)) <= k
                        /\ \A i \in 1 .. k : Cardinality(Tuples(i)) <= Cardinality(Tuples(k))
  <2> SUFFICES ASSUME NEW k \in 1 .. n
               PROVE  /\ Cardinality(Tuples(k)) \in Nat /\ Cardinality(Tuples(k)) <= k
                      /\ \A i \in 1 .. k : Cardinality(Tuples(i)) <= Cardinality(Tuples(k))
    OBVIOUS
  <2>1. k \in Nat
    BY <1>1
  <2> HIDE DEF n
  <2> QED
    BY <2>1, TuplesCount
<1>4. CASE topN.ties = "row_number"
  <2>1. SliceWithTies(topN, r) = SubSeq(r, 1, least)
    BY <1>4 DEF SliceWithTies
  <2> DEFINE kept == {r[i] : i \in 1 .. least}
  <2>2. /\ SliceWithTies(topN, r) \in Seq(B) /\ ToSet(SliceWithTies(topN, r)) = kept
        /\ Cardinality(kept) = least /\ Once(SliceWithTies(topN, r))
    <3>1. Within(least, r)
      BY <1>2 DEF Within
    <3> HIDE DEF least
    <3>2. Begins(SubSeq(r, 1, least), least, r, B)
      BY <3>1, FirstRows
    <3> QED
      BY <2>1, <3>2 DEF Begins
  <2>3. kept \subseteq B
    BY <1>1, <1>2
  <2>4. ASSUME NEW x \in B \ kept, NEW y \in kept PROVE ~Ranks(topN.sort, x, y)
    <3>1. PICK j \in 1 .. n : r[j] = x
      BY DEF Lists
    <3>2. PICK i \in 1 .. least : r[i] = y
      BY <2>4
    <3>3. ~(j \in 1 .. least)
      BY <2>4, <3>1
    <3>4. i < j /\ i \in 1 .. n
      BY <1>1, <1>2, <3>3
    <3> QED
      BY <3>1, <3>2, <3>4 DEF InRanks
  <2> HIDE DEF kept
  <2> QED
    BY <1>1, <1>4, <2>2, <2>3, <2>4 DEF OneTop
<1>5. CASE topN.ties # "row_number" /\ n <= L
  <2>1. SliceWithTies(topN, r) = SubSeq(r, 1, least)
    BY <1>5 DEF SliceWithTies
  <2>2. least = n /\ n \in 0 .. n
    BY <1>1, <1>2, <1>5
  <2>3. Cut(topN, r, n)
    <3>1. ASSUME NEW k \in 1 .. n PROVE k <= n /\ Cardinality(Tuples(k)) <= L
      <4>1. Cardinality(Tuples(k)) \in Nat /\ Cardinality(Tuples(k)) <= k
        BY <1>3
      <4> HIDE DEF Tuples
      <4> QED
        BY <1>1, <1>5, <4>1
    <3> QED
      BY <2>2, <3>1 DEF Cut
  <2>4. OneTop(topN, {r[i] : i \in 1 .. n}, B)
    BY <1>5, <2>3, CutIsTop
  <2>5. SliceWithTies(topN, r) = SubSeq(r, 1, n)
    BY <2>1, <2>2
  <2>6. Within(n, r)
    BY <2>2 DEF Within
  <2> HIDE DEF n, least
  <2>7. Begins(SubSeq(r, 1, n), n, r, B)
    BY <2>6, FirstRows
  <2> QED
    BY <2>4, <2>5, <2>7 DEF Begins
<1>6. CASE topN.ties # "row_number" /\ ~(n <= L)
  <2> DEFINE S == {k \in 1 .. n : Cardinality(Tuples(k)) <= L}
             m == Max(S)
  <2>1. SliceWithTies(topN, r) = SubSeq(r, 1, m)
    <3>1. DOMAIN r = 1 .. n
      BY LenProperties DEF Lists
    <3> QED
      BY <1>6, <3>1 DEF SliceWithTies, TuplesTo
  <2>2. 1 \in S
    <3>1. 1 \in 1 .. n /\ 1 <= L
      BY <1>1, <1>6
    <3>2. Cardinality(Tuples(1)) \in Nat /\ Cardinality(Tuples(1)) <= 1
      BY <1>3, <3>1
    <3> HIDE DEF Tuples
    <3> QED
      BY <3>1, <3>2
  <2>3. m \in S /\ \A k \in S : k <= m
    <3> HIDE DEF n
    <3>1. S \in SUBSET (1 .. n) /\ S # {}
      BY <2>2
    <3> HIDE DEF S
    <3> QED
      BY <1>1, <3>1, MaxOf
  <2> HIDE DEF m
  <2>4. m \in 1 .. n /\ m \in 0 .. n
    BY <1>1, <2>3
  <2>5. ASSUME NEW k \in 1 .. n PROVE k <= m <=> Cardinality(Tuples(k)) <= L
    <3>1. Cardinality(Tuples(k)) <= L => k <= m
      BY <2>3
    <3>2. ASSUME k <= m PROVE Cardinality(Tuples(k)) <= L
      <4>1. k \in 1 .. m
        BY <2>4, <3>2
      <4>2. Cardinality(Tuples(k)) <= Cardinality(Tuples(m)) /\ Cardinality(Tuples(m)) <= L
        BY <1>3, <2>3, <2>4, <4>1
      <4>3. Cardinality(Tuples(k)) \in Nat /\ Cardinality(Tuples(m)) \in Nat
        BY <1>3, <2>4
      <4> HIDE DEF Tuples
      <4> QED
        BY <4>2, <4>3
    <3> QED
      BY <3>1, <3>2
  <2>6. Cut(topN, r, m)
    BY <2>4, <2>5 DEF Cut
  <2>7. OneTop(topN, {r[i] : i \in 1 .. m}, B)
    BY <1>6, <2>6, CutIsTop
  <2>8. Within(m, r)
    BY <2>4 DEF Within
  <2>9. Begins(SubSeq(r, 1, m), m, r, B)
    BY <2>8, FirstRows
  <2> QED
    BY <2>1, <2>7, <2>9 DEF Begins
<1> QED
  BY <1>4, <1>5, <1>6

LEMMA ConcatSet ==
  ASSUME NEW S, NEW p \in Seq(S), NEW q \in Seq(S)
  PROVE  p \o q \in Seq(S) /\ ToSet(p \o q) = ToSet(p) \cup ToSet(q)
<1> DEFINE n == Len(p)
           m == Len(q)
           s == p \o q
<1>1. /\ n \in Nat /\ m \in Nat /\ DOMAIN p = 1 .. n /\ DOMAIN q = 1 .. m
      /\ s \in Seq(S) /\ Len(s) = n + m
      /\ \A i \in 1 .. n + m : s[i] = IF i <= n THEN p[i] ELSE q[i - n]
  BY LenProperties, ConcatProperties
<1> HIDE DEF s
<1>2. DOMAIN s = 1 .. n + m
  BY <1>1, LenProperties
<1> HIDE DEF n, m
<1>3. ASSUME NEW i \in 1 .. n + m PROVE s[i] \in ToSet(p) \cup ToSet(q)
  <2>1. CASE i <= n
    <3>1. i \in 1 .. n /\ s[i] = p[i]
      BY <1>1, <2>1
    <3> QED
      BY <1>1, <3>1 DEF ToSet
  <2>2. CASE ~(i <= n)
    <3>1. i - n \in 1 .. m /\ s[i] = q[i - n]
      BY <1>1, <2>2
    <3> QED
      BY <1>1, <3>1 DEF ToSet
  <2> QED
    BY <2>1, <2>2
<1>4. ASSUME NEW i \in 1 .. n PROVE p[i] \in ToSet(s)
  <2>1. i \in 1 .. n + m /\ s[i] = p[i]
    BY <1>1
  <2> QED
    BY <1>2, <2>1 DEF ToSet
<1>5. ASSUME NEW i \in 1 .. m PROVE q[i] \in ToSet(s)
  <2>1. n + i \in 1 .. n + m /\ ~(n + i <= n) /\ n + i - n = i
    BY <1>1
  <2>2. s[n + i] = q[i]
    BY <1>1, <2>1
  <2> QED
    BY <1>2, <2>1, <2>2 DEF ToSet
<1>6. ToSet(s) = {s[i] : i \in 1 .. n + m} /\ ToSet(p) = {p[i] : i \in 1 .. n} /\ ToSet(q) = {q[i] : i \in 1 .. m}
  BY <1>1, <1>2 DEF ToSet
<1>7. ToSet(s) \subseteq ToSet(p) \cup ToSet(q)
  BY <1>3, <1>6
<1>8. ToSet(p) \subseteq ToSet(s)
  BY <1>4, <1>6
<1>9. ToSet(q) \subseteq ToSet(s)
  BY <1>5, <1>6
<1> QED
  BY <1>1, <1>7, <1>8, <1>9 DEF s

LEMMA ConcatOnce ==
  ASSUME NEW S, NEW p \in Seq(S), NEW q \in Seq(S), Once(p), Once(q), ToSet(p) \cap ToSet(q) = {}
  PROVE  Once(p \o q)
<1> DEFINE n == Len(p)
           m == Len(q)
           s == p \o q
<1>1. /\ n \in Nat /\ m \in Nat /\ DOMAIN p = 1 .. n /\ DOMAIN q = 1 .. m /\ Len(s) = n + m
      /\ \A i \in 1 .. n + m : s[i] = IF i <= n THEN p[i] ELSE q[i - n]
  BY LenProperties, ConcatProperties
<1>2. /\ \A i, j \in 1 .. n : i < j => p[i] # p[j]
      /\ \A i, j \in 1 .. m : i < j => q[i] # q[j]
  BY DEF Once
<1>3. \A i \in 1 .. n, j \in 1 .. m : p[i] # q[j]
  BY <1>1 DEF ToSet
<1> HIDE DEF s, n, m
<1>4. ASSUME NEW i \in 1 .. n + m, NEW j \in 1 .. n + m, i < j PROVE s[i] # s[j]
  <2>1. CASE j <= n
    <3>1. i \in 1 .. n /\ j \in 1 .. n /\ s[i] = p[i] /\ s[j] = p[j]
      BY <1>1, <1>4, <2>1
    <3> QED
      BY <1>2, <1>4, <3>1
  <2>2. CASE i <= n /\ ~(j <= n)
    <3>1. i \in 1 .. n /\ j - n \in 1 .. m /\ s[i] = p[i] /\ s[j] = q[j - n]
      BY <1>1, <1>4, <2>2
    <3> QED
      BY <1>3, <3>1
  <2>3. CASE ~(i <= n)
    <3>1. /\ i - n \in 1 .. m /\ j - n \in 1 .. m /\ i - n < j - n
          /\ s[i] = q[i - n] /\ s[j] = q[j - n]
      BY <1>1, <1>4, <2>3
    <3> QED
      BY <1>2, <3>1
  <2> QED
    BY <1>1, <1>4, <2>1, <2>2, <2>3
<1>5. \A i, j \in 1 .. Len(s) : i < j => s[i] # s[j]
  BY <1>1, <1>4
<1> QED
  BY <1>5 DEF Once, s

\* The concatenations of the first sequences: what FlattenSeq computes.
IsFlat(f, m, seqs) ==
  f = [i \in 1 .. m |-> IF i = 1 THEN seqs[i] ELSE f[i - 1] \o seqs[i]]

LEMMA FlatExists == ASSUME NEW seqs PROVE \A m \in Nat : \E f : IsFlat(f, m, seqs)
<1> DEFINE Bad == {m \in Nat : ~\E f : IsFlat(f, m, seqs)}
<1> SUFFICES ASSUME Bad # {} PROVE FALSE
  OBVIOUS
<1>1. PICK m \in Bad : \A k \in Bad : m <= k
  BY LeastPosition
<1>2. CASE m = 0
  <2> DEFINE g == [i \in 1 .. 0 |-> seqs[i]]
  <2>1. g = [i \in 1 .. 0 |-> IF i = 1 THEN seqs[i] ELSE g[i - 1] \o seqs[i]]
    OBVIOUS
  <2> HIDE DEF g
  <2>2. IsFlat(g, 0, seqs)
    BY <2>1 DEF IsFlat
  <2> QED
    BY <1>1, <1>2, <2>2
<1>3. CASE m # 0
  <2>1. m - 1 \in Nat /\ m - 1 \notin Bad
    BY <1>1, <1>3
  <2>2. PICK f : IsFlat(f, m - 1, seqs)
    BY <2>1
  <2> DEFINE g == [i \in 1 .. m |-> IF i = 1 THEN seqs[i] ELSE f[i - 1] \o seqs[i]]
  <2>3. \A i \in 1 .. m - 1 : f[i] = IF i = 1 THEN seqs[i] ELSE f[i - 1] \o seqs[i]
    BY <2>2 DEF IsFlat
  <2>4. \A i \in 1 .. m - 1 : g[i] = f[i]
    BY <2>1, <2>3
  <2>5. \A i \in 1 .. m : i # 1 => g[i - 1] = f[i - 1]
    <3> SUFFICES ASSUME NEW i \in 1 .. m, i # 1 PROVE g[i - 1] = f[i - 1]
      OBVIOUS
    <3>1. i - 1 \in 1 .. m - 1
      BY <2>1
    <3> HIDE DEF g
    <3> QED
      BY <2>4, <3>1
  <2>6. g = [i \in 1 .. m |-> IF i = 1 THEN seqs[i] ELSE g[i - 1] \o seqs[i]]
    BY <2>5
  <2> HIDE DEF g
  <2>7. IsFlat(g, m, seqs)
    BY <2>6 DEF IsFlat
  <2> QED
    BY <1>1, <2>7
<1> QED
  BY <1>2, <1>3

\* No member is in two of the sequences, or twice in one.
AllOnce(seqs) ==
  /\ \A j \in 1 .. Len(seqs) : Once(seqs[j])
  /\ \A j, k \in 1 .. Len(seqs) : j < k => ToSet(seqs[j]) \cap ToSet(seqs[k]) = {}

\* FlattenSeq has the members of all the sequences.
LEMMA FlattenIs ==
  ASSUME NEW S, NEW seqs \in Seq(Seq(S))
  PROVE  /\ FlattenSeq(seqs) \in Seq(S)
         /\ ToSet(FlattenSeq(seqs)) = UNION {ToSet(seqs[j]) : j \in 1 .. Len(seqs)}
         /\ AllOnce(seqs) => Once(FlattenSeq(seqs))
<1> DEFINE n == Len(seqs)
           Parts(m) == UNION {ToSet(seqs[j]) : j \in 1 .. m}
<1>1. n \in Nat /\ \A i \in 1 .. n : seqs[i] \in Seq(S)
  BY LenProperties, ElementOfSeq
<1>2. CASE n = 0
  <2>1. FlattenSeq(seqs) = seqs /\ seqs = <<>>
    BY <1>2 DEF FlattenSeq
  <2>2. ToSet(seqs) = {} /\ Parts(0) = {} /\ <<>> \in Seq(S) /\ Once(<<>>)
    BY <2>1 DEF ToSet, Once
  <2> QED
    BY <1>2, <2>1, <2>2
<1>3. CASE n # 0
  <2> DEFINE f == CHOOSE g : IsFlat(g, n, seqs)
             Good(i) == /\ f[i] \in Seq(S) /\ ToSet(f[i]) = Parts(i)
                        /\ AllOnce(seqs) => Once(f[i])
             Bad == {i \in 1 .. n : ~Good(i)}
  <2>1. IsFlat(f, n, seqs)
    BY <1>1, FlatExists
  <2>2. FlattenSeq(seqs) = f[n]
    BY <1>3 DEF FlattenSeq, IsFlat
  <2>3. \A i \in 1 .. n : f[i] = IF i = 1 THEN seqs[i] ELSE f[i - 1] \o seqs[i]
    BY <2>1 DEF IsFlat
  <2> HIDE DEF f
  <2>4. Bad = {}
    <3> SUFFICES ASSUME Bad # {} PROVE FALSE
      OBVIOUS
    <3>1. Bad \in SUBSET Nat
      BY <1>1
    <3>2. PICK i \in Bad : \A k \in Bad : i <= k
      BY <3>1, LeastPosition
    <3>3. i \in 1 .. n /\ ~Good(i)
      BY <3>2
    <3>4. CASE i = 1
      <4>1. f[i] = seqs[i] /\ seqs[i] \in Seq(S)
        BY <1>1, <2>3, <3>3, <3>4
      <4>2. 1 .. i = {i}
        BY <3>4
      <4>3. AllOnce(seqs) => Once(seqs[i])
        BY <3>3 DEF AllOnce
      <4> QED
        BY <3>3, <4>1, <4>2, <4>3
    <3>5. CASE i # 1
      <4>1. i - 1 \in 1 .. n /\ ~(i <= i - 1)
        BY <1>1, <3>3, <3>5
      <4>2. Good(i - 1)
        BY <3>2, <4>1
      <4>3. f[i] = f[i - 1] \o seqs[i] /\ seqs[i] \in Seq(S)
        BY <1>1, <2>3, <3>3, <3>5
      <4>4. f[i] \in Seq(S) /\ ToSet(f[i]) = ToSet(f[i - 1]) \cup ToSet(seqs[i])
        BY <4>2, <4>3, ConcatSet
      <4>5. 1 .. i = (1 .. i - 1) \cup {i}
        <5>1. n \in Nat /\ i \in 1 .. n
          BY <1>1, <3>2
        <5> HIDE DEF n
        <5> QED
          BY <5>1
      <4>6. Parts(i) = Parts(i - 1) \cup ToSet(seqs[i])
        BY <4>5
      <4>7. AllOnce(seqs) => Parts(i - 1) \cap ToSet(seqs[i]) = {} /\ Once(seqs[i])
        <5>1. n \in Nat /\ i \in 1 .. n
          BY <1>1, <3>2
        <5>2. \A j \in 1 .. i - 1 : j \in 1 .. n /\ j < i
          <6> HIDE DEF n
          <6> QED
            BY <5>1
        <5>3. /\ AllOnce(seqs) => Once(seqs[i])
              /\ AllOnce(seqs) => \A j \in 1 .. i - 1 : ToSet(seqs[j]) \cap ToSet(seqs[i]) = {}
          BY <5>1, <5>2 DEF AllOnce
        <5> QED
          BY <5>3
      <4> HIDE DEF Parts
      <4>8. AllOnce(seqs) => Once(f[i])
        <5> HAVE AllOnce(seqs)
        <5>1. Once(f[i - 1]) /\ Once(seqs[i]) /\ ToSet(f[i - 1]) \cap ToSet(seqs[i]) = {}
          BY <4>2, <4>7
        <5> QED
          BY <4>2, <4>3, <5>1, ConcatOnce
      <4> QED
        BY <3>3, <4>2, <4>4, <4>6, <4>8
    <3> QED
      BY <3>4, <3>5
  <2>5. n \in 1 .. n
    BY <1>1, <1>3
  <2>6. Good(n)
    BY <2>4, <2>5
  <2> QED
    BY <2>2, <2>6
<1> QED
  BY <1>2, <1>3

-----------------------------------------------------------------------------
(* topN. *)

Alike(topN, x, y) == Partition(topN, x) = Partition(topN, y)
PeersOf(topN, S, x) == {y \in S : Alike(topN, y, x)}

\* One partition of the groups, as applyTopN collects it.
LEMMA BucketIs ==
  ASSUME NEW topN, NEW A, NEW q, Lists(q, A), NEW k \in 1 .. Len(q)
  PROVE  Lists(Bucket(topN, q, k), PeersOf(topN, A, q[k]))
<1> DEFINE P == {j \in 1 .. Len(q) : Alike(topN, q[j], q[k])}
<1>1. DOMAIN q = 1 .. Len(q) /\ \A j \in 1 .. Len(q) : q[j] \in A
  BY ListCounts, LenProperties DEF Lists
<1>2. Bucket(topN, q, k) = At(q, P)
  BY <1>1 DEF Bucket, Alike
<1>3. Lists(At(q, P), {q[j] : j \in P})
  <2>1. P \in SUBSET (1 .. Len(q))
    OBVIOUS
  <2> HIDE DEF P
  <2> QED
    BY <2>1, AtIs
<1>4. {q[j] : j \in P} = PeersOf(topN, A, q[k])
  <2>1. \A j \in P : q[j] \in PeersOf(topN, A, q[k])
    BY <1>1 DEF PeersOf
  <2>2. \A y \in PeersOf(topN, A, q[k]) : \E j \in P : q[j] = y
    BY DEF PeersOf, Lists
  <2> HIDE DEF P
  <2> QED
    BY <2>1, <2>2
<1> HIDE DEF P
<1> QED
  BY <1>2, <1>3, <1>4

\* Every partition has one first place.
LEMMA FirstIs ==
  ASSUME NEW topN, NEW A, NEW q, Lists(q, A)
  PROVE  /\ Firsts(topN, q) \in SUBSET (1 .. Len(q))
         /\ \A x \in A : \E k \in Firsts(topN, q) : Alike(topN, q[k], x)
         /\ \A j, k \in Firsts(topN, q) : Alike(topN, q[j], q[k]) => j = k
<1>1. DOMAIN q = 1 .. Len(q) /\ Len(q) \in Nat /\ \A j \in 1 .. Len(q) : q[j] \in A
  BY ListCounts, LenProperties DEF Lists
<1>2. \A k : k \in Firsts(topN, q) <=>
               k \in 1 .. Len(q) /\ \A j \in 1 .. k - 1 : ~Alike(topN, q[j], q[k])
  BY <1>1 DEF Firsts, Alike
<1>3. ASSUME NEW x \in A PROVE \E k \in Firsts(topN, q) : Alike(topN, q[k], x)
  <2> DEFINE S == {k \in 1 .. Len(q) : Alike(topN, q[k], x)}
  <2>1. S \in SUBSET Nat
    BY <1>1
  <2>2. S # {}
    <3>1. PICK k \in 1 .. Len(q) : q[k] = x
      BY DEF Lists
    <3> QED
      BY <3>1 DEF Alike
  <2>3. PICK k \in S : \A j \in S : k <= j
    BY <2>1, <2>2, LeastPosition
  <2>4. ASSUME NEW j \in 1 .. k - 1 PROVE ~Alike(topN, q[j], q[k])
    <3>1. j \in 1 .. Len(q) /\ ~(k <= j)
      BY <1>1, <2>3
    <3>2. ~Alike(topN, q[j], x)
      BY <2>3, <3>1
    <3> QED
      BY <2>3, <3>2 DEF Alike
  <2> QED
    BY <1>2, <2>3, <2>4
<1>4. ASSUME NEW j \in Firsts(topN, q), NEW k \in Firsts(topN, q), Alike(topN, q[j], q[k])
      PROVE  j = k
  <2>1. j \in 1 .. Len(q) /\ k \in 1 .. Len(q) /\ Alike(topN, q[k], q[j])
    BY <1>2, <1>4 DEF Alike
  <2>2. ~(j \in 1 .. k - 1) /\ ~(k \in 1 .. j - 1)
    BY <1>2, <1>4, <2>1
  <2> QED
    BY <1>1, <2>1, <2>2
<1>5. Firsts(topN, q) \in SUBSET (1 .. Len(q))
  BY <1>2
<1> QED
  BY <1>3, <1>4, <1>5

Kept(topN, q, k) == SliceWithTies(topN, Ranked(topN, Bucket(topN, q, k)))

LEMMA KeptIs ==
  ASSUME NEW topN, topN.sort \in Sorts, topN.limit \in Nat \ {0},
         NEW A, \A x \in A : Fits(topN.sort, x), NEW q, Lists(q, A), NEW k \in 1 .. Len(q)
  PROVE  /\ Kept(topN, q, k) \in Seq(A) /\ Once(Kept(topN, q, k))
         /\ OneTop(topN, ToSet(Kept(topN, q, k)), PeersOf(topN, A, q[k]))
<1> DEFINE B == PeersOf(topN, A, q[k])
           r == Ranked(topN, Bucket(topN, q, k))
<1>1. B \subseteq A /\ \A x \in B : Fits(topN.sort, x)
  BY DEF PeersOf
<1>2. Lists(Bucket(topN, q, k), B)
  BY BucketIs
<1> HIDE DEF B
<1>3. Lists(r, B) /\ InRanks(topN.sort, r)
  BY <1>1, <1>2, RankedIs
<1> HIDE DEF r
<1>4. /\ SliceWithTies(topN, r) \in Seq(B) /\ Once(SliceWithTies(topN, r))
      /\ OneTop(topN, ToSet(SliceWithTies(topN, r)), B)
  BY <1>1, <1>3, SliceKeeps
<1>5. SliceWithTies(topN, r) \in Seq(A)
  BY <1>1, <1>4
<1> QED
  BY <1>4, <1>5 DEF Kept, B, r

LEMMA ApplyTopNIs ==
  ASSUME NEW topN, topN.sort \in Sorts, topN.limit \in Nat \ {0},
         NEW A, \A x \in A : Fits(topN.sort, x), NEW q, Lists(q, A)
  PROVE  /\ ToSet(ApplyTopN(topN, q)) = UNION {ToSet(Kept(topN, q, k)) : k \in Firsts(topN, q)}
         /\ ApplyTopN(topN, q) \in Seq(A) /\ Once(ApplyTopN(topN, q))
<1> DEFINE F == Firsts(topN, q)
           first == Arranged(F, Ascending(F))
           n == Len(first)
           seqs == [m \in DOMAIN first |-> Kept(topN, q, first[m])]
<1>1. F \in SUBSET (1 .. Len(q)) /\ Len(q) \in Nat
  BY FirstIs, ListCounts
<1>2. Lists(first, F)
  <2> HIDE DEF F
  <2> QED
    BY <1>1, AscendingLists
<1>3. ApplyTopN(topN, q) = FlattenSeq(seqs)
  BY DEF ApplyTopN, Kept
<1> HIDE DEF F, first
<1>4. n \in Nat /\ DOMAIN first = 1 .. n /\ \A m \in 1 .. n : first[m] \in F
  BY <1>2, ListCounts, LenProperties DEF Lists
<1>5. \A k \in F : Kept(topN, q, k) \in Seq(A)
  BY <1>1, KeptIs
<1>6. seqs \in Seq(Seq(A)) /\ Len(seqs) = n /\ \A m \in 1 .. n : seqs[m] = Kept(topN, q, first[m])
  <2> HIDE DEF n
  <2>1. seqs \in [1 .. n -> Seq(A)]
    BY <1>4, <1>5
  <2> QED
    BY <1>4, <2>1
<1> HIDE DEF seqs, n
<1>a. AllOnce(seqs)
  <2>1. \A m \in 1 .. n : first[m] \in 1 .. Len(q)
    BY <1>1, <1>4
  <2>2. \A m \in 1 .. n : Once(seqs[m]) /\ ToSet(seqs[m]) \subseteq PeersOf(topN, A, q[first[m]])
    <3> SUFFICES ASSUME NEW m \in 1 .. n
                 PROVE  Once(seqs[m]) /\ ToSet(seqs[m]) \subseteq PeersOf(topN, A, q[first[m]])
      OBVIOUS
    <3>1. Once(Kept(topN, q, first[m])) /\ OneTop(topN, ToSet(Kept(topN, q, first[m])), PeersOf(topN, A, q[first[m]]))
      BY <2>1, KeptIs
    <3> QED
      BY <1>6, <3>1 DEF OneTop
  <2>3. ASSUME NEW m \in 1 .. n, NEW l \in 1 .. n, m < l PROVE ToSet(seqs[m]) \cap ToSet(seqs[l]) = {}
    <3>1. first[m] # first[l] /\ first[m] \in F /\ first[l] \in F
      BY <1>2, <1>4, <2>3 DEF Lists, n
    <3>2. ~Alike(topN, q[first[m]], q[first[l]])
      BY <3>1, FirstIs DEF F
    <3> QED
      BY <2>2, <3>2 DEF PeersOf, Alike
  <2> QED
    BY <1>6, <2>2, <2>3 DEF AllOnce
<1>7. /\ ToSet(FlattenSeq(seqs)) = UNION {ToSet(seqs[m]) : m \in 1 .. n}
      /\ FlattenSeq(seqs) \in Seq(A) /\ Once(FlattenSeq(seqs))
  BY <1>6, <1>a, FlattenIs
<1>8. \A k \in F : \E m \in 1 .. n : first[m] = k
  BY <1>2 DEF Lists, n
<1>9. {ToSet(seqs[m]) : m \in 1 .. n} = {ToSet(Kept(topN, q, k)) : k \in F}
  <2>1. \A m \in 1 .. n : \E k \in F : ToSet(seqs[m]) = ToSet(Kept(topN, q, k))
    BY <1>4, <1>6
  <2>2. \A k \in F : \E m \in 1 .. n : ToSet(seqs[m]) = ToSet(Kept(topN, q, k))
    BY <1>6, <1>8
  <2> QED
    BY <2>1, <2>2, Zenon
<1> QED
  BY <1>3, <1>7, <1>9 DEF F

\* Of the rows kept, those of one partition are the ones kept of it.
LEMMA KeptOfPeers ==
  ASSUME NEW topN, topN.sort \in Sorts, topN.limit \in Nat \ {0},
         NEW A, \A x \in A : Fits(topN.sort, x), NEW q, Lists(q, A), NEW x \in A
  PROVE  OneTop(topN, ToSet(ApplyTopN(topN, q)) \cap PeersOf(topN, A, x), PeersOf(topN, A, x))
<1> DEFINE kept == ToSet(ApplyTopN(topN, q))
           F == Firsts(topN, q)
           B == PeersOf(topN, A, x)
           Of(k) == ToSet(Kept(topN, q, k))
<1>1. kept = UNION {Of(k) : k \in F}
  BY ApplyTopNIs
<1>2. /\ F \in SUBSET (1 .. Len(q))
      /\ \A j, k \in F : Alike(topN, q[j], q[k]) => j = k
  BY FirstIs
<1>3. PICK k \in F : Alike(topN, q[k], x)
  BY FirstIs
<1>4. \A j \in F : OneTop(topN, Of(j), PeersOf(topN, A, q[j]))
  BY <1>2, KeptIs
<1>5. \A j \in F : Of(j) \subseteq PeersOf(topN, A, q[j])
  BY <1>4 DEF OneTop
<1>6. PeersOf(topN, A, q[k]) = B
  BY <1>3 DEF PeersOf, Alike
<1> HIDE DEF kept, F, Of
<1>8. ASSUME NEW y \in kept \cap B PROVE y \in Of(k)
  <2>1. PICK j \in F : y \in Of(j)
    BY <1>1
  <2>2. Alike(topN, y, q[j]) /\ Alike(topN, y, x)
    BY <1>5, <2>1 DEF PeersOf
  <2>3. Alike(topN, q[j], q[k])
    BY <1>3, <2>2 DEF Alike
  <2> QED
    BY <1>2, <2>1, <2>3
<1>9. Of(k) \subseteq kept \cap B
  BY <1>1, <1>5, <1>6
<1>10. kept \cap B = Of(k)
  BY <1>8, <1>9
<1> QED
  BY <1>4, <1>6, <1>10 DEF kept

\* There are no more tuples than rows, and as many if no two rows tie.
LEMMA TuplesOfRows ==
  ASSUME NEW sort, NEW S, IsFiniteSet(S)
  PROVE  LET T == {CursorAt(sort, y) : y \in S}
         IN /\ Cardinality(T) \in Nat /\ Cardinality(S) \in Nat /\ Cardinality(T) <= Cardinality(S)
            /\ (\A y, z \in S : Tied(sort, y, z) => y = z) => Cardinality(T) = Cardinality(S)
<1> DEFINE T == {CursorAt(sort, y) : y \in S}
           f == [y \in S |-> CursorAt(sort, y)]
<1>1. f \in Surjection(S, T)
  BY DEF Surjection
<1>2. ASSUME \A y, z \in S : Tied(sort, y, z) => y = z
      PROVE  f \in Injection(S, T)
  <2>1. ASSUME NEW y \in S, NEW z \in S, f[y] = f[z] PROVE y = z
    <3>1. CursorAt(sort, y) = CursorAt(sort, z)
      BY <2>1
    <3>2. ASSUME NEW i \in DOMAIN sort PROVE y[sort[i].key] = z[sort[i].key]
      <4>1. sort[i].key \in {sort[j].key : j \in DOMAIN sort}
        OBVIOUS
      <4> QED
        BY <3>1, <4>1 DEF CursorAt
    <3> QED
      BY <1>2, <3>2 DEF Tied
  <2>2. f \in [S -> T]
    OBVIOUS
  <2> QED
    BY <2>1, <2>2 DEF Injection, IsInjective
<1> HIDE DEF f, T
<1>3. /\ IsFiniteSet(T) /\ Cardinality(T) <= Cardinality(S)
      /\ Cardinality(T) = Cardinality(S) <=> f \in Injection(S, T)
  BY <1>1, FS_Surjection
<1>4. Cardinality(T) \in Nat /\ Cardinality(S) \in Nat
  BY <1>3, FS_CardinalityType
<1> QED
  BY <1>2, <1>3, <1>4 DEF T

\* SQL's numbers, by the tuples that are better.
LEMMA NumbersAre ==
  ASSUME NEW topN, NEW A, IsFiniteSet(A), NEW x
  PROVE  LET better == Cardinality(BetterThan(topN.sort, PeersOf(topN, A, x), x))
         IN /\ better \in Nat /\ DenseRank(topN, A, x) = 1 + better
            /\ Rank(topN, A, x) \in Nat /\ 1 + better <= Rank(topN, A, x)
            /\ (\A y, z \in Ahead(topN, A, x) : Tied(topN.sort, y, z) => y = z) =>
                 Rank(topN, A, x) = 1 + better
<1> DEFINE S == Ahead(topN, A, x)
           T == {CursorAt(topN.sort, y) : y \in S}
<1>1. S \subseteq A
  BY DEF Ahead, Peers
<1>2. IsFiniteSet(S)
  BY <1>1, FS_Subset
<1>3. BetterThan(topN.sort, PeersOf(topN, A, x), x) = T
  BY DEF BetterThan, PeersOf, Alike, Ahead, Peers
<1>4. Rank(topN, A, x) = 1 + Cardinality(S) /\ DenseRank(topN, A, x) = 1 + Cardinality(T)
  BY DEF Rank, DenseRank
<1> HIDE DEF S
<1>5. /\ Cardinality(T) \in Nat /\ Cardinality(S) \in Nat /\ Cardinality(T) <= Cardinality(S)
      /\ (\A y, z \in S : Tied(topN.sort, y, z) => y = z) => Cardinality(T) = Cardinality(S)
  BY <1>2, TuplesOfRows
<1> HIDE DEF T
<1>6. 1 + Cardinality(S) \in Nat /\ 1 + Cardinality(T) <= 1 + Cardinality(S)
  BY <1>5
<1> QED
  BY <1>3, <1>4, <1>5, <1>6 DEF S

\* What the code keeps, held against SQL's numbers.
KeepsTop(topN, kept, A) ==
  IF topN.ties = "rank" THEN CoversTop(topN, kept, A) ELSE IsTop(topN, kept, A)

LEMMA ApplyKeepsTop ==
  ASSUME NEW topN, topN.sort \in Sorts, topN.limit \in Nat \ {0},
         NEW A, \A x \in A : Fits(topN.sort, x), NEW q, Lists(q, A)
  PROVE  KeepsTop(topN, ToSet(ApplyTopN(topN, q)), A)
<1> DEFINE kept == ToSet(ApplyTopN(topN, q))
           Mates(x) == PeersOf(topN, A, x)
           Better(x) == Cardinality(BetterThan(topN.sort, Mates(x), x))
<1>0. IsFiniteSet(A)
  BY ListCounts
<1>1. \A x \in A : OneTop(topN, kept \cap Mates(x), Mates(x))
  BY KeptOfPeers
<1>2. kept \subseteq A
  <2>1. ASSUME NEW y \in kept PROVE y \in A
    <3>0. kept = UNION {ToSet(Kept(topN, q, k)) : k \in Firsts(topN, q)}
      BY ApplyTopNIs
    <3>1. PICK k \in Firsts(topN, q) : y \in ToSet(Kept(topN, q, k))
      BY <2>1, <3>0
    <3>2. k \in 1 .. Len(q)
      BY FirstIs
    <3>3. Kept(topN, q, k) \in Seq(A)
      BY <3>2, KeptIs
    <3> QED
      BY <3>1, <3>3, ElementOfSeq, LenProperties DEF ToSet
  <2> QED
    BY <2>1
<1>3. \A x \in A : x \in Mates(x) /\ Mates(x) = Peers(topN, A, x)
  BY DEF PeersOf, Alike, Peers
<1> HIDE DEF kept
<1>4. CASE topN.ties = "row_number"
  <2>1. \A x \in A : /\ Cardinality(kept \cap Mates(x)) = Min({topN.limit, Cardinality(Mates(x))})
                     /\ x \notin kept => \A y \in kept \cap Mates(x) : ~Ranks(topN.sort, x, y)
    <3> HIDE DEF Mates
    <3> QED
      BY <1>1, <1>3, <1>4 DEF OneTop
  <2>2. FirstOnes(topN, kept, A)
    <3> HIDE DEF Mates
    <3> QED
      BY <1>3, <2>1 DEF FirstOnes
  <2> QED
    BY <1>4, <2>2 DEF KeepsTop, IsTop, kept
<1>5. CASE topN.ties # "row_number"
  <2>1. \A x \in A : kept \cap Mates(x) = {y \in Mates(x) : Cardinality(BetterThan(topN.sort, Mates(x), y)) < topN.limit}
    BY <1>1, <1>5 DEF OneTop
  <2>2. \A x \in A : x \in kept <=> Better(x) < topN.limit
    <3> HIDE DEF Mates
    <3> QED
      BY <1>3, <2>1
  <2>3. ASSUME NEW x \in A
        PROVE  /\ Better(x) \in Nat /\ DenseRank(topN, A, x) = 1 + Better(x)
               /\ Rank(topN, A, x) \in Nat /\ 1 + Better(x) <= Rank(topN, A, x)
               /\ (\A y, z \in Ahead(topN, A, x) : Tied(topN.sort, y, z) => y = z) =>
                    Rank(topN, A, x) = 1 + Better(x)
    BY <1>0, NumbersAre
  <2> HIDE DEF Better
  <2>4. \A x \in A : /\ Better(x) < topN.limit <=> DenseRank(topN, A, x) <= topN.limit
                     /\ Rank(topN, A, x) <= topN.limit => Better(x) < topN.limit
                     /\ Rank(topN, A, x) = 1 + Better(x) =>
                          (Better(x) < topN.limit => Rank(topN, A, x) <= topN.limit)
    BY <2>3
  <2>5. CASE topN.ties = "rank"
    <3>1. CoversTop(topN, kept, A)
      BY <2>2, <2>3, <2>4 DEF CoversTop
    <3> QED
      BY <2>5, <3>1 DEF KeepsTop, kept
  <2>6. CASE topN.ties # "rank"
    <3>1. kept = {x \in A : DenseRank(topN, A, x) <= topN.limit}
      BY <1>2, <2>2, <2>4
    <3> QED
      BY <1>5, <2>6, <3>1 DEF KeepsTop, IsTop, kept
  <2> QED
    BY <2>5, <2>6
<1> QED
  BY <1>4, <1>5

TableInv == request \in Requests /\ (Walks(request) => table \in Tables)

LEMMA TableStays == Spec => []TableInv
<1>1. Init => TableInv
  BY DEF Init, TableInv
<1>2. TableInv /\ [Next]_vars => TableInv'
  <2> SUFFICES ASSUME TableInv, [Next]_vars PROVE TableInv'
    OBVIOUS
  <2>1. CASE Write
    <3>1. UNCHANGED request
      BY <2>1 DEF Write, walk
    <3> QED
      BY <2>1, <3>1, WriteKeepsTable DEF TableInv
  <2>2. CASE ~Write
    <3>1. UNCHANGED <<request, table>>
      BY <2>2 DEF Next, ReadData, ReadCount, Answer, vars, walk
    <3> QED
      BY <3>1 DEF TableInv
  <2> QED
    BY <2>1, <2>2
<1> QED
  BY <1>1, <1>2, PTL DEF Spec

LEMMA RankingFits ==
  ASSUME NEW req \in Requests, req.kind = "groups", req.topN # None, NEW t \in Tables,
         NEW x \in Candidates(req, RowsOf(t))
  PROVE  Fits(req.topN.sort, x)
<1>1. Ranking(req)
  BY RequestAssumption DEF Walks
<1>2. ASSUME NEW i \in DOMAIN req.topN.sort PROVE x[req.topN.sort[i].key] \in Sortable
  <2> DEFINE values == {y[req.topN.sort[i].key] : y \in Candidates(req, RowsOf(t))} \ {None}
  <2>1. values \subseteq [number : Int] \/ values \subseteq [text : Int]
    BY <1>1 DEF Ranking
  <2>2. x[req.topN.sort[i].key] = None \/ x[req.topN.sort[i].key] \in values
    OBVIOUS
  <2> HIDE DEF values
  <2> QED
    BY <2>1, <2>2 DEF Sortable, Scalars
<1> QED
  BY <1>2 DEF Fits

LEMMA TopNOfTable ==
  ASSUME NEW req \in Requests, req.kind = "groups", req.topN # None, NEW t \in Tables,
         NEW q \in AggRows(req, None, RowsOf(t))
  PROVE  KeepsTop(req.topN, ToSet(q), AggGroups(req, None, RowsOf(t)))
<1> DEFINE T == RowsOf(t)
           A == AggGroups(req, None, T)
           rows == Where(req.where, LeftJoins(T, req.lookups, T))
<1>1. Len(req.lookups) \in Nat
  BY RequestAssumption, LenProperties DEF Walks
<1>2. IsFiniteSet(rows)
  BY <1>1, RowsFinite, LeftJoinsFinite, WhereFinite
<1>3. A \in SUBSET Grouped(req, rows) /\ Candidates(req, T) = Grouped(req, rows)
  BY DEF AggGroups, Candidates
<1>4. IsFiniteSet(A)
  <2>1. IsFiniteSet(Grouped(req, rows))
    BY <1>2, GroupedFinite
  <2> HIDE DEF A
  <2> QED
    BY <1>3, <2>1, FS_Subset
<1>5. PICK p \in Sorted(A, req.sort) : q = ApplyTopN(req.topN, p)
  BY DEF AggRows, Sliced
<1> HIDE DEF A
<1>6. Lists(p, A)
  BY <1>4, SortedIs DEF Lists
<1>7. req.topN.sort \in Sorts /\ req.topN.limit \in Nat \ {0}
  BY RequestAssumption DEF Walks, Ranking, Sorts
<1>8. \A x \in A : Fits(req.topN.sort, x)
  BY <1>3, RankingFits
<1>9. KeepsTop(req.topN, ToSet(ApplyTopN(req.topN, p)), A)
  BY <1>6, <1>7, <1>8, ApplyKeepsTop
<1> QED
  BY <1>5, <1>9 DEF A

\* The members of a set under one key.
Under(c, S, k) == {y \in S : c[y] = k}

\* Two parts of a set with as many members under every key have as many in all.
LEMMA SameInClasses ==
  ASSUME NEW A, IsFiniteSet(A), NEW c, NEW J \in SUBSET A, NEW K \in SUBSET A,
         \A x \in A : Cardinality(Under(c, J, c[x])) = Cardinality(Under(c, K, c[x]))
  PROVE  Cardinality(J) = Cardinality(K)
<1> DEFINE h(k) == CHOOSE b : b \in Bijection(Under(c, J, k), Under(c, K, k))
           f == [x \in J |-> h(c[x])[x]]
<1>1. IsFiniteSet(J) /\ IsFiniteSet(K)
  BY FS_Subset
<1>2. ASSUME NEW x \in A PROVE h(c[x]) \in Bijection(Under(c, J, c[x]), Under(c, K, c[x]))
  <2>1. Under(c, J, c[x]) \in SUBSET J /\ Under(c, K, c[x]) \in SUBSET K
    BY DEF Under
  <2>2. IsFiniteSet(Under(c, J, c[x])) /\ IsFiniteSet(Under(c, K, c[x]))
    BY <1>1, <2>1, FS_Subset
  <2>3. ExistsBijection(Under(c, J, c[x]), Under(c, K, c[x]))
    BY <2>2, FS_SameCardinalityBij
  <2> QED
    BY <2>3 DEF ExistsBijection
<1> HIDE DEF h
<1>3. ASSUME NEW x \in J PROVE f[x] = h(c[x])[x] /\ f[x] \in K /\ c[f[x]] = c[x]
  <2>1. x \in A /\ x \in Under(c, J, c[x])
    BY DEF Under
  <2>2. h(c[x])[x] \in Under(c, K, c[x])
    BY <1>2, <2>1 DEF Bijection, Injection
  <2> QED
    BY <2>2 DEF Under
<1>4. ASSUME NEW x \in J, NEW y \in J, f[x] = f[y] PROVE x = y
  <2>1. c[x] = c[y] /\ h(c[x])[x] = h(c[x])[y]
    BY <1>3, <1>4
  <2>2. x \in A /\ x \in Under(c, J, c[x]) /\ y \in Under(c, J, c[x])
    BY <2>1 DEF Under
  <2> QED
    BY <1>2, <2>1, <2>2 DEF Bijection, Injection, IsInjective
<1>5. ASSUME NEW z \in K PROVE \E x \in J : f[x] = z
  <2>1. z \in A /\ z \in Under(c, K, c[z])
    BY DEF Under
  <2>2. PICK x \in Under(c, J, c[z]) : h(c[z])[x] = z
    BY <1>2, <2>1 DEF Bijection, Surjection
  <2>3. x \in J /\ c[x] = c[z]
    BY <2>2 DEF Under
  <2> QED
    BY <1>3, <2>2, <2>3
<1> HIDE DEF f
<1>6. K = {f[x] : x \in J}
  BY <1>3, <1>5
<1>7. Cardinality({f[x] : x \in J}) = Cardinality(J)
  BY <1>1, <1>4, ImageCounts
<1> QED
  BY <1>6, <1>7

LEMMA OnceCounts ==
  ASSUME NEW A, IsFiniteSet(A), NEW q \in Seq(A), Once(q)
  PROVE  /\ ToSet(q) \in SUBSET A /\ Cardinality(ToSet(q)) = Len(q)
         /\ Len(q) \in Nat /\ Len(q) <= Cardinality(A)
<1>1. DOMAIN q = 1 .. Len(q) /\ \A i \in 1 .. Len(q) : q[i] \in A
  BY LenProperties, ElementOfSeq
<1>2. ToSet(q) \in SUBSET A /\ \A i \in 1 .. Len(q) : q[i] \in ToSet(q)
  BY <1>1 DEF ToSet
<1>3. q \in Seq(ToSet(q))
  <2>1. q \in [1 .. Len(q) -> ToSet(q)]
    BY <1>1, <1>2, LenProperties
  <2> QED
    BY <2>1, LenProperties
<1>4. Lists(q, ToSet(q))
  BY <1>1, <1>3 DEF Lists, Once, ToSet
<1>5. Cardinality(ToSet(q)) = Len(q) /\ Len(q) \in Nat
  BY <1>4, ListCounts
<1> QED
  BY <1>2, <1>5, FS_Subset

\* However the groups are sorted before it, topN keeps as many.
LEMMA TopNCounts ==
  ASSUME NEW topN, topN.sort \in Sorts, topN.limit \in Nat \ {0},
         NEW A, \A x \in A : Fits(topN.sort, x), NEW p, Lists(p, A), NEW q, Lists(q, A)
  PROVE  /\ ApplyTopN(topN, q) \in Seq(A) /\ Len(ApplyTopN(topN, q)) <= Cardinality(A)
         /\ Len(ApplyTopN(topN, p)) = Len(ApplyTopN(topN, q))
<1> DEFINE J == ToSet(ApplyTopN(topN, p))
           K == ToSet(ApplyTopN(topN, q))
           c == [y \in A |-> Partition(topN, y)]
<1>1. IsFiniteSet(A)
  BY ListCounts
<1>2. /\ ApplyTopN(topN, p) \in Seq(A) /\ Once(ApplyTopN(topN, p))
      /\ ApplyTopN(topN, q) \in Seq(A) /\ Once(ApplyTopN(topN, q))
  BY ApplyTopNIs
<1>3. /\ J \in SUBSET A /\ Cardinality(J) = Len(ApplyTopN(topN, p))
      /\ K \in SUBSET A /\ Cardinality(K) = Len(ApplyTopN(topN, q))
      /\ Len(ApplyTopN(topN, q)) <= Cardinality(A)
  BY <1>1, <1>2, OnceCounts
<1>4. ASSUME NEW x \in A PROVE Cardinality(Under(c, J, c[x])) = Cardinality(Under(c, K, c[x]))
  <2> DEFINE B == PeersOf(topN, A, x)
  <2>1. OneTop(topN, J \cap B, B) /\ OneTop(topN, K \cap B, B)
    BY KeptOfPeers
  <2>2. Under(c, J, c[x]) = J \cap B /\ Under(c, K, c[x]) = K \cap B
    <3> HIDE DEF J, K
    <3> QED
      BY <1>3 DEF Under, PeersOf, Alike
  <2> HIDE DEF B, J, K, c
  <2>3. Cardinality(J \cap B) = Cardinality(K \cap B)
    BY <2>1 DEF OneTop
  <2> QED
    BY <2>2, <2>3
<1> HIDE DEF J, K, c
<1>5. Cardinality(J) = Cardinality(K)
  BY <1>1, <1>3, <1>4, SameInClasses
<1> QED
  BY <1>2, <1>3, <1>5

\* topN keeps of every partition the rows that SQL's DENSE_RANK or ROW_NUMBER
\* numbers up to the limit, and for 'rank' all that RANK does and no other whose
\* betters are untied (applyTopN, sliceWithTies), for every table, partition,
\* limit and ranking of columns that hold values of one type or NULL.
THEOREM TopNIsTheTop == Spec => []TopNKeepsTheTop
<1>1. TableInv => TopNKeepsTheTop
  BY TopNOfTable DEF TableInv, Walks, TopNKeepsTheTop, KeepsTop
<1> QED
  BY <1>1, TableStays, PTL

\* What is left of the groups before LIMIT and OFFSET.
LEMMA SlicedIs ==
  ASSUME NEW req \in Requests, req.kind = "groups", NEW t \in Tables, NEW A,
         A \subseteq Candidates(req, RowsOf(t)), NEW p, Lists(p, A), NEW q, Lists(q, A)
  PROVE  /\ Sliced(req, q) \in Seq(A) /\ Len(Sliced(req, q)) \in Nat
         /\ Len(Sliced(req, q)) <= Cardinality(A) /\ Len(Sliced(req, p)) = Len(Sliced(req, q))
         /\ req.topN = None => Len(Sliced(req, q)) = Cardinality(A)
<1>1. CASE req.topN = None
  <2>1. Sliced(req, p) = p /\ Sliced(req, q) = q
    BY <1>1 DEF Sliced
  <2>2. Len(p) = Cardinality(A) /\ Len(q) = Cardinality(A) /\ Len(q) \in Nat
    BY ListCounts
  <2> QED
    BY <2>1, <2>2 DEF Lists
<1>2. CASE req.topN # None
  <2>1. Sliced(req, p) = ApplyTopN(req.topN, p) /\ Sliced(req, q) = ApplyTopN(req.topN, q)
    BY <1>2 DEF Sliced
  <2>2. req.topN.sort \in Sorts /\ req.topN.limit \in Nat \ {0}
    BY <1>2, RequestAssumption DEF Walks, Ranking, Sorts
  <2>3. \A x \in A : Fits(req.topN.sort, x)
    BY <1>2, RankingFits
  <2>4. /\ ApplyTopN(req.topN, q) \in Seq(A) /\ Len(ApplyTopN(req.topN, q)) <= Cardinality(A)
        /\ Len(ApplyTopN(req.topN, p)) = Len(ApplyTopN(req.topN, q))
    BY <2>2, <2>3, TopNCounts
  <2>5. Len(ApplyTopN(req.topN, q)) \in Nat
    BY <2>4, LenProperties
  <2> QED
    BY <1>2, <2>1, <2>4, <2>5
<1> QED
  BY <1>1, <1>2

\* A total and the sequence whose pages it is of: it counts the sequence, but for a
\* topN, of which it may count what was cut, and a scalar over no rows, which is one
\* row and counted as none.
Totals(req, c, q) ==
  /\ c \in Nat /\ Len(q) \in Nat /\ (Len(q) <= c \/ Len(q) <= 1)
  /\ (req.kind = "groups" => req.topN = None /\ ~Scalar(req)) => c = Len(q)

\* The count of groups is of those that HAVING left.
LEMMA GroupsIs ==
  ASSUME NEW req \in Requests, req.kind = "groups", NEW t \in Tables,
         NEW c \in CountAggGroups(req, RowsOf(t))
  PROVE  LET A == AggGroups(req, None, RowsOf(t))
         IN \A p : Lists(p, A) => Totals(req, c, Sliced(req, p))
<1> SUFFICES ASSUME NEW p, Lists(p, AggGroups(req, None, RowsOf(t)))
             PROVE  Totals(req, c, Sliced(req, p))
  BY Zenon
<1> DEFINE T == RowsOf(t)
           A == AggGroups(req, None, T)
           rows == Where(req.where, LeftJoins(T, req.lookups, T))
           plain == Where(req.where, T)
<1>1. Len(req.lookups) \in Nat
  BY RequestAssumption, LenProperties DEF Walks
<1>2. IsFiniteSet(T) /\ IsFiniteSet(rows) /\ IsFiniteSet(plain)
  BY <1>1, RowsFinite, LeftJoinsFinite, WhereFinite
<1>3. Candidates(req, T) = Grouped(req, rows)
  BY DEF Candidates
<1>4. A \in SUBSET Grouped(req, rows) /\ (req.having.op = "true" => A = Grouped(req, rows))
  BY DEF AggGroups
<1>5. IsFiniteSet(A) /\ Cardinality(A) \in Nat
  <2>1. IsFiniteSet(Grouped(req, rows))
    BY <1>2, GroupedFinite
  <2> HIDE DEF A
  <2> QED
    BY <1>4, <2>1, FS_Subset, FS_CardinalityType
<1>s. /\ Len(Sliced(req, p)) \in Nat /\ Len(Sliced(req, p)) <= Cardinality(A)
      /\ \A q : Lists(q, A) => Len(Sliced(req, q)) = Len(Sliced(req, p)) /\ Len(Sliced(req, q)) \in Nat
      /\ req.topN = None => Len(Sliced(req, p)) = Cardinality(A)
  <2>1. A \subseteq Candidates(req, T)
    BY <1>3, <1>4
  <2> HIDE DEF A
  <2>2. Lists(p, A)
    BY DEF A
  <2> QED
    BY <2>1, <2>2, SlicedIs
<1> DEFINE full == req.having.op # "true" \/ req.lookups # <<>> \/ DOMAIN req.bins # {}
<1>6. CASE full
  <2>1. CountAggGroups(req, T) = {Len(Sliced(req, q)) : q \in Sorted(A, <<>>)}
    BY <1>6 DEF CountAggGroups
  <2>2. PICK q \in Sorted(A, <<>>) : c = Len(Sliced(req, q))
    BY <2>1
  <2> HIDE DEF A
  <2>3. Lists(q, A)
    BY <1>5, <2>2, SortedIs DEF Lists
  <2>4. c = Len(Sliced(req, p)) /\ c \in Nat
    BY <1>s, <2>2, <2>3
  <2> QED
    BY <2>4 DEF Totals
<1> DEFINE Shown(k) == Extended(k, LET group == {r \in rows : Scalar(req) \/ GroupKey(req, r) = k}
                                   IN [a \in DOMAIN req.measures |-> Measure(req.measures[a], group)])
           keys == IF Scalar(req) THEN {[x \in {} |-> None]} ELSE {GroupKey(req, r) : r \in rows}
<1>7. Grouped(req, rows) = {Shown(k) : k \in keys}
  BY Zenon DEF Grouped
<1>8. CASE ~full /\ Scalar(req)
  <2>1. CountAggGroups(req, T) = {IF plain = {} THEN 0 ELSE 1}
    BY <1>8 DEF CountAggGroups
  <2>2. keys = {[x \in {} |-> None]}
    BY <1>8
  <2> HIDE DEF keys, A, Shown, rows
  <2>a. A = {Shown(k) : k \in keys}
    BY <1>4, <1>7, <1>8
  <2>b. A = {Shown([x \in {} |-> None])}
    BY <2>2, <2>a
  <2>3. Cardinality(A) = 1
    BY <2>b, FS_Singleton
  <2>4. c \in {0, 1}
    BY <2>1
  <2> QED
    BY <1>s, <1>8, <2>3, <2>4 DEF Totals
<1>9. CASE ~full /\ ~Scalar(req)
  <2>1. CountAggGroups(req, T) = {Cardinality({GroupKey(req, r) : r \in plain})}
    BY <1>9 DEF CountAggGroups
  <2>2. LeftJoins(T, req.lookups, T) = T
    <3>1. req.lookups = <<>> /\ Len(<<>>) = 0
      BY <1>9
    <3>2. PICK joined : Steps(joined, T, req.lookups, T)
      BY <1>1, <3>1, LeftJoinsIs
    <3> QED
      BY <3>1, <3>2 DEF Steps
  <2>3. keys = {GroupKey(req, r) : r \in plain} /\ IsFiniteSet(keys)
    <3>1. rows = plain
      BY <2>2
    <3> DEFINE f == [r \in plain |-> GroupKey(req, r)]
    <3>2. IsFiniteSet({f[r] : r \in plain})
      BY <1>2, ImageFinite
    <3>3. {f[r] : r \in plain} = {GroupKey(req, r) : r \in plain}
      OBVIOUS
    <3> QED
      BY <1>9, <3>1, <3>2, <3>3
  <2>4. \A k \in keys : k = [x \in req.groupBy |-> k[x]] /\ DOMAIN k = req.groupBy
    <3> SUFFICES ASSUME NEW k \in keys PROVE k = [x \in req.groupBy |-> k[x]] /\ DOMAIN k = req.groupBy
      OBVIOUS
    <3>1. PICK r \in plain : k = GroupKey(req, r)
      BY <2>3
    <3>2. DOMAIN req.bins = {}
      BY <1>9
    <3> QED
      BY <3>1, <3>2 DEF GroupKey, Extended
  <2> DEFINE f == [k \in keys |-> Shown(k)]
  <2>5. \A k \in keys : f[k] = Shown(k) /\ \A x \in DOMAIN k : f[k][x] = k[x]
    BY DEF Extended
  <2> HIDE DEF f, keys, A, Shown, rows
  <2>a. A = {Shown(k) : k \in keys}
    BY <1>4, <1>7, <1>9
  <2>6. A = {f[k] : k \in keys}
    BY <2>5, <2>a
  <2>7. \A k, l \in keys : f[k] = f[l] => k = l
    BY <2>4, <2>5
  <2>8. Cardinality(A) = Cardinality(keys)
    BY <2>3, <2>6, <2>7, ImageCounts
  <2>9. c = Cardinality(A)
    BY <2>1, <2>3, <2>8
  <2> QED
    BY <1>5, <1>s, <2>9 DEF Totals
<1> QED
  BY <1>6, <1>8, <1>9

-----------------------------------------------------------------------------
(* A walk by offset. *)

\* No base row is counted once and given several times, as by a lookup that is to
\* give one row and finds several.
OneEach(req) == req.kind = "lookup" => Keyed(req.lookups)

ByOffset(req) == req \in Requests /\ Walks(req) /\ ~Keyset(req) /\ OneEach(req)

\* The rows of a request, as its sort puts them.
LEMMA OutputIs ==
  ASSUME NEW req, ByOffset(req), NEW t \in Tables
  PROVE  LET A == Output(req, RowsOf(t))
         IN /\ IsFiniteSet(A)
            /\ \A x, y \in A : Fits(req.sort, x) /\ (Tied(req.sort, x, y) => x = y)
            /\ req.kind # "groups" => /\ Results(req, None, RowsOf(t)) = Sorted(A, req.sort)
                                      /\ Counts(req, RowsOf(t)) = {Cardinality(A)}
            /\ req.kind = "groups" => /\ Results(req, None, RowsOf(t)) = {Sliced(req, q) : q \in Sorted(A, req.sort)}
                                      /\ Counts(req, RowsOf(t)) = CountAggGroups(req, RowsOf(t))
                                      /\ A = AggGroups(req, None, RowsOf(t)) /\ A \subseteq Candidates(req, RowsOf(t))
<1> DEFINE T == RowsOf(t)
           A == Output(req, T)
<1>1. req \in Requests /\ Walks(req) /\ OneEach(req) /\ ~Keyset(req)
  BY DEF ByOffset
<1>2. CASE req.kind = "list"
  <2>1. A = Where(req.where, T) /\ Sortees(req, T) = A /\ Counts(req, T) = {Cardinality(A)}
    BY <1>2 DEF Output, Candidates, Sortees, Counts
  <2>2. IsFiniteSet(A)
    BY <2>1, RowsFinite, WhereFinite
  <2>3. Results(req, None, T) = Sorted(A, req.sort)
    BY <1>2 DEF Results
  <2>4. \A x, y \in A : Fits(req.sort, x) /\ (Tied(req.sort, x, y) => x = y)
    BY <1>1, <2>1, RequestIs
  <2> QED
    BY <1>2, <2>1, <2>2, <2>3, <2>4
<1>3. CASE req.kind = "lookup"
  <2>1. A = Candidates(req, T) /\ Counts(req, T) = {Cardinality(Where(req.where, T))}
    BY <1>3 DEF Output, Counts
  <2>2. /\ IsFiniteSet(A) /\ Cardinality(A) = Cardinality(Where(req.where, T))
        /\ \A x, y \in A : Fits(req.sort, x) /\ (Tied(req.sort, x, y) => x = y)
    BY <1>1, <1>3, <2>1, LookupIs DEF OneEach
  <2>3. Results(req, None, T) = Sorted(A, req.sort)
    BY <1>3 DEF Results
  <2> QED
    BY <1>3, <2>1, <2>2, <2>3
<1>4. CASE req.kind = "groups"
  <2>1. A = AggGroups(req, None, T) /\ Counts(req, T) = CountAggGroups(req, T)
    BY <1>4 DEF Output, Counts
  <2>2. Results(req, None, T) = {Sliced(req, q) : q \in Sorted(A, req.sort)}
    <3>1. Results(req, None, T) = AggRows(req, None, T)
      BY <1>4 DEF Results
    <3> QED
      BY <2>1, <3>1 DEF AggRows
  <2>3. IsFiniteSet(A) /\ A \subseteq Candidates(req, T)
    <3>1. A \in SUBSET Grouped(req, Where(req.where, LeftJoins(T, req.lookups, T)))
      BY <2>1 DEF AggGroups
    <3>2. Len(req.lookups) \in Nat
      BY <1>1, RequestAssumption, LenProperties
    <3>3. IsFiniteSet(Where(req.where, LeftJoins(T, req.lookups, T)))
      BY <3>2, RowsFinite, LeftJoinsFinite, WhereFinite
    <3> QED
      BY <1>4, <3>1, <3>3, GroupedFinite, FS_Subset DEF Candidates
  <2>4. Sortees(req, T) = Candidates(req, T)
    BY <1>4 DEF Sortees
  <2>5. \A x, y \in A : Fits(req.sort, x) /\ (Tied(req.sort, x, y) => x = y)
    BY <1>1, <2>3, <2>4, RequestIs
  <2> QED
    BY <1>4, <2>1, <2>2, <2>3, <2>5
<1> QED
  BY <1>1, <1>2, <1>3, <1>4 DEF Walks, Keyset

\* All pages are of the same sequence, and the total is of it.
LEMMA OneResult ==
  ASSUME NEW req, ByOffset(req), NEW t \in Tables, NEW q \in Results(req, None, RowsOf(t))
  PROVE  /\ \A p \in Results(req, None, RowsOf(t)) : p = q
         /\ q \in Seq(Output(req, RowsOf(t)))
         /\ \A c \in Counts(req, RowsOf(t)) : Totals(req, c, q)
<1> DEFINE T == RowsOf(t)
           A == Output(req, T)
           R == Results(req, None, T)
<1>1. /\ IsFiniteSet(A)
      /\ \A x, y \in A : Fits(req.sort, x) /\ (Tied(req.sort, x, y) => x = y)
      /\ req.kind # "groups" => R = Sorted(A, req.sort) /\ Counts(req, T) = {Cardinality(A)}
      /\ req.kind = "groups" => /\ R = {Sliced(req, p) : p \in Sorted(A, req.sort)}
                                /\ Counts(req, T) = CountAggGroups(req, T)
                                /\ A = AggGroups(req, None, T) /\ A \subseteq Candidates(req, T)
  BY OutputIs
<1>2. req \in Requests /\ req.sort \in Sorts
  BY RequestIs DEF ByOffset
<1> HIDE DEF A, R
<1>3. ASSUME NEW p \in Sorted(A, req.sort), NEW r \in Sorted(A, req.sort) PROVE p = r /\ Lists(p, A)
  <2>1. p = r
    BY <1>1, <1>2, OneOrder
  <2>2. Lists(p, A)
    BY <1>1, SortedIs DEF Lists
  <2> QED
    BY <2>1, <2>2
<1>4. CASE req.kind # "groups"
  <2>1. q \in Sorted(A, req.sort) /\ \A p \in R : p = q
    BY <1>1, <1>3, <1>4 DEF R
  <2>2. Lists(q, A)
    BY <1>3, <2>1
  <2>3. q \in Seq(A) /\ Len(q) \in Nat /\ Cardinality(A) = Len(q)
    BY <2>2, ListCounts DEF Lists
  <2>4. \A c \in Counts(req, T) : Totals(req, c, q)
    BY <1>1, <1>4, <2>3 DEF Totals
  <2> QED
    BY <2>1, <2>3, <2>4 DEF A, R
<1>5. CASE req.kind = "groups"
  <2>1. PICK p \in Sorted(A, req.sort) : q = Sliced(req, p)
    BY <1>1, <1>5 DEF R
  <2>2. \A r \in R : r = q
    BY <1>1, <1>3, <1>5, <2>1
  <2>3. Lists(p, A)
    BY <1>3
  <2>4. q \in Seq(A)
    BY <1>1, <1>2, <1>5, <2>1, <2>3, SlicedIs
  <2>5. \A c \in CountAggGroups(req, T) : Totals(req, c, q)
    <3>1. Lists(p, AggGroups(req, None, T))
      BY <1>1, <1>5, <2>3
    <3> QED
      BY <1>2, <1>5, <2>1, <3>1, GroupsIs
  <2> QED
    BY <1>1, <1>5, <2>2, <2>4, <2>5 DEF A, R
<1> QED
  BY <1>4, <1>5

\* Where the next page starts, and what is read of it.
Start   == (page - 1) * request.limit
PageEnd(k, q) == IF k <= Len(q) THEN k ELSE Len(q)
Size    == IF Exact(request) THEN request.limit ELSE request.limit + 1

\* While nothing is written, what was given is the sequence up to the page, and
\* what was read is its continuation: nothing, once the pages are past its end.
PlaceInv ==
  /\ table \in Tables /\ cursor = None /\ page \in Nat \ {0} /\ done \in BOOLEAN
  /\ open \subseteq Statements(request)
  /\ done => open = {}
  /\ page # 1 \/ "data" \notin open => Results(request, None, RowsOf(table)) # {}
  /\ \A q \in Results(request, None, RowsOf(table)) :
       IF done THEN given = q
       ELSE /\ given = SubSeq(q, 1, PageEnd(Start, q))
            /\ "data" \notin open => data = SubSeq(q, Start + 1, PageEnd(Start + Size, q))
  /\ Exact(request) /\ "count" \notin open => total \in Counts(request, RowsOf(table))

OffsetInv ==
  /\ writes \in Nat
  /\ ByOffset(request) /\ writes = 0 => PlaceInv

LEMMA NextPlace ==
  ASSUME NEW p \in Nat \ {0}, NEW l \in Nat \ {0}
  PROVE  (p - 1) * l \in Nat /\ (p - 1) * l + l = p * l /\ (p + 1 - 1) * l = p * l /\ p * l \in Nat /\ l <= p * l
<1>1. p * l = (p - 1) * l + l /\ p + 1 - 1 = p
  OBVIOUS
<1>2. (p - 1) * l \in Nat /\ p * l \in Nat
  OBVIOUS
<1> QED
  BY <1>1, <1>2

\* The n members of q after its first k.
Room(q, k, n) == k + n <= Len(q)
Slice(A, q, k, n) ==
  /\ SubSeq(q, k + 1, k + n) \in Seq(A) /\ Len(SubSeq(q, k + 1, k + n)) = n
  /\ \A i \in 1 .. n : SubSeq(q, k + 1, k + n)[i] = q[k + i]

LEMMA SliceIs ==
  ASSUME NEW A, NEW q \in Seq(A), NEW k \in Nat, NEW n \in Nat, Room(q, k, n)
  PROVE  Slice(A, q, k, n)
<1> USE DEF Room, Slice
<1>1. Len(q) \in Nat /\ \A i \in 1 .. Len(q) : q[i] \in A
  BY LenProperties, ElementOfSeq
<1>2. \A i \in k + 1 .. k + n : q[i] \in A
  BY <1>1
<1>3. k + 1 \in Int /\ k + n \in Int
  OBVIOUS
<1>4. /\ SubSeq(q, k + 1, k + n) \in Seq(A)
      /\ Len(SubSeq(q, k + 1, k + n)) = IF k + 1 <= k + n THEN k + n - (k + 1) + 1 ELSE 0
      /\ \A i \in 1 .. k + n - (k + 1) + 1 : SubSeq(q, k + 1, k + n)[i] = q[k + 1 + i - 1]
  BY <1>2, <1>3, SubSeqProperties
<1>5. /\ k + n - (k + 1) + 1 = n /\ (IF k + 1 <= k + n THEN k + n - (k + 1) + 1 ELSE 0) = n
      /\ \A i \in 1 .. n : k + 1 + i - 1 = k + i
  OBVIOUS
<1> QED
  BY <1>4, <1>5

\* Of n rows, w are read at k for a page of l, which shows s of them.
LEMMA PageArithmetic ==
  ASSUME NEW n \in Nat, NEW k \in Nat, k <= n, NEW l \in Nat \ {0}, NEW size \in {l, l + 1},
         NEW w, w = (IF k + size <= n THEN k + size ELSE n) - k,
         NEW s, s = (IF k + l <= n THEN k + l ELSE n) - k
  PROVE  /\ w \in Nat /\ s \in Nat /\ s <= w /\ k + w <= n /\ k + s <= n
         /\ k + w = (IF k + size <= n THEN k + size ELSE n)
         /\ k + s = (IF k + l <= n THEN k + l ELSE n)
         /\ s = IF l <= w THEN l ELSE w
         /\ w > l <=> size = l + 1 /\ k + l < n
  OBVIOUS

\* The rows read at k, cut to the page, continue the rows up to k.
LEMMA SliceJoins ==
  ASSUME NEW A, NEW q \in Seq(A), NEW k \in Nat, k <= Len(q), NEW l \in Nat \ {0},
         NEW size \in {l, l + 1}
  PROVE  LET d == SubSeq(q, k + 1, PageEnd(k + size, q))
         IN /\ Len(d) > l <=> size = l + 1 /\ k + l < Len(q)
            /\ SubSeq(q, 1, k) \o SubSeq(d, 1, Min({l, Len(d)})) = SubSeq(q, 1, PageEnd(k + l, q))
<1> DEFINE w == PageEnd(k + size, q) - k
           s == PageEnd(k + l, q) - k
           d == SubSeq(q, k + 1, PageEnd(k + size, q))
<1>1. /\ w \in Nat /\ s \in Nat /\ s <= w /\ k + w <= Len(q) /\ k + s <= Len(q)
      /\ k + w = PageEnd(k + size, q) /\ k + s = PageEnd(k + l, q)
      /\ s = IF l <= w THEN l ELSE w
      /\ w > l <=> size = l + 1 /\ k + l < Len(q)
  <2>1. Len(q) \in Nat
    BY LenProperties
  <2>2. /\ PageEnd(k + size, q) = IF k + size <= Len(q) THEN k + size ELSE Len(q)
        /\ PageEnd(k + l, q) = IF k + l <= Len(q) THEN k + l ELSE Len(q)
    BY DEF PageEnd
  <2>3. /\ w = (IF k + size <= Len(q) THEN k + size ELSE Len(q)) - k
        /\ s = (IF k + l <= Len(q) THEN k + l ELSE Len(q)) - k
    BY <2>2
  <2> HIDE DEF w, s
  <2>4. /\ w \in Nat /\ s \in Nat /\ s <= w /\ k + w <= Len(q) /\ k + s <= Len(q)
        /\ k + w = (IF k + size <= Len(q) THEN k + size ELSE Len(q))
        /\ k + s = (IF k + l <= Len(q) THEN k + l ELSE Len(q))
        /\ s = IF l <= w THEN l ELSE w
        /\ w > l <=> size = l + 1 /\ k + l < Len(q)
    <3> DEFINE n == Len(q)
    <3>1. n \in Nat /\ k <= n
      BY <2>1
    <3>2. w = (IF k + size <= n THEN k + size ELSE n) - k
      BY <2>3
    <3>3. s = (IF k + l <= n THEN k + l ELSE n) - k
      BY <2>3
    <3> HIDE DEF n
    <3>4. /\ w \in Nat /\ s \in Nat /\ s <= w /\ k + w <= n /\ k + s <= n
          /\ k + w = (IF k + size <= n THEN k + size ELSE n)
          /\ k + s = (IF k + l <= n THEN k + l ELSE n)
          /\ s = IF l <= w THEN l ELSE w
          /\ w > l <=> size = l + 1 /\ k + l < n
      BY <3>1, <3>2, <3>3, PageArithmetic
    <3> QED
      BY <3>4 DEF n
  <2> QED
    BY <2>2, <2>4
<1>2. d = SubSeq(q, k + 1, k + w)
  <2>1. k + w = PageEnd(k + size, q)
    BY <1>1
  <2> HIDE DEF w
  <2> QED
    BY <2>1, Zenon
<1> HIDE DEF w, s, d
<1>3. d \in Seq(A) /\ Len(d) = w /\ \A i \in 1 .. w : d[i] = q[k + i]
  <2>1. w \in Nat /\ Room(q, k, w)
    BY <1>1 DEF Room
  <2>2. Slice(A, q, k, w)
    BY <2>1, SliceIs
  <2> QED
    BY <1>2, <2>2, Zenon DEF Slice
<1>4. Min({l, Len(d)}) = s
  BY <1>1, <1>3, MinOfTwo
<1>5. SubSeq(d, 1, s) = SubSeq(q, k + 1, k + s)
  <2>a. s \in Nat /\ Room(q, k, s) /\ 0 \in Nat /\ Room(d, 0, s)
    BY <1>1, <1>3 DEF Room
  <2>b. Slice(A, q, k, s) /\ Slice(A, d, 0, s)
    BY <1>3, <2>a, SliceIs
  <2>1. /\ SubSeq(q, k + 1, k + s) \in Seq(A) /\ Len(SubSeq(q, k + 1, k + s)) = s
        /\ \A i \in 1 .. s : SubSeq(q, k + 1, k + s)[i] = q[k + i]
    BY <2>b DEF Slice
  <2>2. /\ SubSeq(d, 0 + 1, 0 + s) \in Seq(A) /\ Len(SubSeq(d, 0 + 1, 0 + s)) = s
        /\ \A i \in 1 .. s : SubSeq(d, 0 + 1, 0 + s)[i] = d[0 + i]
    BY <2>b DEF Slice
  <2>3. 0 + 1 = 1 /\ 0 + s = s /\ \A i \in 1 .. s : 0 + i = i /\ i \in 1 .. w
    BY <1>1
  <2>4. \A i \in 1 .. s : SubSeq(d, 1, s)[i] = SubSeq(q, k + 1, k + s)[i]
    BY <1>3, <2>1, <2>2, <2>3
  <2>5. SubSeq(d, 1, s) \in Seq(A) /\ Len(SubSeq(d, 1, s)) = s
    BY <2>2, <2>3
  <2> QED
    BY <2>1, <2>4, <2>5, SeqEqual
<1>6. SubSeq(q, 1, k) \o SubSeq(q, k + 1, k + s) = SubSeq(q, 1, k + s)
  <2>1. 1 \in 1 .. Len(q) + 1 /\ k \in 1 - 1 .. Len(q) /\ k + s \in k .. Len(q)
    BY <1>1, LenProperties
  <2> QED
    BY <2>1, ConcatAdjacentSubSeq
<1>7. /\ Len(d) > l <=> size = l + 1 /\ k + l < Len(q)
      /\ SubSeq(q, 1, k) \o SubSeq(d, 1, Min({l, Len(d)})) = SubSeq(q, 1, PageEnd(k + l, q))
  BY <1>1, <1>3, <1>4, <1>5, <1>6
<1> QED
  BY <1>7 DEF d

\* And past the end there is nothing more.
LEMMA PastEnd ==
  ASSUME NEW A, NEW q \in Seq(A), NEW k \in Nat, Len(q) < k, NEW l \in Nat \ {0},
         NEW size \in {l, l + 1}
  PROVE  LET d == SubSeq(q, k + 1, PageEnd(k + size, q))
         IN /\ ~(Len(d) > l)
            /\ SubSeq(q, 1, PageEnd(k, q)) \o SubSeq(d, 1, Min({l, Len(d)})) = SubSeq(q, 1, PageEnd(k + l, q))
<1> DEFINE d == SubSeq(q, k + 1, PageEnd(k + size, q))
<1>1. Len(q) \in Nat
  BY LenProperties
<1>2. PageEnd(k + size, q) = Len(q) /\ PageEnd(k + l, q) = Len(q) /\ PageEnd(k, q) = Len(q)
  BY <1>1 DEF PageEnd
<1>3. d = <<>>
  <2>1. Len(q) < k + 1 /\ k + 1 \in Int /\ Len(q) \in Int
    BY <1>1
  <2>2. SubSeq(q, k + 1, Len(q)) = <<>>
    BY <2>1, SubSeqEmpty
  <2> QED
    BY <1>2, <2>2
<1>4. Len(<<>>) = 0 /\ Min({l, 0}) = 0 /\ SubSeq(<<>>, 1, 0) = <<>>
  BY MinOfTwo, SubSeqEmpty
<1>5. SubSeq(q, 1, Len(q)) = q /\ q \o <<>> = q
  BY SubSeqFull, ConcatEmptySeq
<1> HIDE DEF d
<1>6. Len(d) = 0 /\ SubSeq(d, 1, Min({l, Len(d)})) = <<>>
  <2>1. Len(d) = 0
    BY <1>3, <1>4
  <2> QED
    BY <1>3, <1>4, <2>1
<1>7. SubSeq(q, 1, PageEnd(k, q)) = q /\ SubSeq(q, 1, PageEnd(k + l, q)) = q
  BY <1>2, <1>5
<1>8. /\ ~(Len(d) > l)
      /\ SubSeq(q, 1, PageEnd(k, q)) \o SubSeq(d, 1, Min({l, Len(d)})) = SubSeq(q, 1, PageEnd(k + l, q))
  <2>1. ~(Len(d) > l)
    BY <1>6
  <2> QED
    BY <1>5, <1>6, <1>7, <2>1
<1> QED
  BY <1>8 DEF d

LEMMA ByOffsetIs ==
  ASSUME ByOffset(request)
  PROVE  /\ request \in Requests /\ Walks(request) /\ ~Keyset(request)
         /\ request.limit \in Nat \ {0}
         /\ Statements(request) = IF Exact(request) THEN {"data", "count"} ELSE {"data"}
         /\ Size \in {request.limit, request.limit + 1} /\ (Size = request.limit <=> Exact(request))
BY RequestIs DEF ByOffset, Statements, Size

LEMMA OffsetInit == Init => OffsetInv
<1> SUFFICES ASSUME Init, ByOffset(request) PROVE PlaceInv
  BY DEF Init, OffsetInv
<1>1. /\ table \in Tables /\ page = 1 /\ cursor = None /\ open = Statements(request)
      /\ "data" \in open /\ (Exact(request) => "count" \in open)
      /\ given = <<>> /\ done = FALSE
  BY ByOffsetIs DEF Init
<1>2. Start = 0
  BY <1>1, ByOffsetIs DEF Start
<1>3. ASSUME NEW q \in Results(request, None, RowsOf(table))
      PROVE  given = SubSeq(q, 1, PageEnd(Start, q))
  <2>1. Len(q) \in Nat
    BY <1>1, OneResult, LenProperties
  <2>2. SubSeq(q, 1, 0) = <<>> /\ PageEnd(0, q) = 0
    BY <2>1, SubSeqEmpty DEF PageEnd
  <2> QED
    BY <1>1, <1>2, <2>2
<1>4. done \in BOOLEAN
  BY <1>1, Zenon
<1>5. page \in Nat \ {0} /\ open \subseteq Statements(request)
  BY <1>1
<1> QED
  BY <1>1, <1>3, <1>4, <1>5 DEF PlaceInv

LEMMA OffsetRead == ByOffset(request) /\ PlaceInv /\ ReadData => PlaceInv'
<1> SUFFICES ASSUME ByOffset(request), PlaceInv, ReadData PROVE PlaceInv'
  OBVIOUS
<1> DEFINE R == Results(request, None, RowsOf(table))
<1>1. /\ UNCHANGED <<request, table, page, cursor, total, given, done>>
      /\ "data" \in open /\ open' = open \ {"data"} /\ ~done /\ cursor = None
      /\ table \in Tables
  BY DEF ReadData, PlaceInv
<1>2. PICK q \in R : data' = SubSeq(q, Start + 1, Min({Start + Size, Len(q)}))
  BY <1>1, ByOffsetIs DEF ReadData, Start, Size
<1>3. Start \in Nat /\ Size \in Nat /\ Len(q) \in Nat
  <2>1. Len(q) \in Nat
    BY <1>1, OneResult, LenProperties
  <2>2. page \in Nat \ {0}
    BY DEF PlaceInv
  <2> QED
    BY <2>1, <2>2, ByOffsetIs, NextPlace DEF Start
<1>4. data' = SubSeq(q, Start + 1, PageEnd(Start + Size, q))
  BY <1>2, <1>3, MinOfTwo DEF PageEnd
<1>5. \A p \in R : p = q
  BY <1>1, OneResult
<1>6. Results(request, None, RowsOf(table))' = R /\ R # {} /\ Start' = Start /\ Size' = Size
  BY <1>1, <1>2 DEF Start, Size
<1>7. \A p \in R : /\ given = SubSeq(p, 1, PageEnd(Start, p))
                   /\ data' = SubSeq(p, Start + 1, PageEnd(Start + Size, p))
  BY <1>1, <1>4, <1>5 DEF PlaceInv
<1> HIDE DEF R
<1>8. \A p \in Results(request, None, RowsOf(table))' :
        IF done' THEN given' = p
        ELSE /\ given' = SubSeq(p, 1, PageEnd(Start', p))
             /\ "data" \notin open' => data' = SubSeq(p, Start' + 1, PageEnd(Start' + Size', p))
  BY <1>1, <1>6, <1>7
<1> QED
  BY <1>1, <1>6, <1>8 DEF PlaceInv, PageEnd

LEMMA OffsetCount == ByOffset(request) /\ PlaceInv /\ ReadCount => PlaceInv'
BY DEF ReadCount, PlaceInv, Start, Size, PageEnd

\* There is a next page while the sequence goes on, and maybe some that are empty.
LEMMA NextIsMore ==
  ASSUME ByOffset(request), PlaceInv, open = {}, ~done,
         NEW q \in Results(request, None, RowsOf(table))
  PROVE  /\ page * request.limit < Len(q) => HasNext
         /\ given \o SubSeq(data, 1, Min({request.limit, Len(data)}))
              = SubSeq(q, 1, PageEnd(page * request.limit, q))
<1> DEFINE L == request.limit
           A == Output(request, RowsOf(table))
           N == page * L
<1>1. /\ L \in Nat \ {0} /\ Size \in {L, L + 1} /\ (Size = L <=> Exact(request))
      /\ page \in Nat \ {0} /\ table \in Tables
  BY ByOffsetIs DEF PlaceInv
<1>2. Start \in Nat /\ Start + L = N /\ N \in Nat /\ L <= N
  BY <1>1, NextPlace DEF Start
<1>3. q \in Seq(A) /\ Len(q) \in Nat
  BY <1>1, OneResult, LenProperties
<1>4. /\ given = SubSeq(q, 1, PageEnd(Start, q))
      /\ data = SubSeq(q, Start + 1, PageEnd(Start + Size, q))
  BY DEF PlaceInv
<1> HIDE DEF A
<1>5. /\ Len(data) > L <=> Size = L + 1 /\ Start + L < Len(q)
      /\ given \o SubSeq(data, 1, Min({L, Len(data)})) = SubSeq(q, 1, PageEnd(Start + L, q))
  <2> HIDE DEF N, L
  <2>1. Start \in Nat /\ L \in Nat \ {0} /\ Size \in {L, L + 1}
    BY <1>1, <1>2
  <2> DEFINE d == SubSeq(q, Start + 1, PageEnd(Start + Size, q))
  <2>2. CASE Start <= Len(q)
    <3>1. /\ Len(d) > L <=> Size = L + 1 /\ Start + L < Len(q)
          /\ SubSeq(q, 1, Start) \o SubSeq(d, 1, Min({L, Len(d)})) = SubSeq(q, 1, PageEnd(Start + L, q))
      BY <1>3, <2>1, <2>2, SliceJoins
    <3>2. d = data /\ PageEnd(Start, q) = Start
      BY <1>4, <2>2 DEF PageEnd
    <3> HIDE DEF d
    <3> QED
      BY <1>4, <3>1, <3>2
  <2>3. CASE ~(Start <= Len(q))
    <3>1. Len(q) < Start /\ ~(Start + L < Len(q))
      BY <1>3, <2>1, <2>3
    <3>2. /\ ~(Len(d) > L)
          /\ SubSeq(q, 1, PageEnd(Start, q)) \o SubSeq(d, 1, Min({L, Len(d)})) = SubSeq(q, 1, PageEnd(Start + L, q))
      BY <1>3, <2>1, <3>1, PastEnd
    <3>3. d = data
      BY <1>4
    <3> HIDE DEF d
    <3> QED
      BY <1>4, <3>1, <3>2, <3>3
  <2> QED
    BY <2>2, <2>3
<1> HIDE DEF N
<1>6. CASE Exact(request)
  <2>1. total \in Counts(request, RowsOf(table))
    BY <1>6 DEF PlaceInv
  <2>2. total \in Nat /\ (Len(q) <= total \/ Len(q) <= 1)
    BY <1>1, <2>1, OneResult DEF Totals
  <2>3. N < Len(q) => N < total
    BY <1>1, <1>2, <1>3, <2>2
  <2> QED
    BY <1>2, <1>5, <1>6, <2>3 DEF HasNext, N
<1>7. CASE ~Exact(request)
  <2>1. Size = L + 1
    BY <1>1, <1>7
  <2> QED
    BY <1>2, <1>5, <1>7, <2>1 DEF HasNext, N
<1> QED
  BY <1>6, <1>7

LEMMA OffsetAnswer == ByOffset(request) /\ PlaceInv /\ Answer => PlaceInv'
<1> SUFFICES ASSUME ByOffset(request), PlaceInv, Answer PROVE PlaceInv'
  OBVIOUS
<1> DEFINE L == request.limit
           R == Results(request, None, RowsOf(table))
<1>1. /\ open = {} /\ ~done /\ data' = <<>> /\ UNCHANGED <<request, table, total, writes, still>>
      /\ table \in Tables /\ cursor = None /\ page \in Nat \ {0} /\ R # {} /\ ~Keyset(request)
      /\ L \in Nat \ {0}
  BY ByOffsetIs DEF Answer, PlaceInv
<1>2. PICK q \in R : TRUE
  BY <1>1
<1>3. /\ page * L < Len(q) => HasNext
      /\ given \o SubSeq(data, 1, Min({L, Len(data)})) = SubSeq(q, 1, PageEnd(page * L, q))
  BY <1>1, <1>2, NextIsMore
<1>4. \A p \in R : p = q
  BY <1>1, OneResult
<1>5. q \in Seq(Output(request, RowsOf(table))) /\ Len(q) \in Nat
  BY <1>1, OneResult, LenProperties
<1>6. page * L \in Nat /\ (page + 1 - 1) * L = page * L /\ page + 1 \in Nat \ {0}
  BY <1>1, NextPlace
<1>7. Results(request, None, RowsOf(table))' = R
  BY <1>1
<1> HIDE DEF R
<1>8. CASE HasNext
  <2>1. /\ page' = page + 1 /\ done' = FALSE /\ cursor' = None /\ open' = Statements(request)
        /\ given' = SubSeq(q, 1, PageEnd(page * L, q))
    BY <1>1, <1>3, <1>8 DEF Answer
  <2>3. Start' = page * L
    BY <1>1, <1>6, <2>1 DEF Start
  <2>4. \A p \in R : given' = SubSeq(p, 1, PageEnd(Start', p))
    BY <1>4, <2>1, <2>3
  <2>5. "data" \in open' /\ (Exact(request) => "count" \in open')
    BY <2>1 DEF Statements
  <2>6. done' \in BOOLEAN /\ ~done'
    BY <2>1, Zenon
  <2>7. page' \in Nat \ {0}
    BY <1>6, <2>1
  <2>8. open' \subseteq Statements(request)'
    BY <1>1, <2>1 DEF Statements, Exact
  <2>9. Exact(request)' <=> Exact(request)
    BY <1>1
  <2> QED
    BY <1>1, <1>7, <2>1, <2>4, <2>5, <2>6, <2>7, <2>8, <2>9 DEF PlaceInv
<1>9. CASE ~HasNext
  <2>1. /\ page' = page /\ done' = TRUE /\ cursor' = None /\ open' = {}
        /\ given' = SubSeq(q, 1, PageEnd(page * L, q))
    BY <1>1, <1>3, <1>9 DEF Answer
  <2>2. PageEnd(page * L, q) = Len(q)
    BY <1>3, <1>5, <1>6, <1>9 DEF PageEnd
  <2>3. given' = q
    BY <1>5, <2>1, <2>2, SubSeqFull
  <2>4. done' \in BOOLEAN
    BY <2>1, Zenon
  <2>5. Exact(request)' /\ "count" \notin open' => total' \in Counts(request, RowsOf(table))'
    BY <1>1 DEF PlaceInv
  <2> QED
    BY <1>1, <1>4, <1>7, <2>1, <2>3, <2>4, <2>5 DEF PlaceInv
<1> QED
  BY <1>8, <1>9

LEMMA OffsetStep == OffsetInv /\ [Next]_vars => OffsetInv'
<1> SUFFICES ASSUME OffsetInv, [Next]_vars PROVE OffsetInv'
  OBVIOUS
<1>1. CASE Write
  <2>1. writes' = writes + 1
    BY <1>1 DEF Write
  <2>2. writes' \in Nat /\ writes' # 0
    BY <2>1 DEF OffsetInv
  <2> QED
    BY <2>2 DEF OffsetInv
<1>2. CASE ~Write
  <2>1. UNCHANGED <<request, writes>>
    BY <1>2 DEF Next, ReadData, ReadCount, Answer, vars, walk
  <2>2. writes' \in Nat
    BY <2>1 DEF OffsetInv
  <2> SUFFICES ASSUME ByOffset(request), PlaceInv PROVE PlaceInv'
    BY <2>1, <2>2 DEF OffsetInv
  <2>3. CASE UNCHANGED vars
    BY <2>3 DEF vars, walk, PlaceInv, Start, Size, PageEnd
  <2> QED
    BY <1>2, <2>3, OffsetRead, OffsetCount, OffsetAnswer DEF Next
<1> QED
  BY <1>1, <1>2

LEMMA OffsetInvImplies == OffsetInv => (OneEach(request) /\ request \in Requests => OffsetPagesAddUp)
<1> SUFFICES ASSUME ByOffset(request), PlaceInv, done
             PROVE  /\ given \in Results(request, None, RowsOf(table))
                    /\ Exact(request) /\ (request.kind = "groups" => request.topN = None /\ ~Scalar(request))
                         => total = Len(given)
  BY DEF OffsetInv, ByOffset, OffsetPagesAddUp
<1>1. open = {} /\ table \in Tables /\ Results(request, None, RowsOf(table)) # {}
  BY DEF PlaceInv
<1>2. PICK q \in Results(request, None, RowsOf(table)) : given = q
  BY <1>1 DEF PlaceInv
<1>3. Exact(request) => total \in Counts(request, RowsOf(table))
  BY <1>1 DEF PlaceInv
<1>4. \A c \in Counts(request, RowsOf(table)) : Totals(request, c, q)
  BY <1>1, OneResult
<1> QED
  BY <1>2, <1>3, <1>4 DEF Totals

\* A walk by offset (getAll(), aggregatePaginate(), lookupPopulate()) over a table
\* at rest gives the rows of one statement, each once and in order, and its
\* total counts them, or at least them under a topN: for every table, limit,
\* count strategy and request, but lookups that find several rows for one.
THEOREM OffsetWalksAddUp == Spec => [](OneEach(request) => OffsetPagesAddUp)
<1>1. Spec => []OffsetInv
  BY OffsetInit, OffsetStep, PTL DEF Spec
<1>2. OffsetInv /\ RequestInv => (OneEach(request) => OffsetPagesAddUp)
  BY OffsetInvImplies DEF RequestInv
<1> QED
  BY <1>1, <1>2, RequestStays, PTL

-----------------------------------------------------------------------------
(* Lookups, each once. *)

BaseCols == {"id", "g", "v"}

\* Aliases are distinct (normalizeLookups), so the names of joined columns are.
WellNamed(specs) ==
  \A k \in DOMAIN specs :
    LET names == Range(specs[k].named)
    IN /\ DOMAIN specs[k].named = BaseCols /\ specs[k].foreign \in BaseCols
       /\ specs[k].select \subseteq BaseCols
       /\ \A c, d \in BaseCols : specs[k].named[c] = specs[k].named[d] => c = d
       /\ names \cap BaseCols = {} /\ specs[k].as \notin BaseCols
       /\ \A l \in DOMAIN specs : l # k =>
            names \cap Range(specs[l].named) = {} /\ specs[l].as # specs[k].as

\* Columns of the rows that the first n joins give.
ColsTo(specs, n) == BaseCols \cup UNION {Range(specs[l].named) : l \in 1 .. n}

IsRecord(x, cols) == x = [c \in cols |-> x[c]]

\* A row and the columns of what it is joined with.
Widens(j, x, cols, spec, m) ==
  /\ IsRecord(j, cols \cup Range(spec.named))
  /\ \A c \in cols : j[c] = x[c]
  /\ \A n \in Range(spec.named) \ cols :
       j[n] = IF m = None THEN None ELSE m[CHOOSE c \in DOMAIN spec.named : spec.named[c] = n]

LEMMA JoinedIs ==
  ASSUME NEW spec, NEW x, NEW cols, IsRecord(x, cols), NEW m
  PROVE  Widens(Joined(spec, x, m), x, cols, spec, m)
<1> DEFINE Found(n) == IF m = None THEN None ELSE m[CHOOSE c \in DOMAIN spec.named : spec.named[c] = n]
           more == [n \in Range(spec.named) |-> Found(n)]
           j == Joined(spec, x, m)
<1>1. j = Extended(x, more)
  BY DEF Joined
<1>2. DOMAIN x = cols /\ DOMAIN more = Range(spec.named)
  BY DEF IsRecord
<1>3. j = [c \in cols \cup Range(spec.named) |-> IF c \in cols THEN x[c] ELSE more[c]]
  BY <1>1, <1>2 DEF Extended
<1>4. \A n \in Range(spec.named) : more[n] = Found(n)
  OBVIOUS
<1> HIDE DEF j, more, Found
<1>5. IsRecord(j, cols \cup Range(spec.named))
  <2>1. \A c \in cols \cup Range(spec.named) : j[c] = IF c \in cols THEN x[c] ELSE more[c]
    BY <1>3
  <2> QED
    BY <1>3, <2>1 DEF IsRecord
<1>6. \A c \in cols : j[c] = x[c]
  BY <1>3
<1>7. \A n \in Range(spec.named) \ cols : j[n] = Found(n)
  BY <1>3, <1>4
<1> QED
  BY <1>5, <1>6, <1>7 DEF Widens, j, Found

\* The joined rows of one base row come from those of it before the join.
LEMMA OfRowJoin ==
  ASSUME NEW spec, NEW rows, HasIds(rows), NEW foreign, NEW r
  PROVE  OfRow(LeftJoin(rows, spec, foreign), r)
           = UNION {{Joined(spec, x, m) : m \in OrNone(Matches(spec, x, foreign))} : x \in OfRow(rows, r)}
<1> DEFINE M(x) == OrNone(Matches(spec, x, foreign))
           J == LeftJoin(rows, spec, foreign)
<1>1. J = UNION {{Joined(spec, x, m) : m \in M(x)} : x \in rows}
  BY DEF LeftJoin
<1>2. ASSUME NEW x \in rows, NEW m PROVE Joined(spec, x, m).id = x.id
  <2>1. PICK more : Joined(spec, x, m) = Extended(x, more)
    BY DEF Joined
  <2>2. "id" \in DOMAIN x
    BY DEF HasIds
  <2>3. Extended(x, more)["id"] = x["id"]
    BY <2>2, ExtendedIs
  <2> QED
    BY <2>1, <2>3
<1>3. OfRow(rows, r) = {x \in rows : x.id = r.id} /\ OfRow(J, r) = {j \in J : j.id = r.id}
  BY DEF OfRow
<1> HIDE DEF J, M
<1>4. \A j : j \in J <=> \E x \in rows : \E m \in M(x) : j = Joined(spec, x, m)
  BY <1>1
<1>5. \A j : j \in OfRow(J, r) <=> \E x \in OfRow(rows, r) : \E m \in M(x) : j = Joined(spec, x, m)
  BY <1>2, <1>3, <1>4
<1>6. \A j : j \in UNION {{Joined(spec, x, m) : m \in M(x)} : x \in OfRow(rows, r)}
               <=> \E x \in OfRow(rows, r) : \E m \in M(x) : j = Joined(spec, x, m)
  OBVIOUS
<1>7. OfRow(J, r) = UNION {{Joined(spec, x, m) : m \in M(x)} : x \in OfRow(rows, r)}
  BY <1>5, <1>6
<1> QED
  BY <1>7 DEF J, M

\* The joined rows of one base row, told apart by what they are with.
Traced(e, js, ms, cols, r) ==
  /\ js = {e[m] : m \in ms}
  /\ \A m, p \in ms : e[m] = e[p] => m = p
  /\ \A m \in ms : IsRecord(e[m], cols) /\ \A c \in BaseCols : e[m][c] = r[c]

\* What the columns of one lookup have in them.
Carries(e, ms, spec) ==
  \A m \in ms : \A c \in BaseCols : e[m][spec.named[c]] = IF m = None THEN None ELSE m[c]

\* A join to one row at most adds columns.
Widened(t, spec, rows, r, e, ms, cols) ==
  \E f : /\ Traced(f, OfRow(LeftJoin(rows, spec, RowsOf(t)), r), ms, cols \cup Range(spec.named), r)
         /\ \A m \in ms : \A c \in cols : f[m][c] = e[m][c]

LEMMA SingleTraced ==
  ASSUME NEW t \in Tables, NEW spec, spec.foreign = "id", NEW rows, HasIds(rows), NEW r,
         NEW e, NEW ms, NEW cols, BaseCols \subseteq cols, Traced(e, OfRow(rows, r), ms, cols, r)
  PROVE  Widened(t, spec, rows, r, e, ms, cols)
<1> DEFINE T == RowsOf(t)
           M(x) == OrNone(Matches(spec, x, T))
           The(x) == CHOOSE m \in M(x) : TRUE
           f == [m \in ms |-> Joined(spec, e[m], The(e[m]))]
           js == OfRow(LeftJoin(rows, spec, T), r)
           wide == cols \cup Range(spec.named)
<1>1. ASSUME NEW x PROVE M(x) = {The(x)}
  <2>1. M(x) # {}
    BY DEF OrNone
  <2>2. \A m, p \in M(x) : m = p
    <3>1. CASE Matches(spec, x, T) = {}
      BY <3>1 DEF OrNone
    <3>2. CASE Matches(spec, x, T) # {}
      BY <3>2, OneMatch DEF OrNone
    <3> QED
      BY <3>1, <3>2
  <2> HIDE DEF M
  <2> QED
    BY <2>1, <2>2
<1>2. js = UNION {{Joined(spec, x, m) : m \in M(x)} : x \in OfRow(rows, r)}
  BY OfRowJoin
<1> HIDE DEF M, The, js, wide
<1>3. js = {Joined(spec, x, The(x)) : x \in OfRow(rows, r)}
  BY <1>1, <1>2
<1>4. \A m \in ms : f[m] = Joined(spec, e[m], The(e[m]))
  OBVIOUS
<1> HIDE DEF f
<1>5. js = {f[m] : m \in ms}
  <2>1. OfRow(rows, r) = {e[m] : m \in ms}
    BY DEF Traced
  <2> QED
    BY <1>3, <1>4, <2>1
<1>6. \A m \in ms : IsRecord(f[m], wide) /\ \A c \in cols : f[m][c] = e[m][c]
  <2> SUFFICES ASSUME NEW m \in ms
               PROVE  IsRecord(f[m], wide) /\ \A c \in cols : f[m][c] = e[m][c]
    OBVIOUS
  <2> DEFINE x == e[m]
             y == The(e[m])
  <2>1. IsRecord(x, cols) /\ f[m] = Joined(spec, x, y)
    BY <1>4 DEF Traced
  <2> HIDE DEF x, y
  <2>2. Widens(Joined(spec, x, y), x, cols, spec, y)
    BY <2>1, JoinedIs
  <2> QED
    BY <2>1, <2>2 DEF Widens, wide, x
<1>7. ASSUME NEW m \in ms, NEW p \in ms, f[m] = f[p] PROVE m = p
  <2>1. \A c \in cols : e[m][c] = e[p][c]
    BY <1>6, <1>7
  <2>2. e[m] = [c \in cols |-> e[m][c]] /\ e[p] = [c \in cols |-> e[p][c]]
    BY DEF Traced, IsRecord
  <2>3. [c \in cols |-> e[m][c]] = [c \in cols |-> e[p][c]]
    BY <2>1
  <2>4. e[m] = e[p]
    BY <2>2, <2>3
  <2> QED
    BY <2>4 DEF Traced
<1>8. \A m \in ms : \A c \in BaseCols : f[m][c] = r[c]
  BY <1>6 DEF Traced
<1>9. Traced(f, js, ms, wide, r)
  BY <1>5, <1>6, <1>7, <1>8 DEF Traced
<1> QED
  BY <1>6, <1>9 DEF Widened, js, wide

\* The first join to many gives a row for each.
LEMMA ArrayTraced ==
  ASSUME NEW t \in Tables, NEW spec, NEW rows, HasIds(rows), NEW r, r \in RowsOf(t),
         NEW e, NEW cols, BaseCols \subseteq cols, Traced(e, OfRow(rows, r), {None}, cols, r),
         DOMAIN spec.named = BaseCols, spec.local \in BaseCols, Range(spec.named) \cap cols = {},
         \A c, d \in BaseCols : spec.named[c] = spec.named[d] => c = d
  PROVE  \E f : /\ Traced(f, OfRow(LeftJoin(rows, spec, RowsOf(t)), r),
                          OrNone(Matches(spec, r, RowsOf(t))), cols \cup Range(spec.named), r)
                /\ Carries(f, OrNone(Matches(spec, r, RowsOf(t))), spec)
<1> DEFINE T == RowsOf(t)
           x == e[None]
           ms == OrNone(Matches(spec, r, T))
           f == [m \in ms |-> Joined(spec, x, m)]
           js == OfRow(LeftJoin(rows, spec, T), r)
           wide == cols \cup Range(spec.named)
<1>1. OfRow(rows, r) = {x} /\ IsRecord(x, cols) /\ \A c \in BaseCols : x[c] = r[c]
  BY DEF Traced
<1>2. Matches(spec, x, T) = Matches(spec, r, T)
  BY <1>1 DEF Matches
<1> HIDE DEF x
<1>3. js = {Joined(spec, x, m) : m \in ms}
  BY <1>1, <1>2, OfRowJoin
<1> HIDE DEF ms, js, wide
<1>4. \A m \in ms : f[m] = Joined(spec, x, m)
  OBVIOUS
<1> HIDE DEF f
<1>5. js = {f[m] : m \in ms}
  BY <1>3, <1>4
<1>6. \A m \in ms : /\ IsRecord(f[m], wide) /\ \A c \in cols : f[m][c] = x[c]
                    /\ \A n \in Range(spec.named) \ cols :
                         f[m][n] = IF m = None THEN None ELSE m[CHOOSE c \in DOMAIN spec.named : spec.named[c] = n]
  <2> SUFFICES ASSUME NEW m \in ms
               PROVE  /\ IsRecord(f[m], wide) /\ \A c \in cols : f[m][c] = x[c]
                      /\ \A n \in Range(spec.named) \ cols :
                           f[m][n] = IF m = None THEN None ELSE m[CHOOSE c \in DOMAIN spec.named : spec.named[c] = n]
    OBVIOUS
  <2>1. Widens(Joined(spec, x, m), x, cols, spec, m)
    BY <1>1, JoinedIs
  <2>2. f[m] = Joined(spec, x, m)
    BY <1>4
  <2> QED
    BY <2>1, <2>2, Zenon DEF Widens, wide
<1>7. Carries(f, ms, spec)
  <2> SUFFICES ASSUME NEW m \in ms, NEW c \in BaseCols
               PROVE  f[m][spec.named[c]] = IF m = None THEN None ELSE m[c]
    BY DEF Carries
  <2>1. spec.named[c] \in Range(spec.named) \ cols
    BY DEF Range
  <2>2. (CHOOSE d \in DOMAIN spec.named : spec.named[d] = spec.named[c]) = c
    OBVIOUS
  <2> QED
    BY <1>6, <2>1, <2>2
<1>8. ASSUME NEW m \in ms, NEW p \in ms, f[m] = f[p] PROVE m = p
  <2>1. CASE Matches(spec, r, T) = {}
    BY <2>1 DEF ms, OrNone
  <2>2. CASE Matches(spec, r, T) # {}
    <3>1. m \in T /\ p \in T
      BY <2>2 DEF ms, OrNone, Matches
    <3>2. CASE m # None /\ p # None
      <4>1. f[m][spec.named["id"]] = m["id"] /\ f[p][spec.named["id"]] = p["id"]
        BY <1>7, <3>2 DEF Carries, BaseCols
      <4>2. m.id = p.id
        BY <1>8, <4>1
      <4> QED
        BY <3>1, <4>2, RowsAre
    <3>3. \A s \in T : s # None
      BY RowIs
    <3> QED
      BY <3>1, <3>2, <3>3
  <2> QED
    BY <2>1, <2>2
<1>9. \A m \in ms : \A c \in BaseCols : f[m][c] = r[c]
  BY <1>1, <1>6
<1>10. Traced(f, js, ms, wide, r)
  BY <1>5, <1>6, <1>8, <1>9 DEF Traced
<1> QED
  BY <1>7, <1>10 DEF js, ms, wide

\* The joined rows of one base row under several lookups, the k-th of which may
\* find many.
LEMMA ChainTraced ==
  ASSUME NEW t \in Tables, NEW specs, Len(specs) \in Nat, DOMAIN specs = 1 .. Len(specs),
         Keyed(specs), WellNamed(specs), NEW base \in SUBSET RowsOf(t), NEW r \in base,
         NEW k \in 1 .. Len(specs), specs[k].local \in BaseCols,
         \A l \in 1 .. Len(specs) : l # k => specs[l].single
  PROVE  LET ms == OrNone(Matches(specs[k], r, RowsOf(t)))
         IN \E e : /\ Traced(e, OfRow(LeftJoins(base, specs, RowsOf(t)), r), ms, ColsTo(specs, Len(specs)), r)
                   /\ Carries(e, ms, specs[k])
<1> DEFINE T == RowsOf(t)
           N == Len(specs)
           hits == OrNone(Matches(specs[k], r, T))
           M(n) == IF n < k THEN {None} ELSE hits
           C(n) == ColsTo(specs, n)
<1>0. PICK joined : Steps(joined, base, specs, T)
  BY LeftJoinsIs
<1>1. /\ LeftJoins(base, specs, T) = joined[N]
      /\ joined[0] = base
      /\ \A n \in 1 .. N : joined[n] = LeftJoin(joined[n - 1], specs[n], T)
  BY <1>0 DEF Steps
<1> DEFINE Good(n) == /\ HasIds(joined[n])
                      /\ \E e : /\ Traced(e, OfRow(joined[n], r), M(n), C(n), r)
                                /\ n >= k => Carries(e, M(n), specs[k])
           Bad == {n \in 0 .. N : ~Good(n)}
<1>2. \A n \in 1 .. N : C(n) = C(n - 1) \cup Range(specs[n].named)
  <2> SUFFICES ASSUME NEW n \in 1 .. N PROVE C(n) = C(n - 1) \cup Range(specs[n].named)
    OBVIOUS
  <2>1. 1 .. n = (1 .. n - 1) \cup {n}
    OBVIOUS
  <2> QED
    BY <2>1 DEF ColsTo
<1>3. \A n \in 0 .. N : BaseCols \subseteq C(n)
  BY DEF ColsTo
<1>4. Good(0)
  <2> DEFINE e == [m \in {None} |-> r]
  <2>1. HasIds(base) /\ OfRow(base, r) = {r} /\ DOMAIN r = BaseCols
    BY RowsAre DEF HasIds, OfRow, BaseCols
  <2>2. C(0) = BaseCols
    BY DEF ColsTo
  <2>3. r = [c \in BaseCols |-> r[c]]
    BY RowIs DEF BaseCols
  <2>4. e[None] = r
    OBVIOUS
  <2> HIDE DEF e
  <2>5. Traced(e, OfRow(base, r), {None}, BaseCols, r)
    BY <2>1, <2>3, <2>4 DEF Traced, IsRecord
  <2>6. 0 < k /\ ~(0 >= k) /\ M(0) = {None}
    OBVIOUS
  <2> QED
    BY <1>1, <2>1, <2>2, <2>5, <2>6
<1>5. ASSUME NEW n \in 1 .. N, Good(n - 1) PROVE Good(n)
  <2> DEFINE spec == specs[n]
             cols == C(n - 1)
             wide == cols \cup Range(spec.named)
             ms == M(n - 1)
  <2>1. HasIds(joined[n - 1]) /\ joined[n] = LeftJoin(joined[n - 1], spec, T) /\ C(n) = wide
    BY <1>1, <1>2, <1>5
  <2>2. HasIds(joined[n])
    BY <2>1, JoinKeeps
  <2>3. PICK e : /\ Traced(e, OfRow(joined[n - 1], r), ms, cols, r)
                 /\ n - 1 >= k => Carries(e, ms, specs[k])
    BY <1>5
  <2>4. BaseCols \subseteq cols
    BY DEF ColsTo
  <2>5. CASE n # k
    <3>1. spec.foreign = "id"
      BY <2>5 DEF Keyed
    <3>2. M(n) = ms /\ (n >= k => n - 1 >= k)
      BY <2>5
    <3> DEFINE before == joined[n - 1]
    <3>a. HasIds(before) /\ Traced(e, OfRow(before, r), ms, cols, r)
      BY <2>1, <2>3
    <3> HIDE DEF M, C, spec, cols, ms, before
    <3>b. Widened(t, spec, before, r, e, ms, cols)
      BY <2>4, <3>1, <3>a, SingleTraced
    <3>3. PICK f : /\ Traced(f, OfRow(LeftJoin(joined[n - 1], spec, T), r), ms, cols \cup Range(spec.named), r)
                   /\ \A m \in ms : \A c \in cols : f[m][c] = e[m][c]
      BY <3>b DEF Widened, before
    <3>4. n >= k => \A c \in BaseCols : specs[k].named[c] \in cols
      <4> SUFFICES ASSUME n >= k, NEW c \in BaseCols PROVE specs[k].named[c] \in cols
        OBVIOUS
      <4>1. k \in 1 .. n - 1
        BY <2>5
      <4>2. specs[k].named[c] \in Range(specs[k].named)
        BY DEF WellNamed, Range
      <4> QED
        BY <4>1, <4>2 DEF ColsTo, C, cols
    <3>5. n >= k => Carries(f, ms, specs[k])
      BY <2>3, <3>2, <3>3, <3>4 DEF Carries
    <3> QED
      BY <2>1, <2>2, <3>2, <3>3, <3>5
  <2>6. CASE n = k
    <3>1. ms = {None} /\ M(n) = hits
      BY <2>6
    <3>2. /\ DOMAIN spec.named = BaseCols /\ spec.local \in BaseCols
          /\ \A c, d \in BaseCols : spec.named[c] = spec.named[d] => c = d
      BY <2>6 DEF WellNamed
    <3>3. Range(spec.named) \cap cols = {}
      <4>1. Range(spec.named) \cap BaseCols = {}
        BY <2>6 DEF WellNamed
      <4>2. ASSUME NEW l \in 1 .. n - 1 PROVE Range(spec.named) \cap Range(specs[l].named) = {}
        <5>1. l \in DOMAIN specs /\ l # n
          OBVIOUS
        <5> QED
          BY <5>1 DEF WellNamed
      <4> QED
        BY <4>1, <4>2 DEF ColsTo
    <3>4. r \in T
      OBVIOUS
    <3> HIDE DEF M, C, spec, cols, ms, hits, T
    <3>5. \E f : /\ Traced(f, OfRow(LeftJoin(joined[n - 1], spec, T), r), OrNone(Matches(spec, r, T)), cols \cup Range(spec.named), r)
                 /\ Carries(f, OrNone(Matches(spec, r, T)), spec)
      BY <2>1, <2>3, <2>4, <3>1, <3>2, <3>3, <3>4, ArrayTraced DEF T
    <3>6. OrNone(Matches(spec, r, T)) = hits /\ spec = specs[k]
      BY <2>6 DEF hits, spec
    <3> QED
      BY <2>1, <2>2, <3>1, <3>5, <3>6
  <2> QED
    BY <2>5, <2>6
<1>6. Bad = {}
  <2> SUFFICES ASSUME Bad # {} PROVE FALSE
    OBVIOUS
  <2> HIDE DEF Good
  <2>a. Bad \in SUBSET Nat
    OBVIOUS
  <2>1. PICK n \in Bad : \A l \in Bad : n <= l
    BY <2>a, LeastPosition
  <2>2. n # 0 /\ n \in 0 .. N /\ ~Good(n)
    BY <1>4, <2>1
  <2>3. n \in 1 .. N /\ n - 1 \in 0 .. N /\ n - 1 \notin Bad
    BY <2>1, <2>2
  <2> QED
    BY <1>5, <2>2, <2>3
<1>7. N \in 0 .. N /\ ~(N < k) /\ N >= k
  OBVIOUS
<1>8. Good(N)
  <2> HIDE DEF Good
  <2> QED
    BY <1>6, <1>7
<1>9. M(N) = hits
  BY <1>7
<1> HIDE DEF M
<1> QED
  BY <1>1, <1>7, <1>8, <1>9

Object(spec, f) == [c \in spec.select |-> f[c]]

\* The array of a base row has every match in it once.
LEMMA ArrayIs ==
  ASSUME NEW t \in Tables, NEW spec, NEW r, NEW js, NEW e, NEW cols,
         DOMAIN spec.named = BaseCols, spec.foreign \in BaseCols, spec.select \subseteq BaseCols,
         Traced(e, js, OrNone(Matches(spec, r, RowsOf(t))), cols, r),
         Carries(e, OrNone(Matches(spec, r, RowsOf(t))), spec)
  PROVE  LET hits  == Matches(spec, r, RowsOf(t))
             array == ArrayPayload(spec, js).array
         IN /\ DOMAIN array = {Object(spec, f) : f \in hits}
            /\ \A p \in DOMAIN array : array[p] = Cardinality({f \in hits : Object(spec, f) = p})
<1> DEFINE T == RowsOf(t)
           hits == Matches(spec, r, T)
           found == {j \in js : j[spec.named[spec.foreign]] # None}
           array == ArrayPayload(spec, js).array
<1>1. IsFiniteSet(hits) /\ \A f \in hits : f # None /\ f[spec.foreign] # None
  <2>1. IsFiniteSet(hits)
    BY RowsFinite, FS_Subset DEF Matches
  <2>2. ASSUME NEW f \in hits PROVE f # None /\ f[spec.foreign] # None
    <3>1. f \in T /\ Selects(Equal(f[spec.foreign], r[spec.local]))
      BY DEF Matches
    <3>2. f # None
      BY <3>1, RowIs
    <3> QED
      BY <3>1, <3>2, LogicalNone DEF Selects, Equal
  <2> QED
    BY <2>1, <2>2
<1>2. /\ js = {e[m] : m \in OrNone(hits)}
      /\ \A m, p \in OrNone(hits) : e[m] = e[p] => m = p
      /\ \A m \in OrNone(hits) : \A c \in BaseCols : e[m][spec.named[c]] = IF m = None THEN None ELSE m[c]
  BY DEF Traced, Carries
<1>3. array = [p \in {Payload(spec, j) : j \in found} |-> Cardinality({j \in found : Payload(spec, j) = p})]
  BY DEF ArrayPayload
<1> HIDE DEF hits, array, found
<1>4. found = {e[f] : f \in hits}
  <2>1. CASE hits = {}
    <3>1. js = {e[None]} /\ e[None][spec.named[spec.foreign]] = None
      BY <1>2, <2>1 DEF OrNone
    <3> QED
      BY <2>1, <3>1 DEF found
  <2>2. CASE hits # {}
    <3>1. OrNone(hits) = hits
      BY <2>2 DEF OrNone
    <3>2. \A f \in hits : e[f][spec.named[spec.foreign]] # None
      BY <1>1, <1>2, <3>1
    <3>3. js = {e[f] : f \in hits}
      BY <1>2, <3>1
    <3> QED
      BY <3>2, <3>3 DEF found
  <2> QED
    BY <2>1, <2>2
<1>5. \A f, h \in hits : e[f] = e[h] => f = h
  BY <1>2 DEF OrNone
<1>6. ASSUME NEW f \in hits PROVE Payload(spec, e[f]) = Object(spec, f)
  <2>1. f \in OrNone(hits) /\ f # None
    BY <1>1 DEF OrNone
  <2>2. \A c \in spec.select : e[f][spec.named[c]] = f[c]
    BY <1>2, <2>1
  <2> QED
    BY <2>2 DEF Payload, Object
<1>7. {Payload(spec, j) : j \in found} = {Object(spec, f) : f \in hits}
  <2>1. \A j \in found : \E f \in hits : Payload(spec, j) = Object(spec, f)
    BY <1>4, <1>6
  <2>2. \A f \in hits : \E j \in found : Payload(spec, j) = Object(spec, f)
    BY <1>4, <1>6
  <2> QED
    BY <2>1, <2>2, Zenon
<1>8. ASSUME NEW p
      PROVE  Cardinality({j \in found : Payload(spec, j) = p}) = Cardinality({f \in hits : Object(spec, f) = p})
  <2> DEFINE S == {f \in hits : Object(spec, f) = p}
  <2>1. {j \in found : Payload(spec, j) = p} = {e[f] : f \in S}
    BY <1>4, <1>6
  <2>2. IsFiniteSet(S) /\ \A f, h \in S : e[f] = e[h] => f = h
    BY <1>1, <1>5, FS_Subset
  <2> HIDE DEF S
  <2>3. Cardinality({e[f] : f \in S}) = Cardinality(S)
    BY <2>2, ImageCounts
  <2> QED
    BY <2>1, <2>3 DEF S
<1> QED
  BY <1>3, <1>7, <1>8 DEF hits, array

LEMMA HydratedArray ==
  ASSUME NEW specs, WellNamed(specs), NEW k \in DOMAIN specs, ~specs[k].single,
         NEW r, DOMAIN r = BaseCols, NEW group
  PROVE  Hydrated(r, specs, group)[specs[k].as] = ArrayPayload(specs[k], group)
<1> DEFINE names == {specs[l].as : l \in DOMAIN specs}
           Of(as) == specs[CHOOSE l \in DOMAIN specs : specs[l].as = as]
           Filled(spec) == IF spec.single THEN SinglePayload(spec, CHOOSE j \in group : TRUE)
                                          ELSE ArrayPayload(spec, group)
           more == [as \in names |-> Filled(Of(as))]
<1>1. Hydrated(r, specs, group) = Extended(r, more)
  BY DEF Hydrated
<1>2. specs[k].as \in names /\ specs[k].as \notin BaseCols
  BY DEF WellNamed
<1>3. Of(specs[k].as) = specs[k]
  <2>1. \A l \in DOMAIN specs : specs[l].as = specs[k].as => l = k
    BY DEF WellNamed
  <2>2. (CHOOSE l \in DOMAIN specs : specs[l].as = specs[k].as) = k
    BY <2>1
  <2> QED
    BY <2>2
<1>4. Filled(specs[k]) = ArrayPayload(specs[k], group)
  OBVIOUS
<1> HIDE DEF Of, Filled, names
<1>5. DOMAIN more = names /\ more[specs[k].as] = Filled(specs[k])
  BY <1>2, <1>3
<1> HIDE DEF more
<1>6. Extended(r, more)[specs[k].as] = more[specs[k].as]
  BY <1>2, <1>5 DEF Extended
<1> QED
  BY <1>1, <1>4, <1>5, <1>6

\* One lookup that may find many, which starts at the base row.
OneArray(specs) ==
  \A k \in DOMAIN specs :
    ~specs[k].single =>
      specs[k].local \in BaseCols /\ \A l \in DOMAIN specs : l # k => specs[l].single

LEMMA LookupOnce ==
  ASSUME NEW req \in Requests, req.kind = "lookup", NEW t \in Tables,
         Keyed(req.lookups), WellNamed(req.lookups), OneArray(req.lookups)
  PROVE  LET T == RowsOf(t)
             base == Where(req.where, T)
             out == Output(req, T)
         IN /\ Cardinality(out) = Cardinality(base)
            /\ \A r \in base : \E o \in out :
                 /\ o.id = r.id
                 /\ \A k \in DOMAIN req.lookups :
                      LET spec == req.lookups[k]
                          hits == Matches(spec, r, T)
                      IN ~spec.single =>
                           /\ DOMAIN o[spec.as].array = {Object(spec, f) : f \in hits}
                           /\ \A p \in DOMAIN o[spec.as].array :
                                o[spec.as].array[p] = Cardinality({f \in hits : Object(spec, f) = p})
<1> DEFINE T == RowsOf(t)
           specs == req.lookups
           base == Where(req.where, T)
           out == Output(req, T)
           Of(r) == OfRow(LeftJoins(base, specs, T), r)
<1>1. Len(specs) \in Nat /\ DOMAIN specs = 1 .. Len(specs)
  BY RequestAssumption, LenProperties DEF Walks
<1>2. base \in SUBSET T
  BY DEF Where
<1>3. out = Candidates(req, T) /\ out = Populated(base, specs, T)
  BY DEF Output, Candidates
<1>4. Cardinality(out) = Cardinality(base)
  BY <1>3, LookupIs
<1>a. Keyed(specs) /\ WellNamed(specs) /\ OneArray(specs)
  OBVIOUS
<1> HIDE DEF base, out, specs
<1>5. PICK h : /\ Populated(base, specs, T) = {h[r] : r \in base}
               /\ \A r \in base : /\ h[r] = Hydrated(r, specs, Of(r))
                                  /\ \A c \in {"id", "g", "v"} : h[r][c] = r[c]
  BY <1>1, <1>2, <1>a, PopulatedIs
<1>6. ASSUME NEW r \in base, NEW k \in DOMAIN specs, ~specs[k].single
      PROVE  LET array == h[r][specs[k].as].array
                 hits == Matches(specs[k], r, T)
             IN /\ DOMAIN array = {Object(specs[k], f) : f \in hits}
                /\ \A p \in DOMAIN array : array[p] = Cardinality({f \in hits : Object(specs[k], f) = p})
  <2>1. DOMAIN r = BaseCols
    BY <1>2, RowsAre DEF BaseCols
  <2>2. h[r][specs[k].as] = ArrayPayload(specs[k], Of(r))
    BY <1>a, <1>5, <1>6, <2>1, HydratedArray
  <2>3. k \in 1 .. Len(specs) /\ specs[k].local \in BaseCols /\ \A l \in 1 .. Len(specs) : l # k => specs[l].single
    BY <1>1, <1>6, <1>a DEF OneArray
  <2>4. PICK e : /\ Traced(e, Of(r), OrNone(Matches(specs[k], r, T)), ColsTo(specs, Len(specs)), r)
                 /\ Carries(e, OrNone(Matches(specs[k], r, T)), specs[k])
    BY <1>1, <1>2, <1>a, <2>3, ChainTraced
  <2>5. DOMAIN specs[k].named = BaseCols /\ specs[k].foreign \in BaseCols /\ specs[k].select \subseteq BaseCols
    BY <1>a DEF WellNamed
  <2> DEFINE js == Of(r)
             spec == specs[k]
             cols == ColsTo(specs, Len(specs))
  <2> HIDE DEF Of, js, spec, cols
  <2>6. LET hits  == Matches(spec, r, RowsOf(t))
            array == ArrayPayload(spec, js).array
        IN /\ DOMAIN array = {Object(spec, f) : f \in hits}
           /\ \A p \in DOMAIN array : array[p] = Cardinality({f \in hits : Object(spec, f) = p})
    <3>1. /\ Traced(e, js, OrNone(Matches(spec, r, RowsOf(t))), cols, r)
          /\ Carries(e, OrNone(Matches(spec, r, RowsOf(t))), spec)
      BY <2>4 DEF js, spec, cols
    <3>2. DOMAIN spec.named = BaseCols /\ spec.foreign \in BaseCols /\ spec.select \subseteq BaseCols
      BY <2>5 DEF spec
    <3> QED
      BY <3>1, <3>2, ArrayIs
  <2> QED
    BY <2>2, <2>6 DEF js, spec
<1>7. \A r \in base : h[r] \in out /\ h[r].id = r.id
  BY <1>3, <1>5
<1> HIDE DEF Of, specs
<1> QED
  BY <1>4, <1>6, <1>7 DEF base, out, specs

\* The measure that counts rows, under a name of its own.
Counted(req) ==
  /\ "n" \in DOMAIN req.measures /\ "n" \notin req.groupBy \cup DOMAIN req.bins
  /\ req.measures.n.op = "count" /\ req.measures.n.col = "*"

In(req, j, g) == \A c \in DOMAIN GroupKey(req, j) : g[c] = GroupKey(req, j)[c]

LEMMA KeyIs ==
  ASSUME NEW req, NEW j
  PROVE  IsRecord(GroupKey(req, j), req.groupBy \cup DOMAIN req.bins)
<1> DEFINE f == [c \in req.groupBy |-> j[c]]
           h == [b \in DOMAIN req.bins |-> Bin(j[req.bins[b].field], req.bins[b].every)]
<1>1. GroupKey(req, j) = Extended(f, h)
  BY DEF GroupKey
<1>2. DOMAIN f = req.groupBy /\ DOMAIN h = DOMAIN req.bins
  OBVIOUS
<1> HIDE DEF f, h
<1>3. IsRecord(Extended(f, h), DOMAIN f \cup DOMAIN h)
  BY DEF Extended, IsRecord
<1> QED
  BY <1>1, <1>2, <1>3

LEMMA GroupOnce ==
  ASSUME NEW req \in Requests, req.kind = "groups", req.having.op = "true", NEW t \in Tables,
         Keyed(req.lookups), \A k \in DOMAIN req.lookups : req.lookups[k].single, Counted(req)
  PROVE  LET T == RowsOf(t)
             joined == Where(req.measures.n.where, Where(req.where, LeftJoins(T, req.lookups, T)))
         IN /\ \A j \in joined : \E g \in AggGroups(req, None, T) : In(req, j, g)
            /\ \A g \in AggGroups(req, None, T) :
                 g.n.number = Cardinality({r \in T : \E j \in joined : j.id = r.id /\ In(req, j, g)})
<1> DEFINE T == RowsOf(t)
           specs == req.lookups
           all == LeftJoins(T, specs, T)
           rows == Where(req.where, all)
           n == req.measures.n
           joined == Where(n.where, rows)
           cols == req.groupBy \cup DOMAIN req.bins
           Group(k) == {j \in rows : Scalar(req) \/ GroupKey(req, j) = k}
           Shown(k) == Extended(k, LET group == {j \in rows : Scalar(req) \/ GroupKey(req, j) = k}
                                   IN [a \in DOMAIN req.measures |-> Measure(req.measures[a], group)])
           keys == IF Scalar(req) THEN {[x \in {} |-> None]} ELSE {GroupKey(req, j) : j \in rows}
<1>1. Len(specs) \in Nat /\ DOMAIN specs = 1 .. Len(specs)
  BY RequestAssumption, LenProperties DEF Walks
<1>2. AggGroups(req, None, T) = {Shown(k) : k \in keys}
  <2>1. AggGroups(req, None, T) = Grouped(req, rows)
    BY DEF AggGroups
  <2>2. Grouped(req, rows) = {Shown(k) : k \in keys}
    BY Zenon DEF Grouped
  <2> QED
    BY <2>1, <2>2
<1>3. /\ HasIds(T) /\ IdsApart(T) /\ IsFiniteSet(T)
      /\ Covers(all, T) /\ IdsApart(all)
  <2>1. HasIds(T) /\ IdsApart(T) /\ IsFiniteSet(T)
    BY RowsAre, RowsFinite DEF HasIds, IdsApart
  <2>2. \A k \in 1 .. Len(specs) : specs[k].foreign = "id"
    BY <1>1 DEF Keyed
  <2> HIDE DEF T, specs
  <2> QED
    BY <1>1, <2>1, <2>2, JoinsKeep DEF T
<1>4. \A k \in keys : IsRecord(k, cols)
  <2>1. CASE Scalar(req)
    <3>1. cols = {} /\ keys = {[x \in {} |-> None]}
      BY <2>1 DEF Scalar
    <3>2. IsRecord([x \in {} |-> None], {})
      BY DEF IsRecord
    <3> QED
      BY <3>1, <3>2
  <2>2. CASE ~Scalar(req)
    BY <2>2, KeyIs
  <2> QED
    BY <2>1, <2>2
<1>5. ASSUME NEW k \in keys
      PROVE  /\ \A c \in cols : Shown(k)[c] = k[c]
             /\ Shown(k).n = Num(Cardinality(Where(n.where, Group(k))))
  <2> DEFINE m == [a \in DOMAIN req.measures |-> Measure(req.measures[a], Group(k))]
  <2>1. Shown(k) = Extended(k, m) /\ DOMAIN m = DOMAIN req.measures
    OBVIOUS
  <2>2. m["n"] = Measure(n, Group(k)) /\ "n" \in DOMAIN m /\ "n" \notin cols
    BY DEF Counted
  <2>3. Measure(n, Group(k)) = Num(Cardinality(Where(n.where, Group(k))))
    BY DEF Measure, Measured, Counted
  <2>4. DOMAIN k = cols
    BY <1>4 DEF IsRecord
  <2> HIDE DEF m, Group, cols, Shown
  <2> QED
    BY <2>1, <2>2, <2>3, <2>4 DEF Extended
<1>6. ASSUME NEW k \in keys, NEW j \in rows
      PROVE  In(req, j, Shown(k)) <=> j \in Group(k)
  <2>1. IsRecord(GroupKey(req, j), cols)
    BY KeyIs
  <2>2. In(req, j, Shown(k)) <=> \A c \in cols : k[c] = GroupKey(req, j)[c]
    <3>1. DOMAIN GroupKey(req, j) = cols
      BY <2>1 DEF IsRecord
    <3> HIDE DEF cols, Shown
    <3> QED
      BY <1>5, <3>1 DEF In
  <2>3. (\A c \in cols : k[c] = GroupKey(req, j)[c]) <=> GroupKey(req, j) = k
    <3> DEFINE a == GroupKey(req, j)
    <3>1. a = [c \in cols |-> a[c]] /\ k = [c \in cols |-> k[c]]
      BY <1>4, <2>1 DEF IsRecord
    <3> HIDE DEF a, cols
    <3>2. (\A c \in cols : k[c] = a[c]) => [c \in cols |-> k[c]] = [c \in cols |-> a[c]]
      OBVIOUS
    <3>3. (\A c \in cols : k[c] = a[c]) => a = k
      BY <3>1, <3>2
    <3> QED
      BY <3>3 DEF a
  <2>4. Scalar(req) => cols = {}
    BY DEF Scalar
  <2> HIDE DEF cols, Shown
  <2> QED
    BY <2>2, <2>3, <2>4
<1>7. joined \subseteq rows /\ rows \subseteq all
  BY DEF Where
<1>8. \A k \in keys : Where(n.where, Group(k)) = {j \in joined : In(req, j, Shown(k))}
  <2> SUFFICES ASSUME NEW k \in keys
               PROVE  Where(n.where, Group(k)) = {j \in joined : In(req, j, Shown(k))}
    OBVIOUS
  <2>1. Where(n.where, Group(k)) = {j \in joined : j \in Group(k)}
    BY DEF Where
  <2> HIDE DEF Group, Shown, joined, rows
  <2> QED
    BY <1>6, <1>7, <2>1
<1>9. ASSUME NEW j \in joined PROVE \E k \in keys : In(req, j, Shown(k))
  <2>1. j \in rows
    BY <1>7
  <2>2. CASE Scalar(req)
    <3>1. [x \in {} |-> None] \in keys
      BY <2>2
    <3> HIDE DEF keys, Shown, rows
    <3> QED
      BY <1>6, <2>1, <2>2, <3>1
  <2>3. CASE ~Scalar(req)
    <3>1. GroupKey(req, j) \in keys /\ j \in Group(GroupKey(req, j))
      BY <2>1, <2>3
    <3> HIDE DEF keys, Shown, Group, rows
    <3> QED
      BY <1>6, <2>1, <3>1
  <2> QED
    BY <2>2, <2>3
<1> HIDE DEF joined, all, rows, Shown, keys, Group, T
<1>10. ASSUME NEW g
       PROVE  Cardinality({r \in T : \E j \in joined : j.id = r.id /\ In(req, j, g)})
                = Cardinality({j \in joined : In(req, j, g)})
  <2> DEFINE R == {r \in T : \E j \in joined : j.id = r.id /\ In(req, j, g)}
             f == [r \in R |-> CHOOSE j \in joined : j.id = r.id /\ In(req, j, g)]
  <2>1. \A r \in R : f[r] \in joined /\ f[r].id = r.id /\ In(req, f[r], g)
    OBVIOUS
  <2>2. IsFiniteSet(R) /\ R \subseteq T
    BY <1>3, FS_Subset
  <2>3. ASSUME NEW j \in joined, In(req, j, g) PROVE \E r \in R : j = f[r]
    <3>1. PICK r \in T : j.id = r.id
      BY <1>3, <1>7 DEF Covers
    <3>2. r \in R
      BY <2>3, <3>1
    <3>3. f[r] \in all /\ j \in all /\ f[r].id = j.id
      BY <1>7, <2>1, <3>1, <3>2
    <3> HIDE DEF f
    <3> QED
      BY <1>3, <3>2, <3>3 DEF IdsApart
  <2> HIDE DEF f, R
  <2>4. {j \in joined : In(req, j, g)} = {f[r] : r \in R}
    BY <2>1, <2>3
  <2>5. \A r, s \in R : f[r] = f[s] => r = s
    BY <1>3, <2>1, <2>2 DEF IdsApart
  <2>6. Cardinality({f[r] : r \in R}) = Cardinality(R)
    BY <2>2, <2>5, ImageCounts
  <2> QED
    BY <2>4, <2>6 DEF R
<1>11. ASSUME NEW g \in AggGroups(req, None, T)
       PROVE  g.n.number = Cardinality({r \in T : \E j \in joined : j.id = r.id /\ In(req, j, g)})
  <2>1. PICK k \in keys : g = Shown(k)
    BY <1>2
  <2>2. g.n = Num(Cardinality({j \in joined : In(req, j, g)}))
    BY <1>5, <1>8, <2>1
  <2>3. g.n.number = Cardinality({j \in joined : In(req, j, g)})
    BY <2>2 DEF Num
  <2> QED
    BY <1>10, <2>3
<1>12. \A j \in joined : \E g \in AggGroups(req, None, T) : In(req, j, g)
  BY <1>2, <1>9
<1> QED
  BY <1>11, <1>12 DEF joined, all, rows, T

\* What a request's lookups are to be for rows not to multiply.
Joins(req) ==
  /\ req.kind = "lookup" => WellNamed(req.lookups) /\ OneArray(req.lookups)
  /\ req.kind \in {"lookup", "groups"} => Keyed(req.lookups)
  /\ req.kind = "groups" => Counted(req)

\* A lookup gives a base row once, with every match in its array once, and a
\* group counts every base row once, under joins to rows with the key and at
\* most one to many (buildLookupPopulate, hydrate.ts, executeAgg), for every table.
THEOREM RowsJoinOnce == Spec => [](Joins(request) => JoinedOnce)
<1>1. TableInv => (Joins(request) => JoinedOnce)
  <2> SUFFICES ASSUME TableInv, Joins(request) PROVE JoinedOnce
    OBVIOUS
  <2>1. CASE request.kind = "lookup"
    <3>1. table \in Tables /\ Keyed(request.lookups) /\ WellNamed(request.lookups) /\ OneArray(request.lookups)
      BY <2>1 DEF TableInv, Walks, Joins
    <3> QED
      BY <2>1, <3>1, LookupOnce DEF TableInv, JoinedOnce, Object
  <2>2. CASE request.kind # "lookup" /\ request.kind = "groups" /\ request.having.op = "true"
             /\ \A k \in DOMAIN request.lookups : request.lookups[k].single
    <3>1. table \in Tables /\ Keyed(request.lookups) /\ Counted(request)
      BY <2>2 DEF TableInv, Walks, Joins
    <3> QED
      BY <2>2, <3>1, GroupOnce DEF TableInv, JoinedOnce, In
  <2>3. CASE request.kind # "lookup" /\ ~(request.kind = "groups" /\ request.having.op = "true"
             /\ \A k \in DOMAIN request.lookups : request.lookups[k].single)
    BY <2>3 DEF JoinedOnce
  <2> QED
    BY <2>1, <2>2, <2>3
<1> QED
  BY <1>1, TableStays, PTL
=============================================================================
