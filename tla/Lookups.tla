-------------------------------- MODULE Lookups --------------------------------
(***************************************************************************)
(* The LEFT JOIN chain of LookupSpec[], shared by lookupPopulate() (lookup/ *)
(* sql-builder.ts, hydrate.ts) and aggregate() (aggregate/lookups.ts).      *)
(*                                                                         *)
(* A row is a record of its columns.  A joined row has the columns of the  *)
(* base row and, under the dotted names `named` gives them, those of each  *)
(* match; they are None where there was none.  Rows have a primary key, so *)
(* the joined rows of a query are a set.                                   *)
(*   [as, local, foreign, where, single, select, named]  is a LookupSpec.  *)
(***************************************************************************)
EXTENDS Filters, SequencesExt

\* ON foreign = local AND where: a NULL on either side matches nothing.
Matches(spec, row, foreign) ==
  {f \in foreign : /\ Selects(Equal(f[spec.foreign], row[spec.local]))
                   /\ Selects(Sql(spec.where, f))}

\* A row and further columns.
Extended(row, more) ==
  [c \in DOMAIN row \cup DOMAIN more |-> IF c \in DOMAIN row THEN row[c] ELSE more[c]]

Joined(spec, row, match) ==
  Extended(row, [n \in Range(spec.named) |->
                   IF match = None THEN None
                   ELSE match[CHOOSE c \in DOMAIN spec.named : spec.named[c] = n]])

OrNone(hits) == IF hits = {} THEN {None} ELSE hits

LeftJoin(rows, spec, foreign) ==
  UNION {{Joined(spec, row, m) : m \in OrNone(Matches(spec, row, foreign))} : row \in rows}

\* In the order of the list: a later lookup may start at an earlier one's column.
LeftJoins(rows, specs, foreign) ==
  LET joined[n \in 0 .. Len(specs)] ==
        IF n = 0 THEN rows ELSE LeftJoin(joined[n - 1], specs[n], foreign)
  IN joined[Len(specs)]

-----------------------------------------------------------------------------
(* lookupPopulate's payloads. *)

\* json_object(...)
Payload(spec, joined) == [c \in spec.select |-> joined[spec.named[c]]]

\* collapseSingle: an object of NULLs is no object.
SinglePayload(spec, joined) ==
  LET payload == Payload(spec, joined)
  IN IF \A c \in spec.select : payload[c] = None THEN None ELSE [object |-> payload]

\* json_group_array over the joined rows of a base row, less the NULL a miss
\* leaves: how often each object is in the array.
ArrayPayload(spec, group) ==
  LET hits == {j \in group : j[spec.named[spec.foreign]] # None}
  IN [array |-> [p \in {Payload(spec, j) : j \in hits} |->
                   Cardinality({j \in hits : Payload(spec, j) = p})]]

\* A base row with its lookups, from the joined rows of it that one output row
\* stands for.  A `single` beside an array is a bare column: SQLite takes it
\* from any row of the group.
Hydrated(row, specs, group) ==
  Extended(row, [as \in {specs[k].as : k \in DOMAIN specs} |->
                   LET spec == specs[CHOOSE k \in DOMAIN specs : specs[k].as = as]
                   IN IF spec.single THEN SinglePayload(spec, CHOOSE j \in group : TRUE)
                                     ELSE ArrayPayload(spec, group)])

OfRow(joined, row) == {j \in joined : j.id = row.id}

\* Mutant: no GROUP BY.
PopulatedUngrouped(rows, specs, foreign) ==
  LET joined == LeftJoins(rows, specs, foreign)
  IN UNION {{Hydrated(row, specs, {j}) : j \in OfRow(joined, row)} : row \in rows}

\* GROUP BY the primary key as soon as one lookup is an array.
Groups(joined, specs) ==
  IF \E k \in DOMAIN specs : ~specs[k].single THEN {joined} ELSE {{j} : j \in joined}

Populated(rows, specs, foreign) ==
  LET joined == LeftJoins(rows, specs, foreign)
  IN UNION {{Hydrated(row, specs, group) : group \in Groups(OfRow(joined, row), specs)} : row \in rows}
=============================================================================
