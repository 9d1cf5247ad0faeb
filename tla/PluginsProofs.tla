---------------------------- MODULE PluginsProofs ----------------------------
(***************************************************************************)
(* Theorems about Plugins, for any rows, callers and tenants, any of the   *)
(* methods, every ttl mode.                                                *)
(*                                                                         *)
(* What a caller's frames and payload can be follows from its method       *)
(* (Shape); what its statement can do to a row, from its operation         *)
(* (Effect); and all the properties speak of these two alone.              *)
(***************************************************************************)
EXTENDS Plugins, TLAPS, SequenceTheorems

USE PluginsAssumption

-----------------------------------------------------------------------------
(* The inductive invariant. *)

PlainFields == {Empty} \cup [{"expires"} -> {None, 0}]
SoftFields  == {[deleted |-> TRUE], [deleted |-> FALSE]}

Idle(c) == method[c] = None /\ frames[c] = <<>> /\ stage[c] = "statement"

Plain(c) ==
  /\ method[c] \in Method \ {"restore"}
  /\ frames[c] = <<OpOf(method[c])>>
  /\ fields[c] \in PlainFields

Soft(c) ==
  /\ method[c] \in Method \cap {"delete", "restore"}
  /\ fields[c] = [deleted |-> (method[c] = "delete")]
  /\ \/ frames[c] = <<method[c], "update">>
     \/ frames[c] = <<method[c]>> /\ stage[c] = "after"

Shape == \A c \in Caller : Idle(c) \/ Plain(c) \/ Soft(c)

\* What TypeOK leaves to Shape: these are functions.
Functional ==
  /\ frames \in [Caller -> Seq(Methods)]
  /\ fields \in [Caller -> PlainFields \cup SoftFields]

\* An entry that is due is made, or its operation is open still.
Due ==
  \A c \in Caller :
    /\ method[c] # None =>
         /\ answered[c] = FALSE
         /\ owed[c] \subseteq logged[c] \cup {frames[c][k] : k \in Recorded(c)}
         /\ stage[c] = "statement" => owed[c] = {}
    /\ answered[c] => owed[c] \subseteq logged[c]

TypeInv == TypeOK /\ Functional /\ Shape

LEMMA NoneIsNoMethod == None \notin Method /\ Method \subseteq Methods
OBVIOUS

LEMMA OpsAreMethods ==
  /\ \A m \in Methods : OpOf(m) \in Methods
  /\ {"delete", "restore", "update"} \subseteq Methods
BY DEF OpOf, Methods, Selects, Patches, Removes, WRITE_OPS, Unstamped, QUERY_OPS, LIST_OPS

\* The operation of a caller before its statement.
LEMMA OpBefore ==
  ASSUME TypeInv, NEW c \in Caller, method[c] # None, stage[c] = "statement"
  PROVE  \/ Plain(c) /\ Op(c) = OpOf(method[c]) /\ Len(frames[c]) = 1
         \/ Soft(c) /\ frames[c] = <<method[c], "update">> /\ Op(c) = "update" /\ Len(frames[c]) = 2
<1>1. CASE Plain(c)
  BY <1>1 DEF Plain, Op
<1>2. CASE Soft(c)
  <2>1. frames[c] = <<method[c], "update">>
    <3>1. stage[c] # "after"
      OBVIOUS
    <3> QED
      BY <1>2, <3>1, Zenon DEF Soft
  <2>2. Len(frames[c]) = 2 /\ frames[c][2] = "update"
    BY <2>1
  <2> QED
    BY <1>2, <2>1, <2>2 DEF Op
<1> QED
  BY <1>1, <1>2 DEF TypeInv, Shape, Idle

-----------------------------------------------------------------------------
(* What a statement does. *)

LEMMA FieldsKnown ==
  ASSUME TypeInv, NEW c \in Caller
  PROVE  /\ "tenant" \notin DOMAIN fields[c]
         /\ "deleted" \in DOMAIN fields[c] => fields[c]["deleted"] \in BOOLEAN
         /\ "expires" \in DOMAIN fields[c] => fields[c]["expires"] \in Expiry
         /\ DOMAIN fields[c] \subseteq {"deleted", "expires"}
<1>1. fields[c] \in PlainFields \cup SoftFields
  BY DEF TypeInv, Functional
<1>2. CASE fields[c] = Empty
  <2>1. DOMAIN fields[c] = {}
    BY <1>2 DEF Empty
  <2> QED
    BY <2>1
<1>3. CASE fields[c] \in [{"expires"} -> {None, 0}]
  BY <1>3 DEF Expiry
<1>4. CASE fields[c] \in SoftFields
  <2>1. PICK b \in BOOLEAN : fields[c] = [deleted |-> b]
    BY <1>4 DEF SoftFields
  <2>2. DOMAIN fields[c] = {"deleted"} /\ fields[c]["deleted"] = b
    BY <2>1
  <2> QED
    BY <2>2
<1> QED
  BY <1>1, <1>2, <1>3, <1>4 DEF PlainFields

LEMMA WrittenTyped ==
  ASSUME TypeInv, NEW c \in Caller, NEW old \in Rows
  PROVE  /\ Written(fields[c], old) \in Rows
         /\ Written(fields[c], old).tenant = old.tenant
         /\ "deleted" \notin DOMAIN fields[c] => Written(fields[c], old).deleted = old.deleted
         /\ "deleted" \in DOMAIN fields[c] =>
              Written(fields[c], old).deleted = fields[c]["deleted"]
BY FieldsKnown DEF Written, Rows

LEMMA BlankTyped == Blank \in Rows
BY DEF Blank, Rows, Expiry

LEMMA StampedTyped ==
  ASSUME TypeInv, NEW c \in Caller, NEW row \in Rows
  PROVE  /\ Stamped(c, row) \in Rows
         /\ Stamped(c, row).deleted = row.deleted
         /\ Op(c) \in WRITE_OPS /\ Resolved(c) # None => Stamped(c, row).tenant = Resolved(c)
<1>1. Resolved(c) \in Tenant \cup {None}
  BY DEF Resolved
<1> QED
  BY <1>1 DEF Stamped, Rows

\* Row i goes from `old` to `new` under c's statement.
Made(c, old, new) ==
  /\ old = NoRow /\ new \in Rows
  /\ Op(c) \in {"create", "createMany", "upsert"} \cup Unstamped
  /\ Op(c) \notin Unstamped /\ Resolved(c) # None => new.tenant = Resolved(c)

Changed(c, i, old, new) ==
  /\ old \in Rows /\ new \in Rows
  /\ \/ Op(c) \in Patches /\ i \in Found(c) /\ new = Written(fields[c], old)
     \/ Op(c) = "replace"
     \/ Op(c) = "upsert" /\ new = Stamped(c, Written(fields[c], old))

Gone(c, i, old, new) ==
  /\ old \in Rows /\ old # NoRow /\ new = NoRow
  /\ Expired(old) \/ (Op(c) \in Removes /\ i \in Found(c))

Effect(c, i, old, new) ==
  new = old \/ Made(c, old, new) \/ Changed(c, i, old, new) \/ Gone(c, i, old, new)

Store == [Id -> Rows \cup {NoRow}]

LEMMA PrunedEffect ==
  ASSUME TypeInv, NEW c \in Caller, NEW table \in Store,
         \A i \in Id : table[i] = rows[i] \/ Made(c, rows[i], table[i])
  PROVE  /\ Pruned(table) \in Store
         /\ \A i \in Id : Effect(c, i, rows[i], Pruned(table)[i])
<1>1. Pruned(table) \in Store
  BY DEF Pruned, Store
<1>2. ASSUME NEW i \in Id PROVE Effect(c, i, rows[i], Pruned(table)[i])
  <2>1. Pruned(table)[i] = table[i] \/ (Pruned(table)[i] = NoRow /\ table[i] # NoRow /\ Expired(table[i]))
    BY DEF Pruned, Store
  <2>2. CASE Pruned(table)[i] = table[i]
    BY <2>2 DEF Effect
  <2>3. CASE Pruned(table)[i] = NoRow /\ table[i] # NoRow /\ Expired(table[i]) /\ table[i] = rows[i]
    BY <2>3 DEF Effect, Gone, Store
  <2>4. CASE Pruned(table)[i] = NoRow /\ Made(c, rows[i], table[i])
    BY <2>4 DEF Effect, Made
  <2> QED
    BY <2>1, <2>2, <2>3, <2>4
<1> QED
  BY <1>1, <1>2

\* A statement is c's, leaves a table, and does one of three things to a row.
LEMMA StatementEffect ==
  ASSUME TypeInv, NEW c \in Caller, Statement(c)
  PROVE  /\ Ran(c, rows') /\ rows' \in Store
         /\ \A i \in Id : Effect(c, i, rows[i], rows'[i])
<1> DEFINE Done == Ran(c, rows') /\ rows' \in Store /\ \A i \in Id : Effect(c, i, rows[i], rows'[i])
<1>0. rows \in Store
  BY DEF TypeInv, TypeOK, Store
<1>1. CASE Select(c)
  BY <1>0, <1>1 DEF Select, Ran, Effect
<1>a. ASSUME NEW row \in Rows, Op(c) \in WRITE_OPS, NEW i \in Id, rows[i] = NoRow
      PROVE  Made(c, rows[i], Stamped(c, row))
  BY <1>a, StampedTyped DEF Made, WRITE_OPS, Unstamped
<1>2. CASE Insert(c)
  <2> DEFINE table == [i \in Id |-> IF i \in filter[c] THEN Stamped(c, Written(fields[c], Blank))
                                    ELSE rows[i]]
  <2>1. Ran(c, Pruned(table))
    BY <1>2 DEF Insert
  <2>2. Written(fields[c], Blank) \in Rows
    BY WrittenTyped, BlankTyped
  <2>3. table \in Store
    BY <1>0, <2>2, StampedTyped DEF Store
  <2>4. \A i \in Id : table[i] = rows[i] \/ Made(c, rows[i], table[i])
    <3> TAKE i \in Id
    <3>1. CASE i \in filter[c]
      BY <1>2, <1>a, <2>2, <3>1 DEF Insert, WRITE_OPS
    <3> QED
      BY <3>1
  <2>5. rows' = Pruned(table)
    BY <2>1 DEF Ran
  <2> QED
    BY <2>1, <2>3, <2>4, <2>5, PrunedEffect
<1>3. CASE Upsert(c)
  <2>1. PICK j \in filter[c] :
          IF rows[j] = NoRow
          THEN Ran(c, Pruned([rows EXCEPT ![j] = Stamped(c, Written(fields[c], Blank))]))
          ELSE Ran(c, [rows EXCEPT ![j] = Stamped(c, Written(fields[c], @))])
    BY <1>3 DEF Upsert
  <2>2. j \in Id /\ Op(c) = "upsert"
    BY <1>3 DEF Upsert, TypeInv, TypeOK
  <2>3. CASE rows[j] = NoRow
    <3> DEFINE table == [rows EXCEPT ![j] = Stamped(c, Written(fields[c], Blank))]
    <3>1. Written(fields[c], Blank) \in Rows
      BY WrittenTyped, BlankTyped
    <3>2. table \in Store
      BY <1>0, <3>1, StampedTyped DEF Store
    <3>3. \A i \in Id : table[i] = rows[i] \/ Made(c, rows[i], table[i])
      BY <1>0, <1>a, <2>2, <2>3, <3>1 DEF Store, WRITE_OPS
    <3>4. Ran(c, Pruned(table)) /\ rows' = Pruned(table)
      BY <2>1, <2>3 DEF Ran
    <3> QED
      BY <3>2, <3>3, <3>4, PrunedEffect
  <2>4. CASE rows[j] # NoRow
    <3>1. rows[j] \in Rows
      BY <1>0, <2>2, <2>4 DEF Store
    <3>2. Ran(c, rows') /\ rows' = [rows EXCEPT ![j] = Stamped(c, Written(fields[c], rows[j]))]
      BY <2>1, <2>4 DEF Ran
    <3>3. Stamped(c, Written(fields[c], rows[j])) \in Rows
      BY <3>1, WrittenTyped, StampedTyped
    <3>4. rows' \in Store
      BY <1>0, <3>2, <3>3 DEF Store
    <3>5. ASSUME NEW i \in Id PROVE Effect(c, i, rows[i], rows'[i])
      <4>1. CASE i = j
        BY <1>0, <2>2, <3>1, <3>2, <3>3, <4>1 DEF Effect, Changed, Store
      <4>2. CASE i # j
        BY <1>0, <3>2, <4>2 DEF Effect, Store
      <4> QED
        BY <4>1, <4>2
    <3> QED
      BY <3>2, <3>4, <3>5
  <2> QED
    BY <2>3, <2>4
<1>4. CASE FindOrInsert(c)
  <2>1. CASE Ran(c, rows)
    BY <1>0, <2>1 DEF Ran, Effect
  <2>2. CASE ~Ran(c, rows)
    <3>1. Op(c) \in Unstamped /\ \A i \in filter[c] : rows[i] = NoRow
      BY <1>4, <2>2 DEF FindOrInsert
    <3>2. PICK t \in {None, TenantOf[c]} :
            Ran(c, Pruned([i \in Id |-> IF i \in filter[c]
               THEN [Written(fields[c], Blank) EXCEPT !.tenant = t] ELSE rows[i]]))
      BY <1>4, <2>2 DEF FindOrInsert
    <3> DEFINE new == [Written(fields[c], Blank) EXCEPT !.tenant = t]
               table == [i \in Id |-> IF i \in filter[c] THEN new ELSE rows[i]]
    <3>3. new \in Rows
      <4>1. Written(fields[c], Blank) \in Rows
        BY WrittenTyped, BlankTyped
      <4>2. t \in Tenant \cup {None}
        OBVIOUS
      <4> QED
        BY <4>1, <4>2 DEF Rows
    <3>4. table \in Store
      BY <1>0, <3>3 DEF Store
    <3>5. \A i \in Id : table[i] = rows[i] \/ Made(c, rows[i], table[i])
      BY <3>1, <3>3 DEF Made
    <3>6. Ran(c, Pruned(table)) /\ rows' = Pruned(table)
      BY <3>2 DEF Ran
    <3> QED
      BY <3>4, <3>5, <3>6, PrunedEffect
  <2> QED
    BY <2>1, <2>2
<1>b. ASSUME NEW i \in Found(c) PROVE i \in Id /\ rows[i] \in Rows /\ rows[i] # NoRow
  BY <1>0 DEF Found, Store, TypeInv, TypeOK
<1>5. CASE Patch(c)
  <2>1. Ran(c, rows') /\ rows' = [i \in Id |-> IF i \in Found(c) THEN Written(fields[c], rows[i]) ELSE rows[i]]
    BY <1>5 DEF Patch, Ran
  <2>2. \A i \in Found(c) : Written(fields[c], rows[i]) \in Rows
    BY <1>b, WrittenTyped
  <2>3. rows' \in Store
    BY <1>0, <2>1, <2>2 DEF Store
  <2>4. \A i \in Id : Effect(c, i, rows[i], rows'[i])
    BY <1>5, <1>b, <2>1, <2>2 DEF Effect, Changed, Patch
  <2> QED
    BY <2>1, <2>3, <2>4
<1>6. CASE Replace(c)
  <2>1. Ran(c, rows') /\ rows' = [i \in Id |-> IF i \in Found(c)
                          THEN [Written(fields[c], Blank) EXCEPT !.tenant = rows[i].tenant]
                          ELSE rows[i]]
    BY <1>6 DEF Replace, Ran
  <2>2. ASSUME NEW i \in Found(c)
        PROVE  [Written(fields[c], Blank) EXCEPT !.tenant = rows[i].tenant] \in Rows
    <3>1. Written(fields[c], Blank) \in Rows
      BY WrittenTyped, BlankTyped
    <3>2. rows[i].tenant \in Tenant \cup {None}
      BY <1>b DEF Rows
    <3> QED
      BY <3>1, <3>2 DEF Rows
  <2>3. rows' \in Store
    BY <1>0, <2>1, <2>2 DEF Store
  <2>4. \A i \in Id : Effect(c, i, rows[i], rows'[i])
    BY <1>6, <1>b, <2>1, <2>2 DEF Effect, Changed, Replace
  <2> QED
    BY <2>1, <2>3, <2>4
<1>7. CASE Remove(c)
  <2>1. Ran(c, rows') /\ rows' = [i \in Id |-> IF i \in Found(c) THEN NoRow ELSE rows[i]]
    BY <1>7 DEF Remove, Ran
  <2>2. rows' \in Store
    BY <1>0, <2>1 DEF Store
  <2>3. \A i \in Id : Effect(c, i, rows[i], rows'[i])
    BY <1>7, <1>b, <2>1 DEF Effect, Gone, Remove
  <2> QED
    BY <2>1, <2>2, <2>3
<1> QED
  BY <1>1, <1>2, <1>3, <1>4, <1>5, <1>6, <1>7 DEF Statement

-----------------------------------------------------------------------------
(* The invariant, action by action. *)

LEMMA InitInv == Init => TypeInv /\ Due
<1> SUFFICES ASSUME Init PROVE TypeInv /\ Due
  OBVIOUS
<1>1. \A c \in Caller : Idle(c) /\ fields[c] = Empty /\ frames[c] = <<>>
                          /\ owed[c] = {} /\ answered[c] = FALSE
  BY DEF Init, Idle
<1>2. /\ mode \in TtlModes /\ clock \in 0 .. Horizon
      /\ method \in [Caller -> Method \cup {None}]
      /\ stage \in [Caller -> {"statement", "after"}] /\ filter \in [Caller -> SUBSET Id]
      /\ quiet \in [Caller -> BOOLEAN] /\ answered \in [Caller -> BOOLEAN]
      /\ owed \in [Caller -> SUBSET AuditedOps] /\ logged \in [Caller -> SUBSET AuditedOps]
  BY DEF Init
<1>3. rows \in [Id -> Rows \cup {NoRow}]
  <2>1. [tenant : Tenant, deleted : {FALSE}, expires : {None, 0}] \subseteq Rows
    <3>1. 0 \in Expiry /\ None \in Expiry
      BY DEF Expiry
    <3>2. ASSUME NEW r \in [tenant : Tenant, deleted : {FALSE}, expires : {None, 0}]
          PROVE  r \in Rows
      BY <3>1 DEF Rows
    <3> QED
      BY <3>2
  <2> QED
    BY <2>1 DEF Init
<1>4. DOMAIN Empty = {}
  BY DEF Empty
<1>5. TypeOK
  <2>1. \A c \in Caller : Len(frames[c]) \in 0 .. 2 /\ (method[c] = None <=> frames[c] = <<>>)
    BY <1>1 DEF Idle
  <2>2. \A c \in Caller : DOMAIN fields[c] \subseteq {"deleted", "expires"}
    BY <1>1, <1>4
  <2> QED
    BY <1>2, <1>3, <2>1, <2>2, Zenon DEF TypeOK
<1>6. Functional
  <2>1. Empty \in PlainFields
    BY DEF PlainFields
  <2> QED
    BY <2>1 DEF Init, Functional
<1> QED
  BY <1>1, <1>5, <1>6 DEF TypeInv, Shape, Due, Idle

\* TypeOK's two clauses on frames and payloads.
FramesTyped ==
  /\ \A c \in Caller : Len(frames[c]) \in 0 .. 2 /\ (method[c] = None <=> frames[c] = <<>>)
  /\ \A c \in Caller : DOMAIN fields[c] \subseteq {"deleted", "expires"}

\* They follow from Shape and Functional.
LEMMA ShapeTypes == Functional /\ Shape => FramesTyped
<1> SUFFICES ASSUME Functional, Shape, NEW c \in Caller
             PROVE  /\ Len(frames[c]) \in 0 .. 2 /\ (method[c] = None <=> frames[c] = <<>>)
                    /\ DOMAIN fields[c] \subseteq {"deleted", "expires"}
  BY DEF FramesTyped
<1>1. DOMAIN fields[c] \subseteq {"deleted", "expires"}
  <2>1. fields[c] \in PlainFields \cup SoftFields
    BY DEF Functional
  <2>2. CASE fields[c] = Empty
    <3>1. DOMAIN fields[c] = {}
      BY <2>2 DEF Empty
    <3> QED
      BY <3>1
  <2>3. CASE fields[c] \in [{"expires"} -> {None, 0}]
    BY <2>3
  <2>4. CASE fields[c] \in SoftFields
    <3>1. PICK b \in BOOLEAN : fields[c] = [deleted |-> b]
      BY <2>4 DEF SoftFields
    <3> QED
      BY <3>1
  <2> QED
    BY <2>1, <2>2, <2>3, <2>4 DEF PlainFields
<1>2. CASE Idle(c)
  BY <1>1, <1>2 DEF Idle
<1>3. CASE Plain(c)
  <2>1. method[c] # None
    BY <1>3, NoneIsNoMethod DEF Plain
  <2>2. Len(frames[c]) = 1 /\ frames[c] # <<>>
    BY <1>3 DEF Plain
  <2> QED
    BY <1>1, <2>1, <2>2
<1>4. CASE Soft(c)
  <2>1. method[c] # None
    BY <1>4, NoneIsNoMethod DEF Soft
  <2>2. Len(frames[c]) \in 1 .. 2 /\ frames[c] # <<>>
    <3>1. CASE frames[c] = <<method[c], "update">>
      BY <3>1
    <3>2. CASE frames[c] = <<method[c]>>
      BY <3>2
    <3> QED
      BY <1>4, <3>1, <3>2 DEF Soft
  <2> QED
    BY <1>1, <2>1, <2>2
<1> QED
  BY <1>2, <1>3, <1>4 DEF Shape

\* A step of c leaves the others' shapes alone.
LEMMA OthersShape ==
  ASSUME TypeInv, NEW c \in Caller,
         Idle(c)' \/ Plain(c)' \/ Soft(c)',
         \A d \in Caller \ {c} : UNCHANGED <<method[d], frames[d], stage[d], fields[d]>>
  PROVE  Shape'
<1> SUFFICES ASSUME NEW d \in Caller, d # c PROVE Idle(d)' \/ Plain(d)' \/ Soft(d)'
  BY DEF Shape
<1>1. UNCHANGED <<method[d], frames[d], stage[d], fields[d]>>
  OBVIOUS
<1>2. Idle(d) \/ Plain(d) \/ Soft(d)
  BY DEF TypeInv, Shape
<1>3. CASE Idle(d)
  BY <1>1, <1>3 DEF Idle
<1>4. CASE Plain(d)
  BY <1>1, <1>4 DEF Plain
<1>5. CASE Soft(d)
  BY <1>1, <1>5 DEF Soft
<1> QED
  BY <1>2, <1>3, <1>4, <1>5

\* The operations of a caller that are due are audited ones.
LEMMA RecordedAudited ==
  ASSUME NEW c \in Caller
  PROVE  {frames[c][k] : k \in Recorded(c)} \subseteq AuditedOps
BY DEF Recorded

\* The frames and the payload a call of m begins with.
Fits(m, ops, f) ==
  \/ m # "restore" /\ ops = <<OpOf(m)>> /\ f \in PlainFields
  \/ m \in {"delete", "restore"} /\ ops = <<m, "update">> /\ f = [deleted |-> (m = "delete")]

LEMMA StartInv ==
  ASSUME TypeInv, Due, NEW c \in Caller, NEW m \in Method, NEW ops \in Seq(Methods),
         NEW ids \in SUBSET Id, NEW f \in PlainFields \cup SoftFields, NEW q \in BOOLEAN,
         Start(c, m, ops, ids, f, q), Fits(m, ops, f)
  PROVE  TypeInv' /\ Due'
<1>1. /\ method'[c] = m /\ frames'[c] = ops /\ fields'[c] = f /\ stage'[c] = stage[c]
      /\ \A d \in Caller \ {c} : UNCHANGED <<method[d], frames[d], stage[d], fields[d]>>
      /\ owed'[c] = {} /\ answered'[c] = FALSE
      /\ \A d \in Caller \ {c} : UNCHANGED <<quiet[d], owed[d], logged[d], answered[d]>>
  BY DEF Start, TypeInv, TypeOK, Functional
<1>2. Plain(c)' \/ Soft(c)'
  <2>1. CASE m # "restore" /\ ops = <<OpOf(m)>> /\ f \in PlainFields
    BY <1>1, <2>1 DEF Plain
  <2>2. CASE m \in {"delete", "restore"} /\ ops = <<m, "update">> /\ f = [deleted |-> (m = "delete")]
    BY <1>1, <2>2 DEF Soft
  <2> QED
    BY <2>1, <2>2 DEF Fits
<1>3. Shape'
  BY <1>1, <1>2, OthersShape
<1>4. Functional'
  BY DEF Start, TypeInv, Functional
<1>5. TypeOK'
  <2>1. /\ method' \in [Caller -> Method \cup {None}] /\ filter' \in [Caller -> SUBSET Id]
        /\ quiet' \in [Caller -> BOOLEAN] /\ answered' \in [Caller -> BOOLEAN]
        /\ owed' \in [Caller -> SUBSET AuditedOps] /\ logged' \in [Caller -> SUBSET AuditedOps]
        /\ UNCHANGED <<mode, rows, clock, stage>>
    BY DEF Start, TypeInv, TypeOK
  <2>2. FramesTyped'
    BY <1>3, <1>4, ShapeTypes, PTL
  <2> QED
    BY <2>1, <2>2 DEF TypeInv, TypeOK, FramesTyped
<1> QED
  BY <1>1, <1>3, <1>4, <1>5 DEF TypeInv, Due, Recorded

LEMMA StatementInv ==
  ASSUME TypeInv, Due, NEW c \in Caller, Statement(c)
  PROVE  TypeInv' /\ Due'
<1>1. Ran(c, rows') /\ rows' \in Store
  BY StatementEffect
<1>2. /\ method[c] # None /\ stage[c] = "statement"
      /\ stage' = [stage EXCEPT ![c] = "after"]
      /\ owed'  = IF rows' # rows
                  THEN [owed EXCEPT ![c] = {frames[c][k] : k \in Recorded(c)}] ELSE owed
      /\ UNCHANGED <<mode, clock, method, frames, filter, fields, quiet, logged, answered>>
  BY <1>1 DEF Ran
<1>3. Shape'
  <2>1. Plain(c) \/ Soft(c)
    BY <1>2 DEF TypeInv, Shape, Idle
  <2>2. Plain(c)' \/ Soft(c)'
    <3>1. CASE Plain(c)
      BY <1>2, <3>1 DEF Plain
    <3>2. CASE Soft(c)
      <4>1. stage'[c] = "after"
        BY <1>2 DEF TypeInv, TypeOK
      <4> QED
        BY <1>2, <3>2, <4>1 DEF Soft
    <3> QED
      BY <2>1, <3>1, <3>2
  <2>3. \A d \in Caller \ {c} : UNCHANGED <<method[d], frames[d], stage[d], fields[d]>>
    BY <1>2 DEF TypeInv, TypeOK
  <2> QED
    BY <2>2, <2>3, OthersShape
<1>4. Functional'
  BY <1>2 DEF TypeInv, Functional
<1>5. owed' \in [Caller -> SUBSET AuditedOps]
  BY <1>2, RecordedAudited DEF TypeInv, TypeOK
<1>6. TypeOK'
  <2>1. stage' \in [Caller -> {"statement", "after"}] /\ rows' \in [Id -> Rows \cup {NoRow}]
    BY <1>1, <1>2 DEF TypeInv, TypeOK, Store
  <2>2. FramesTyped'
    BY <1>3, <1>4, ShapeTypes, PTL
  <2> QED
    BY <1>2, <1>5, <2>1, <2>2 DEF TypeInv, TypeOK, FramesTyped
<1>7. Due'
  <2> SUFFICES ASSUME NEW d \in Caller
               PROVE  (/\ method[d] # None =>
                          /\ answered[d] = FALSE
                          /\ owed[d] \subseteq logged[d] \cup {frames[d][k] : k \in Recorded(d)}
                          /\ stage[d] = "statement" => owed[d] = {}
                       /\ answered[d] => owed[d] \subseteq logged[d])'
    BY DEF Due
  <2>1. Recorded(d)' = Recorded(d)
    BY <1>2 DEF Recorded
  <2>2. CASE d # c
    <3>1. stage'[d] = stage[d] /\ owed'[d] = owed[d]
      BY <1>2, <2>2 DEF TypeInv, TypeOK
    <3> QED
      BY <1>2, <2>1, <3>1 DEF Due
  <2>3. CASE d = c
    <3>1. stage'[c] = "after" /\ answered[c] = FALSE
      BY <1>2 DEF TypeInv, TypeOK, Due
    <3>2. owed'[c] \subseteq {frames[c][k] : k \in Recorded(c)}
      <4>1. owed[c] = {}
        BY <1>2 DEF Due
      <4> QED
        BY <1>2, <4>1 DEF TypeInv, TypeOK
    <3> QED
      BY <1>2, <2>1, <2>3, <3>1, <3>2
  <2> QED
    BY <2>2, <2>3
<1> QED
  BY <1>3, <1>4, <1>6, <1>7 DEF TypeInv

\* A caller whose call is over.
LEMMA LeftShape ==
  ASSUME TypeInv, NEW c \in Caller, Left(c), UNCHANGED <<mode, rows, clock>>
  PROVE  /\ Shape' /\ Functional'
         /\ method' \in [Caller -> Method \cup {None}]
         /\ stage' \in [Caller -> {"statement", "after"}]
         /\ filter' \in [Caller -> SUBSET Id] /\ quiet' \in [Caller -> BOOLEAN]
         /\ method'[c] = None
         /\ \A d \in Caller \ {c} :
              UNCHANGED <<method[d], frames[d], stage[d], fields[d], quiet[d]>>
<1>1. /\ method'[c] = None /\ frames'[c] = <<>> /\ stage'[c] = "statement"
      /\ \A d \in Caller \ {c} : UNCHANGED <<method[d], frames[d], stage[d], fields[d], quiet[d]>>
  BY DEF Left, TypeInv, TypeOK, Functional
<1>2. Shape'
  BY <1>1, OthersShape DEF Idle
<1>3. Functional'
  <2>1. Empty \in PlainFields /\ <<>> \in Seq(Methods)
    BY DEF PlainFields
  <2> QED
    BY <2>1 DEF Left, TypeInv, Functional
<1> QED
  BY <1>1, <1>2, <1>3 DEF Left, TypeInv, TypeOK

LEMMA FirstOfTwo ==
  ASSUME NEW x, NEW y
  PROVE  SubSeq(<<x, y>>, 1, 2 - 1) = <<x>>
<1> DEFINE s == SubSeq(<<x, y>>, 1, 1)
<1>1. \A i \in 1 .. 1 : <<x, y>>[i] \in {x, y}
  OBVIOUS
<1>2. s \in Seq({x, y}) /\ Len(s) = 1 /\ s[1] = x
  <2>1. /\ s \in Seq({x, y})
        /\ Len(s) = IF 1 <= 1 THEN 1 - 1 + 1 ELSE 0
        /\ \A i \in 1 .. 1 - 1 + 1 : s[i] = <<x, y>>[1 + i - 1]
    BY <1>1, SubSeqProperties
  <2>2. s[1] = <<x, y>>[1]
    BY <2>1
  <2> QED
    BY <2>1, <2>2
<1>3. <<x>> \in Seq({x, y}) /\ Len(<<x>>) = 1
  OBVIOUS
<1> HIDE DEF s
<1>4. s = <<x>>
  BY <1>2, <1>3, SeqEqual
<1> QED
  BY <1>4 DEF s

LEMMA AfterInv ==
  ASSUME TypeInv, Due, NEW c \in Caller, After(c)
  PROVE  TypeInv' /\ Due'
<1> DEFINE now == IF Len(frames[c]) \in Recorded(c) THEN logged[c] \cup {Op(c)} ELSE logged[c]
<1>1. /\ method[c] # None /\ stage[c] = "after"
      /\ Return(c) /\ UNCHANGED <<mode, rows, clock, owed>>
      /\ logged' \in [Caller -> SUBSET AuditedOps] /\ logged'[c] = now
      /\ \A d \in Caller \ {c} : logged'[d] = logged[d]
  <2>1. Len(frames[c]) \in Recorded(c) => Op(c) \in AuditedOps
    BY DEF Recorded, Op
  <2> QED
    BY <2>1 DEF After, TypeInv, TypeOK
<1>2. owed[c] \subseteq logged[c] \cup {frames[c][k] : k \in Recorded(c)} /\ answered[c] = FALSE
  BY <1>1 DEF Due
\* The inner operation is the last of the frames; one that is due is logged.
<1>3. {frames[c][k] : k \in Recorded(c)}
        \subseteq now \cup {frames[c][k] : k \in Recorded(c) \cap 1 .. Len(frames[c]) - 1}
  <2> SUFFICES ASSUME NEW k \in Recorded(c)
               PROVE  \/ frames[c][k] \in now
                      \/ k \in 1 .. Len(frames[c]) - 1
    OBVIOUS
  <2>1. frames[c] \in Seq(Methods)
    BY DEF TypeInv, Functional
  <2>2. k \in 1 .. Len(frames[c])
    BY <2>1 DEF Recorded
  <2>3. CASE k = Len(frames[c])
    BY <2>3 DEF Op
  <2> QED
    BY <2>1, <2>2, <2>3
<1>4. CASE Len(frames[c]) = 1
  <2>1. Left(c) /\ answered' = [answered EXCEPT ![c] = TRUE]
    BY <1>1, <1>4 DEF Return
  <2>2. /\ Shape' /\ Functional'
        /\ method' \in [Caller -> Method \cup {None}]
        /\ stage' \in [Caller -> {"statement", "after"}]
        /\ filter' \in [Caller -> SUBSET Id] /\ quiet' \in [Caller -> BOOLEAN]
        /\ method'[c] = None
        /\ \A d \in Caller \ {c} :
             UNCHANGED <<method[d], frames[d], stage[d], fields[d], quiet[d]>>
    BY <1>1, <2>1, LeftShape
  <2>3. FramesTyped'
    BY <2>2, ShapeTypes, PTL
  <2>4. TypeOK'
    BY <1>1, <2>1, <2>2, <2>3 DEF TypeInv, TypeOK, FramesTyped
  <2>5. owed[c] \subseteq now
    <3>1. Recorded(c) \cap 1 .. Len(frames[c]) - 1 = {}
      BY <1>4
    <3> QED
      BY <1>2, <1>3, <3>1
  <2>6. Due'
    <3> SUFFICES ASSUME NEW d \in Caller
                 PROVE  (/\ method[d] # None =>
                            /\ answered[d] = FALSE
                            /\ owed[d] \subseteq logged[d] \cup {frames[d][k] : k \in Recorded(d)}
                            /\ stage[d] = "statement" => owed[d] = {}
                         /\ answered[d] => owed[d] \subseteq logged[d])'
      BY DEF Due
    <3>1. CASE d = c
      BY <1>1, <2>2, <2>5, <3>1
    <3>2. CASE d # c
      <4>1. UNCHANGED <<method[d], frames[d], stage[d], quiet[d], owed[d], logged[d], answered[d]>>
        BY <1>1, <2>1, <2>2, <3>2 DEF TypeInv, TypeOK
      <4>2. Recorded(d)' = Recorded(d)
        BY <4>1 DEF Recorded
      <4> QED
        BY <4>1, <4>2 DEF Due
    <3> QED
      BY <3>1, <3>2
  <2> QED
    BY <2>2, <2>4, <2>6 DEF TypeInv
<1>5. CASE Len(frames[c]) # 1
  <2>1. /\ frames' = [frames EXCEPT ![c] = SubSeq(@, 1, Len(@) - 1)]
        /\ UNCHANGED <<method, stage, filter, fields, quiet, answered>>
    BY <1>1, <1>5 DEF Return
  <2>2. Soft(c) /\ frames[c] = <<method[c], "update">>
    <3>1. ~Plain(c)
      <4>1. Plain(c) => Len(frames[c]) = 1
        BY DEF Plain
      <4> QED
        BY <1>5, <4>1
    <3>2. Soft(c)
      BY <1>1, <3>1 DEF TypeInv, Shape, Idle
    <3>3. Len(<<method[c]>>) = 1
      OBVIOUS
    <3> QED
      BY <1>5, <3>2, <3>3 DEF Soft
  <2>3. frames'[c] = <<method[c]>> /\ \A d \in Caller \ {c} : frames'[d] = frames[d]
    <3>1. SubSeq(frames[c], 1, Len(frames[c]) - 1) = <<method[c]>>
      BY <2>2, FirstOfTwo
    <3> QED
      BY <2>1, <3>1 DEF TypeInv, Functional
  <2>4. Soft(c)'
    BY <1>1, <2>1, <2>2, <2>3 DEF Soft
  <2>5. Shape'
    BY <2>1, <2>3, <2>4, OthersShape
  <2>6. Functional'
    <3>1. frames' = [frames EXCEPT ![c] = <<method[c]>>]
      BY <2>1, <2>3 DEF TypeInv, Functional
    <3>2. <<method[c]>> \in Seq(Methods)
      BY <2>2, NoneIsNoMethod DEF Soft
    <3> QED
      BY <2>1, <3>1, <3>2 DEF TypeInv, Functional
  <2>7. FramesTyped'
    BY <2>5, <2>6, ShapeTypes, PTL
  <2>8. TypeOK'
    BY <1>1, <2>1, <2>7 DEF TypeInv, TypeOK, FramesTyped
  <2>9. {frames[c][k] : k \in Recorded(c) \cap 1 .. Len(frames[c]) - 1}
          \subseteq {frames[c][k] : k \in Recorded(c)}'
    <3> SUFFICES ASSUME NEW k \in Recorded(c), k \in 1 .. Len(frames[c]) - 1
                 PROVE  k \in Recorded(c)' /\ frames'[c][k] = frames[c][k]
      OBVIOUS
    <3>1. k = 1
      BY <2>2
    <3>2. frames'[c][1] = frames[c][1] /\ DOMAIN frames'[c] = {1}
      BY <2>2, <2>3
    <3> QED
      BY <2>1, <3>1, <3>2 DEF Recorded
  <2>10. Due'
    <3> SUFFICES ASSUME NEW d \in Caller
                 PROVE  (/\ method[d] # None =>
                            /\ answered[d] = FALSE
                            /\ owed[d] \subseteq logged[d] \cup {frames[d][k] : k \in Recorded(d)}
                            /\ stage[d] = "statement" => owed[d] = {}
                         /\ answered[d] => owed[d] \subseteq logged[d])'
      BY DEF Due
    <3>1. CASE d = c
      <4>1. owed'[c] \subseteq logged'[c] \cup {frames[c][k] : k \in Recorded(c)}'
        BY <1>1, <1>2, <1>3, <2>9
      <4>2. answered'[c] = FALSE /\ stage'[c] # "statement"
        BY <1>1, <1>2, <2>1
      <4> QED
        BY <3>1, <4>1, <4>2, Zenon
    <3>2. CASE d # c
      <4>1. Recorded(d)' = Recorded(d)
        BY <2>1, <2>3, <3>2 DEF Recorded
      <4> QED
        BY <1>1, <2>1, <2>3, <3>2, <4>1 DEF Due
    <3> QED
      BY <3>1, <3>2
  <2> QED
    BY <2>5, <2>6, <2>8, <2>10 DEF TypeInv
<1> QED
  BY <1>4, <1>5

LEMMA ThrowInv ==
  ASSUME TypeInv, Due, NEW c \in Caller, Throw(c)
  PROVE  TypeInv' /\ Due'
<1>1. /\ method[c] # None /\ Left(c)
      /\ UNCHANGED <<mode, rows, clock, owed, logged, answered>>
  BY DEF Throw, history
<1>2. /\ Shape' /\ Functional'
      /\ method' \in [Caller -> Method \cup {None}]
      /\ stage' \in [Caller -> {"statement", "after"}]
      /\ filter' \in [Caller -> SUBSET Id] /\ quiet' \in [Caller -> BOOLEAN]
      /\ method'[c] = None
      /\ \A d \in Caller \ {c} :
           UNCHANGED <<method[d], frames[d], stage[d], fields[d], quiet[d]>>
  BY <1>1, LeftShape
<1>3. FramesTyped'
  BY <1>2, ShapeTypes, PTL
<1>4. TypeOK'
  BY <1>1, <1>2, <1>3 DEF TypeInv, TypeOK, FramesTyped
<1>5. Due'
  <2> SUFFICES ASSUME NEW d \in Caller
               PROVE  (/\ method[d] # None =>
                          /\ answered[d] = FALSE
                          /\ owed[d] \subseteq logged[d] \cup {frames[d][k] : k \in Recorded(d)}
                          /\ stage[d] = "statement" => owed[d] = {}
                       /\ answered[d] => owed[d] \subseteq logged[d])'
    BY DEF Due
  <2>1. CASE d = c
    BY <1>1, <1>2, <2>1 DEF Due
  <2>2. CASE d # c
    <3>1. Recorded(d)' = Recorded(d)
      BY <1>2, <2>2 DEF Recorded
    <3> QED
      BY <1>1, <1>2, <2>2, <3>1 DEF Due
  <2> QED
    BY <2>1, <2>2
<1> QED
  BY <1>2, <1>4, <1>5 DEF TypeInv

\* The clock, the sweep, and steps of nobody.
LEMMA OthersInv ==
  ASSUME TypeInv, Due, Tick \/ Sweep \/ UNCHANGED vars
  PROVE  TypeInv' /\ Due'
<1>1. UNCHANGED <<mode, method, frames, stage, filter, fields, quiet, owed, logged, answered>>
  BY DEF Tick, Sweep, call, history, vars
<1>2. clock' \in 0 .. Horizon
  BY DEF Tick, Sweep, vars, TypeInv, TypeOK
<1>3. rows' \in [Id -> Rows \cup {NoRow}]
  BY DEF Tick, Sweep, vars, TypeInv, TypeOK
<1>4. TypeOK' /\ Functional'
  BY <1>1, <1>2, <1>3 DEF TypeInv, TypeOK, Functional
<1>5. Shape'
  BY <1>1 DEF TypeInv, Shape, Idle, Plain, Soft
<1>6. Due'
  <2>1. \A c \in Caller : Recorded(c)' = Recorded(c)
    BY <1>1 DEF Recorded
  <2> QED
    BY <1>1, <2>1 DEF Due
<1> QED
  BY <1>4, <1>5, <1>6 DEF TypeInv

LEMMA PlainPayload ==
  ASSUME NEW m, NEW f \in Payloads(m)
  PROVE  f \in PlainFields
BY DEF Payloads, PlainFields

LEMMA StepInv == TypeInv /\ Due /\ [Next]_vars => TypeInv' /\ Due'
<1> SUFFICES ASSUME TypeInv, Due, [Next]_vars PROVE TypeInv' /\ Due'
  OBVIOUS
<1>1. ASSUME NEW c \in Caller, NEW m \in Method, NEW ids \in SUBSET Id, NEW q \in BOOLEAN,
             CallPlain(c, m, ids, q)
      PROVE  TypeInv' /\ Due'
  <2>1. PICK f \in Payloads(m) : Start(c, m, <<OpOf(m)>>, ids, f, q)
    BY <1>1 DEF CallPlain
  <2>2. f \in PlainFields /\ m # "restore"
    BY <1>1, PlainPayload DEF CallPlain
  <2>3. <<OpOf(m)>> \in Seq(Methods)
    BY OpsAreMethods, NoneIsNoMethod
  <2>4. Fits(m, <<OpOf(m)>>, f)
    BY <2>2 DEF Fits
  <2> QED
    BY <2>1, <2>2, <2>3, <2>4, StartInv
<1>2. ASSUME NEW c \in Caller, NEW i \in Id, NEW q \in BOOLEAN, CallSoftDelete(c, i, q)
      PROVE  TypeInv' /\ Due'
  <2>1. "delete" \in Method /\ Start(c, "delete", <<"delete", "update">>, {i}, [deleted |-> TRUE], q)
    BY <1>2 DEF CallSoftDelete
  <2>2. <<"delete", "update">> \in Seq(Methods)
    BY OpsAreMethods
  <2>3. [deleted |-> TRUE] \in PlainFields \cup SoftFields
    BY DEF SoftFields
  <2>4. Fits("delete", <<"delete", "update">>, [deleted |-> TRUE])
    BY DEF Fits
  <2>5. {i} \in SUBSET Id /\ FALSE \in BOOLEAN
    OBVIOUS
  <2> QED
    BY <2>1, <2>2, <2>3, <2>4, <2>5, StartInv
<1>3. ASSUME NEW c \in Caller, NEW i \in Id, CallRestore(c, i) PROVE TypeInv' /\ Due'
  <2>1. "restore" \in Method
        /\ Start(c, "restore", <<"restore", "update">>, {i}, [deleted |-> FALSE], FALSE)
    BY <1>3 DEF CallRestore
  <2>2. <<"restore", "update">> \in Seq(Methods)
    BY OpsAreMethods
  <2>3. [deleted |-> FALSE] \in PlainFields \cup SoftFields
    BY DEF SoftFields
  <2>4. Fits("restore", <<"restore", "update">>, [deleted |-> FALSE])
    BY DEF Fits
  <2>5. {i} \in SUBSET Id /\ FALSE \in BOOLEAN
    OBVIOUS
  <2> QED
    BY <2>1, <2>2, <2>3, <2>4, <2>5, StartInv
<1>4. ASSUME NEW c \in Caller, Statement(c) \/ After(c) \/ Throw(c) PROVE TypeInv' /\ Due'
  BY <1>4, StatementInv, AfterInv, ThrowInv
<1>5. ASSUME Tick \/ Sweep \/ UNCHANGED vars PROVE TypeInv' /\ Due'
  BY <1>5, OthersInv
<1> QED
  BY <1>1, <1>2, <1>3, <1>4, <1>5 DEF Next

\* The state keeps its types, however calls, hooks, failures and sweeps come.
THEOREM TypeCorrect == Spec => []TypeOK
<1>1. TypeInv => TypeOK
  BY DEF TypeInv
<1> QED
  BY InitInv, StepInv, <1>1, PTL DEF Spec

\* A caller that was answered finds every change it is owed an entry for in the
\* audit store.
THEOREM AnsweredIsAudited == Spec => []AuditedOrFailed
<1>1. Due => AuditedOrFailed
  BY DEF Due, AuditedOrFailed
<1> QED
  BY InitInv, StepInv, <1>1, PTL DEF Spec

-----------------------------------------------------------------------------
(* What one statement may do. *)

\* Only a statement changes rows or stages to "after", but for a sweep.
LEMMA RowsMoveByStatements ==
  ASSUME TypeInv, [Next]_vars
  PROVE  \/ \E c \in Caller : Statement(c)
         \/ (\A i \in Id : rows'[i] = rows[i] \/ rows'[i] = NoRow) /\ \A c \in Caller : ~Runs(c)
<1> DEFINE Quiet == /\ \A i \in Id : rows'[i] = rows[i] \/ rows'[i] = NoRow
                    /\ \A c \in Caller : ~Runs(c)
<1>1. ASSUME NEW c \in Caller, NEW m, NEW ops, NEW ids, NEW f, NEW q, Start(c, m, ops, ids, f, q)
      PROVE  Quiet
  BY <1>1 DEF Start, Runs
<1>2. ASSUME NEW c \in Caller, After(c) \/ Throw(c) PROVE Quiet
  <2>1. rows' = rows
    BY <1>2 DEF After, Throw
  <2>2. UNCHANGED stage \/ stage' = [stage EXCEPT ![c] = "statement"]
    BY <1>2 DEF After, Throw, Return, Left
  <2> QED
    BY <2>1, <2>2 DEF Runs, TypeInv, TypeOK
<1>3. ASSUME Tick \/ Sweep \/ UNCHANGED vars PROVE Quiet
  BY <1>3 DEF Tick, Sweep, vars, call, Runs
<1> HIDE DEF Quiet
<1>4. (\E c \in Caller : Statement(c)) \/ Quiet
  BY <1>1, <1>2, <1>3, Zenon DEF Next, CallPlain, CallSoftDelete, CallRestore
<1> QED
  BY <1>4 DEF Quiet

\* A statement is the only one of its step.
LEMMA OneRuns ==
  ASSUME TypeInv, NEW c \in Caller, Statement(c), NEW d \in Caller
  PROVE  Runs(d) <=> d = c
<1>1. stage[c] = "statement" /\ stage' = [stage EXCEPT ![c] = "after"]
  BY StatementEffect DEF Ran
<1> QED
  BY <1>1 DEF Runs, TypeInv, TypeOK

\* A soft-deleted row comes back through restore() or replace() only.
THEOREM DeletedStays == Spec => TombstonesStay
<1> DEFINE Stays == \A i \in Id :
      rows[i] # NoRow /\ rows'[i] # NoRow /\ rows[i].deleted /\ ~rows'[i].deleted
        => \E c \in Caller : Runs(c) /\ method[c] \in {"restore", "replace"}
<1>1. TypeInv /\ [Next]_vars => Stays
  <2> SUFFICES ASSUME TypeInv, [Next]_vars, NEW i \in Id,
                      rows[i] # NoRow, rows'[i] # NoRow, rows[i].deleted, ~rows'[i].deleted
               PROVE  \E c \in Caller : Runs(c) /\ method[c] \in {"restore", "replace"}
    OBVIOUS
  <2>1. PICK c \in Caller : Statement(c)
    BY RowsMoveByStatements
  <2>2. Runs(c) /\ method[c] # None /\ stage[c] = "statement"
    BY <2>1, OneRuns, StatementEffect DEF Ran
  <2>3. Changed(c, i, rows[i], rows'[i])
    BY <2>1, StatementEffect DEF Effect, Made, Gone
  <2>4. CASE Plain(c) /\ Op(c) = OpOf(method[c])
    <3>1. "deleted" \notin DOMAIN fields[c]
      BY <2>4 DEF Plain, PlainFields, Empty
    <3>2. Written(fields[c], rows[i]).deleted = rows[i].deleted /\ Written(fields[c], rows[i]) \in Rows
      BY <2>3, <3>1, WrittenTyped DEF Changed
    <3>3. Op(c) = "replace"
      BY <2>3, <3>2, StampedTyped DEF Changed
    <3>4. method[c] = "replace"
      BY <2>4, <3>3 DEF OpOf
    <3> QED
      BY <2>2, <3>4
  <2>5. CASE Soft(c) /\ Op(c) = "update"
    <3>1. rows'[i] = Written(fields[c], rows[i]) /\ rows[i] \in Rows
      BY <2>3, <2>5 DEF Changed
    <3>2. "deleted" \in DOMAIN fields[c] /\ fields[c]["deleted"] = (method[c] = "delete")
      BY <2>5 DEF Soft
    <3>3. rows'[i].deleted = (method[c] = "delete")
      BY <3>1, <3>2, WrittenTyped
    <3>4. method[c] = "restore"
      BY <2>5, <3>3 DEF Soft
    <3> QED
      BY <2>2, <3>4
  <2> QED
    BY <2>2, <2>4, <2>5, OpBefore
<1> QED
  BY InitInv, StepInv, <1>1, PTL DEF Spec, TombstonesStay

\* A caller reaches and changes rows of its tenant only, and makes rows of its
\* tenant only, where resolveTenantId reads the request's context.
THEOREM TenantsStayApart ==
  ASSUME Ambient
  PROVE  Spec => TenantsApart
<1> DEFINE Apart == \A c \in Caller :
      Runs(c) /\ TenantOf[c] # None /\ method[c] # "replace" =>
        /\ Op(c) \notin {"create", "createMany", "upsert"}
             => \A i \in Found(c) : rows[i].tenant = TenantOf[c]
        /\ \A i \in Id : rows'[i] # rows[i] =>
             /\ rows[i] # NoRow /\ Op(c) # "upsert"
                  => rows[i].tenant = TenantOf[c] \/ Expired(rows[i])
             /\ rows'[i] # NoRow /\ Op(c) \notin Unstamped
                  => rows'[i].tenant = TenantOf[c]
<1>1. TypeInv /\ [Next]_vars => Apart
  <2> SUFFICES ASSUME TypeInv, [Next]_vars, NEW c \in Caller,
                      Runs(c), TenantOf[c] # None, method[c] # "replace"
               PROVE  /\ Op(c) \notin {"create", "createMany", "upsert"}
                           => \A i \in Found(c) : rows[i].tenant = TenantOf[c]
                      /\ \A i \in Id : rows'[i] # rows[i] =>
                           /\ rows[i] # NoRow /\ Op(c) # "upsert"
                                => rows[i].tenant = TenantOf[c] \/ Expired(rows[i])
                           /\ rows'[i] # NoRow /\ Op(c) \notin Unstamped
                                => rows'[i].tenant = TenantOf[c]
    OBVIOUS
  <2>1. Statement(c)
    BY RowsMoveByStatements, OneRuns
  <2>2. Resolved(c) = TenantOf[c] /\ method[c] # None /\ stage[c] = "statement"
    BY <2>1, StatementEffect DEF Resolved, Ran
  <2>3. Op(c) # "replace" /\ Op(c) \in Methods \ {"getDeleted", "getExpired"}
    <3>1. CASE Plain(c) /\ Op(c) = OpOf(method[c])
      BY <3>1, NoneIsNoMethod, OpsAreMethods DEF Plain, OpOf
    <3>2. CASE Op(c) = "update"
      BY <3>2, OpsAreMethods
    <3> QED
      BY <2>2, <3>1, <3>2, OpBefore
  <2>4. Op(c) \in WRITE_OPS \/ Op(c) \in QUERY_OPS \cup LIST_OPS
    BY <2>3 DEF Methods, Selects, Patches, Removes, Unstamped, WRITE_OPS, QUERY_OPS, LIST_OPS
  <2>5. ASSUME Op(c) \in QUERY_OPS \cup LIST_OPS, NEW i \in Found(c) PROVE rows[i].tenant = TenantOf[c]
    BY <2>2, <2>5 DEF Found, InScope
  <2>6. Patches \cup Removes \subseteq QUERY_OPS
    BY DEF Patches, Removes, QUERY_OPS
  <2>7. ASSUME NEW i \in Id, rows'[i] # rows[i]
        PROVE  /\ rows[i] # NoRow /\ Op(c) # "upsert"
                    => rows[i].tenant = TenantOf[c] \/ Expired(rows[i])
               /\ rows'[i] # NoRow /\ Op(c) \notin Unstamped
                    => rows'[i].tenant = TenantOf[c]
    <3>1. CASE Made(c, rows[i], rows'[i])
      BY <2>2, <3>1 DEF Made
    <3>2. CASE Gone(c, i, rows[i], rows'[i])
      BY <2>5, <2>6, <3>2 DEF Gone
    <3>3. CASE Op(c) \in Patches /\ i \in Found(c) /\ rows'[i] = Written(fields[c], rows[i])
               /\ rows[i] \in Rows
      BY <2>5, <2>6, <3>3, WrittenTyped
    <3>4. CASE /\ Op(c) = "upsert" /\ rows[i] \in Rows
               /\ rows'[i] = Stamped(c, Written(fields[c], rows[i]))
      <4>1. Op(c) \in WRITE_OPS /\ Written(fields[c], rows[i]) \in Rows
        BY <3>4, WrittenTyped DEF WRITE_OPS
      <4> QED
        BY <2>2, <3>4, <4>1, StampedTyped
    <3> QED
      BY <2>1, <2>3, <2>7, <3>1, <3>2, <3>3, <3>4, StatementEffect DEF Effect, Changed
  <2> QED
    BY <2>4, <2>5, <2>7 DEF WRITE_OPS
<1> QED
  BY InitInv, StepInv, <1>1, PTL DEF Spec, TenantsApart
=============================================================================
