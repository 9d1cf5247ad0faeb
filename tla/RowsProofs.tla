----------------------------- MODULE RowsProofs -----------------------------
(***************************************************************************)
(* Theorems about Rows, for any number of ids and callers and any steps of *)
(* claimVersion.                                                           *)
(***************************************************************************)
EXTENDS Rows, TLAPS

InTxn == {"found", "absent", "upsert"}

\* A method's transaction is the one that is open, and has its id; a call of
\* update({ ifVersion }) has its row.
CallInv ==
  \A c \in Caller :
    /\ pc[c] \in InTxn => txn = c /\ key[c] \in Id
    /\ pc[c] \in {"update", "missed"} => doc[c] # None

\* Nobody has a row that is "new", and one caller at most any other row.
WonOk(i) ==
  /\ Present(i) /\ table[i].status = "new" => won[i] = {}
  /\ \A c, d \in won[i] : c = d

WonInv == \A i \in Id : WonOk(i)

\* Only a purge touches the row between a SELECT that found it and its UPDATE,
\* and nothing the id between a SELECT that found no row and its INSERT.
SelectOk(c) ==
  /\ pc[c] = "found" /\ Present(key[c]) => table[key[c]].status = "new"
  /\ pc[c] = "absent" => ~Visible(key[c])

SelectInv == \A c \in Caller : SelectOk(c)

\* The row that was read as d is still as it was, or its version is higher.
Overtaken(d) ==
  /\ writes[d.id] > d.writes
  /\ table[d.id].version # Null /\ table[d.id].version > Number(d.version)

Untouched(d) ==
  writes[d.id] = d.writes /\ table[d.id].version = d.version

Seen(d) ==
  /\ d.life <= life[d.id]
  /\ d.life = life[d.id] /\ Present(d.id) => Untouched(d) \/ Overtaken(d)

DocInv == \A c \in Caller : doc[c] # None => Seen(doc[c])

\* With a default of 0 the version column is never NULL.
VersionInv ==
  /\ \A i \in Id : Present(i) => table[i].version \in Nat
  /\ \A c \in Caller : doc[c] # None => doc[c].version \in Nat

\* The row of an update({ ifVersion }) that missed has moved on, or is gone.
Late(d) == ~Present(d.id) \/ life[d.id] # d.life \/ writes[d.id] > d.writes

MissedInv == \A c \in Caller : pc[c] = "missed" => Late(doc[c])

-----------------------------------------------------------------------------
(* Types. *)

\* A row stays a row when a column of it is set.
LEMMA RowColumns ==
  ASSUME NEW r \in Row
  PROVE  /\ \A s \in Status : [r EXCEPT !.status = s] \in Row
         /\ \A s \in Status : [r EXCEPT !.status = s] # NoRow
         /\ \A d \in BOOLEAN : [r EXCEPT !.deleted = d] \in Row
         /\ \A d \in BOOLEAN : [r EXCEPT !.deleted = d] # NoRow
         /\ \A v \in Version, s \in Status, d \in BOOLEAN :
              /\ [version |-> v, status |-> s, deleted |-> d] \in Row
              /\ [version |-> v, status |-> s, deleted |-> d] # NoRow
<1>1. \A s \in Status : [r EXCEPT !.status = s] \in Row
  BY DEF Row
<1>2. \A d \in BOOLEAN : [r EXCEPT !.deleted = d] \in Row
  BY DEF Row
<1>3. \A v \in Version, s \in Status, d \in BOOLEAN : [version |-> v, status |-> s, deleted |-> d] \in Row
  BY DEF Row
<1> QED
  BY <1>1, <1>2, <1>3, NothingAssumption

RowTypes ==
  /\ table  \in [Id -> Row \cup {NoRow}]
  /\ life   \in [Id -> Nat]
  /\ writes \in [Id -> Nat]
  /\ won    \in [Id -> SUBSET Caller]

\* What a statement may do to the row of an id: leave its version or remove
\* it, make it, or move its version forward.
Kept(i) ==
  /\ life'[i] = life[i] /\ writes'[i] = writes[i]
  /\ \/ ~Present(i)'
     \/ Present(i) /\ Present(i)' /\ table'[i].version = table[i].version

Born(i) ==
  /\ ~Present(i) /\ Present(i)'
  /\ life'[i] = life[i] + 1 /\ writes'[i] = 0 /\ table'[i].version = FirstVersion

Moved(i) ==
  /\ Present(i) /\ Present(i)'
  /\ life'[i] = life[i] /\ writes'[i] = writes[i] + 1
  /\ table'[i].version \in Nat /\ table'[i].version > Number(table[i].version)

Change == RowTypes' /\ \A i \in Id : Kept(i) \/ Born(i) \/ Moved(i)

LEMMA InsertChange ==
  ASSUME TypeOK, NEW i \in Id, NEW s \in Status, NEW W \in SUBSET Caller, Insert(i, s, W)
  PROVE  Change
<1> DEFINE r == [version |-> FirstVersion, status |-> s, deleted |-> FALSE]
<1>1. r \in Row
  BY RowsAssumption DEF Row, Version
<1>2. RowTypes'
  BY <1>1 DEF TypeOK, Insert, RowTypes
<1>3. Born(i)
  <2>1. r # NoRow /\ r.version = FirstVersion
    BY <1>1, NothingAssumption
  <2> QED
    BY <2>1 DEF TypeOK, Insert, Born, Present
<1>4. \A j \in Id \ {i} : Kept(j)
  BY DEF TypeOK, Insert, Kept, Present
<1> QED
  BY <1>2, <1>3, <1>4 DEF Change

LEMMA SetStatusChange ==
  ASSUME TypeOK, NEW S \in SUBSET {i \in Id : Present(i)}, NEW s \in Status, SetStatus(S, s)
  PROVE  Change
<1>1. \A i \in S : /\ [table[i] EXCEPT !.status = s] \in Row
                   /\ [table[i] EXCEPT !.status = s] # NoRow
                   /\ [table[i] EXCEPT !.status = s].version = table[i].version
  BY RowColumns DEF TypeOK, Present, Row
<1>2. \A i \in Id : Reopened(i, s) \in SUBSET Caller
  BY DEF Reopened, TypeOK
<1>3. RowTypes'
  BY <1>1, <1>2 DEF TypeOK, SetStatus, RowTypes
<1>4. \A i \in Id : Kept(i)
  BY <1>1 DEF TypeOK, SetStatus, Kept, Present
<1> QED
  BY <1>3, <1>4 DEF Change

LEMMA SetRowChange ==
  ASSUME TypeOK, NEW i \in Id, Present(i), NEW by \in Nat \ {0}, NEW s \in Status, NEW d \in BOOLEAN,
         SetRow(i, by, s, d)
  PROVE  Change /\ Moved(i)
<1> DEFINE r == [version |-> Number(table[i].version) + by, status |-> s, deleted |-> d]
<1>1. Number(table[i].version) \in Nat
  BY DEF TypeOK, Present, Row, Version, Number
<1>2. r \in Row /\ r # NoRow /\ r.version \in Nat /\ r.version > Number(table[i].version)
  BY <1>1, NothingAssumption DEF Row, Version
<1>3. Reopened(i, s) \in SUBSET Caller
  BY DEF Reopened, TypeOK
<1> HIDE DEF r
<1>4. table' = [table EXCEPT ![i] = r]
  BY DEF SetRow, r
<1>5. RowTypes'
  BY <1>2, <1>3, <1>4 DEF TypeOK, SetRow, RowTypes
<1>6. Moved(i)
  BY <1>2, <1>4 DEF TypeOK, SetRow, Moved, Present
<1>7. \A j \in Id \ {i} : Kept(j)
  BY <1>4 DEF TypeOK, SetRow, Kept, Present
<1> QED
  BY <1>5, <1>6, <1>7 DEF Change

LEMMA SetDeletedChange ==
  ASSUME TypeOK, NEW i \in Id, Present(i), NEW d \in BOOLEAN, SetDeleted(i, d)
  PROVE  Change
<1>1. /\ [table[i] EXCEPT !.deleted = d] \in Row
      /\ [table[i] EXCEPT !.deleted = d] # NoRow
      /\ [table[i] EXCEPT !.deleted = d].version = table[i].version
  BY RowColumns DEF TypeOK, Present, Row
<1>2. RowTypes'
  BY <1>1 DEF TypeOK, SetDeleted, RowTypes
<1>3. \A j \in Id : Kept(j)
  BY <1>1 DEF TypeOK, SetDeleted, Kept, Present
<1> QED
  BY <1>2, <1>3 DEF Change

LEMMA RemoveChange ==
  ASSUME TypeOK, NEW S, Remove(S)
  PROVE  Change
<1>1. RowTypes'
  BY DEF TypeOK, Remove, RowTypes
<1>2. \A j \in Id : Kept(j)
  BY DEF TypeOK, Remove, Kept, Present
<1> QED
  BY <1>1, <1>2 DEF Change

LEMMA TakeChange ==
  ASSUME TypeOK, NEW c \in Caller, NEW i \in Id, Present(i), Take(c, i)
  PROVE  Change
<1>1. /\ [table[i] EXCEPT !.status = "taken"] \in Row
      /\ [table[i] EXCEPT !.status = "taken"] # NoRow
      /\ [table[i] EXCEPT !.status = "taken"].version = table[i].version
  BY RowColumns DEF TypeOK, Present, Row, Status
<1>2. RowTypes'
  BY <1>1 DEF TypeOK, Take, RowTypes
<1>3. \A j \in Id : Kept(j)
  BY <1>1 DEF TypeOK, Take, Kept, Present
<1> QED
  BY <1>2, <1>3 DEF Change

\* ... and a step that leaves the rows alone.
LEMMA SameChange == TypeOK /\ UNCHANGED rowVars => Change
BY DEF TypeOK, rowVars, Change, RowTypes, Kept, Present

-----------------------------------------------------------------------------
(* Steps. *)

\* A call with no caller: create, upsert, updateMany, replace, delete ...
LEMMA RowNextChange == TypeOK /\ RowNext => Change /\ UNCHANGED callerVars
<1> SUFFICES ASSUME TypeOK, RowNext PROVE Change /\ UNCHANGED callerVars
  OBVIOUS
<1>1. ASSUME NEW i \in Id, Create(i) PROVE Change /\ UNCHANGED callerVars
  BY <1>1, InsertChange DEF Create, Status
<1>2. ASSUME NEW i \in Id, SoftDelete(i) \/ Restore(i) PROVE Change /\ UNCHANGED callerVars
  BY <1>2, SetDeletedChange DEF SoftDelete, Restore
<1>3. ASSUME NEW i \in Id, HardDelete(i) PROVE Change /\ UNCHANGED callerVars
  BY <1>3, RemoveChange DEF HardDelete
<1>4. ASSUME NEW i \in Id, NEW s \in Status, Upsert(i, s) PROVE Change /\ UNCHANGED callerVars
  <2>1. CASE Insert(i, s, {})
    BY <1>4, <2>1, InsertChange DEF Upsert
  <2>2. CASE Present(i) /\ SetStatus({i}, s)
    BY <1>4, <2>2, SetStatusChange DEF Upsert
  <2> QED
    BY <1>4, <2>1, <2>2 DEF Upsert
<1>5. ASSUME NEW i \in Id, NEW s \in Status, Replace(i, s) PROVE Change /\ UNCHANGED callerVars
  <2>1. 1 \in Nat \ {0} /\ FALSE \in BOOLEAN
    OBVIOUS
  <2> QED
    BY <1>5, <2>1, SetRowChange DEF Replace
<1>6. ASSUME NEW s \in Status, DeleteMany(s) PROVE Change /\ UNCHANGED callerVars
  BY <1>6, RemoveChange DEF DeleteMany
<1>7. ASSUME NEW s \in Status, NEW t \in Status, UpdateMany(s, t) PROVE Change /\ UNCHANGED callerVars
  BY <1>7, SetStatusChange DEF UpdateMany
<1>8. ASSUME NEW S \in SUBSET Id, PurgeChunk(S) PROVE Change /\ UNCHANGED callerVars
  BY <1>8, RemoveChange DEF PurgeChunk
<1> QED
  BY <1>1, <1>2, <1>3, <1>4, <1>5, <1>6, <1>7, <1>8 DEF RowNext

CallerTypes ==
  /\ pc     \in [Caller -> {"idle", "update", "missed", "found", "absent", "upsert"}]
  /\ doc    \in [Caller -> Doc \cup {None}]
  /\ key    \in [Caller -> Id \cup {None}]
  /\ answer \in [Caller -> {"none", "updated", "conflict", "missing"}]
  /\ txn    \in Caller \cup {None}

TypeInv == TypeOK /\ CallInv

\* Whatever one caller does, the rows change as a statement changes them.
LEMMA CallerNextChange ==
  ASSUME TypeInv, NEW c \in Caller, CallerNext(c)
  PROVE  Change
<1> USE DEF TypeInv
<1>1. CASE CallUpdate(c) \/ CasMisses(c) \/ FollowUp(c) \/ ClaimVersionMisses(c)
           \/ FoundIsGone(c) \/ InsertFails(c)
  BY <1>1, SameChange DEF CallUpdate, CasMisses, FollowUp, ClaimVersionMisses, FoundIsGone, InsertFails
<1>2. CASE CasMatches(c)
  <2>1. doc[c].id \in Id /\ Present(doc[c].id)
    BY <1>2 DEF CasMatches, Matches, CallInv, TypeOK, Doc
  <2>2. table[doc[c].id].status \in Status /\ table[doc[c].id].deleted \in BOOLEAN
    BY <2>1 DEF TypeOK, Present, Row
  <2> QED
    BY <1>2, <2>1, <2>2, SetRowChange DEF CasMatches
<1>3. ASSUME NEW by \in By, ClaimVersion(c, by) PROVE Change
  <2>1. doc[c].id \in Id /\ Present(doc[c].id)
    BY <1>3 DEF ClaimVersion, Claimable, TypeOK, Doc
  <2>2. table[doc[c].id].status \in Status /\ table[doc[c].id].deleted \in BOOLEAN
    BY <2>1 DEF TypeOK, Present, Row
  <2>3. by \in Nat \ {0}
    BY RowsAssumption
  <2> QED
    BY <1>3, <2>1, <2>2, <2>3, SetRowChange DEF ClaimVersion
<1>4. CASE UpdateFound(c)
  BY <1>4, TakeChange DEF UpdateFound, CallInv, InTxn
<1>5. CASE InsertTaken(c)
  BY <1>5, InsertChange DEF InsertTaken, CallInv, InTxn, Status
<1>6. CASE InsertAbsent(c)
  BY <1>6, InsertChange DEF InsertAbsent, CallInv, InTxn, Status
<1>7. ASSUME NEW i \in Id, Read(c, i) PROVE Change
  BY <1>7, SameChange DEF Read
<1>8. ASSUME NEW i \in Id, Claim(c, i) PROVE Change
  BY <1>8, TakeChange DEF Claim
<1>9. ASSUME NEW i \in Id, ClaimBack(c, i) PROVE Change
  BY <1>9, SetStatusChange DEF ClaimBack, Status
<1>10. ASSUME NEW i \in Id, FindOne(c, i) \/ GetOrCreate(c, i) PROVE Change
  BY <1>10, SameChange DEF FindOne, GetOrCreate, Begin
<1> QED
  BY <1>1, <1>2, <1>3, <1>4, <1>5, <1>6, <1>7, <1>8, <1>9, <1>10 DEF CallerNext

\* What a step does to the call of one caller c; the others' calls stay put.
LEMMA CallerNextTypes ==
  ASSUME TypeInv, NEW c \in Caller, CallerNext(c)
  PROVE  CallerTypes' /\ CallInv'
<1> USE DEF TypeInv, TypeOK, CallerTypes, CallInv, InTxn, Open
<1>1. CASE CallUpdate(c)
  BY <1>1 DEF CallUpdate
<1>2. CASE CasMatches(c)
  BY <1>2 DEF CasMatches
<1>3. CASE CasMisses(c)
  BY <1>3 DEF CasMisses
<1>4. CASE FollowUp(c)
  BY <1>4 DEF FollowUp
<1>5. ASSUME ClaimVersionMisses(c) \/ \E by \in By : ClaimVersion(c, by)
      PROVE  CallerTypes' /\ CallInv'
  BY <1>5 DEF ClaimVersionMisses, ClaimVersion
<1>6. CASE Finish(c) /\ pc[c] \in InTxn
  BY <1>6, RowsAssumption DEF Finish
<1>7. CASE UpdateFound(c) \/ InsertTaken(c) \/ InsertAbsent(c) \/ InsertFails(c)
  BY <1>6, <1>7 DEF UpdateFound, InsertTaken, InsertAbsent, InsertFails
<1>8. CASE FoundIsGone(c)
  BY <1>6, <1>8 DEF FoundIsGone
<1>9. ASSUME NEW i \in Id, Read(c, i) PROVE CallerTypes' /\ CallInv'
  <2>1. Visible(i) =>
          [id |-> i, version |-> table[i].version, life |-> life[i], writes |-> writes[i]] \in Doc
    BY DEF Visible, Present, Row, Doc
  <2> QED
    BY <1>9, <2>1 DEF Read
<1>10. ASSUME NEW i \in Id, Claim(c, i) \/ ClaimBack(c, i) PROVE CallerTypes' /\ CallInv'
  BY <1>10 DEF Claim, ClaimBack, callerVars
<1>11. ASSUME NEW i \in Id, NEW q \in InTxn, Begin(c, i, q) PROVE CallerTypes' /\ CallInv'
  BY <1>11, RowsAssumption DEF Begin
<1>12. ASSUME NEW i \in Id, FindOne(c, i) \/ GetOrCreate(c, i) PROVE CallerTypes' /\ CallInv'
  BY <1>11, <1>12 DEF FindOne, GetOrCreate
<1> QED
  BY <1>1, <1>2, <1>3, <1>4, <1>5, <1>7, <1>8, <1>9, <1>10, <1>12 DEF CallerNext

LEMMA Typed == RowTypes /\ CallerTypes <=> TypeOK
BY DEF RowTypes, CallerTypes, TypeOK

\* One step keeps every variable in its type, and changes the rows as a
\* statement changes them.
LEMMA TypeStep == TypeInv /\ [Next]_vars => TypeInv' /\ Change
<1> SUFFICES ASSUME TypeInv, [Next]_vars PROVE TypeInv' /\ Change
  OBVIOUS
<1>1. CASE RowNext
  <2>1. Change /\ UNCHANGED callerVars
    BY <1>1, RowNextChange DEF TypeInv
  <2>2. CallerTypes' /\ CallInv'
    BY <2>1 DEF TypeInv, TypeOK, CallerTypes, CallInv, callerVars
  <2> QED
    BY <2>1, <2>2, Typed DEF Change, TypeInv, TypeOK, RowTypes, CallerTypes
<1>2. ASSUME NEW c \in Caller, CallerNext(c) PROVE TypeInv' /\ Change
  <2>1. Change /\ CallerTypes' /\ CallInv'
    BY <1>2, CallerNextChange, CallerNextTypes
  <2> QED
    BY <2>1, Typed DEF Change, TypeInv, TypeOK, RowTypes, CallerTypes
<1>3. CASE UNCHANGED vars
  <2>1. Change
    BY <1>3, SameChange DEF vars, TypeInv
  <2>2. CallerTypes' /\ CallInv'
    BY <1>3 DEF TypeInv, TypeOK, CallerTypes, CallInv, vars, callerVars
  <2> QED
    BY <2>1, <2>2, Typed DEF Change, TypeInv, TypeOK, RowTypes, CallerTypes
<1> QED
  BY <1>1, <1>2, <1>3 DEF Next

LEMMA TypeInit == Init => TypeInv
BY DEF Init, TypeInv, TypeOK, CallInv, InTxn

\* Every variable stays in its type.
THEOREM TypeCorrect == Spec => []TypeOK
<1>1. TypeInv => TypeOK
  BY DEF TypeInv
<1> QED
  BY <1>1, TypeInit, TypeStep, PTL DEF Spec

-----------------------------------------------------------------------------
(* Reads and the writes based on them. *)

ReadNow(i) == [id |-> i, version |-> table[i].version, life |-> life[i], writes |-> writes[i]]

\* A caller keeps what it has read, drops it, or reads a row as it is now.
LEMMA DocChange ==
  ASSUME TypeInv, [Next]_vars, NEW c \in Caller
  PROVE  \/ doc'[c] \in {doc[c], None}
         \/ \E i \in Id : Present(i) /\ doc'[c] = ReadNow(i) /\ UNCHANGED rowVars
<1> USE DEF TypeInv, TypeOK
<1>1. CASE RowNext
  BY <1>1, RowNextChange DEF callerVars
<1>2. ASSUME NEW d \in Caller, NEW i \in Id, Read(d, i)
      PROVE  \/ doc'[c] \in {doc[c], None}
             \/ \E j \in Id : Present(j) /\ doc'[c] = ReadNow(j) /\ UNCHANGED rowVars
  BY <1>2 DEF Read, Visible, ReadNow
<1>3. ASSUME NEW d \in Caller, CallerNext(d), ~\E i \in Id : Read(d, i)
      PROVE  doc'[c] \in {doc[c], None}
  BY <1>3 DEF CallerNext, CallUpdate, CasMatches, CasMisses, FollowUp, ClaimVersionMisses,
              ClaimVersion, UpdateFound, FoundIsGone, InsertTaken, InsertAbsent, InsertFails,
              Claim, ClaimBack, FindOne, GetOrCreate, Begin, Finish, callerVars
<1>4. CASE UNCHANGED vars
  BY <1>4 DEF vars, callerVars
<1> QED
  BY <1>1, <1>2, <1>3, <1>4 DEF Next

\* The versions of one row only go up.
LEMMA SeenStep ==
  ASSUME TypeOK, Change, NEW d \in Doc, Seen(d)
  PROVE  Seen(d)'
<1> PICK i \in Id : i = d.id
  BY DEF Doc
<1>1. d.life \in Nat /\ d.writes \in Nat /\ d.version \in Version
  BY DEF Doc
<1>2. life[i] \in Nat /\ writes[i] \in Nat /\ (Present(i) => table[i].version \in Version)
  BY DEF TypeOK, Present, Row
<1>3. CASE Kept(i)
  BY <1>3 DEF Kept, Seen, Untouched, Overtaken, Present, Number
<1>4. CASE Born(i)
  BY <1>1, <1>2, <1>4 DEF Born, Seen
<1>5. CASE Moved(i)
  <2>1. Number(table[i].version) \in Nat /\ Number(d.version) \in Nat
    BY <1>1, <1>2, <1>5 DEF Moved, Number, Version
  <2>2. table'[i].version \in Nat /\ table'[i].version # Null /\ table'[i].version > Number(table[i].version)
    BY <1>5, RowsAssumption DEF Moved
  <2>3. d.life = life[i] => writes[i] >= d.writes /\ Number(table[i].version) >= Number(d.version)
    BY <1>1, <1>2, <1>5, <2>1 DEF Moved, Number, Version, Seen, Untouched, Overtaken
  <2>4. d.life = life[i] => Overtaken(d)'
    BY <1>1, <1>2, <1>5, <2>1, <2>2, <2>3 DEF Moved, Overtaken, Number
  <2>5. d.life <= life[i] /\ life'[i] = life[i]
    BY <1>5 DEF Moved, Seen
  <2> QED
    BY <2>4, <2>5 DEF Seen
<1> QED
  BY <1>3, <1>4, <1>5 DEF Change

LEMMA DocStep == TypeInv /\ DocInv /\ [Next]_vars => DocInv'
<1> SUFFICES ASSUME TypeInv, DocInv, [Next]_vars, NEW c \in Caller, doc'[c] # None
    PROVE  Seen(doc[c])'
  BY DEF DocInv
<1>1. Change /\ TypeInv'
  BY TypeStep
<1>2. CASE doc'[c] = doc[c]
  <2> PICK d \in Doc : d = doc[c]
    BY <1>2 DEF TypeInv, TypeOK
  <2>1. Seen(d)
    BY <1>2 DEF DocInv
  <2>2. Seen(d)'
    BY <1>1, <2>1, SeenStep DEF TypeInv
  <2> QED
    BY <1>2, <2>2 DEF Seen, Untouched, Overtaken, Present, Number
<1>3. ASSUME NEW i \in Id, Present(i), doc'[c] = ReadNow(i), UNCHANGED rowVars
      PROVE  Seen(doc[c])'
  <2>1. life[i] \in Nat
    BY DEF TypeInv, TypeOK
  <2> QED
    BY <1>3, <2>1 DEF ReadNow, rowVars, Seen, Untouched
<1> QED
  BY <1>2, <1>3, DocChange

\* A guarded write finds the version its caller read: so its row is unchanged.
LEMMA GuardedWrite ==
  ASSUME TypeInv, DocInv, NEW c \in Caller,
         CasMatches(c) \/ \E by \in By : ClaimVersion(c, by),
         life[doc[c].id] = doc[c].life
  PROVE  writes[doc[c].id] = doc[c].writes
<1>1. doc[c] # None /\ doc[c] \in Doc
  BY DEF CasMatches, ClaimVersion, TypeInv, TypeOK, CallInv
<1>2. doc[c].id \in Id /\ doc[c].version \in Version
  BY <1>1 DEF Doc
<1>3. Present(doc[c].id) /\ table[doc[c].id].version \in {doc[c].version, Number(doc[c].version)}
  BY DEF CasMatches, Matches, ClaimVersion, Claimable
<1>4. ~(table[doc[c].id].version # Null /\ table[doc[c].id].version > Number(doc[c].version))
  BY <1>2, <1>3 DEF Number, Version
<1> QED
  BY <1>1, <1>3, <1>4 DEF DocInv, Seen, Untouched, Overtaken

LEMMA DocInit == Init => DocInv
BY DEF Init, DocInv

\* A write that is conditional on the version its caller read loses no write
\* that came after the read.
THEOREM NothingIsLost == Spec => NoLostUpdate
<1>1. TypeInv /\ DocInv /\ [Next]_vars => TypeInv' /\ DocInv'
  BY TypeStep, DocStep
<1>2. TypeInv /\ DocInv =>
        \A c \in Caller :
          (CasMatches(c) \/ \E by \in By : ClaimVersion(c, by)) /\ life[doc[c].id] = doc[c].life
            => writes[doc[c].id] = doc[c].writes
  BY GuardedWrite
<1> QED
  BY <1>1, <1>2, TypeInit, DocInit, PTL DEF Spec, NoLostUpdate
-----------------------------------------------------------------------------
(* Who took a row. *)

\* Each statement leaves at most one caller with a row.
LEMMA InsertWon ==
  ASSUME TypeOK, WonInv, NEW i \in Id, NEW s \in Status, NEW W, Insert(i, s, W),
         W = {} \/ (s = "taken" /\ \E c \in Caller : W = {c})
  PROVE  WonInv'
<1> DEFINE r == [version |-> FirstVersion, status |-> s, deleted |-> FALSE]
<1>1. r.status = s
  OBVIOUS
<1> HIDE DEF r
<1>2. table' = [table EXCEPT ![i] = r] /\ won' = [won EXCEPT ![i] = W]
  BY DEF Insert, r
<1>3. WonOk(i)'
  <2>1. table'[i] = r /\ won'[i] = W
    BY <1>2 DEF TypeOK
  <2>2. CASE W = {}
    BY <2>1, <2>2 DEF WonOk
  <2>3. ASSUME NEW c \in Caller, W = {c}, s = "taken" PROVE WonOk(i)'
    BY <1>1, <2>1, <2>3 DEF WonOk
  <2> QED
    BY <2>2, <2>3
<1>4. \A j \in Id \ {i} : WonOk(j)'
  BY <1>2 DEF TypeOK, WonInv, WonOk, Present
<1> QED
  BY <1>3, <1>4 DEF WonInv

LEMMA SetStatusWon ==
  ASSUME TypeOK, WonInv, NEW S \in SUBSET {i \in Id : Present(i)}, NEW s \in Status, SetStatus(S, s)
  PROVE  WonInv'
<1>1. \A i \in S : table'[i].status = s /\ won'[i] = Reopened(i, s) /\ Present(i)
  BY DEF TypeOK, SetStatus, Present, Row
<1>2. ASSUME NEW i \in S PROVE WonOk(i)'
  <2>1. table'[i].status = s /\ won'[i] = Reopened(i, s) /\ WonOk(i)
    BY <1>1 DEF WonInv
  <2>2. CASE s = "new"
    BY <2>1, <2>2 DEF WonOk, Reopened
  <2>3. CASE s = "taken"
    BY <2>1, <2>3 DEF WonOk, Reopened
  <2> QED
    BY <2>2, <2>3 DEF Status
<1>3. \A i \in Id \ S : WonOk(i)'
  BY DEF TypeOK, SetStatus, WonInv, WonOk, Present
<1> QED
  BY <1>2, <1>3 DEF WonInv

LEMMA SetRowWon ==
  ASSUME TypeOK, WonInv, NEW i \in Id, Present(i), NEW by, NEW s \in Status, NEW d,
         SetRow(i, by, s, d)
  PROVE  WonInv'
<1> DEFINE r == [version |-> Number(table[i].version) + by, status |-> s, deleted |-> d]
<1>1. r.status = s
  OBVIOUS
<1> HIDE DEF r
<1>2. table' = [table EXCEPT ![i] = r] /\ won' = [won EXCEPT ![i] = Reopened(i, s)]
  BY DEF SetRow, r
<1>3. WonOk(i)'
  <2>1. table'[i] = r /\ won'[i] = Reopened(i, s) /\ WonOk(i)
    BY <1>2 DEF TypeOK, WonInv
  <2>2. CASE s = "new"
    BY <1>1, <2>1, <2>2 DEF WonOk, Reopened
  <2>3. CASE s = "taken"
    BY <1>1, <2>1, <2>3 DEF WonOk, Reopened
  <2> QED
    BY <2>2, <2>3 DEF Status
<1>4. \A j \in Id \ {i} : WonOk(j)'
  BY <1>2 DEF TypeOK, WonInv, WonOk, Present
<1> QED
  BY <1>3, <1>4 DEF WonInv

LEMMA SetDeletedWon ==
  ASSUME TypeOK, WonInv, NEW i \in Id, Present(i), NEW d \in BOOLEAN, SetDeleted(i, d)
  PROVE  WonInv'
<1>1. table'[i].status = table[i].status
  BY DEF TypeOK, SetDeleted, Present, Row
<1>2. WonOk(i)'
  <2>1. WonOk(i) /\ won'[i] = won[i]
    BY DEF SetDeleted, WonInv
  <2> QED
    BY <1>1, <2>1 DEF WonOk
<1>3. \A j \in Id \ {i} : WonOk(j)'
  BY DEF TypeOK, SetDeleted, WonInv, WonOk, Present
<1> QED
  BY <1>2, <1>3 DEF WonInv

LEMMA RemoveWon ==
  ASSUME TypeOK, WonInv, NEW S, Remove(S)
  PROVE  WonInv'
BY DEF TypeOK, Remove, WonInv, WonOk, Present

LEMMA TakeWon ==
  ASSUME TypeOK, WonInv, NEW c \in Caller, NEW i \in Id, Present(i), table[i].status = "new", Take(c, i)
  PROVE  WonInv'
<1>1. table'[i].status = "taken"
  BY DEF TypeOK, Take, Present, Row
<1>2. won'[i] = {c}
  BY DEF TypeOK, Take, WonInv, WonOk
<1>3. WonOk(i)'
  BY <1>1, <1>2 DEF WonOk
<1>4. \A j \in Id \ {i} : WonOk(j)'
  BY DEF TypeOK, Take, WonInv, WonOk, Present
<1> QED
  BY <1>3, <1>4 DEF WonInv

LEMMA SameWon == WonInv /\ UNCHANGED rowVars => WonInv'
BY DEF WonInv, WonOk, rowVars, Present

LEMMA WonStep == TypeInv /\ WonInv /\ SelectInv /\ [Next]_vars => WonInv'
<1> SUFFICES ASSUME TypeInv, WonInv, SelectInv, [Next]_vars PROVE WonInv'
  OBVIOUS
<1> USE DEF TypeInv
<1>1. ASSUME NEW i \in Id,
             Create(i) \/ SoftDelete(i) \/ Restore(i) \/ HardDelete(i)
      PROVE  WonInv'
  <2>1. CASE Create(i)
    BY <2>1, InsertWon DEF Create, Status
  <2>2. CASE SoftDelete(i) \/ Restore(i)
    BY <2>2, SetDeletedWon DEF SoftDelete, Restore
  <2>3. CASE HardDelete(i)
    BY <2>3, RemoveWon DEF HardDelete
  <2> QED
    BY <1>1, <2>1, <2>2, <2>3
<1>2. ASSUME NEW i \in Id, NEW s \in Status, Upsert(i, s) \/ Replace(i, s) PROVE WonInv'
  <2>1. CASE Upsert(i, s) /\ Insert(i, s, {})
    BY <2>1, InsertWon
  <2>2. CASE Upsert(i, s) /\ Present(i) /\ SetStatus({i}, s)
    BY <2>2, SetStatusWon
  <2>3. CASE Replace(i, s)
    BY <2>3, SetRowWon DEF Replace
  <2> QED
    BY <1>2, <2>1, <2>2, <2>3 DEF Upsert
<1>3. ASSUME NEW s \in Status, NEW t \in Status, DeleteMany(s) \/ UpdateMany(s, t) PROVE WonInv'
  BY <1>3, RemoveWon, SetStatusWon DEF DeleteMany, UpdateMany
<1>4. ASSUME NEW S \in SUBSET Id, PurgeChunk(S) PROVE WonInv'
  BY <1>4, RemoveWon DEF PurgeChunk
<1>5. ASSUME NEW c \in Caller, CasMatches(c) \/ \E by \in By : ClaimVersion(c, by) PROVE WonInv'
  <2>1. doc[c].id \in Id /\ Present(doc[c].id)
    BY <1>5 DEF CasMatches, Matches, ClaimVersion, Claimable, CallInv, TypeOK, Doc
  <2>2. table[doc[c].id].status \in Status
    BY <2>1 DEF TypeOK, Present, Row
  <2> QED
    BY <1>5, <2>1, <2>2, SetRowWon DEF CasMatches, ClaimVersion
<1>6. ASSUME NEW c \in Caller, UpdateFound(c) PROVE WonInv'
  BY <1>6, TakeWon DEF UpdateFound, CallInv, InTxn, SelectInv, SelectOk
<1>7. ASSUME NEW c \in Caller, InsertTaken(c) \/ InsertAbsent(c) PROVE WonInv'
  BY <1>7, InsertWon DEF InsertTaken, InsertAbsent, CallInv, InTxn, Status
<1>8. ASSUME NEW c \in Caller, NEW i \in Id, Claim(c, i) \/ ClaimBack(c, i) PROVE WonInv'
  BY <1>8, TakeWon, SetStatusWon DEF Claim, ClaimBack, Status
<1>9. ASSUME NEW c \in Caller,
             \/ CallUpdate(c) \/ CasMisses(c) \/ FollowUp(c) \/ ClaimVersionMisses(c)
             \/ FoundIsGone(c) \/ InsertFails(c)
             \/ \E i \in Id : Read(c, i) \/ FindOne(c, i) \/ GetOrCreate(c, i)
      PROVE  WonInv'
  BY <1>9, SameWon DEF CallUpdate, CasMisses, FollowUp, ClaimVersionMisses, FoundIsGone, InsertFails,
                       Read, FindOne, GetOrCreate, Begin
<1>10. CASE UNCHANGED vars
  BY <1>10, SameWon DEF vars
<1>11. ASSUME RowNext PROVE WonInv'
  BY <1>1, <1>2, <1>3, <1>4, <1>11 DEF RowNext
<1>12. ASSUME NEW c \in Caller, CallerNext(c) PROVE WonInv'
  BY <1>5, <1>6, <1>7, <1>8, <1>9, <1>12 DEF CallerNext
<1> QED
  BY <1>10, <1>11, <1>12 DEF Next
\* While a method's transaction is open only a purge changes rows.
LEMMA InTxnStep ==
  ASSUME TypeInv, [Next]_vars, NEW c \in Caller, pc[c] \in InTxn, pc'[c] = pc[c]
  PROVE  key'[c] = key[c] /\ (UNCHANGED rowVars \/ \E S \in SUBSET Id : PurgeChunk(S))
<1>1. txn = c /\ ~Open
  BY RowsAssumption DEF TypeInv, CallInv, Open
<1>2. CASE RowNext
  <2>1. \E S \in SUBSET Id : PurgeChunk(S)
    BY <1>1, <1>2 DEF RowNext, Create, SoftDelete, Restore, HardDelete, Upsert, Replace, DeleteMany, UpdateMany
  <2> QED
    BY <1>2, <2>1, RowNextChange DEF callerVars, TypeInv
<1>3. ASSUME NEW d \in Caller, CallerNext(d) PROVE key'[c] = key[c] /\ UNCHANGED rowVars
  <2>1. CASE pc[d] \in InTxn
    <3>1. d = c
      BY <1>1, <2>1 DEF TypeInv, CallInv
    <3>2. CASE Finish(d) \/ pc'[d] # pc[d]
      BY <3>1, <3>2 DEF Finish, TypeInv, TypeOK, InTxn
    <3>3. FoundIsGone(d) => pc'[d] # pc[d]
      BY DEF FoundIsGone, Finish, TypeInv, TypeOK
    <3> QED
      BY <1>1, <1>3, <2>1, <3>1, <3>2, <3>3
         DEF CallerNext, InTxn, CallUpdate, CasMatches, CasMisses, FollowUp, ClaimVersionMisses, ClaimVersion,
             UpdateFound, FoundIsGone, InsertTaken, InsertAbsent, InsertFails,
             Read, Claim, ClaimBack, FindOne, GetOrCreate, Begin
  <2>2. CASE pc[d] \notin InTxn
    BY <1>1, <1>3, <2>2
       DEF CallerNext, InTxn, CallUpdate, CasMatches, CasMisses, FollowUp, ClaimVersionMisses, ClaimVersion,
           UpdateFound, FoundIsGone, InsertTaken, InsertAbsent, InsertFails,
           Read, Claim, ClaimBack, FindOne, GetOrCreate, Begin
  <2> QED
    BY <2>1, <2>2
<1>4. CASE UNCHANGED vars
  BY <1>4 DEF vars, callerVars
<1> QED
  BY <1>2, <1>3, <1>4 DEF Next

\* A caller that finds itself after a SELECT is there since before the step,
\* or has just made it.
LEMMA SelectChange ==
  ASSUME TypeInv, [Next]_vars, NEW c \in Caller, pc'[c] \in {"found", "absent"}, pc'[c] # pc[c]
  PROVE  SelectOk(c)'
<1>1. PICK i \in Id : FindOne(c, i) \/ GetOrCreate(c, i)
  <2> USE DEF TypeInv, TypeOK
  <2>1. ~RowNext /\ ~UNCHANGED vars
    BY RowNextChange DEF vars, callerVars
  <2>2. PICK d \in Caller : CallerNext(d)
    BY <2>1 DEF Next
  <2>3. /\ ~CallUpdate(d) /\ ~CasMatches(d) /\ ~CasMisses(d) /\ ~FollowUp(d)
        /\ ~ClaimVersionMisses(d) /\ ~\E by \in By : ClaimVersion(d, by)
    BY DEF CallUpdate, CasMatches, CasMisses, FollowUp, ClaimVersionMisses, ClaimVersion
  <2>4. /\ ~UpdateFound(d) /\ ~FoundIsGone(d)
        /\ ~InsertTaken(d) /\ ~InsertAbsent(d) /\ ~InsertFails(d)
    BY DEF UpdateFound, FoundIsGone, InsertTaken, InsertAbsent, InsertFails, Finish
  <2>5. PICK i \in Id :
          Read(d, i) \/ Claim(d, i) \/ ClaimBack(d, i) \/ FindOne(d, i) \/ GetOrCreate(d, i)
    BY <2>2, <2>3, <2>4 DEF CallerNext
  <2>6. ~Read(d, i) /\ ~Claim(d, i) /\ ~ClaimBack(d, i)
    BY DEF Read, Claim, ClaimBack, callerVars
  <2>7. d = c
    BY <2>5, <2>6 DEF FindOne, GetOrCreate, Begin
  <2> QED
    BY <2>5, <2>6, <2>7
<1>2. key'[c] = i /\ UNCHANGED rowVars
  BY <1>1 DEF FindOne, GetOrCreate, Begin, TypeInv, TypeOK
<1>3. pc'[c] = "found" => Present(i) /\ table[i].status = "new"
  BY <1>1 DEF FindOne, GetOrCreate, Begin, TypeInv, TypeOK
<1>4. pc'[c] = "absent" => ~Visible(i)
  BY <1>1 DEF FindOne, GetOrCreate, Begin, TypeInv, TypeOK
<1> QED
  BY <1>2, <1>3, <1>4 DEF SelectOk, Present, Visible, rowVars

LEMMA SelectStep == TypeInv /\ SelectInv /\ [Next]_vars => SelectInv'
<1> SUFFICES ASSUME TypeInv, SelectInv, [Next]_vars, NEW c \in Caller PROVE SelectOk(c)'
  BY DEF SelectInv
<1>1. CASE pc'[c] \notin {"found", "absent"}
  BY <1>1 DEF SelectOk
<1>2. CASE pc'[c] \in {"found", "absent"} /\ pc'[c] # pc[c]
  BY <1>2, SelectChange
<1>3. CASE pc'[c] \in {"found", "absent"} /\ pc'[c] = pc[c]
  <2>1. /\ key'[c] = key[c] /\ key[c] \in Id /\ SelectOk(c)
        /\ UNCHANGED rowVars \/ \E S \in SUBSET Id : PurgeChunk(S)
    BY <1>3, InTxnStep DEF InTxn, SelectInv, TypeInv, CallInv
  <2>2. table'[key[c]] \in {table[key[c]], NoRow}
    BY <2>1 DEF rowVars, PurgeChunk, Remove, TypeInv, TypeOK
  <2> QED
    BY <1>3, <2>1, <2>2 DEF SelectOk, Present, Visible
<1> QED
  BY <1>1, <1>2, <1>3

TakeInv == TypeInv /\ WonInv /\ SelectInv

LEMMA TakeInit == Init => TakeInv
<1>1. Init => WonInv /\ SelectInv
  BY DEF Init, WonInv, WonOk, SelectInv, SelectOk, Present
<1> QED
  BY <1>1, TypeInit DEF TakeInv

LEMMA TakeStep == TakeInv /\ [Next]_vars => TakeInv'
BY TypeStep, WonStep, SelectStep DEF TakeInv

\* However claims, reads that write back, resets and purges interleave, one
\* caller at most is told that it took a row.
THEOREM OneTakes == Spec => []OneWinner
<1>1. TakeInv => OneWinner
  BY DEF TakeInv, WonInv, WonOk, OneWinner
<1> QED
  BY <1>1, TakeInit, TakeStep, PTL DEF Spec

\* The INSERT of getOrCreate() meets a row only when that row is a tombstone.
THEOREM NothingComesBetween == Spec => []NothingCreatedMeanwhile
<1>1. TakeInv => NothingCreatedMeanwhile
  BY DEF TakeInv, SelectInv, SelectOk, NothingCreatedMeanwhile
<1> QED
  BY <1>1, TakeInit, TakeStep, PTL DEF Spec
-----------------------------------------------------------------------------
(* update({ ifVersion }) implements CompareAndSet, with a version column   *)
(* that is never NULL.                                                     *)

LEMMA VersionStep ==
  ASSUME FirstVersion = 0, TypeInv, VersionInv, [Next]_vars
  PROVE  VersionInv'
<1>1. Change
  BY TypeStep
<1>2. ASSUME NEW i \in Id, Present(i)' PROVE table'[i].version \in Nat
  BY <1>1, <1>2 DEF Change, Kept, Born, Moved, VersionInv
<1>3. ASSUME NEW c \in Caller, doc'[c] # None PROVE doc'[c].version \in Nat
  <2>1. CASE doc'[c] \in {doc[c], None}
    BY <1>3, <2>1 DEF VersionInv
  <2>2. ASSUME NEW i \in Id, Present(i), doc'[c] = ReadNow(i) PROVE doc'[c].version \in Nat
    BY <2>2 DEF VersionInv, ReadNow
  <2> QED
    BY <2>1, <2>2, DocChange
<1> QED
  BY <1>2, <1>3 DEF VersionInv, Present

\* What is late stays late.
LEMMA LateStep ==
  ASSUME TypeOK, Change, NEW d \in Doc, Seen(d), Late(d)
  PROVE  Late(d)'
<1> PICK i \in Id : i = d.id
  BY DEF Doc
<1>1. d.life \in Nat /\ d.writes \in Nat /\ life[i] \in Nat /\ writes[i] \in Nat
  BY DEF Doc, TypeOK
<1>2. Kept(i) \/ Born(i) \/ Moved(i)
  BY DEF Change
<1> QED
  BY <1>1, <1>2 DEF Kept, Born, Moved, Seen, Late, Present

\* The UPDATE misses only a row that is late: one that was not touched matches.
LEMMA MissIsLate ==
  ASSUME TypeInv, DocInv, VersionInv, NEW c \in Caller, CasMisses(c)
  PROVE  Late(doc[c])
<1>1. doc[c] # None /\ ~Matches(c)
  BY DEF CasMisses, TypeInv, CallInv
<1>2. doc[c].version \in Nat /\ doc[c].version # Null
  BY <1>1, RowsAssumption DEF VersionInv
<1>3. ~(Present(doc[c].id) /\ Untouched(doc[c]))
  BY <1>1, <1>2 DEF Matches, Untouched, Number
<1>4. doc[c].life <= life[doc[c].id] /\ Seen(doc[c])
  BY <1>1 DEF DocInv, Seen
<1> QED
  BY <1>3, <1>4 DEF Seen, Late, Overtaken

\* A call that has missed is still the same call, or has just missed.
LEMMA MissedChange ==
  ASSUME TypeInv, [Next]_vars, NEW c \in Caller, pc'[c] = "missed"
  PROVE  doc'[c] = doc[c] /\ (pc[c] = "missed" \/ CasMisses(c))
<1> USE DEF TypeInv, TypeOK
<1>1. CASE RowNext \/ UNCHANGED vars
  BY <1>1, RowNextChange DEF vars, callerVars
<1>2. ASSUME NEW d \in Caller, CallerNext(d), d # c
      PROVE  doc'[c] = doc[c] /\ pc[c] = "missed"
  BY <1>2 DEF CallerNext, CallUpdate, CasMatches, CasMisses, FollowUp, ClaimVersionMisses,
              ClaimVersion, UpdateFound, FoundIsGone, InsertTaken, InsertAbsent, InsertFails,
              Read, Claim, ClaimBack, FindOne, GetOrCreate, Begin, Finish, callerVars
<1>3. ASSUME CallerNext(c) PROVE CasMisses(c) /\ doc'[c] = doc[c]
  <2>1. /\ ~CallUpdate(c) /\ ~CasMatches(c) /\ ~FollowUp(c)
        /\ ~ClaimVersionMisses(c) /\ ~\E by \in By : ClaimVersion(c, by)
    BY DEF CallUpdate, CasMatches, FollowUp, ClaimVersionMisses, ClaimVersion
  <2>2. /\ ~UpdateFound(c) /\ ~FoundIsGone(c)
        /\ ~InsertTaken(c) /\ ~InsertAbsent(c) /\ ~InsertFails(c)
    BY DEF UpdateFound, FoundIsGone, InsertTaken, InsertAbsent, InsertFails, Finish
  <2>3. ~\E i \in Id :
          Read(c, i) \/ Claim(c, i) \/ ClaimBack(c, i) \/ FindOne(c, i) \/ GetOrCreate(c, i)
    BY DEF Read, Claim, ClaimBack, FindOne, GetOrCreate, Begin, callerVars
  <2> QED
    BY <1>3, <2>1, <2>2, <2>3 DEF CallerNext, CasMisses
<1> QED
  BY <1>1, <1>2, <1>3 DEF Next

LEMMA MissedStep == TypeInv /\ DocInv /\ VersionInv /\ MissedInv /\ [Next]_vars => MissedInv'
<1> SUFFICES ASSUME TypeInv, DocInv, VersionInv, MissedInv, [Next]_vars, NEW c \in Caller, pc'[c] = "missed"
    PROVE  Late(doc[c])'
  BY DEF MissedInv
<1>1. Change /\ doc'[c] = doc[c] /\ (pc[c] = "missed" \/ CasMisses(c))
  BY MissedChange, TypeStep
<1>2. doc[c] # None /\ Late(doc[c])
  BY <1>1, MissIsLate DEF MissedInv, CasMisses, TypeInv, CallInv
<1> PICK d \in Doc : d = doc[c]
  BY <1>2 DEF TypeInv, TypeOK
<1>3. Late(d)'
  BY <1>1, <1>2, LateStep DEF TypeInv, DocInv
<1> QED
  BY <1>1, <1>3 DEF Late, Present
RefineInv == TypeInv /\ DocInv /\ VersionInv /\ MissedInv

LEMMA RefineInit == Init => RefineInv
<1>1. Init => VersionInv /\ MissedInv
  BY DEF Init, VersionInv, MissedInv, Present
<1> QED
  BY <1>1, TypeInit, DocInit DEF RefineInv

LEMMA RefineStep == FirstVersion = 0 /\ RefineInv /\ [Next]_vars => RefineInv'
BY TypeStep, DocStep, VersionStep, MissedStep DEF RefineInv

\* The version CompareAndSet sees.
Seq(i) == IF Present(i) THEN Number(table[i].version) ELSE NoRow

LEMMA SeqIs ==
  ASSUME RefineInv, NEW i \in Id
  PROVE  /\ Present(i) => Seq(i) = table[i].version /\ Seq(i) \in Nat
         /\ Seq(i) = NoRow <=> ~Present(i)
BY RowsAssumption, NothingAssumption DEF RefineInv, VersionInv, Seq, Number

\* A statement changes versions as CompareAndSet lets others change them.
LEMMA ChangeRefines ==
  ASSUME FirstVersion = 0, RefineInv, RefineInv', Change, NEW i \in Id
  PROVE  \/ life'[i] = life[i] /\ Seq(i)' \in {Seq(i), NoRow}
         \/ life'[i] = life[i] + 1 /\ Seq(i) = NoRow
         \/ life'[i] = life[i] /\ NoRow \notin {Seq(i), Seq(i)'} /\ Seq(i)' > Seq(i)
<1>1. /\ Present(i) => Seq(i) = table[i].version /\ Seq(i) \in Nat
      /\ Seq(i) = NoRow <=> ~Present(i)
  BY SeqIs
<1>2. /\ Present(i)' => Seq(i)' = table'[i].version /\ Seq(i)' \in Nat
      /\ Seq(i)' = NoRow <=> ~Present(i)'
  BY RowsAssumption, NothingAssumption DEF RefineInv, VersionInv, Seq, Number, Present
<1>3. Moved(i) => table'[i].version > Seq(i)
  BY DEF Moved, Seq
<1> QED
  BY <1>1, <1>2, <1>3 DEF Change, Kept, Born, Moved

\* A step that leaves the calls in flight alone is a step of others.
LEMMA OthersRefine ==
  ASSUME FirstVersion = 0, RefineInv, RefineInv', Change,
         UNCHANGED answer, \A c \in Caller : Asked(c)' = Asked(c)
  PROVE  Cas!Others
<1>1. \A i \in Id :
        \/ life'[i] = life[i] /\ Seq(i)' \in {Seq(i), NoRow}
        \/ life'[i] = life[i] + 1 /\ Seq(i) = NoRow
        \/ life'[i] = life[i] /\ NoRow \notin {Seq(i), Seq(i)'} /\ Seq(i)' > Seq(i)
  BY ChangeRefines
<1>2. [c \in Caller |-> Asked(c)'] = [c \in Caller |-> Asked(c)]
  OBVIOUS
<1> QED
  BY <1>1, <1>2 DEF Cas!Others, Seq

LEMMA InitRefines == Init => Cas!Init
BY DEF Init, Cas!Init, Present, Asked
\* What a call in flight asks for is a request.
LEMMA InFlight ==
  ASSUME RefineInv, NEW c \in Caller, pc[c] \in {"update", "missed"}
  PROVE  /\ doc[c] \in Doc /\ doc[c].id \in Id /\ doc[c].life \in Nat /\ doc[c].version \in Nat
         /\ Number(doc[c].version) = doc[c].version
         /\ Asked(c) = [id |-> doc[c].id, life |-> doc[c].life, version |-> doc[c].version]
         /\ Asked(c) \in [id : Id, life : Nat, version : Nat] /\ Asked(c) # None
<1>1. doc[c] # None /\ doc[c] \in Doc
  BY DEF RefineInv, TypeInv, TypeOK, CallInv
<1>2. doc[c].id \in Id /\ doc[c].life \in Nat /\ doc[c].version \in Nat
  BY <1>1 DEF Doc, RefineInv, VersionInv
<1>3. Number(doc[c].version) = doc[c].version
  BY <1>2, RowsAssumption DEF Number
<1>4. Asked(c) = [id |-> doc[c].id, life |-> doc[c].life, version |-> doc[c].version]
  BY <1>3 DEF Asked
<1>5. Asked(c) \in [id : Id, life : Nat, version : Nat]
  BY <1>2, <1>4
<1> QED
  BY <1>1, <1>2, <1>3, <1>4, <1>5, NothingAssumption

\* A caller that answers is no longer asking; the others are.
LEMMA AnswerRefines ==
  ASSUME RefineInv, NEW c \in Caller, NEW a \in {"updated", "conflict", "missing"}, pc[c] \in {"update", "missed"},
         pc' = [pc EXCEPT ![c] = "idle"], doc' = [doc EXCEPT ![c] = None],
         answer' = [answer EXCEPT ![c] = a]
  PROVE  Cas!Answer(c, a)
<1>1. Asked(c) # None
  BY InFlight
<1>2. Asked(c)' = None /\ \A d \in Caller \ {c} : Asked(d)' = Asked(d)
  BY DEF Asked, Number, RefineInv, TypeInv, TypeOK
<1>3. [d \in Caller |-> Asked(d)'] = [[d \in Caller |-> Asked(d)] EXCEPT ![c] = None]
  BY <1>2
<1> QED
  BY <1>1, <1>3 DEF Cas!Answer

LEMMA AskRefines ==
  ASSUME RefineInv, RefineInv', NEW c \in Caller, CallUpdate(c)
  PROVE  Cas!Ask(c)
<1>1. pc'[c] = "update" /\ pc[c] = "idle"
  BY DEF CallUpdate, RefineInv, TypeInv, TypeOK
<1>2. Asked(c) = None
  BY <1>1 DEF Asked
<1>3. doc[c] \in Doc /\ doc[c].id \in Id /\ doc[c].life \in Nat /\ Number(doc[c].version) \in Nat
  BY DEF CallUpdate, RefineInv, TypeInv, TypeOK, Doc, VersionInv, Number
<1>4. Asked(c)' = [id |-> doc[c].id, life |-> doc[c].life, version |-> Number(doc[c].version)]
  BY <1>1 DEF Asked, CallUpdate, Number
<1>5. \A d \in Caller \ {c} : Asked(d)' = Asked(d)
  BY DEF Asked, CallUpdate, Number, RefineInv, TypeInv, TypeOK
<1>6. [d \in Caller |-> Asked(d)'] = [[d \in Caller |-> Asked(d)] EXCEPT ![c] = Asked(c)']
  BY <1>5
<1>7. Asked(c)' \in [id : Id, life : Nat, version : Nat]
  BY <1>3, <1>4
<1>8. UNCHANGED <<life, table>> /\ answer' = [answer EXCEPT ![c] = "none"]
  BY DEF CallUpdate, rowVars
<1> QED
  BY <1>2, <1>6, <1>7, <1>8 DEF Cas!Ask, Cas!Request, Present, Number

LEMMA UpdatedRefines ==
  ASSUME RefineInv, RefineInv', NEW c \in Caller, CasMatches(c)
  PROVE  Cas!Updated(c)
<1>0. /\ pc[c] \in {"update", "missed"}
      /\ pc' = [pc EXCEPT ![c] = "idle"] /\ doc' = [doc EXCEPT ![c] = None]
      /\ answer' = [answer EXCEPT ![c] = "updated"]
  BY DEF CasMatches
<1>1. Cas!Answer(c, "updated")
  BY <1>0, AnswerRefines
<1>2. /\ doc[c].id \in Id /\ doc[c].version \in Nat
      /\ Asked(c) = [id |-> doc[c].id, life |-> doc[c].life, version |-> doc[c].version]
      /\ Number(doc[c].version) = doc[c].version
  BY InFlight DEF CasMatches
<1> PICK i \in Id : i = doc[c].id
  BY <1>2
<1> PICK v \in Nat : v = doc[c].version
  BY <1>2
<1>3. Asked(c).id = i /\ Asked(c).version = v
  BY <1>2
<1>4. Present(i) /\ table[i].version = v
  BY <1>2 DEF CasMatches, Matches
<1>5. Seq(i) = v /\ Number(table[i].version) = v
  BY <1>4, RowsAssumption DEF Seq, Number
<1>6. table' = [table EXCEPT ![i] = [version |-> v + 1, status |-> table[i].status, deleted |-> table[i].deleted]]
  BY <1>5 DEF CasMatches, SetRow
<1>7. Seq(i)' = v + 1
  <2>1. Present(i)'
    BY <1>4, <1>6, RowColumns, SetRowChange DEF RefineInv, TypeInv, TypeOK, Present, Row, Version
  <2>2. table'[i].version = v + 1 /\ v + 1 # Null
    BY <1>6, RowsAssumption DEF RefineInv, TypeInv, TypeOK
  <2> QED
    BY <2>1, <2>2 DEF Seq, Present, Number
<1>8. \A j \in Id \ {i} : Seq(j)' = Seq(j)
  BY <1>6 DEF Seq, Present, Number, RefineInv, TypeInv, TypeOK
<1>9. [j \in Id |-> Seq(j)'] = [[j \in Id |-> Seq(j)] EXCEPT ![i] = v + 1]
  BY <1>7, <1>8
<1>10. UNCHANGED life
  BY DEF CasMatches, SetRow
<1> QED
  BY <1>1, <1>3, <1>5, <1>9, <1>10 DEF Cas!Updated, Seq

LEMMA FollowUpRefines ==
  ASSUME RefineInv, NEW c \in Caller, FollowUp(c)
  PROVE  Cas!Conflict(c) \/ Cas!Missing(c)
<1>1. /\ doc[c] \in Doc /\ doc[c].id \in Id /\ doc[c].version \in Nat
      /\ Asked(c) = [id |-> doc[c].id, life |-> doc[c].life, version |-> doc[c].version]
  BY InFlight DEF FollowUp
<1>2. UNCHANGED <<life, table>>
  BY DEF FollowUp, rowVars
<1>3. CASE ~Present(doc[c].id)
  <2>1. Cas!Answer(c, "missing")
    BY <1>3, AnswerRefines DEF FollowUp
  <2> QED
    BY <1>1, <1>2, <1>3, <2>1 DEF Cas!Missing, Present
<1>4. CASE Present(doc[c].id)
  <2>1. Cas!Answer(c, "conflict")
    BY <1>4, AnswerRefines DEF FollowUp
  <2>2. /\ Seq(doc[c].id) # NoRow
        /\ Seq(doc[c].id) # doc[c].version \/ life[doc[c].id] # doc[c].life
    <3>1. doc[c] # None /\ Late(doc[c]) /\ Seen(doc[c])
      BY DEF FollowUp, RefineInv, MissedInv, DocInv, TypeInv, CallInv
    <3>2. Seq(doc[c].id) = table[doc[c].id].version /\ Seq(doc[c].id) \in Nat /\ Seq(doc[c].id) # NoRow
      BY <1>1, <1>4, SeqIs
    <3>3. Number(doc[c].version) = doc[c].version
      BY <1>1, RowsAssumption DEF Number
    <3>4. writes[doc[c].id] \in Nat /\ doc[c].writes \in Nat
      BY <1>1 DEF Doc, RefineInv, TypeInv, TypeOK
    <3> QED
      BY <1>1, <1>4, <3>1, <3>2, <3>3, <3>4 DEF Late, Seen, Untouched, Overtaken
  <2> QED
    BY <1>1, <1>2, <2>1, <2>2 DEF Cas!Conflict, Present, Seq
<1> QED
  BY <1>3, <1>4

\* Every other step leaves the calls in flight alone.
LEMMA ElsewhereRefines ==
  ASSUME TypeInv, [Next]_vars,
         \A c \in Caller : ~CallUpdate(c) /\ ~CasMatches(c) /\ ~FollowUp(c)
  PROVE  UNCHANGED answer /\ \A c \in Caller : Asked(c)' = Asked(c)
<1> USE DEF TypeInv, TypeOK
<1>1. CASE RowNext \/ UNCHANGED vars
  BY <1>1, RowNextChange DEF vars, callerVars, Asked, Number
<1>2. ASSUME NEW d \in Caller, CallerNext(d)
      PROVE  UNCHANGED answer /\ \A c \in Caller : Asked(c)' = Asked(c)
  <2>1. CASE CasMisses(d)
    BY <2>1 DEF CasMisses, Asked, Number
  <2>2. CASE ~CasMisses(d)
    <3>1. /\ UNCHANGED answer
          /\ pc[d] \notin {"update", "missed"} /\ pc'[d] \notin {"update", "missed"}
          /\ \A c \in Caller \ {d} : pc'[c] = pc[c] /\ doc'[c] = doc[c]
      BY <1>2, <2>2 DEF CallerNext, ClaimVersionMisses, ClaimVersion,
           UpdateFound, FoundIsGone, InsertTaken, InsertAbsent, InsertFails,
           Read, Claim, ClaimBack, FindOne, GetOrCreate, Begin, Finish, callerVars
    <3> QED
      BY <3>1 DEF Asked, Number
  <2> QED
    BY <2>1, <2>2
<1> QED
  BY <1>1, <1>2 DEF Next

\* The two statements of update({ ifVersion }), with whatever comes between
\* them, answer as one step would, where the version column has a default.
THEOREM AnswersAsOneStep == FirstVersion = 0 => (Spec => ImplementsCompareAndSet)
<1> SUFFICES ASSUME FirstVersion = 0 PROVE Spec => ImplementsCompareAndSet
  OBVIOUS
<1>1. ASSUME RefineInv, [Next]_vars PROVE [Cas!Next]_(Cas!vars)
  <2>1. Change /\ RefineInv'
    BY <1>1, TypeStep, RefineStep DEF RefineInv
  <2>2. ASSUME NEW c \in Caller, CallUpdate(c) \/ CasMatches(c) \/ FollowUp(c) PROVE Cas!Next
    BY <1>1, <2>1, <2>2, AskRefines, UpdatedRefines, FollowUpRefines DEF Cas!Next
  <2>3. CASE \A c \in Caller : ~CallUpdate(c) /\ ~CasMatches(c) /\ ~FollowUp(c)
    BY <1>1, <2>1, <2>3, ElsewhereRefines, OthersRefine DEF RefineInv, Cas!Next
  <2> QED
    BY <2>2, <2>3
<1>2. RefineInv /\ [Next]_vars => RefineInv'
  BY RefineStep
<1> QED
  BY <1>1, <1>2, RefineInit, InitRefines, PTL DEF Spec, ImplementsCompareAndSet, Cas!Spec
=============================================================================
