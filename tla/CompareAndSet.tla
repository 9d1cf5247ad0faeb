--------------------------- MODULE CompareAndSet ---------------------------
(***************************************************************************)
(* What update(id, data, { ifVersion }) promises: one step that looks at   *)
(* the row and at its version and answers.  There are no statements, no    *)
(* connection and no transaction here.                                     *)
(*                                                                         *)
(* An id may be used again after its row was removed, and versions start   *)
(* over: `life` counts the rows an id has had.  A call is about the row    *)
(* its caller read; when that one is gone the call may take another row at *)
(* the version it expects for it, or answer that there is a conflict.      *)
(***************************************************************************)
EXTENDS Naturals

CONSTANTS Id, Caller, NoRow, None

VARIABLES
  life,       \* how many rows an id has had
  version,    \* the version of the row, or NoRow
  asked,      \* the call in flight: the id, the row and the version it expects
  answer      \* what a caller's last call came to

vars == <<life, version, asked, answer>>

Init ==
  /\ life    = [i \in Id |-> 0]
  /\ version = [i \in Id |-> NoRow]
  /\ asked   = [c \in Caller |-> None]
  /\ answer  = [c \in Caller |-> "none"]

\* A call, and what it asks for.
Request == [id : Id, life : Nat, version : Nat]

Ask(c) ==
  /\ asked[c] = None
  /\ asked'[c] \in Request
  /\ asked'  = [asked EXCEPT ![c] = asked'[c]]
  /\ answer' = [answer EXCEPT ![c] = "none"]
  /\ UNCHANGED <<life, version>>

Answer(c, a) ==
  /\ asked[c] # None
  /\ asked'  = [asked EXCEPT ![c] = None]
  /\ answer' = [answer EXCEPT ![c] = a]

\* The row is at the version the caller expects, and moves to the next one.
Updated(c) ==
  /\ Answer(c, "updated")
  /\ version[asked[c].id] = asked[c].version
  /\ version' = [version EXCEPT ![asked[c].id] = @ + 1]
  /\ UNCHANGED life

\* There is a row, and it is not the one the caller read at the version it read.
Conflict(c) ==
  /\ Answer(c, "conflict")
  /\ version[asked[c].id] # NoRow
  /\ \/ version[asked[c].id] # asked[c].version
     \/ life[asked[c].id] # asked[c].life
  /\ UNCHANGED <<life, version>>

\* There is no row.
Missing(c) ==
  /\ Answer(c, "missing")
  /\ version[asked[c].id] = NoRow
  /\ UNCHANGED <<life, version>>

\* Other calls create rows, remove them and move their versions forward.
Others ==
  /\ \A i \in Id :
       \/ life'[i] = life[i] /\ version'[i] \in {version[i], NoRow}
       \/ life'[i] = life[i] + 1 /\ version[i] = NoRow
       \/ /\ life'[i] = life[i] /\ NoRow \notin {version[i], version'[i]}
          /\ version'[i] > version[i]
  /\ UNCHANGED <<asked, answer>>

Next ==
  \/ Others
  \/ \E c \in Caller : Ask(c) \/ Updated(c) \/ Conflict(c) \/ Missing(c)

Spec == Init /\ [][Next]_vars
=============================================================================
