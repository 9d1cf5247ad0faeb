---------------------------- MODULE HandoverProofs ----------------------------
(***************************************************************************)
(* Theorems about the pages, their workers and the Web Lock, for any       *)
(* number of pages and calls.                                              *)
(*                                                                         *)
(* The port keeps the order of the messages, so the release is behind      *)
(* every accepted call on its way to the host (LastInv), and so is its     *)
(* answer on the way back: when it is answered nothing waits any more.     *)
(***************************************************************************)
EXTENDS Handover, TLAPS

-----------------------------------------------------------------------------
(* Sequences in which nothing is twice. *)

Elems(s) == {s[i] : i \in 1 .. Len(s)}

LEMMA ElemsOfAppend ==
  ASSUME NEW T, NEW s \in Seq(T), NEW x \in T
  PROVE  /\ Elems(Append(s, x)) = Elems(s) \cup {x}
         /\ Append(s, x)[Len(Append(s, x))] = x
<1>1. /\ Append(s, x) \in Seq(T) /\ Len(Append(s, x)) = Len(s) + 1 /\ Len(s) \in Nat
      /\ Append(s, x)[Len(s) + 1] = x
      /\ \A i \in 1 .. Len(s) : Append(s, x)[i] = s[i]
  OBVIOUS
<1>2. \A y : y \in Elems(Append(s, x)) <=> y \in Elems(s) \cup {x}
  BY <1>1 DEF Elems
<1> QED
  BY <1>1, <1>2

LEMMA ElemsOfTail ==
  ASSUME NEW T, NEW s \in Seq(T), s # <<>>,
         \A i, j \in 1 .. Len(s) : s[i] = s[j] => i = j
  PROVE  /\ Elems(Tail(s)) = Elems(s) \ {Head(s)} /\ Head(s) \in Elems(s)
         /\ Elems(Tail(s)) # {} => Tail(s)[Len(Tail(s))] = s[Len(s)]
         /\ Head(s) = s[Len(s)] => Elems(Tail(s)) = {}
<1>1. /\ Tail(s) \in Seq(T) /\ Len(Tail(s)) = Len(s) - 1 /\ Len(s) \in Nat \ {0}
      /\ \A i \in 1 .. Len(s) - 1 : Tail(s)[i] = s[i + 1]
      /\ Head(s) = s[1]
  OBVIOUS
<1>2. \A y : y \in Elems(Tail(s)) => y \in Elems(s) \ {Head(s)}
  BY <1>1 DEF Elems
<1>3. ASSUME NEW y \in Elems(s), y # Head(s) PROVE y \in Elems(Tail(s))
  <2>1. PICK i \in 1 .. Len(s) : y = s[i]
    BY DEF Elems
  <2>2. i - 1 \in 1 .. Len(s) - 1 /\ Tail(s)[i - 1] = y
    BY <1>1, <1>3, <2>1
  <2> QED
    BY <1>1, <2>2 DEF Elems
<1>4. Elems(Tail(s)) # {} => Len(s) - 1 \in 1 .. Len(s) - 1
  BY <1>1 DEF Elems
<1>5. Head(s) = s[Len(s)] => Len(s) = 1
  BY <1>1
<1>6. Head(s) \in Elems(s)
  BY <1>1 DEF Elems
<1> QED
  BY <1>1, <1>2, <1>3, <1>4, <1>5, <1>6
-----------------------------------------------------------------------------
(* What holds of a page. *)

Posted(p)  == Elems(inbox[p])
Replied(p) == {a.id : a \in Elems(outbox[p])}

\* A message is posted, in the host's hand or answered, once, and its page sent it.
Place(p) ==
  /\ \A i, j \in 1 .. Len(inbox[p]) : inbox[p][i] = inbox[p][j] => i = j
  /\ \A i, j \in 1 .. Len(outbox[p]) : outbox[p][i].id = outbox[p][j].id => i = j
  /\ Posted(p) \cap Replied(p) = {}
  /\ hand[p] \notin Posted(p) \cup Replied(p)
  /\ \A u \in Unit : u \in Posted(p) \cup Replied(p) \cup {hand[p]} \cup pending[p] => sender[u] = p
  /\ Release \in Posted(p) \cup Replied(p) \cup {hand[p]} \cup pending[p] => closed[p]

\* The release is behind everything that was accepted.
ReleaseIsLast(p) ==
  /\ Release \in Posted(p) => inbox[p][Len(inbox[p])] = Release
  /\ Release \in Replied(p) => outbox[p][Len(outbox[p])].id = Release
  /\ Release \in Replied(p) \cup {hand[p]} => Posted(p) = {}
  /\ Release \in Replied(p) => hand[p] = None

\* A call that waits is not lost while its worker lives, nor once the release
\* is answered.
Waits(p) ==
  /\ worker[p] = "alive" \/ Release \in Replied(p) =>
       pending[p] \subseteq Posted(p) \cup Replied(p) \cup {hand[p]}
  /\ \A u \in Unit : sender[u] = p /\ result[u] = "none" =>
                       u \in pending[p] \/ (pending[p] = {} /\ closed[p])

\* How far the host has come with a message.
Progress(p) ==
  /\ hand[p] = None <=> stage[p] = "idle"
  /\ stage[p] \in {"opening", "running"} => hand[p] \in Unit /\ ~released[p]
  /\ stage[p] = "closing" => hand[p] = Release
  /\ Release \in Replied(p) \cup {hand[p]} => released[p]
  /\ released[p] /\ context[p] = "open" => stage[p] = "closing"

\* What a unit has written is what its place says.
Written(p) ==
  \A u \in Unit :
    /\ u \in Posted(p) => effect[u] = "none"
    /\ u = hand[p] => effect[u] = IF stage[p] = "ok" THEN "applied" ELSE "none"
    /\ result[u] = "not-applied" => u \notin Posted(p) \cup {hand[p]}
    /\ \A a \in Elems(outbox[p]) :
         a.id = u => effect[u] = IF a.ok THEN "applied" ELSE "none"
    /\ u \in pending[p] => result[u] = "none"

\* How a client ends.
Ending(p) ==
  /\ worker[p] # "none" \/ closed[p] => role[p] \in {"owner", "gone"}
  /\ worker[p] = "none" => /\ Posted(p) = {} /\ Replied(p) = {} /\ hand[p] = None
                           /\ pending[p] = {} /\ releasing[p] = "none"
  /\ releasing[p] # "none" => closed[p]
  /\ releasing[p] = "resolved" => /\ worker[p] # "alive"
                                  /\ \A u \in Unit : sender[u] = p => result[u] # "none"

PageInv(p) ==
  Place(p) /\ ReleaseIsLast(p) /\ Waits(p) /\ Progress(p) /\ Written(p) /\ Ending(p)

\* A call nobody has made has done nothing, and what a call was told is true.
UnitInv ==
  /\ \A u \in Unit : sender[u] = None => effect[u] = "none" /\ result[u] = "none"
  /\ OutcomesAreTrue

Typed == WorkerTypeOK /\ role \in [Page -> Role]

WorkInv == Typed /\ UnitInv /\ \A p \in Page : PageInv(p)

\* A step of page p touches no other page, and no other page's calls.
Within(p) ==
  /\ \A q \in Page \ {p} :
       UNCHANGED <<inbox[q], outbox[q], hand[q], pending[q], closed[q], worker[q], stage[q],
                   context[q], released[q], releasing[q], role[q]>>
  /\ \A u \in Unit : \/ UNCHANGED <<sender[u], effect[u], result[u]>>
                     \/ sender'[u] = p /\ sender[u] \in {p, None}

LEMMA OthersStand ==
  ASSUME NEW p \in Page, Within(p), NEW q \in Page, q # p, PageInv(q)
  PROVE  PageInv(q)'
<1> USE DEF PageInv
<1>1. /\ UNCHANGED <<inbox[q], outbox[q], hand[q], pending[q], closed[q], worker[q], stage[q],
                     context[q], released[q], releasing[q], role[q]>>
      /\ UNCHANGED <<Posted(q), Replied(q)>>
  BY DEF Within, Posted, Replied
<1>2. \A u \in Unit : sender[u] = q \/ sender'[u] = q => UNCHANGED <<sender[u], effect[u], result[u]>>
  BY WorkerAssumption DEF Within
<1>3. Place(q)'
  BY <1>1, <1>2 DEF Place
<1>4. ReleaseIsLast(q)'
  BY <1>1 DEF ReleaseIsLast
<1>5. Waits(q)'
  BY <1>1, <1>2 DEF Waits
<1>6. Progress(q)'
  BY <1>1 DEF Progress
<1>7. Written(q)'
  <2> SUFFICES ASSUME NEW u \in Unit
               PROVE  (/\ u \in Posted(q) => effect[u] = "none"
                       /\ u = hand[q] => effect[u] = IF stage[q] = "ok" THEN "applied" ELSE "none"
                       /\ result[u] = "not-applied" => u \notin Posted(q) \cup {hand[q]}
                       /\ \A a \in Elems(outbox[q]) :
                            a.id = u => effect[u] = IF a.ok THEN "applied" ELSE "none"
                       /\ u \in pending[q] => result[u] = "none")'
    BY DEF Written
  <2>1. CASE u \in Posted(q) \cup Replied(q) \cup {hand[q]} \cup pending[q]
    BY <1>1, <1>2, <2>1 DEF Written, Place
  <2>2. CASE u \notin Posted(q) \cup Replied(q) \cup {hand[q]} \cup pending[q]
    BY <1>1, <2>2 DEF Replied
  <2> QED
    BY <2>1, <2>2
<1>8. Ending(q)'
  BY <1>1, <1>2 DEF Ending
<1> QED
  BY <1>3, <1>4, <1>5, <1>6, <1>7, <1>8

\* The roles' part in a step of the worker or its client: a page may go.
RoleStands(p) ==
  /\ role'[p] \in {role[p], "gone"}
  /\ \A q \in Page \ {p} : role'[q] = role[q]

LEMMA OnlyMessages ==
  ASSUME Typed, NEW p \in Page
  PROVE  Posted(p) \subseteq Message /\ Replied(p) \subseteq Message
         /\ None \notin Posted(p) \cup Replied(p)
<1>1. inbox[p] \in Seq(Message) /\ outbox[p] \in Seq(Answer) /\ None \notin Message
  BY WorkerAssumption DEF Typed, WorkerTypeOK, Message
<1>2. Posted(p) \subseteq Message
  BY <1>1 DEF Posted, Elems
<1>3. ASSUME NEW a \in Elems(outbox[p]) PROVE a.id \in Message
  <2>1. a \in Answer
    BY <1>1 DEF Elems
  <2> QED
    BY <2>1 DEF Answer
<1> QED
  BY <1>1, <1>2, <1>3 DEF Replied

-----------------------------------------------------------------------------
(* The host. *)

\* The host moves on with the message it has.
LEMMA HostMoves ==
  ASSUME Typed, Typed', UnitInv, NEW p \in Page, PageInv(p), RoleStands(p),
         Opened(p) \/ OpenFails(p) \/ UnitCommits(p) \/ UnitThrows(p) \/ Close(p)
  PROVE  PageInv(p)' /\ UnitInv' /\ Within(p)
<1> USE WorkerAssumption DEF Typed, WorkerTypeOK, PageInv, RoleStands, Message
<1> USE DEF clientVars, portVars
<1>1. /\ UNCHANGED <<clientVars, portVars, worker, hand, released>>
      /\ UNCHANGED <<Posted(p), Replied(p)>>
      /\ \A q \in Page \ {p} : UNCHANGED <<stage[q], context[q]>>
  BY DEF Opened, OpenFails, UnitCommits, UnitThrows, Close, Proceed, Posted, Replied
<1>2. Place(p)' /\ ReleaseIsLast(p)'
  BY <1>1 DEF Place, ReleaseIsLast
<1>3. Waits(p)'
  BY <1>1 DEF Waits
<1>4. /\ worker[p] = "alive" /\ stage[p] \in {"opening", "running", "closing"}
      /\ stage'[p] \in {"running", "ok", "failed"}
      /\ stage'[p] = "running" => stage[p] = "opening"
      /\ context'[p] = "open" => stage[p] \in {"opening", "running"}
                                 /\ (context[p] = "open" \/ stage[p] = "opening")
  BY DEF Opened, OpenFails, UnitCommits, UnitThrows, Close, Proceed, Progress
<1>5. Progress(p)'
  BY <1>1, <1>4 DEF Progress
<1>6. Ending(p)'
  BY <1>1, <1>4, <1>5 DEF Ending, Progress
<1>7. ASSUME NEW u \in Unit, u # hand[p] \/ ~UnitCommits(p) PROVE effect'[u] = effect[u]
  BY <1>7 DEF Opened, OpenFails, UnitCommits, UnitThrows, Close, Proceed
<1>8. CASE ~UnitCommits(p)
  <2>1. stage'[p] = "ok" => hand[p] \notin Unit
    BY <1>8 DEF Opened, OpenFails, UnitThrows, Close, Proceed, Progress
  <2>2. \A u \in Unit : u = hand[p] => effect[u] = "none"
    BY <1>4 DEF Written
  <2>3. Written(p)'
    BY <1>1, <1>7, <1>8, <2>1, <2>2 DEF Written
  <2> QED
    BY <1>1, <1>2, <1>3, <1>5, <1>6, <1>7, <1>8, <2>3 DEF Within, UnitInv, OutcomesAreTrue
<1>9. CASE UnitCommits(p)
  <2>1. /\ hand[p] \in Unit /\ stage[p] = "running" /\ stage'[p] = "ok"
        /\ effect' = [effect EXCEPT ![hand[p]] = "applied"]
    BY <1>9 DEF UnitCommits, Proceed, Progress
  <2>2. hand[p] \notin Posted(p) \cup Replied(p) /\ sender[hand[p]] = p /\ result[hand[p]] # "not-applied"
    BY <2>1 DEF Place, Written
  <2>3. Written(p)'
    BY <1>1, <2>1, <2>2 DEF Written, Replied
  <2>4. UnitInv' /\ Within(p)
    BY <1>1, <2>1, <2>2 DEF Within, UnitInv, OutcomesAreTrue
  <2> QED
    BY <1>2, <1>3, <1>5, <1>6, <2>3, <2>4
<1> QED
  BY <1>8, <1>9

\* The head of the queue comes into the host's hand.
LEMMA HostTakes ==
  ASSUME Typed, Typed', UnitInv, NEW p \in Page, PageInv(p), RoleStands(p),
         TakeRelease(p) \/ TakeCall(p)
  PROVE  PageInv(p)' /\ UnitInv' /\ Within(p)
<1> USE WorkerAssumption DEF Typed, WorkerTypeOK, PageInv, RoleStands, Message
<1> USE DEF clientVars
<1>1. PICK m \in Message : Take(p, m) /\ (m = Release <=> TakeRelease(p)) /\ (m \in Unit <=> TakeCall(p))
  BY DEF TakeRelease, TakeCall, Take
<1>2. /\ worker[p] = "alive" /\ stage[p] = "idle" /\ hand[p] = None
      /\ inbox[p] # <<>> /\ Head(inbox[p]) = m /\ inbox[p] \in Seq(Message)
      /\ inbox'[p] = Tail(inbox[p]) /\ hand'[p] = m
      /\ UNCHANGED <<clientVars, outbox, worker, context, effect>>
      /\ \A q \in Page \ {p} : UNCHANGED <<inbox[q], hand[q], stage[q], released[q]>>
  BY <1>1 DEF Take, TakeRelease, TakeCall, Progress
<1>3. /\ Posted(p)' = Posted(p) \ {m} /\ m \in Posted(p) /\ UNCHANGED Replied(p)
      /\ Posted(p)' # {} => inbox'[p][Len(inbox'[p])] = inbox[p][Len(inbox[p])]
      /\ m = inbox[p][Len(inbox[p])] => Posted(p)' = {}
  <2> DEFINE s == inbox[p]
  <2>1. \A i, j \in 1 .. Len(s) : s[i] = s[j] => i = j
    BY DEF Place
  <2>2. /\ Elems(Tail(s)) = Elems(s) \ {Head(s)} /\ Head(s) \in Elems(s)
        /\ Elems(Tail(s)) # {} => Tail(s)[Len(Tail(s))] = s[Len(s)]
        /\ Head(s) = s[Len(s)] => Elems(Tail(s)) = {}
    <3> HIDE DEF s
    <3> QED
      BY <1>2, <2>1, ElemsOfTail DEF s
  <2> QED
    BY <1>2, <2>2 DEF Posted, Replied
<1>4. \A i, j \in 1 .. Len(inbox'[p]) : inbox'[p][i] = inbox'[p][j] => i = j
  BY <1>2 DEF Place
<1>5. Place(p)'
  BY <1>2, <1>3, <1>4 DEF Place
<1>6. ReleaseIsLast(p)'
  BY <1>2, <1>3 DEF ReleaseIsLast
<1>7. Waits(p)'
  BY <1>2, <1>3 DEF Waits
<1>8. /\ m = Release => released'[p] = TRUE /\ stage'[p] = IF context[p] = "open" THEN "closing" ELSE "ok"
      /\ m \in Unit => /\ released'[p] = released[p]
                       /\ released[p] => stage'[p] = "failed"
                       /\ ~released[p] => stage'[p] \in {"opening", "running"}
  <2>1. CASE TakeRelease(p)
    <3>1. m = Release /\ m \notin Unit
      BY <1>1, <2>1
    <3>2. released'[p] = TRUE /\ stage'[p] = IF context[p] = "open" THEN "closing" ELSE "ok"
      BY <2>1 DEF TakeRelease
    <3> QED
      BY <3>1, <3>2
  <2>2. CASE TakeCall(p)
    <3>1. stage'[p] = IF released[p] THEN "failed"
                      ELSE IF context[p] = "open" THEN "running" ELSE "opening"
      BY <2>2 DEF TakeCall
    <3>2. released'[p] = released[p] /\ m \in Unit
      BY <1>1, <2>2 DEF TakeCall
    <3>3. CASE released[p]
      BY <1>2, <3>1, <3>2, <3>3 DEF Progress
    <3>4. CASE ~released[p]
      BY <3>1, <3>2, <3>4
    <3> QED
      BY <3>3, <3>4
  <2> QED
    BY <2>1, <2>2
<1>9. Progress(p)'
  BY <1>2, <1>3, <1>8 DEF Progress
<1>10. Written(p)'
  BY <1>2, <1>3, <1>8 DEF Written
<1>11. Ending(p)'
  BY <1>2, <1>3, <1>8 DEF Ending
<1> QED
  BY <1>2, <1>5, <1>6, <1>7, <1>9, <1>10, <1>11 DEF Within, UnitInv, OutcomesAreTrue

\* The message is answered.
LEMMA HostReplies ==
  ASSUME Typed, Typed', UnitInv, NEW p \in Page, PageInv(p), RoleStands(p), Reply(p)
  PROVE  PageInv(p)' /\ UnitInv' /\ Within(p)
<1> USE WorkerAssumption DEF Typed, WorkerTypeOK, PageInv, RoleStands, Message
<1> USE DEF clientVars
<1>1. /\ worker[p] = "alive" /\ stage[p] \in {"ok", "failed"} /\ hand[p] \in Message
      /\ outbox[p] \in Seq(Answer) /\ [id |-> hand[p], ok |-> stage[p] = "ok"] \in Answer
      /\ outbox'[p] = Append(outbox[p], [id |-> hand[p], ok |-> stage[p] = "ok"])
      /\ hand'[p] = None /\ stage'[p] = "idle"
      /\ UNCHANGED <<clientVars, inbox, worker, context, released, effect>>
      /\ \A q \in Page \ {p} : UNCHANGED <<outbox[q], hand[q], stage[q]>>
  BY DEF Reply, Progress, Answer
<1>2. /\ Elems(outbox'[p]) = Elems(outbox[p]) \cup {[id |-> hand[p], ok |-> stage[p] = "ok"]}
      /\ outbox'[p][Len(outbox'[p])] = [id |-> hand[p], ok |-> stage[p] = "ok"]
  BY <1>1, ElemsOfAppend
<1>3. Replied(p)' = Replied(p) \cup {hand[p]} /\ UNCHANGED Posted(p)
  BY <1>1, <1>2 DEF Replied, Posted
<1>4. \A i \in 1 .. Len(outbox[p]) : outbox[p][i].id # hand[p]
  BY DEF Place, Replied, Elems
<1>5. \A i, j \in 1 .. Len(outbox'[p]) : outbox'[p][i].id = outbox'[p][j].id => i = j
  BY <1>1, <1>4 DEF Place
<1>6. Place(p)'
  BY <1>1, <1>3, <1>5, OnlyMessages DEF Place
<1>7. ReleaseIsLast(p)'
  BY <1>1, <1>2, <1>3 DEF ReleaseIsLast
<1>8. Waits(p)'
  BY <1>1, <1>3 DEF Waits
<1>9. Progress(p)'
  BY <1>1, <1>3 DEF Progress
<1>10. Written(p)'
  <2> SUFFICES ASSUME NEW u \in Unit
               PROVE  (/\ u \in Posted(p) => effect[u] = "none"
                       /\ u = hand[p] => effect[u] = IF stage[p] = "ok" THEN "applied" ELSE "none"
                       /\ result[u] = "not-applied" => u \notin Posted(p) \cup {hand[p]}
                       /\ \A a \in Elems(outbox[p]) :
                            a.id = u => effect[u] = IF a.ok THEN "applied" ELSE "none"
                       /\ u \in pending[p] => result[u] = "none")'
    BY DEF Written
  <2>1. ASSUME NEW a \in Elems(outbox[p])', a.id = u
        PROVE  effect'[u] = IF a.ok THEN "applied" ELSE "none"
    <3>1. CASE a \in Elems(outbox[p])
      BY <1>1, <2>1, <3>1 DEF Written
    <3>2. CASE a = [id |-> hand[p], ok |-> stage[p] = "ok"]
      <4>1. hand[p] = u /\ (a.ok <=> stage[p] = "ok")
        BY <2>1, <3>2
      <4> QED
        BY <1>1, <4>1 DEF Written
    <3> QED
      BY <1>2, <2>1, <3>1, <3>2
  <2>2. u # None
    OBVIOUS
  <2> QED
    BY <1>1, <1>3, <2>1, <2>2 DEF Written
<1>11. Ending(p)'
  BY <1>1, <1>3 DEF Ending
<1> QED
  BY <1>1, <1>6, <1>7, <1>8, <1>9, <1>10, <1>11 DEF Within, UnitInv, OutcomesAreTrue

-----------------------------------------------------------------------------
(* The client. *)

\* A message goes out: to a worker that is alive, or to nobody.
LEMMA SendPosts ==
  ASSUME Typed, NEW p \in Page, PageInv(p), NEW m \in Message, Send(p, m), UNCHANGED <<outbox, hand>>,
         m \notin Posted(p) \cup Replied(p) \cup {hand[p]},
         Release \notin Posted(p) \cup Replied(p) \cup {hand[p]}
  PROVE  /\ pending'[p] = pending[p] \cup {m}
         /\ \A q \in Page \ {p} : UNCHANGED <<pending[q], inbox[q]>>
         /\ UNCHANGED Replied(p)
         /\ Posted(p)' = IF worker[p] = "alive" THEN Posted(p) \cup {m} ELSE Posted(p)
         /\ \A i, j \in 1 .. Len(inbox'[p]) : inbox'[p][i] = inbox'[p][j] => i = j
         /\ Release \in Posted(p)' => inbox'[p][Len(inbox'[p])] = Release
<1> USE DEF Typed, WorkerTypeOK, PageInv
<1>1. /\ pending'[p] = pending[p] \cup {m} /\ inbox[p] \in Seq(Message)
      /\ inbox'[p] = IF worker[p] = "alive" THEN Append(inbox[p], m) ELSE inbox[p]
      /\ \A q \in Page \ {p} : UNCHANGED <<pending[q], inbox[q]>>
  BY DEF Send
<1>2. UNCHANGED Replied(p)
  BY DEF Replied
<1>3. CASE worker[p] # "alive"
  BY <1>1, <1>2, <1>3 DEF Place, Posted
<1>4. CASE worker[p] = "alive"
  <2>1. /\ Elems(inbox'[p]) = Elems(inbox[p]) \cup {m}
        /\ inbox'[p][Len(inbox'[p])] = m
    BY <1>1, <1>4, ElemsOfAppend
  <2>2. \A i \in 1 .. Len(inbox[p]) : inbox[p][i] # m
    BY DEF Posted, Elems
  <2>3. \A i, j \in 1 .. Len(inbox'[p]) : inbox'[p][i] = inbox'[p][j] => i = j
    BY <1>1, <1>4, <2>2 DEF Place
  <2> QED
    BY <1>1, <1>2, <1>4, <2>1, <2>3 DEF Posted
<1> QED
  BY <1>3, <1>4

LEMMA ClientCalls ==
  ASSUME Typed, Typed', UnitInv, NEW p \in Page, PageInv(p), RoleStands(p),
         NEW u \in Unit, Call(p, u)
  PROVE  PageInv(p)' /\ UnitInv' /\ Within(p)
<1> USE WorkerAssumption DEF Typed, WorkerTypeOK, PageInv, RoleStands
<1> USE DEF hostVars
<1>1. /\ worker[p] # "none" /\ sender[u] = None /\ ~closed[p] /\ Send(p, u)
      /\ sender'[u] = p /\ \A v \in Unit \ {u} : sender'[v] = sender[v]
      /\ UNCHANGED <<closed, releasing, result, outbox, hostVars>>
  BY DEF Call
<1>2. /\ u \notin Posted(p) \cup Replied(p) \cup {hand[p]} \cup pending[p]
      /\ Release \notin Posted(p) \cup Replied(p) \cup {hand[p]} \cup pending[p]
      /\ effect[u] = "none" /\ result[u] = "none"
  BY <1>1 DEF Place, UnitInv
<1>3. /\ pending'[p] = pending[p] \cup {u}
      /\ \A q \in Page \ {p} : UNCHANGED <<pending[q], inbox[q]>>
      /\ UNCHANGED Replied(p)
      /\ Posted(p)' = IF worker[p] = "alive" THEN Posted(p) \cup {u} ELSE Posted(p)
      /\ \A i, j \in 1 .. Len(inbox'[p]) : inbox'[p][i] = inbox'[p][j] => i = j
      /\ Release \in Posted(p)' => inbox'[p][Len(inbox'[p])] = Release
  BY <1>1, <1>2, SendPosts DEF Message
<1>4. Place(p)'
  BY <1>1, <1>2, <1>3 DEF Place
<1>5. ReleaseIsLast(p)'
  BY <1>1, <1>2, <1>3 DEF ReleaseIsLast
<1>6. Waits(p)'
  BY <1>1, <1>2, <1>3 DEF Waits
<1>7. Progress(p)'
  BY <1>1, <1>3 DEF Progress
<1>8. Written(p)'
  BY <1>1, <1>2, <1>3 DEF Written
<1>9. Ending(p)'
  BY <1>1, <1>2, <1>3 DEF Ending
<1>10. UnitInv'
  BY <1>1, <1>2 DEF UnitInv, OutcomesAreTrue
<1>11. Within(p)
  BY <1>1, <1>3 DEF Within
<1> QED
  BY <1>4, <1>5, <1>6, <1>7, <1>8, <1>9, <1>10, <1>11

LEMMA ClientReleases ==
  ASSUME Typed, Typed', UnitInv, NEW p \in Page, PageInv(p), RoleStands(p), StartRelease(p)
  PROVE  PageInv(p)' /\ UnitInv' /\ Within(p)
<1> USE WorkerAssumption DEF Typed, WorkerTypeOK, PageInv, RoleStands
<1> USE DEF hostVars
<1>1. /\ worker[p] # "none" /\ ~closed[p] /\ closed'[p] /\ Send(p, Release)
      /\ releasing'[p] = "waiting"
      /\ \A q \in Page \ {p} : UNCHANGED <<closed[q], releasing[q]>>
      /\ UNCHANGED <<sender, result, outbox, hostVars>>
  BY DEF StartRelease
<1>2. Release \notin Posted(p) \cup Replied(p) \cup {hand[p]} \cup pending[p]
  BY <1>1 DEF Place
<1>3. /\ pending'[p] = pending[p] \cup {Release}
      /\ \A q \in Page \ {p} : UNCHANGED <<pending[q], inbox[q]>>
      /\ UNCHANGED Replied(p)
      /\ Posted(p)' = IF worker[p] = "alive" THEN Posted(p) \cup {Release} ELSE Posted(p)
      /\ \A i, j \in 1 .. Len(inbox'[p]) : inbox'[p][i] = inbox'[p][j] => i = j
      /\ Release \in Posted(p)' => inbox'[p][Len(inbox'[p])] = Release
  BY <1>1, <1>2, SendPosts DEF Message
<1>4. Place(p)'
  BY <1>1, <1>2, <1>3 DEF Place
<1>5. ReleaseIsLast(p)'
  BY <1>1, <1>2, <1>3 DEF ReleaseIsLast
<1>6. Waits(p)'
  BY <1>1, <1>2, <1>3 DEF Waits
<1>7. Progress(p)'
  BY <1>1, <1>2, <1>3 DEF Progress
<1>8. Written(p)'
  BY <1>1, <1>2, <1>3 DEF Written
<1>9. Ending(p)'
  BY <1>1, <1>2, <1>3 DEF Ending
<1>10. UnitInv' /\ Within(p)
  BY <1>1, <1>3 DEF UnitInv, OutcomesAreTrue, Within
<1> QED
  BY <1>4, <1>5, <1>6, <1>7, <1>8, <1>9, <1>10

\* Calls that are refused, and calls that time out.
LEMMA ClientSettles ==
  ASSUME Typed, Typed', UnitInv, NEW p \in Page, PageInv(p), RoleStands(p),
         NEW u \in Unit, CallRefused(p, u) \/ Timeout(p, u)
  PROVE  PageInv(p)' /\ UnitInv' /\ Within(p)
<1> USE WorkerAssumption DEF Typed, WorkerTypeOK, PageInv, RoleStands
<1> USE DEF hostVars, portVars
<1>1. /\ UNCHANGED <<closed, releasing, portVars, hostVars, Posted(p), Replied(p)>>
      /\ \A v \in Unit \ {u} : UNCHANGED <<sender[v], result[v]>>
      /\ sender'[u] = p /\ sender[u] \in {p, None}
      /\ \A q \in Page \ {p} : UNCHANGED pending[q]
  BY DEF CallRefused, Timeout, Posted, Replied, Place
<1>2. CASE CallRefused(p, u)
  <2>1. /\ worker[p] # "none" /\ sender[u] = None /\ closed[p] /\ result'[u] = "not-applied"
        /\ UNCHANGED pending
    BY <1>2 DEF CallRefused
  <2>2. /\ u \notin Posted(p) \cup Replied(p) \cup {hand[p]} \cup pending[p]
        /\ effect[u] = "none"
    BY <2>1 DEF Place, UnitInv
  <2>3. Place(p)' /\ ReleaseIsLast(p)' /\ Waits(p)' /\ Progress(p)'
    BY <1>1, <2>1, <2>2 DEF Place, ReleaseIsLast, Waits, Progress
  <2>4. Written(p)'
    BY <1>1, <2>1, <2>2 DEF Written
  <2>5. ASSUME NEW v \in Unit, releasing[p] = "resolved", sender'[v] = p PROVE result'[v] # "none"
    <3>1. CASE v = u
      BY <2>1, <3>1
    <3>2. CASE v # u
      BY <1>1, <2>5, <3>2 DEF Ending
    <3> QED
      BY <3>1, <3>2
  <2>6. Ending(p)'
    BY <1>1, <2>1, <2>5 DEF Ending
  <2> QED
    BY <1>1, <2>1, <2>2, <2>3, <2>4, <2>6 DEF UnitInv, OutcomesAreTrue, Within
<1>3. CASE Timeout(p, u)
  <2>1. /\ u \in pending[p] /\ result'[u] = "unknown" /\ pending'[p] = pending[p] \ {u}
        /\ UNCHANGED sender
    BY <1>3 DEF Timeout
  <2>2. Place(p)' /\ ReleaseIsLast(p)' /\ Progress(p)'
    BY <1>1, <2>1 DEF Place, ReleaseIsLast, Progress
  <2>3. Written(p)'
    BY <1>1, <2>1 DEF Written
  <2>5. \A v \in Unit : sender'[v] = p /\ result'[v] = "none" => v \in pending'[p]
    BY <1>1, <2>1 DEF Waits
  <2>6. Waits(p)'
    BY <1>1, <2>1, <2>5 DEF Waits
  <2>4. Ending(p)'
    BY <1>1, <2>1 DEF Ending
  <2> QED
    BY <1>1, <2>1, <2>2, <2>3, <2>4, <2>6 DEF UnitInv, OutcomesAreTrue, Within
<1> QED
  BY <1>2, <1>3

-----------------------------------------------------------------------------
(* The answers. *)

\* The head of the port leaves it.
LEMMA AnswerLeaves ==
  ASSUME Typed, NEW p \in Page, PageInv(p), outbox[p] # <<>>, outbox'[p] = Tail(outbox[p])
  PROVE  /\ Head(outbox[p]) \in Elems(outbox[p]) /\ Head(outbox[p]).id \in Replied(p)
         /\ Elems(outbox'[p]) \subseteq Elems(outbox[p])
         /\ Replied(p)' = Replied(p) \ {Head(outbox[p]).id}
         /\ Replied(p)' # {} => outbox'[p][Len(outbox'[p])] = outbox[p][Len(outbox[p])]
         /\ Head(outbox[p]).id = outbox[p][Len(outbox[p])].id => Replied(p)' = {}
         /\ \A i, j \in 1 .. Len(outbox'[p]) : outbox'[p][i].id = outbox'[p][j].id => i = j
<1> DEFINE s == outbox[p]
<1>1. s \in Seq(Answer) /\ s # <<>>
      /\ \A i, j \in 1 .. Len(s) : s[i].id = s[j].id => i = j
  BY DEF Typed, WorkerTypeOK, PageInv, Place
<1>2. \A i, j \in 1 .. Len(s) : s[i] = s[j] => i = j
  BY <1>1
<1> HIDE DEF s
<1>3. /\ Elems(Tail(s)) = Elems(s) \ {Head(s)} /\ Head(s) \in Elems(s)
      /\ Elems(Tail(s)) # {} => Tail(s)[Len(Tail(s))] = s[Len(s)]
      /\ Head(s) = s[Len(s)] => Elems(Tail(s)) = {}
  BY <1>1, <1>2, ElemsOfTail
<1>4. \A a, b \in Elems(s) : a.id = b.id => a = b
  BY <1>1 DEF Elems
<1>5. s[Len(s)] \in Elems(s)
  BY <1>1 DEF Elems
<1>6. /\ {a.id : a \in Elems(Tail(s))} = {a.id : a \in Elems(s)} \ {Head(s).id}
      /\ {a.id : a \in Elems(Tail(s))} # {} => Elems(Tail(s)) # {}
      /\ Head(s).id \in {a.id : a \in Elems(s)}
      /\ Head(s).id = s[Len(s)].id => Head(s) = s[Len(s)]
  BY <1>3, <1>4, <1>5
<1>7. \A i, j \in 1 .. Len(Tail(s)) : Tail(s)[i].id = Tail(s)[j].id => i = j
  BY <1>1
<1> QED
  BY <1>3, <1>6, <1>7 DEF Replied, s

\* An answer is received, and the call or the release it is for is settled.
LEMMA CallSettled ==
  ASSUME Typed, Typed', UnitInv, NEW p \in Page, PageInv(p), RoleStands(p),
         Settle(p) \/ IgnoreAnswer(p)
  PROVE  PageInv(p)' /\ UnitInv' /\ Within(p)
<1> USE WorkerAssumption DEF Typed, WorkerTypeOK, PageInv, RoleStands
<1> USE DEF hostVars, clientVars
<1>a. outbox[p] # <<>> /\ outbox[p] \in Seq(Answer)
  BY DEF Settle, Answered, IgnoreAnswer
<1> PICK a \in Answer : a = Head(outbox[p]) /\ outbox[p] # <<>>
  BY <1>a
<1>0. \/ /\ a.id \in Unit \cap pending[p] /\ pending' = [pending EXCEPT ![p] = @ \ {a.id}]
         /\ result' = [result EXCEPT ![a.id] = IF a.ok THEN "ok" ELSE "not-applied"]
      \/ a.id \notin pending[p] /\ UNCHANGED <<pending, result>>
  <2>1. CASE IgnoreAnswer(p)
    BY <2>1 DEF IgnoreAnswer
  <2>2. CASE Settle(p)
    <3>1. PICK u \in Unit, ok \in BOOLEAN :
            Answered(p, u, ok) /\ result' = [result EXCEPT ![u] = IF ok THEN "ok" ELSE "not-applied"]
      BY <2>2 DEF Settle
    <3>2. a = [id |-> u, ok |-> ok] /\ u \in pending[p] /\ pending' = [pending EXCEPT ![p] = @ \ {u}]
      BY <3>1 DEF Answered
    <3>3. a.id = u /\ a.ok = ok
      BY <3>2
    <3> QED
      BY <3>1, <3>2, <3>3
  <2> QED
    BY <2>1, <2>2
<1>1. /\ outbox[p] # <<>> /\ outbox'[p] = Tail(outbox[p])
      /\ UNCHANGED <<closed, releasing, sender, inbox, hostVars, Posted(p)>>
      /\ \A q \in Page \ {p} : UNCHANGED <<outbox[q], pending[q]>>
      /\ pending'[p] = pending[p] \ {a.id}
  <2>1. /\ UNCHANGED <<closed, releasing, sender, inbox, hostVars>>
        /\ outbox' = [outbox EXCEPT ![p] = Tail(@)]
    BY DEF Settle, Answered, IgnoreAnswer
  <2> QED
    BY <1>0, <2>1 DEF Posted
<1>2. /\ a \in Elems(outbox[p]) /\ a.id \in Replied(p)
      /\ Elems(outbox'[p]) \subseteq Elems(outbox[p])
      /\ Replied(p)' = Replied(p) \ {a.id}
      /\ Replied(p)' # {} => outbox'[p][Len(outbox'[p])] = outbox[p][Len(outbox[p])]
      /\ a.id = outbox[p][Len(outbox[p])].id => Replied(p)' = {}
      /\ \A i, j \in 1 .. Len(outbox'[p]) : outbox'[p][i].id = outbox'[p][j].id => i = j
  BY <1>1, AnswerLeaves
<1>3. /\ \A u \in Unit : u # a.id \/ u \notin pending[p] => result'[u] = result[u]
      /\ a.id = Release => Release \notin pending[p]
      /\ \A u \in Unit : u = a.id /\ u \in pending[p] =>
           result'[u] = IF a.ok THEN "ok" ELSE "not-applied"
  BY <1>0
<1>4. Place(p)'
  BY <1>1, <1>2 DEF Place
<1>5. ReleaseIsLast(p)'
  <2>1. Release \in Replied(p)' => Release \in Replied(p) /\ Replied(p)' # {}
    BY <1>2
  <2>2. UNCHANGED <<hand, inbox, Posted(p)>>
    BY <1>1
  <2> QED
    BY <1>2, <2>1, <2>2 DEF ReleaseIsLast
<1>6. Waits(p)'
  <2>1. \A u \in Unit : sender'[u] = p /\ result'[u] = "none" =>
                           u \in pending'[p] \/ (pending'[p] = {} /\ closed'[p])
    BY <1>1, <1>3 DEF Waits
  <2> QED
    BY <1>1, <1>2, <2>1 DEF Waits
<1>7. Progress(p)'
  BY <1>1, <1>2 DEF Progress
<1>8. Written(p)'
  BY <1>1, <1>2, <1>3 DEF Written, Place
<1>9. Ending(p)'
  BY <1>1, <1>2, <1>3 DEF Ending
<1>10. UnitInv'
  <2>1. ASSUME NEW u \in Unit, u = a.id, u \in pending[p]
        PROVE  sender[u] # None /\ effect[u] = IF a.ok THEN "applied" ELSE "none"
    BY <1>2, <2>1 DEF Written, Place
  <2> QED
    BY <1>1, <1>3, <2>1 DEF UnitInv, OutcomesAreTrue
<1>11. Within(p)
  BY <1>1, <1>3 DEF Within, Place
<1> QED
  BY <1>4, <1>5, <1>6, <1>7, <1>8, <1>9, <1>10, <1>11

LEMMA ReleaseSettled ==
  ASSUME Typed, Typed', UnitInv, NEW p \in Page, PageInv(p), RoleStands(p),
         ReleaseDone(p) \/ ReleaseFailed(p)
  PROVE  PageInv(p)' /\ UnitInv' /\ Within(p)
<1> USE WorkerAssumption DEF Typed, WorkerTypeOK, PageInv, RoleStands
<1>1. /\ outbox[p] # <<>> /\ outbox'[p] = Tail(outbox[p])
      /\ Head(outbox[p]).id = Release /\ Release \in pending[p]
      /\ UNCHANGED <<closed, sender, result, inbox, hand, stage, context, released, effect, Posted(p)>>
      /\ \A q \in Page \ {p} : UNCHANGED <<outbox[q], pending[q], worker[q], releasing[q]>>
      /\ pending'[p] = pending[p] \ {Release}
      /\ releasing'[p] \in {"resolved", "rejected"}
      /\ releasing'[p] = "resolved" => worker'[p] = "terminated"
      /\ releasing'[p] = "rejected" => worker'[p] = worker[p]
      /\ worker'[p] \in {worker[p], "terminated"}
  BY DEF ReleaseDone, ReleaseFailed, Answered, Posted, hostVars
<1>2. /\ Release \in Replied(p)
      /\ Elems(outbox'[p]) \subseteq Elems(outbox[p])
      /\ Replied(p)' = Replied(p) \ {Release}
      /\ Replied(p)' # {} => outbox'[p][Len(outbox'[p])] = outbox[p][Len(outbox[p])]
      /\ Release = outbox[p][Len(outbox[p])].id => Replied(p)' = {}
      /\ \A i, j \in 1 .. Len(outbox'[p]) : outbox'[p][i].id = outbox'[p][j].id => i = j
  BY <1>1, AnswerLeaves
<1>3. Replied(p) = {Release} /\ Posted(p) = {} /\ hand[p] = None /\ closed[p]
  BY <1>1, <1>2 DEF ReleaseIsLast, Place
<1>4. pending[p] \cap Unit = {} /\ pending'[p] = {}
  <2>1. pending[p] \subseteq {Release, None}
    BY <1>2, <1>3 DEF Waits
  <2>2. pending[p] \subseteq Message /\ None \notin Message
    BY DEF Message
  <2>3. pending[p] \subseteq {Release}
    BY <2>1, <2>2
  <2>4. pending'[p] = {}
    BY <1>1, <2>3
  <2> QED
    BY <2>3, <2>4
<1>5. \A u \in Unit : sender[u] = p => result[u] # "none"
  BY <1>1, <1>4 DEF Waits
<1>6. released[p] /\ context[p] = "none"
  BY <1>3 DEF Progress
<1>7. Place(p)' /\ ReleaseIsLast(p)'
  BY <1>1, <1>2, <1>3, <1>4 DEF Place, ReleaseIsLast
<1>8. Waits(p)' /\ Progress(p)'
  BY <1>1, <1>2, <1>3, <1>4, <1>5 DEF Waits, Progress
<1>9. Written(p)'
  BY <1>1, <1>2, <1>3, <1>4 DEF Written
<1>10. Ending(p)'
  BY <1>1, <1>2, <1>3, <1>4, <1>5, <1>6 DEF Ending
<1> QED
  BY <1>1, <1>7, <1>8, <1>9, <1>10 DEF Within, UnitInv, OutcomesAreTrue

-----------------------------------------------------------------------------
(* The ends, and the lock. *)

\* Calls that no answer will settle any more are settled, or their page is gone.
LEMMA CallsFail ==
  ASSUME Typed, Typed', UnitInv, NEW p \in Page, PageInv(p), RoleStands(p),
         \/ TransportFails(p) \/ Dispose(p) \/ Crash(p)
         \/ Unload(p) /\ role'[p] = "gone"
  PROVE  PageInv(p)' /\ UnitInv' /\ Within(p)
<1> USE WorkerAssumption DEF Typed, WorkerTypeOK, PageInv, RoleStands
<1> USE DEF hostVars, portVars, clientVars
\* The worker's part: it stops, or it does not notice.
<1>0. \/ /\ Stop(p, "crashed") \/ Stop(p, "terminated")
         /\ UNCHANGED <<outbox, released, effect, sender>>
      \/ /\ worker[p] \in {"alive", "crashed"}
         /\ UNCHANGED <<inbox, outbox, hand, stage, context, worker, released, effect, sender>>
  BY DEF TransportFails, Dispose, Crash, Unload
<1>1. /\ UNCHANGED <<outbox, released, effect, sender, Replied(p)>>
      /\ \A q \in Page \ {p} :
           UNCHANGED <<inbox[q], hand[q], pending[q], closed[q], worker[q], stage[q],
                       context[q], releasing[q]>>
      /\ worker'[p] \in {"alive", "crashed", "terminated"}
      /\ worker'[p] = "alive" => UNCHANGED worker /\ TransportFails(p)
      /\ \/ Posted(p)' = {} /\ hand'[p] = None /\ stage'[p] = "idle" /\ context'[p] = "none"
            /\ inbox'[p] = <<>>
         \/ UNCHANGED <<inbox, hand, stage, context, worker, Posted(p)>>
  <2>1. UNCHANGED Replied(p)
    BY <1>0 DEF Replied
  <2>2. \A q \in Page \ {p} : UNCHANGED <<pending[q], closed[q], releasing[q]>>
    <3>1. ASSUME FailAll(p), NEW q \in Page, q # p
          PROVE  UNCHANGED <<pending[q], closed[q], releasing[q]>>
      BY <3>1 DEF FailAll
    <3>2. CASE Unload(p)
      BY <3>2 DEF Unload
    <3> QED
      BY <3>1, <3>2 DEF TransportFails, Dispose, Crash
  <2>3. \A q \in Page \ {p} :
          UNCHANGED <<inbox[q], hand[q], worker[q], stage[q], context[q]>>
    <3>1. ASSUME NEW how, Stop(p, how), NEW q \in Page, q # p
          PROVE  UNCHANGED <<inbox[q], hand[q], worker[q], stage[q], context[q]>>
      BY <3>1 DEF Stop
    <3> QED
      BY <1>0, <3>1
  <2>4. CASE Stop(p, "crashed") \/ Stop(p, "terminated")
    <3>1. /\ inbox'[p] = <<>> /\ hand'[p] = None /\ stage'[p] = "idle"
          /\ context'[p] = "none" /\ worker'[p] \in {"crashed", "terminated"}
      BY <2>4 DEF Stop
    <3>2. Posted(p)' = {}
      BY <3>1 DEF Posted, Elems
    <3> QED
      BY <1>0, <2>1, <2>2, <2>3, <3>1, <3>2
  <2>5. CASE /\ worker[p] \in {"alive", "crashed"}
             /\ UNCHANGED <<inbox, hand, stage, context, worker>>
    <3>1. UNCHANGED Posted(p)
      BY <2>5 DEF Posted
    <3>2. worker[p] = "alive" => TransportFails(p)
      BY <2>5 DEF Dispose, Crash, Unload, Stop
    <3> QED
      BY <1>0, <2>1, <2>2, <2>3, <2>5, <3>1, <3>2
  <2> QED
    BY <1>0, <2>4, <2>5
\* The client's: all it has is settled, or nothing.
<1>2. \/ /\ pending'[p] = {} /\ closed'[p]
         /\ \/ \A u \in Unit : result'[u] = IF u \in pending[p] THEN "unknown" ELSE result[u]
            \/ UNCHANGED result
      \/ UNCHANGED <<pending, closed, result, releasing>>
  BY DEF TransportFails, Dispose, Crash, Unload, Stop, FailAll
<1>3. /\ releasing'[p] \in {releasing[p], "rejected"}
      /\ releasing'[p] # releasing[p] => Release \in pending[p]
  BY DEF TransportFails, Dispose, Crash, Unload, Stop, FailAll
<1>4. /\ pending'[p] \subseteq pending[p] /\ (closed[p] => closed'[p])
      /\ Posted(p)' \subseteq Posted(p) /\ hand'[p] \in {hand[p], None}
      /\ \A u \in Unit : result'[u] \in {result[u], "unknown"}
      /\ \A u \in Unit : result'[u] # result[u] => u \in pending[p]
  BY <1>1, <1>2
<1>5. \A i, j \in 1 .. Len(inbox'[p]) : inbox'[p][i] = inbox'[p][j] => i = j
  BY <1>1 DEF Place
<1>6. Place(p)'
  BY <1>1, <1>4, <1>5, OnlyMessages DEF Place
<1>7. ReleaseIsLast(p)'
  BY <1>1 DEF ReleaseIsLast
<1>8. Waits(p)'
  <2>1. ASSUME NEW u \in Unit, sender'[u] = p, result'[u] = "none"
        PROVE  u \in pending'[p] \/ (pending'[p] = {} /\ closed'[p])
    BY <1>1, <1>2, <2>1 DEF Waits
  <2>2. worker'[p] = "alive" \/ (Release \in Replied(p))' =>
          pending'[p] \subseteq (Posted(p) \cup Replied(p) \cup {hand[p]})'
    <3>1. CASE Release \in Replied(p)
      BY <1>1, <1>2, <3>1 DEF Waits, ReleaseIsLast
    <3>2. CASE Release \notin Replied(p)
      <4>1. worker'[p] = "alive" => pending'[p] = {}
        BY <1>1 DEF TransportFails, FailAll
      <4> QED
        BY <1>1, <3>2, <4>1
    <3> QED
      BY <3>1, <3>2
  <2> QED
    BY <2>1, <2>2 DEF Waits
<1>9. Progress(p)'
  BY <1>1 DEF Progress
<1>10. Written(p)'
  <2>1. \A u \in Unit : u \in pending'[p] => result'[u] = "none"
    BY <1>2, <1>4 DEF Written
  <2>2. \A u \in Unit : result'[u] = "not-applied" => result[u] = "not-applied"
    BY <1>4
  <2>3. None \notin Unit
    OBVIOUS
  <2> QED
    BY <1>1, <1>4, <2>1, <2>2, <2>3 DEF Written
<1>11. Ending(p)'
  <2>1. /\ worker[p] # "none" \/ closed'[p] => role'[p] \in {"owner", "gone"}
        /\ worker'[p] # "none" => role'[p] \in {"owner", "gone"}
    BY <1>1, <1>2 DEF Ending, TransportFails, Dispose, Crash, Unload
  <2>2. releasing'[p] # "none" => closed'[p]
    BY <1>3, <1>4 DEF Ending, Place
  <2>3. ASSUME releasing'[p] = "resolved", NEW u \in Unit, sender'[u] = p
        PROVE  result'[u] # "none"
    BY <1>1, <1>3, <1>4, <2>3 DEF Ending
  <2>4. releasing'[p] = "resolved" => worker'[p] # "alive"
    BY <1>1, <1>3 DEF Ending
  <2>5. worker'[p] # "none"
    BY <1>1
  <2> QED
    BY <2>1, <2>2, <2>3, <2>4, <2>5 DEF Ending
<1>12. UnitInv'
  BY <1>1, <1>4 DEF UnitInv, OutcomesAreTrue, Place
<1>13. Within(p)
  BY <1>1, <1>4 DEF Within, Place
<1> QED
  BY <1>6, <1>7, <1>8, <1>9, <1>10, <1>11, <1>12, <1>13

\* A page that had no worker gets one.
LEMMA WorkerStarts ==
  ASSUME Typed, Typed', UnitInv, NEW p \in Page, PageInv(p), role[p] \in {"new", "waiting"}, Own(p)
  PROVE  PageInv(p)' /\ UnitInv' /\ Within(p)
<1> USE WorkerAssumption DEF Typed, WorkerTypeOK, PageInv
<1> USE DEF portVars, clientVars
<1>1. /\ worker[p] = "none" /\ ~closed[p] /\ Posted(p) = {} /\ Replied(p) = {} /\ hand[p] = None
      /\ pending[p] = {} /\ releasing[p] = "none"
  BY DEF Ending
<1>2. /\ role'[p] = "owner" /\ worker'[p] = "alive"
      /\ \A q \in Page \ {p} : UNCHANGED <<worker[q], role[q]>>
      /\ UNCHANGED <<clientVars, portVars, hand, stage, context, released, effect, Posted(p), Replied(p)>>
  BY DEF Own, Posted, Replied
<1>3. Place(p)' /\ ReleaseIsLast(p)'
  <2>1. UNCHANGED <<inbox, outbox, hand, pending, sender, closed, Posted(p), Replied(p)>>
    BY <1>2
  <2>2. Place(p)'
    BY <2>1 DEF Place
  <2> QED
    BY <1>1, <2>1, <2>2 DEF ReleaseIsLast
<1>5. Waits(p)'
  BY <1>1, <1>2 DEF Waits
<1>6. Progress(p)'
  BY <1>1, <1>2 DEF Progress
<1>4. Written(p)' /\ Ending(p)'
  BY <1>1, <1>2 DEF Written, Ending
<1> QED
  BY <1>2, <1>3, <1>4, <1>5, <1>6 DEF UnitInv, OutcomesAreTrue, Within

\* Only the page's part in the ownership changes.
LEMMA RoleChanges ==
  ASSUME Typed, UnitInv, NEW p \in Page, PageInv(p), UNCHANGED workerVars,
         \A q \in Page \ {p} : role'[q] = role[q],
         role[p] \in {"owner", "gone"} => role'[p] \in {"owner", "gone"}
  PROVE  PageInv(p)' /\ UnitInv' /\ Within(p)
<1> USE DEF PageInv, workerVars, clientVars, portVars, hostVars
<1>1. UNCHANGED <<Posted(p), Replied(p)>>
  BY DEF Posted, Replied
<1>2. Place(p)' /\ ReleaseIsLast(p)' /\ Waits(p)' /\ Progress(p)'
  BY <1>1 DEF Place, ReleaseIsLast, Waits, Progress
<1>3. Written(p)' /\ Ending(p)'
  BY <1>1 DEF Written, Ending
<1> QED
  BY <1>2, <1>3 DEF UnitInv, OutcomesAreTrue, Within

-----------------------------------------------------------------------------
(* Every step. *)

LEMMA ProgramTyped ==
  ASSUME WorkInv, NEW p \in Page, Program(p)
  PROVE  Typed'
<1> USE WorkerAssumption DEF WorkInv, Typed, WorkerTypeOK
<1> USE DEF workerVars, clientVars, portVars, hostVars, ownerVars, Role
<1>1. CASE Claim(p)
  BY <1>1 DEF Claim, Own
<1>2. CASE ClaimRefused(p)
  BY <1>2 DEF ClaimRefused
<1>3. CASE Ask(p)
  BY <1>3 DEF Ask
<1>4. CASE GiveUp(p)
  BY <1>4 DEF GiveUp
<1>5. CASE OwnerLeaves(p)
  BY <1>5 DEF OwnerLeaves, LetGo
<1>6. CASE Unload(p)
  BY <1>6 DEF Unload, Stop
<1>7. ASSUME NEW u \in Unit, UNCHANGED ownerVars, Call(p, u)
      PROVE  Typed'
  BY <1>7 DEF Call, Send, Message
<1>8. ASSUME NEW u \in Unit, UNCHANGED ownerVars, CallRefused(p, u)
      PROVE  Typed'
  BY <1>8 DEF CallRefused
<1>9. ASSUME NEW u \in Unit, UNCHANGED ownerVars, Timeout(p, u)
      PROVE  Typed'
  BY <1>9 DEF Timeout
<1>10. CASE UNCHANGED ownerVars /\ StartRelease(p)
  BY <1>10 DEF StartRelease, Send, Message
<1>11. CASE UNCHANGED ownerVars /\ Dispose(p)
  BY <1>11 DEF Dispose, FailAll, Stop
<1>12. CASE UNCHANGED ownerVars /\ Crash(p)
  BY <1>12 DEF Crash, Stop
<1> QED
  BY <1>1, <1>2, <1>3, <1>4, <1>5, <1>6, <1>7, <1>8, <1>9, <1>10, <1>11, <1>12 DEF Program

LEMMA ContinueTyped ==
  ASSUME WorkInv, NEW p \in Page, Continue(p)
  PROVE  Typed'
<1> USE WorkerAssumption DEF WorkInv, Typed, WorkerTypeOK
<1> USE DEF workerVars, clientVars, portVars, hostVars, ownerVars, Role
<1>1. CASE HandlerDrains(p)
  BY <1>1 DEF HandlerDrains, StartRelease, Send, Message
<1>2. CASE HandlerReturns(p)
  BY <1>2 DEF HandlerReturns, LetGo
<1>3. CASE NobodyListens(p)
  BY <1>3 DEF NobodyListens
<1>4. ASSUME NEW id \in Message, NEW ok \in BOOLEAN, Answered(p, id, ok)
      PROVE  outbox' \in [Page -> Seq(Answer)] /\ pending' \in [Page -> SUBSET Message]
  BY <1>4 DEF Answered
<1>5. CASE Resolve(p)
  BY <1>4, <1>5 DEF Resolve, ReleaseDone, LetGo, Message
<1>6. CASE UNCHANGED ownerVars /\ TransportFails(p)
  BY <1>6 DEF TransportFails, FailAll
<1>7. CASE UNCHANGED ownerVars /\ Settle(p)
  BY <1>4, <1>7 DEF Settle, Message
<1>8. CASE UNCHANGED ownerVars /\ ReleaseFailed(p)
  BY <1>4, <1>8 DEF ReleaseFailed, Message
<1>9. CASE UNCHANGED ownerVars /\ IgnoreAnswer(p)
  BY <1>9 DEF IgnoreAnswer
<1>10. CASE UNCHANGED ownerVars /\ TakeRelease(p)
  BY <1>10 DEF TakeRelease, Take, Message
<1>11. CASE UNCHANGED ownerVars /\ TakeCall(p)
  <2>1. PICK u \in Unit : Take(p, u)
    BY <1>11 DEF TakeCall
  <2>2. inbox' \in [Page -> Seq(Message)] /\ hand' \in [Page -> Message \cup {None}]
    BY <2>1 DEF Take, Message
  <2>3. stage'[p] \in {"failed", "running", "opening"} /\ stage' = [stage EXCEPT ![p] = stage'[p]]
    BY <1>11 DEF TakeCall
  <2> QED
    BY <1>11, <2>2, <2>3 DEF TakeCall
<1>12. CASE UNCHANGED ownerVars /\ Reply(p)
  <2>1. hand[p] \in Message
    BY <1>12 DEF Reply, PageInv, Progress
  <2>2. [id |-> hand[p], ok |-> stage[p] = "ok"] \in Answer
    BY <2>1 DEF Answer
  <2> QED
    BY <1>12, <2>2 DEF Reply
<1>13. CASE UNCHANGED ownerVars /\ Opened(p)
  BY <1>13 DEF Opened, Proceed
<1>14. CASE UNCHANGED ownerVars /\ OpenFails(p)
  BY <1>14 DEF OpenFails, Proceed
<1>15. CASE UNCHANGED ownerVars /\ UnitCommits(p)
  BY <1>15 DEF UnitCommits, Proceed
<1>16. CASE UNCHANGED ownerVars /\ UnitThrows(p)
  BY <1>16 DEF UnitThrows, Proceed
<1>17. CASE UNCHANGED ownerVars /\ Close(p)
  BY <1>17 DEF Close, Proceed
<1> QED
  BY <1>1, <1>2, <1>3, <1>5, <1>6, <1>7, <1>8, <1>9, <1>10, <1>11, <1>12, <1>13,
     <1>14, <1>15, <1>16, <1>17 DEF Continue, Host, Receive

LEMMA GrantTyped ==
  ASSUME WorkInv, Grant
  PROVE  Typed'
<1> USE WorkerAssumption DEF WorkInv, Typed, WorkerTypeOK
<1> USE DEF workerVars, clientVars, portVars, hostVars, Role
<1> PICK q : q = Head(waiters)
  OBVIOUS
<1>1. \/ role[q] = "waiting" /\ Own(q)
      \/ UNCHANGED <<role, workerVars>>
  BY DEF Grant
<1>2. CASE UNCHANGED <<role, workerVars>>
  BY <1>2
<1>3. CASE Own(q)
  BY <1>3 DEF Own
<1> QED
  BY <1>1, <1>2, <1>3

\* What a page does by itself.
LEMMA ProgramSteps ==
  ASSUME WorkInv, NEW p \in Page, Program(p)
  PROVE  PageInv(p)' /\ UnitInv' /\ Within(p)
<1> USE DEF WorkInv
<1>0. Typed'
  BY ProgramTyped
<1>a. role \in [Page -> Role]
  BY DEF Typed
<1>1. CASE Claim(p)
  BY <1>0, <1>1, WorkerStarts DEF Claim
<1>2. CASE ClaimRefused(p) \/ Ask(p) \/ GiveUp(p) \/ OwnerLeaves(p)
  <2>1. /\ UNCHANGED workerVars /\ \A q \in Page \ {p} : role'[q] = role[q]
        /\ role[p] \in {"owner", "gone"} => role'[p] \in {"owner", "gone"}
    BY <1>a, <1>2 DEF ClaimRefused, Ask, GiveUp, OwnerLeaves, LetGo
  <2> QED
    BY <2>1, RoleChanges
<1>3. CASE Unload(p)
  <2>1. RoleStands(p) /\ role'[p] = "gone"
    BY <1>a, <1>3 DEF RoleStands, Unload
  <2> QED
    BY <1>0, <1>3, <2>1, CallsFail
<1>4. CASE /\ \/ \E u \in Unit : Call(p, u) \/ CallRefused(p, u) \/ Timeout(p, u)
              \/ StartRelease(p) \/ Dispose(p) \/ Crash(p)
           /\ UNCHANGED ownerVars
  <2>1. RoleStands(p)
    BY <1>4 DEF RoleStands, ownerVars
  <2>2. ASSUME NEW u \in Unit, Call(p, u) PROVE PageInv(p)' /\ UnitInv' /\ Within(p)
    BY <1>0, <2>1, <2>2, ClientCalls
  <2>3. ASSUME NEW u \in Unit, CallRefused(p, u) \/ Timeout(p, u)
        PROVE  PageInv(p)' /\ UnitInv' /\ Within(p)
    BY <1>0, <2>1, <2>3, ClientSettles
  <2>4. CASE StartRelease(p)
    BY <1>0, <2>1, <2>4, ClientReleases
  <2>5. CASE Dispose(p) \/ Crash(p)
    BY <1>0, <2>1, <2>5, CallsFail
  <2> QED
    BY <1>4, <2>2, <2>3, <2>4, <2>5
<1> QED
  BY <1>1, <1>2, <1>3, <1>4 DEF Program

\* What the host, the port and the handler of a page do.
LEMMA ContinueSteps ==
  ASSUME WorkInv, NEW p \in Page, Continue(p)
  PROVE  PageInv(p)' /\ UnitInv' /\ Within(p)
<1> USE DEF WorkInv
<1>0. Typed'
  BY ContinueTyped
<1>a. role \in [Page -> Role]
  BY DEF Typed
<1>1. CASE HandlerDrains(p)
  <2>1. RoleStands(p) /\ StartRelease(p)
    BY <1>1 DEF HandlerDrains, RoleStands
  <2> QED
    BY <1>0, <2>1, ClientReleases
<1>2. CASE HandlerReturns(p) \/ NobodyListens(p)
  <2>1. /\ UNCHANGED workerVars /\ \A q \in Page \ {p} : role'[q] = role[q]
        /\ role[p] \in {"owner", "gone"} => role'[p] \in {"owner", "gone"}
    BY <1>a, <1>2 DEF HandlerReturns, NobodyListens, LetGo
  <2> QED
    BY <2>1, RoleChanges
<1>3. CASE Resolve(p)
  <2>1. RoleStands(p) /\ ReleaseDone(p)
    BY <1>a, <1>3 DEF Resolve, RoleStands, LetGo
  <2> QED
    BY <1>0, <2>1, ReleaseSettled
<1>4. CASE (Host(p) \/ Receive(p) \/ TransportFails(p)) /\ UNCHANGED ownerVars
  <2>1. RoleStands(p)
    BY <1>4 DEF RoleStands, ownerVars
  <2>2. CASE TakeRelease(p) \/ TakeCall(p)
    BY <1>0, <2>1, <2>2, HostTakes
  <2>3. CASE Opened(p) \/ OpenFails(p) \/ UnitCommits(p) \/ UnitThrows(p) \/ Close(p)
    BY <1>0, <2>1, <2>3, HostMoves
  <2>4. CASE Reply(p)
    BY <1>0, <2>1, <2>4, HostReplies
  <2>5. CASE Settle(p) \/ IgnoreAnswer(p)
    BY <1>0, <2>1, <2>5, CallSettled
  <2>6. CASE ReleaseFailed(p)
    BY <1>0, <2>1, <2>6, ReleaseSettled
  <2>7. CASE TransportFails(p)
    BY <1>0, <2>1, <2>7, CallsFail
  <2> QED
    BY <1>4, <2>2, <2>3, <2>4, <2>5, <2>6, <2>7 DEF Host, Receive
<1> QED
  BY <1>1, <1>2, <1>3, <1>4 DEF Continue

\* Nothing of a page depends on who holds the lock.
LEMMA NothingMoves ==
  ASSUME WorkInv, UNCHANGED <<workerVars, role>>
  PROVE  WorkInv'
<1> USE DEF WorkInv
<1>1. Typed'
  BY DEF Typed, WorkerTypeOK, workerVars, clientVars, portVars, hostVars
<1>2. UnitInv'
  BY DEF UnitInv, OutcomesAreTrue, workerVars, clientVars, hostVars
<1>3. ASSUME NEW p \in Page PROVE PageInv(p)'
  BY <1>3, RoleChanges
<1> QED
  BY <1>1, <1>2, <1>3

LEMMA WorkStep ==
  ASSUME WorkInv, [Next]_vars
  PROVE  WorkInv'
<1> USE DEF WorkInv
<1>1. ASSUME NEW p \in Page, PageInv(p)', UnitInv', Within(p), Typed'
      PROVE  WorkInv'
  <2>1. ASSUME NEW q \in Page PROVE PageInv(q)'
    <3>1. CASE q = p
      BY <1>1, <3>1
    <3>2. CASE q # p
      BY <1>1, <3>2, OthersStand
    <3> QED
      BY <3>1, <3>2
  <2> QED
    BY <1>1, <2>1
<1>2. ASSUME NEW p \in Page, Program(p) PROVE WorkInv'
  BY <1>1, <1>2, ProgramTyped, ProgramSteps
<1>3. ASSUME NEW p \in Page, Continue(p) PROVE WorkInv'
  BY <1>1, <1>3, ContinueTyped, ContinueSteps
<1>4. CASE Grant
  <2> PICK q : q = Head(waiters)
    OBVIOUS
  <2>1. \/ role[q] = "waiting" /\ Own(q)
        \/ UNCHANGED <<role, workerVars>>
    BY <1>4 DEF Grant
  <2>2. CASE UNCHANGED <<role, workerVars>>
    BY <2>2, NothingMoves
  <2>3. CASE q \in Page /\ role[q] = "waiting" /\ Own(q)
    BY <1>1, <1>4, <2>3, GrantTyped, WorkerStarts
  <2>4. CASE q \notin Page /\ Own(q)
    <3>1. UNCHANGED <<workerVars, role>>
      BY <2>4 DEF Own, Typed, WorkerTypeOK, workerVars, hostVars
    <3> QED
      BY <3>1, NothingMoves
  <2> QED
    BY <2>1, <2>2, <2>3, <2>4
<1>5. CASE UNCHANGED vars
  <2>1. UNCHANGED <<workerVars, role>>
    BY <1>5 DEF vars, systemVars, ownerVars
  <2> QED
    BY <2>1, NothingMoves
<1> QED
  BY <1>2, <1>3, <1>4, <1>5 DEF Next, Step

LEMMA WorkInit == Init => WorkInv
<1> SUFFICES ASSUME Init PROVE WorkInv
  OBVIOUS
<1> USE WorkerAssumption DEF Init, WorkerInit
<1>1. Typed
  BY DEF Typed, WorkerTypeOK, Role
<1>2. UnitInv
  BY DEF UnitInv, OutcomesAreTrue
<1>3. ASSUME NEW p \in Page PROVE PageInv(p)
  <2>1. Posted(p) = {} /\ Replied(p) = {}
    BY DEF Posted, Replied, Elems
  <2>2. Place(p) /\ ReleaseIsLast(p) /\ Waits(p)
    BY <2>1 DEF Place, ReleaseIsLast, Waits
  <2>3. hand[p] = None /\ hand[p] # Release /\ hand[p] \notin Unit /\ pending[p] = {}
        /\ stage[p] = "idle" /\ context[p] = "none" /\ ~released[p] /\ outbox[p] = <<>>
        /\ worker[p] = "none" /\ ~closed[p] /\ releasing[p] = "none"
        /\ \A u \in Unit : result[u] = "none"
    OBVIOUS
  <2>4. Progress(p) /\ Ending(p)
    BY <2>1, <2>3 DEF Progress, Ending
  <2>5. Elems(outbox[p]) = {}
    BY <2>3 DEF Elems
  <2>6. Written(p)
    BY <2>1, <2>3, <2>5 DEF Written
  <2> QED
    BY <2>2, <2>4, <2>6 DEF PageInv
<1> QED
  BY <1>1, <1>2, <1>3 DEF WorkInv

\* What a call is told is true: "ok" of work that is committed, "not-applied"
\* of work that nothing will commit any more (SqliteWorkerError.outcome).
THEOREM OutcomesHold == Spec => []OutcomesAreTrue
<1>1. WorkInv => OutcomesAreTrue
  BY DEF WorkInv, UnitInv
<1> QED
  BY WorkInit, WorkStep, <1>1, PTL DEF Spec

\* release() resolves only when every accepted call has been settled, and then
\* the worker never writes again (client.ts, release).
THEOREM ReleaseHasDrained == Spec => []ReleaseDrains
<1>1. WorkInv => ReleaseDrains
  BY DEF WorkInv, PageInv, Ending, ReleaseDrains, CanWrite
<1> QED
  BY WorkInit, WorkStep, <1>1, PTL DEF Spec

-----------------------------------------------------------------------------
(* Who may write. *)

\* Only a worker that is started may write where none could.
LEMMA NoNewWriter ==
  ASSUME WorkInv, NEW p \in Page, (Program(p) /\ ~Claim(p)) \/ Continue(p),
         NEW q \in Page, CanWrite(q)'
  PROVE  CanWrite(q)
<1> USE DEF WorkInv, Typed, WorkerTypeOK, CanWrite, workerVars, clientVars, portVars, hostVars
<1>1. CASE UNCHANGED <<worker, released, context>>
  BY <1>1
<1>2. CASE Unload(p) \/ Dispose(p) \/ Crash(p)
  BY <1>2 DEF Unload, Dispose, Crash, Stop
<1>3. CASE Resolve(p)
  BY <1>3 DEF Resolve, ReleaseDone
<1>4. CASE TakeRelease(p) \/ Close(p)
  <2>1. UNCHANGED worker /\ (released[q] => released'[q]) /\ (context'[q] = "open" => context[q] = "open")
    <3>1. CASE TakeRelease(p)
      <4>1. UNCHANGED <<worker, context>> /\ released' = [released EXCEPT ![p] = TRUE]
        BY <3>1 DEF TakeRelease
      <4> QED
        BY <4>1
    <3>2. CASE Close(p)
      <4>1. UNCHANGED <<worker, released>> /\ context' = [context EXCEPT ![p] = "none"]
        BY <3>2 DEF Close, Proceed
      <4> QED
        BY <4>1
    <3> QED
      BY <1>4, <3>1, <3>2
  <2> QED
    BY <2>1
<1>5. CASE Opened(p)
  <2>1. ~released[p] /\ worker[p] = "alive" /\ UNCHANGED <<released, worker>>
        /\ context' = [context EXCEPT ![p] = "open"]
    BY <1>5 DEF Opened, Proceed, PageInv, Progress
  <2> QED
    BY <2>1
<1>6. CASE Program(p) /\ ~Claim(p)
  <2>1. CASE ClaimRefused(p) \/ Ask(p) \/ GiveUp(p) \/ OwnerLeaves(p)
    BY <1>1, <2>1 DEF ClaimRefused, Ask, GiveUp, OwnerLeaves
  <2>2. ASSUME NEW u \in Unit, Call(p, u) \/ CallRefused(p, u) \/ Timeout(p, u)
        PROVE  CanWrite(q)
    BY <1>1, <2>2 DEF Call, CallRefused, Timeout
  <2>3. CASE StartRelease(p)
    BY <1>1, <2>3 DEF StartRelease
  <2> QED
    BY <1>2, <1>6, <2>1, <2>2, <2>3 DEF Program
<1>7. CASE Continue(p)
  <2>1. CASE HandlerDrains(p) \/ HandlerReturns(p) \/ NobodyListens(p)
    BY <1>1, <2>1 DEF HandlerDrains, HandlerReturns, NobodyListens, StartRelease
  <2>2. CASE Receive(p) \/ TransportFails(p)
    BY <1>1, <2>2 DEF Receive, Settle, ReleaseFailed, IgnoreAnswer, TransportFails
  <2>3. CASE Host(p)
    BY <1>1, <1>4, <1>5, <2>3 DEF Host, TakeCall, OpenFails, UnitCommits, UnitThrows, Reply, Proceed
  <2> QED
    BY <1>3, <1>7, <2>1, <2>2, <2>3 DEF Continue
<1> QED
  BY <1>6, <1>7

\* A client that is closed over a worker that lives is releasing it, or has been
\* told that the database could not be closed: the host serves no call then.
Quiet(p) ==
  closed[p] /\ worker[p] = "alive" =>
    \/ releasing[p] = "waiting"
    \/ releasing[p] = "rejected" /\ released[p] /\ context[p] = "none"

LEMMA QuietStands ==
  ASSUME WorkInv, NEW p \in Page, Program(p) \/ Continue(p), NoErrorOfALiveWorker,
         NEW q \in Page, Quiet(q)
  PROVE  Quiet(q)'
<1> USE DEF Quiet, WorkInv, Typed, WorkerTypeOK, workerVars, clientVars, portVars, hostVars
<1>1. CASE UNCHANGED <<closed, worker, releasing, released, context>>
  BY <1>1
<1>2. CASE Claim(p)
  <2>1. /\ UNCHANGED <<closed, releasing, released, context>>
        /\ q # p => worker'[q] = worker[q]
    BY <1>2 DEF Claim, Own
  <2>2. ~closed[p]
    BY <1>2 DEF Claim, PageInv, Ending
  <2> QED
    BY <2>1, <2>2
<1>3. CASE Unload(p)
  BY <1>3 DEF Unload, Stop
<1>4. CASE Dispose(p)
  BY <1>4 DEF Dispose, Stop, FailAll
<1>5. CASE Crash(p)
  BY <1>5 DEF Crash, Stop
<1>6. CASE StartRelease(p)
  BY <1>6 DEF StartRelease
<1>7. CASE ReleaseDone(p)
  BY <1>7 DEF ReleaseDone
<1>8. CASE ReleaseFailed(p)
  <2>1. Release \in Replied(p)
    <3>1. outbox[p] \in Seq(Answer) /\ outbox[p] # <<>> /\ Head(outbox[p]).id = Release
      BY <1>8 DEF ReleaseFailed, Answered
    <3>2. Head(outbox[p]) \in Elems(outbox[p])
      BY <3>1 DEF Elems
    <3> QED
      BY <3>1, <3>2 DEF Replied
  <2>2. released[p] /\ context[p] = "none"
    BY <2>1 DEF PageInv, ReleaseIsLast, Progress
  <2>3. /\ releasing' = [releasing EXCEPT ![p] = "rejected"]
        /\ UNCHANGED <<closed, worker, released, context>>
    BY <1>8 DEF ReleaseFailed
  <2> QED
    BY <2>2, <2>3
<1>9. CASE TransportFails(p)
  <2>1. worker[p] = "crashed" /\ UNCHANGED worker
    BY <1>9 DEF TransportFails, NoErrorOfALiveWorker
  <2>2. q # p => UNCHANGED <<closed[q], releasing[q], released[q], context[q]>>
    BY <1>9 DEF TransportFails, FailAll
  <2> QED
    BY <2>1, <2>2
<1>10. CASE TakeRelease(p)
  <2>1. released' = [released EXCEPT ![p] = TRUE] /\ UNCHANGED <<closed, worker, releasing, context>>
    BY <1>10 DEF TakeRelease
  <2> QED
    BY <2>1
<1>11. CASE Opened(p)
  <2>1. /\ ~released[p] /\ context' = [context EXCEPT ![p] = "open"]
        /\ UNCHANGED <<closed, worker, releasing, released>>
    BY <1>11 DEF Opened, Proceed, PageInv, Progress
  <2> QED
    BY <2>1
<1>12. CASE Close(p)
  <2>1. /\ context' = [context EXCEPT ![p] = "none"]
        /\ UNCHANGED <<closed, worker, releasing, released>>
    BY <1>12 DEF Close, Proceed
  <2> QED
    BY <2>1
<1>13. CASE Program(p)
  <2>1. CASE ClaimRefused(p) \/ Ask(p) \/ GiveUp(p) \/ OwnerLeaves(p)
    BY <1>1, <2>1 DEF ClaimRefused, Ask, GiveUp, OwnerLeaves
  <2>2. ASSUME NEW u \in Unit, Call(p, u) \/ CallRefused(p, u) \/ Timeout(p, u)
        PROVE  Quiet(q)'
    BY <1>1, <2>2 DEF Call, CallRefused, Timeout
  <2> QED
    BY <1>2, <1>3, <1>4, <1>5, <1>6, <1>13, <2>1, <2>2 DEF Program
<1>14. CASE Continue(p)
  <2>1. CASE HandlerReturns(p) \/ NobodyListens(p)
    BY <1>1, <2>1 DEF HandlerReturns, NobodyListens
  <2>2. CASE HandlerDrains(p) \/ Resolve(p)
    BY <1>6, <1>7, <2>2 DEF HandlerDrains, Resolve
  <2>3. CASE Settle(p) \/ IgnoreAnswer(p)
    BY <1>1, <2>3 DEF Settle, IgnoreAnswer
  <2>4. CASE TakeCall(p) \/ OpenFails(p) \/ UnitCommits(p) \/ UnitThrows(p) \/ Reply(p)
    BY <1>1, <2>4 DEF TakeCall, OpenFails, UnitCommits, UnitThrows, Reply, Proceed
  <2> QED
    BY <1>8, <1>9, <1>10, <1>11, <1>12, <1>14, <2>1, <2>2, <2>3, <2>4 DEF Continue, Receive, Host
<1> QED
  BY <1>13, <1>14

\* A page that lets the lock go can write no more.
LEMMA LetGoIsAfterTheLastWrite ==
  ASSUME WorkInv, Typed', NEW p \in Page, Quiet(p), OneReleaseAtATime,
         OwnerLeaves(p) \/ HandlerReturns(p) \/ Resolve(p) \/ Unload(p)
  PROVE  ~CanWrite(p)'
<1> USE DEF WorkInv, Typed, WorkerTypeOK, CanWrite
<1>1. CASE OwnerLeaves(p)
  <2>1. /\ worker[p] # "alive" \/ (closed[p] /\ releasing[p] # "waiting")
        /\ UNCHANGED <<worker, released, context>>
    BY <1>1 DEF OwnerLeaves, workerVars, hostVars
  <2> QED
    BY <2>1 DEF Quiet
<1>2. CASE HandlerReturns(p)
  <2>1. closed[p] /\ releasing[p] # "waiting" /\ UNCHANGED <<worker, released, context>>
    BY <1>2 DEF HandlerReturns, OneReleaseAtATime, workerVars, hostVars
  <2> QED
    BY <2>1 DEF Quiet
<1>3. CASE Resolve(p)
  BY <1>3 DEF Resolve, ReleaseDone
<1>4. CASE Unload(p)
  BY <1>4 DEF Unload, Stop
<1> QED
  BY <1>1, <1>2, <1>3, <1>4

\* The page that holds the lock writes, and the clients that closed are quiet.
Sole == \A p \in Page : CanWrite(p) => lock = p

AllQuiet == \A p \in Page : Quiet(p)

WriterInv == orderly => Sole /\ AllQuiet

Orderly == OneReleaseAtATime /\ NoErrorOfALiveWorker

LEMMA QuietStep ==
  ASSUME WorkInv, AllQuiet, [Step /\ Orderly]_systemVars
  PROVE  AllQuiet'
<1> SUFFICES ASSUME NEW q \in Page PROVE Quiet(q)'
  BY DEF AllQuiet
<1>0. Quiet(q)
  BY DEF AllQuiet
<1>1. ASSUME NEW p \in Page, Program(p) \/ Continue(p), Orderly PROVE Quiet(q)'
  BY <1>0, <1>1, QuietStands DEF Orderly
<1>2. CASE UNCHANGED workerVars
  BY <1>0, <1>2 DEF Quiet, workerVars, clientVars, hostVars
<1>3. CASE Grant
  <2> PICK n : n = Head(waiters)
    OBVIOUS
  <2>1. UNCHANGED workerVars \/ (role[n] = "waiting" /\ Own(n))
    BY <1>3 DEF Grant
  <2>2. CASE role[n] = "waiting" /\ Own(n)
    <3>1. UNCHANGED closed /\ (q # n => worker'[q] = worker[q])
          /\ UNCHANGED <<releasing, released, context>>
      BY <2>2 DEF Own, clientVars, WorkInv, Typed, WorkerTypeOK
    <3>2. q = n => ~closed[q]
      BY <2>2 DEF WorkInv, PageInv, Ending
    <3> QED
      BY <1>0, <3>1, <3>2 DEF Quiet
  <2> QED
    BY <1>2, <2>1, <2>2
<1>4. CASE UNCHANGED systemVars
  BY <1>2, <1>4 DEF systemVars
<1> QED
  BY <1>1, <1>3, <1>4 DEF Step

LEMMA WriterStep ==
  ASSUME WorkInv, WorkInv', Sole, AllQuiet, [Step /\ Orderly]_systemVars
  PROVE  Sole'
<1> SUFFICES ASSUME NEW q \in Page, CanWrite(q)'
             PROVE  lock' = q
  BY DEF Sole
<1>0. Typed /\ Typed'
  BY DEF WorkInv
<1>1. ASSUME NEW p, Own(p), lock = None
      PROVE  lock' = q
  <2>1. ~CanWrite(q)
    BY <1>1, WorkerAssumption DEF Sole
  <2>2. q # p => UNCHANGED <<worker[q], released, context>>
    BY <1>0, <1>1 DEF Own, Typed, WorkerTypeOK
  <2> QED
    BY <1>1, <2>1, <2>2 DEF Own, CanWrite
<1>2. ASSUME NEW p \in Page, (Program(p) /\ ~Claim(p)) \/ Continue(p), Orderly
      PROVE  lock' = q
  <2>1. CanWrite(q)
    BY <1>2, NoNewWriter
  <2>2. lock = q
    BY <2>1 DEF Sole
  <2>3. CASE UNCHANGED lock
    BY <2>2, <2>3
  <2>4. CASE OwnerLeaves(p) \/ HandlerReturns(p) \/ Resolve(p) \/ Unload(p)
    <3>1. q # p
      BY <1>0, <1>2, <2>4, LetGoIsAfterTheLastWrite DEF Orderly, AllQuiet
    <3> QED
      BY <2>2, <2>4, <3>1 DEF OwnerLeaves, HandlerReturns, Resolve, Unload, LetGo
  <2>5. UNCHANGED lock \/ OwnerLeaves(p) \/ HandlerReturns(p) \/ Resolve(p) \/ Unload(p)
    <3>1. CASE Program(p) /\ ~Claim(p)
      BY <3>1 DEF Program, ClaimRefused, Ask, GiveUp, ownerVars
    <3>2. CASE Continue(p)
      BY <3>2 DEF Continue, HandlerDrains, NobodyListens, ownerVars
    <3> QED
      BY <1>2, <3>1, <3>2
  <2> QED
    BY <2>3, <2>4, <2>5
<1>3. ASSUME NEW p \in Page, Claim(p) PROVE lock' = q
  BY <1>1, <1>3 DEF Claim
<1>4. CASE Grant
  <2> PICK n : n = Head(waiters)
    OBVIOUS
  <2>1. lock = None /\ (Own(n) \/ UNCHANGED workerVars)
    BY <1>4 DEF Grant
  <2>2. CASE UNCHANGED workerVars
    <3>1. CanWrite(q)
      BY <2>2 DEF CanWrite, workerVars, hostVars
    <3> QED
      BY <2>1, <3>1, WorkerAssumption DEF Sole
  <2> QED
    BY <1>1, <2>1, <2>2
<1>5. CASE UNCHANGED systemVars
  BY <1>5 DEF systemVars, workerVars, hostVars, ownerVars, Sole, CanWrite
<1> QED
  BY <1>2, <1>3, <1>4, <1>5 DEF Step

\* Only the page that holds the lock has a worker that can still write (client.ts,
\* onTakeoverRequested and release), for as long as no takeover message was heard
\* while a release was under way, and no worker reported an error and lived on
\* under a client that was not disposed.
THEOREM OneWriterAtATime == Spec => []OneWriter
<1>1. Init => WriterInv
  BY DEF Init, WorkerInit, WriterInv, Sole, AllQuiet, CanWrite, Quiet
<1>2. ASSUME WorkInv, WorkInv', WriterInv, [Next]_vars
      PROVE  WriterInv'
  <2> SUFFICES ASSUME orderly' PROVE Sole' /\ AllQuiet'
    BY DEF WriterInv
  <2>1. CASE Next
    <3>1. orderly /\ Step /\ Orderly
      BY <2>1 DEF Next, Orderly
    <3> QED
      BY <1>2, <3>1, WriterStep, QuietStep DEF WriterInv
  <2>2. CASE UNCHANGED vars
    <3>1. orderly /\ UNCHANGED systemVars
      BY <2>2 DEF vars
    <3> QED
      BY <1>2, <3>1, WriterStep, QuietStep DEF WriterInv
  <2> QED
    BY <1>2, <2>1, <2>2
<1>3. WriterInv => OneWriter
  BY DEF WriterInv, OneWriter, Sole
<1> QED
  BY <1>1, <1>2, <1>3, WorkInit, WorkStep, PTL DEF Spec
=============================================================================
