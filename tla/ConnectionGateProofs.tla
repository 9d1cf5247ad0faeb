------------------------ MODULE ConnectionGateProofs ------------------------
(***************************************************************************)
(* Theorems about the gate, for any number of connections, flows,          *)
(* transactions and statements.  The first part is about ConnectionGate:   *)
(* who holds the gate, who waits for whom, and that nobody writes in       *)
(* another's transaction.  The second is about GateAtomicity: a committed  *)
(* callback's writes are all there and a rolled-back one's are not, and,   *)
(* over one connection, no flow waits for a transaction of its own.        *)
(*                                                                         *)
(* The gate alone does not say where a statement runs: that takes what a   *)
(* flow's AsyncLocalStorage store is worth (StackInv).  A flow's open      *)
(* transactions are nested without a cycle, the store is the innermost,    *)
(* and leaving it leads to the next one or to what the flow was forked in. *)
(***************************************************************************)
EXTENDS GateAtomicity, TLAPS

\* One step keeps every variable in its type.
LEMMA TypeStep == TypeOK /\ [Next]_vars => TypeOK'
<1> USE ConnAssumption DEF TypeOK
<1> SUFFICES ASSUME TypeOK, [Next]_vars PROVE TypeOK'
  OBVIOUS
<1> USE DEF gateVars, txVars, flowVars, stmtVars, Phase, Outcome, PC, Result
<1>1. ASSUME NEW f \in Flow, NEW t \in Tx, CallTransaction(f, t) PROVE TypeOK'
  <2>1. CASE Refuse(f, t) /\ UNCHANGED awaits
    BY <1>1, <2>1 DEF CallTransaction, Refuse
  <2>2. CASE Chain(f, t) /\ UNCHANGED awaits
    BY <1>1, <2>2 DEF CallTransaction, Chain
  <2>3. CASE /\ WaitForActive(f, t)
             /\ UNCHANGED <<tail, ticket, phase, owner, outer>>
    BY <1>1, <2>3 DEF CallTransaction, WaitForActive
  <2> QED
    BY <1>1, <2>1, <2>2, <2>3 DEF CallTransaction
<1>2. ASSUME NEW t \in Tx, Admit(t) PROVE TypeOK'
  BY <1>2 DEF Admit
<1>3. ASSUME NEW t \in Tx, Begin(t) PROVE TypeOK'
  <2>1. CASE BeginSucceeds(t)
    BY <1>3, <2>1 DEF Begin, BeginSucceeds
  <2>2. CASE BeginFails(t)
    BY <1>3, <2>2 DEF Begin, BeginFails
  <2> QED
    BY <1>3, <2>1, <2>2 DEF Begin
<1>4. ASSUME NEW t \in Tx, Commit(t) PROVE TypeOK'
  BY <1>4 DEF Commit
<1>5. ASSUME NEW t \in Tx, Rollback(t) PROVE TypeOK'
  BY <1>5 DEF Rollback
<1>6. ASSUME NEW t \in Tx, Release(t) PROVE TypeOK'
  BY <1>6 DEF Release
<1>7. ASSUME NEW f \in Flow, NEW s \in Stmt, CallStatement(f, s) PROVE TypeOK'
  BY <1>7 DEF CallStatement, WaitForActive
<1>8. ASSUME NEW f \in Flow, WaitAgain(f) PROVE TypeOK'
  BY <1>8 DEF WaitAgain
<1>9. ASSUME NEW f \in Flow, PassStatement(f) PROVE TypeOK'
  BY <1>9 DEF PassStatement
<1>10. ASSUME NEW f \in Flow, PassMethod(f) PROVE TypeOK'
  BY <1>10 DEF PassMethod, Chain
<1>11. ASSUME NEW f \in Flow, Execute(f) PROVE TypeOK'
  BY <1>11 DEF Execute
<1>12. ASSUME NEW f \in Flow, NEW g \in Flow, Fork(f, g) PROVE TypeOK'
  BY <1>12 DEF Fork
<1>13. ASSUME NEW f \in Flow, Finish(f) PROVE TypeOK'
  BY <1>13 DEF Finish
<1>14. CASE UNCHANGED vars
  BY <1>14 DEF vars
<1> QED
  BY <1>1, <1>2, <1>3, <1>4, <1>5, <1>6, <1>7, <1>8, <1>9, <1>10, <1>11, <1>12, <1>13, <1>14
     DEF Next, Continue, Call, Terminated

\* TypeOK holds in every reachable state: each variable of the gate, of the
\* flows and of SQLite keeps the type connection-gate.ts gives it.
THEOREM TypeCorrect == Spec => []TypeOK
<1>1. Init => TypeOK
  BY ConnAssumption DEF Init, TypeOK, Phase, Outcome, PC, Result
<1> QED
  BY <1>1, TypeStep, PTL DEF Spec

-----------------------------------------------------------------------------
(* Why transactions do not overlap.  The chain gives every call a ticket of  *)
(* its own, with no gaps; a call that was admitted has nothing unsettled     *)
(* before it; so at most one call holds the gate, and `active` and SQLite's  *)
(* open transaction are that one's.                                          *)

\* The chain of a connection: distinct tickets 1 .. tail, one per queued call.
ChainInv ==
  /\ \A t \in Tx : ticket[t] <= tail[At[t]]
  /\ \A t \in Tx : ticket[t] # 0 <=> phase[t] \in {"queued", "settled"} \cup Holding
  /\ \A t, u \in Tx : ticket[t] # 0 /\ ticket[t] = ticket[u] /\ At[t] = At[u] => t = u
  /\ \A c \in Conn : \A n \in 1 .. tail[c] : \E t \in Tx : At[t] = c /\ ticket[t] = n

\* Whatever chained before an admitted call has settled.
OrderInv ==
  \A t, u \in Tx :
    /\ phase[t] \in Holding \cup {"settled"}
    /\ At[u] = At[t] /\ ticket[u] # 0 /\ ticket[u] < ticket[t]
    => phase[u] = "settled"

\* `active` and SQLite's transaction belong to the call that holds the gate.
ActiveInv ==
  /\ \A c \in Conn : active[c] # None => At[active[c]] = c
  /\ \A c \in Conn : inTx[c] # None => At[inTx[c]] = c
  /\ \A t \in Tx : phase[t] \in Holding <=> active[At[t]] = t
  /\ \A t \in Tx : phase[t] = "open" <=> inTx[At[t]] = t

\* A method call that waits at the gate has not chained, and waits once.
MethodInv ==
  \A f \in Flow :
    pc[f] = "wait" /\ cur[f] \in Tx =>
      /\ phase[cur[f]] = "new"
      /\ \A g \in Flow : cur[g] = cur[f] => g = f

GateInv == TypeOK /\ ChainInv /\ OrderInv /\ ActiveInv /\ MethodInv

\* A call that takes its place in the chain (from run, or from the gate).
LEMMA ChainKeepsGateInv ==
  ASSUME GateInv, TypeOK', NEW f \in Flow, NEW t \in Tx, phase[t] = "new",
         \A g \in Flow : cur[g] = t => g = f,
         Chain(f, t), UNCHANGED <<active, outcome, inTx>>
  PROVE  GateInv'
<1> USE ConnAssumption DEF GateInv, Holding
<1>1. At[t] \in Conn /\ ticket[t] = 0 /\ tail[At[t]] \in Nat
  BY DEF TypeOK, ChainInv
<1>2. /\ ticket'[t] = tail[At[t]] + 1 /\ phase'[t] = "queued"
      /\ \A u \in Tx \ {t} : ticket'[u] = ticket[u] /\ phase'[u] = phase[u]
      /\ tail'[At[t]] = tail[At[t]] + 1
      /\ \A c \in Conn \ {At[t]} : tail'[c] = tail[c]
      /\ pc'[f] = "blocked" /\ cur'[f] = t
      /\ \A g \in Flow \ {f} : pc'[g] = pc[g] /\ cur'[g] = cur[g]
  BY <1>1 DEF Chain, TypeOK
<1>3. /\ \A u \in Tx : ticket[u] \in Nat /\ ticket'[u] \in Nat /\ At[u] \in Conn
      /\ \A c \in Conn : tail[c] \in Nat
  BY DEF TypeOK
<1>4. ChainInv'
  <2>1. (\A u \in Tx : ticket[u] <= tail[At[u]])'
    <3> SUFFICES ASSUME NEW u \in Tx PROVE ticket'[u] <= tail'[At[u]]
      OBVIOUS
    <3>1. CASE u = t
      BY <1>1, <1>2, <3>1
    <3>2. CASE u # t
      <4>1. ticket'[u] = ticket[u] /\ ticket[u] <= tail[At[u]]
        BY <1>2, <3>2 DEF ChainInv
      <4>2. tail'[At[u]] = tail[At[u]] \/ tail'[At[u]] = tail[At[u]] + 1
        BY <1>2, <1>3
      <4> QED
        BY <1>3, <4>1, <4>2
    <3> QED
      BY <3>1, <3>2
  <2>2. (\A u \in Tx : ticket[u] # 0 <=> phase[u] \in {"queued", "settled"} \cup Holding)'
    BY <1>1, <1>2 DEF ChainInv
  <2>3. (\A u, v \in Tx : ticket[u] # 0 /\ ticket[u] = ticket[v] /\ At[u] = At[v] => u = v)'
    BY <1>1, <1>2, <1>3 DEF ChainInv
  <2>4. (\A c \in Conn : \A n \in 1 .. tail[c] : \E u \in Tx : At[u] = c /\ ticket[u] = n)'
    <3> SUFFICES ASSUME NEW c \in Conn, NEW n \in 1 .. tail'[c]
                 PROVE  \E u \in Tx : At[u] = c /\ ticket'[u] = n
      OBVIOUS
    <3>1. CASE c = At[t] /\ n = tail[c] + 1
      BY <1>1, <1>2, <3>1
    <3>2. CASE ~(c = At[t] /\ n = tail[c] + 1)
      <4>1. n \in 1 .. tail[c]
        <5>1. CASE c = At[t]
          BY <1>1, <1>2, <3>2, <5>1
        <5>2. CASE c # At[t]
          BY <1>2, <5>2
        <5> QED
          BY <5>1, <5>2
      <4>2. PICK u \in Tx : At[u] = c /\ ticket[u] = n
        BY <4>1 DEF ChainInv
      <4> QED
        BY <1>1, <1>2, <4>1, <4>2
    <3> QED
      BY <3>1, <3>2
  <2> QED
    BY <2>1, <2>2, <2>3, <2>4 DEF ChainInv
<1>5. OrderInv'
  <2> SUFFICES ASSUME NEW u \in Tx, NEW v \in Tx,
                      phase'[u] \in Holding \cup {"settled"},
                      At[v] = At[u], ticket'[v] # 0, ticket'[v] < ticket'[u]
               PROVE  phase'[v] = "settled"
    BY DEF OrderInv
  <2>1. u # t
    BY <1>2
  <2>2. v # t
    BY <1>1, <1>2, <1>3, <2>1 DEF ChainInv, TypeOK
  <2> QED
    BY <1>2, <2>1, <2>2 DEF OrderInv
<1>6. ActiveInv'
  BY <1>2 DEF ActiveInv
<1>7. MethodInv'
  BY <1>2 DEF MethodInv
<1> QED
  BY <1>4, <1>5, <1>6, <1>7

\* When a call is admitted, every earlier one has settled and nobody else
\* holds the gate.
LEMMA AdmittedAlone ==
  ASSUME GateInv, NEW t \in Tx, phase[t] = "queued", PreviousSettled(t)
  PROVE  /\ \A u \in Tx : At[u] = At[t] /\ ticket[u] # 0 /\ ticket[u] < ticket[t]
                            => phase[u] = "settled"
         /\ \A u \in Tx : At[u] = At[t] => phase[u] \notin Holding
<1> USE ConnAssumption DEF GateInv, Holding
<1>1. /\ \A u \in Tx : ticket[u] \in Nat /\ At[u] \in Conn
      /\ \A c \in Conn : tail[c] \in Nat
      /\ ticket[t] # 0 /\ ticket[t] <= tail[At[t]]
  BY DEF TypeOK, ChainInv
<1>2. ASSUME NEW u \in Tx, At[u] = At[t], ticket[u] # 0, ticket[u] < ticket[t]
      PROVE  phase[u] = "settled"
  <2>1. ticket[t] - 1 \in 1 .. tail[At[t]]
    BY <1>1, <1>2
  <2>2. PICK v \in Tx : At[v] = At[t] /\ ticket[v] = ticket[t] - 1
    BY <1>1, <2>1 DEF ChainInv
  <2>3. phase[v] = "settled"
    BY <1>1, <2>1, <2>2 DEF PreviousSettled, Settled
  <2>4. CASE ticket[u] = ticket[v]
    BY <1>2, <2>2, <2>3, <2>4 DEF ChainInv
  <2>5. CASE ticket[u] < ticket[v]
    BY <1>2, <2>2, <2>3, <2>5 DEF OrderInv
  <2> QED
    BY <1>1, <1>2, <2>2, <2>4, <2>5
<1>3. ASSUME NEW u \in Tx, At[u] = At[t], phase[u] \in Holding
      PROVE  FALSE
  <2>1. ticket[u] # 0 /\ u # t
    BY <1>3 DEF ChainInv
  <2>2. ticket[u] # ticket[t]
    BY <1>3, <2>1 DEF ChainInv
  <2>3. CASE ticket[u] < ticket[t]
    BY <1>2, <1>3, <2>1, <2>3
  <2>4. CASE ticket[t] < ticket[u]
    BY <1>1, <1>3, <2>4 DEF OrderInv
  <2> QED
    BY <1>1, <2>2, <2>3, <2>4
<1> QED
  BY <1>2, <1>3

LEMMA AdmitKeepsGateInv ==
  ASSUME GateInv, TypeOK', NEW t \in Tx, Admit(t)
  PROVE  GateInv'
<1> USE ConnAssumption DEF GateInv, Holding
<1>1. phase[t] = "queued" /\ PreviousSettled(t) /\ At[t] \in Conn
  BY DEF Admit, TypeOK
<1>2. /\ phase'[t] = "admitted" /\ active'[At[t]] = t
      /\ \A u \in Tx \ {t} : phase'[u] = phase[u]
      /\ \A c \in Conn \ {At[t]} : active'[c] = active[c]
      /\ UNCHANGED <<tail, ticket, inTx, pc, cur>>
  BY <1>1 DEF Admit, TypeOK
<1>3. ChainInv'
  BY <1>1, <1>2 DEF ChainInv
<1>4. OrderInv'
  BY <1>1, <1>2, AdmittedAlone DEF OrderInv
<1>5. ActiveInv'
  <2>1. \A u \in Tx : At[u] \in Conn
    BY DEF TypeOK
  <2>2. \A u \in Tx \ {t} : At[u] = At[t] => phase[u] \notin Holding
    BY <1>1, AdmittedAlone
  <2> QED
    BY <1>1, <1>2, <2>1, <2>2 DEF ActiveInv
<1>6. MethodInv'
  BY <1>1, <1>2 DEF MethodInv
<1> QED
  BY <1>3, <1>4, <1>5, <1>6

LEMMA BeginKeepsGateInv ==
  ASSUME GateInv, TypeOK', NEW t \in Tx, Begin(t)
  PROVE  GateInv'
<1> USE ConnAssumption DEF GateInv, Holding
<1>1. phase[t] = "admitted" /\ \A u \in Tx : At[u] \in Conn
  BY DEF Begin, TypeOK
<1>2. CASE BeginSucceeds(t)
  <2>1. /\ phase'[t] = "open" /\ inTx[At[t]] = None /\ inTx'[At[t]] = t
        /\ \A u \in Tx \ {t} : phase'[u] = phase[u]
        /\ \A c \in Conn \ {At[t]} : inTx'[c] = inTx[c]
        /\ UNCHANGED <<tail, ticket, active>>
    BY <1>1, <1>2 DEF Begin, BeginSucceeds, TypeOK, gateVars
  <2>2. \A f \in Flow : \/ pc'[f] = pc[f] /\ cur'[f] = cur[f]
                        \/ pc'[f] = "run" /\ cur'[f] = None
    <3>1. pc \in [Flow -> PC] /\ cur \in [Flow -> Tx \cup Stmt \cup {None}]
      BY DEF TypeOK
    <3> QED
      BY <1>2, <3>1 DEF BeginSucceeds
  <2>3. ChainInv'
    BY <1>1, <2>1 DEF ChainInv
  <2>4. OrderInv'
    BY <1>1, <2>1 DEF OrderInv
  <2>5. ActiveInv'
    BY <1>1, <2>1 DEF ActiveInv
  <2>6. MethodInv'
    BY <1>1, <2>1, <2>2 DEF MethodInv
  <2> QED
    BY <2>3, <2>4, <2>5, <2>6
<1>3. CASE BeginFails(t)
  <2>1. /\ phase'[t] = "ended"
        /\ \A u \in Tx \ {t} : phase'[u] = phase[u]
        /\ UNCHANGED <<tail, ticket, active, inTx, pc, cur>>
    BY <1>1, <1>3 DEF Begin, BeginFails, TypeOK, gateVars
  <2>2. ChainInv'
    BY <1>1, <2>1 DEF ChainInv
  <2>3. OrderInv'
    BY <1>1, <2>1 DEF OrderInv
  <2>4. ActiveInv'
    BY <1>1, <2>1 DEF ActiveInv
  <2>5. MethodInv'
    BY <1>1, <2>1 DEF MethodInv
  <2> QED
    BY <2>2, <2>3, <2>4, <2>5
<1> QED
  BY <1>2, <1>3 DEF Begin

\* COMMIT and ROLLBACK, and the `finally` that releases the gate.
LEMMA EndKeepsGateInv ==
  ASSUME GateInv, TypeOK', NEW t \in Tx, Commit(t) \/ Rollback(t)
  PROVE  GateInv'
<1> USE ConnAssumption DEF GateInv, Holding
<1>1. phase[t] = "open" /\ \A u \in Tx : At[u] \in Conn
  BY DEF Commit, Rollback, CallbackRuns, TypeOK
<1>2. /\ phase'[t] = "ended" /\ inTx'[At[t]] = None
      /\ \A u \in Tx \ {t} : phase'[u] = phase[u]
      /\ \A c \in Conn \ {At[t]} : inTx'[c] = inTx[c]
      /\ UNCHANGED <<tail, ticket, active>>
  BY <1>1 DEF Commit, Rollback, TypeOK, gateVars
<1>3. \A f \in Flow : \/ pc'[f] = pc[f] /\ cur'[f] = cur[f]
                      \/ pc'[f] = "blocked" /\ cur'[f] = t
  <2>1. pc \in [Flow -> PC] /\ cur \in [Flow -> Tx \cup Stmt \cup {None}]
    BY DEF TypeOK
  <2> QED
    BY <2>1 DEF Commit, Rollback
<1>4. ChainInv'
  BY <1>1, <1>2 DEF ChainInv
<1>5. OrderInv'
  BY <1>1, <1>2 DEF OrderInv
<1>6. ActiveInv'
  BY <1>1, <1>2 DEF ActiveInv
<1>7. MethodInv'
  BY <1>1, <1>2, <1>3 DEF MethodInv
<1> QED
  BY <1>4, <1>5, <1>6, <1>7

LEMMA ReleaseKeepsGateInv ==
  ASSUME GateInv, TypeOK', NEW t \in Tx, Release(t)
  PROVE  GateInv'
<1> USE ConnAssumption DEF GateInv, Holding
<1>1. phase[t] = "ended" /\ \A u \in Tx : At[u] \in Conn
  BY DEF Release, TypeOK
<1>2. /\ phase'[t] = "settled" /\ active'[At[t]] = None
      /\ \A u \in Tx \ {t} : phase'[u] = phase[u]
      /\ \A c \in Conn \ {At[t]} : active'[c] = active[c]
      /\ UNCHANGED <<tail, ticket, inTx>>
  BY <1>1 DEF Release, TypeOK
<1>3. \A f \in Flow : \/ pc'[f] = pc[f] /\ cur'[f] = cur[f]
                      \/ pc'[f] = "run" /\ cur'[f] = None
  <2>1. pc \in [Flow -> PC] /\ cur \in [Flow -> Tx \cup Stmt \cup {None}]
    BY DEF TypeOK
  <2> QED
    BY <2>1 DEF Release
<1>4. ChainInv'
  BY <1>1, <1>2 DEF ChainInv
<1>5. OrderInv'
  BY <1>1, <1>2 DEF OrderInv
<1>6. ActiveInv'
  BY <1>1, <1>2 DEF ActiveInv
<1>7. MethodInv'
  BY <1>1, <1>2, <1>3 DEF MethodInv
<1> QED
  BY <1>4, <1>5, <1>6, <1>7

\* The steps of flows and statements that leave the gate and SQLite alone.
LEMMA OtherStepsKeepGateInv ==
  ASSUME GateInv, TypeOK', UNCHANGED <<tail, ticket, active, phase, inTx>>,
         \A f \in Flow : pc'[f] = "wait" /\ cur'[f] \in Tx =>
           /\ phase[cur'[f]] = "new"
           /\ \A g \in Flow : cur'[g] = cur'[f] => g = f
  PROVE  GateInv'
<1>1. ChainInv'
  BY DEF GateInv, ChainInv
<1>2. OrderInv'
  BY DEF GateInv, OrderInv
<1>3. ActiveInv'
  BY DEF GateInv, ActiveInv
<1>4. MethodInv'
  BY DEF MethodInv
<1> QED
  BY <1>1, <1>2, <1>3, <1>4 DEF GateInv

LEMMA GateStep == GateInv /\ [Next]_vars => GateInv'
<1> SUFFICES ASSUME GateInv, [Next]_vars PROVE GateInv'
  OBVIOUS
<1>0. TypeOK /\ TypeOK' /\ MethodInv
  BY TypeStep DEF GateInv
<1> USE ConnAssumption
<1>1. ASSUME NEW f \in Flow, NEW t \in Tx, CallTransaction(f, t) PROVE GateInv'
  <2>1. CASE Refuse(f, t)
    <3>1. /\ phase[t] = "new" /\ \A g \in Flow : cur[g] # t
          /\ phase' = [phase EXCEPT ![t] = "refused"]
          /\ UNCHANGED <<tail, ticket, active, inTx>>
          /\ pc'  = [pc EXCEPT ![f] = "run"] /\ cur' = [cur EXCEPT ![f] = None]
      BY <1>1, <2>1 DEF CallTransaction, Refuse
    <3>2. ChainInv'
      BY <1>0, <3>1 DEF GateInv, ChainInv, TypeOK, Holding
    <3>3. OrderInv'
      BY <1>0, <3>1 DEF GateInv, OrderInv, TypeOK, Holding
    <3>4. ActiveInv'
      BY <1>0, <3>1 DEF GateInv, ActiveInv, TypeOK, Holding
    <3>5. MethodInv'
      BY <1>0, <3>1 DEF MethodInv, TypeOK
    <3> QED
      BY <1>0, <3>2, <3>3, <3>4, <3>5 DEF GateInv
  <2>2. CASE Chain(f, t)
    BY <1>0, <1>1, <2>2, ChainKeepsGateInv DEF CallTransaction
  <2>3. CASE /\ WaitForActive(f, t)
             /\ UNCHANGED <<tail, ticket, phase, owner, outer>>
    <3>1. /\ phase[t] = "new" /\ \A g \in Flow : cur[g] # t
          /\ UNCHANGED <<tail, ticket, active, phase, inTx>>
          /\ pc'  = [pc EXCEPT ![f] = "wait"] /\ cur' = [cur EXCEPT ![f] = t]
      BY <1>1, <2>3 DEF CallTransaction, WaitForActive
    <3> QED
      BY <1>0, <3>1, OtherStepsKeepGateInv DEF MethodInv, TypeOK
  <2> QED
    BY <1>1, <2>1, <2>2, <2>3 DEF CallTransaction
<1>2. ASSUME NEW f \in Flow, NEW s \in Stmt, CallStatement(f, s) PROVE GateInv'
  <2>1. /\ UNCHANGED <<tail, ticket, active, phase, inTx>>
        /\ cur' = [cur EXCEPT ![f] = s] /\ s \notin Tx
        /\ \A g \in Flow \ {f} : pc'[g] = pc[g]
    BY <1>0, <1>2 DEF CallStatement, WaitForActive, gateVars, txVars, TypeOK
  <2> QED
    BY <1>0, <2>1, OtherStepsKeepGateInv DEF MethodInv, TypeOK
<1>3. ASSUME NEW f \in Flow, WaitAgain(f) \/ PassStatement(f) PROVE GateInv'
  <2>1. /\ UNCHANGED <<tail, ticket, active, phase, inTx, cur>>
        /\ \A g \in Flow : pc'[g] = pc[g] \/ pc'[g] = "passed"
    BY <1>0, <1>3 DEF WaitAgain, PassStatement, gateVars, txVars, TypeOK
  <2> QED
    BY <1>0, <2>1, OtherStepsKeepGateInv DEF MethodInv
<1>4. ASSUME NEW f \in Flow, PassMethod(f) PROVE GateInv'
  <2>1. cur[f] \in Tx /\ phase[cur[f]] = "new" /\ \A g \in Flow : cur[g] = cur[f] => g = f
    BY <1>0, <1>4 DEF PassMethod, MethodInv
  <2>2. Chain(f, cur[f]) /\ UNCHANGED <<active, outcome, inTx>>
    BY <1>4 DEF PassMethod
  <2> QED
    BY <1>0, <2>1, <2>2, ChainKeepsGateInv
<1>5. ASSUME NEW f \in Flow, Execute(f) PROVE GateInv'
  <2>1. /\ UNCHANGED <<tail, ticket, active, phase, inTx>>
        /\ pc' = [pc EXCEPT ![f] = "run"] /\ cur' = [cur EXCEPT ![f] = None]
    BY <1>5 DEF Execute, gateVars, txVars
  <2> QED
    BY <1>0, <2>1, OtherStepsKeepGateInv DEF MethodInv, TypeOK
<1>6. ASSUME NEW f \in Flow, NEW g \in Flow, Fork(f, g) \/ Finish(f) PROVE GateInv'
  <2>1. /\ UNCHANGED <<tail, ticket, active, phase, inTx, cur>>
        /\ \A h \in Flow : pc'[h] = pc[h] \/ pc'[h] \in {"run", "finished"}
    BY <1>0, <1>6 DEF Fork, Finish, gateVars, txVars, TypeOK
  <2> QED
    BY <1>0, <2>1, OtherStepsKeepGateInv DEF MethodInv
<1>7. CASE UNCHANGED vars
  BY <1>0, <1>7, OtherStepsKeepGateInv
     DEF vars, gateVars, txVars, flowVars, stmtVars, MethodInv
<1> QED
  BY <1>0, <1>1, <1>2, <1>3, <1>4, <1>5, <1>6, <1>7, AdmitKeepsGateInv, BeginKeepsGateInv,
     EndKeepsGateInv, ReleaseKeepsGateInv
     DEF Next, Continue, Call, Terminated

LEMMA GateInit == Init => GateInv
<1> SUFFICES ASSUME Init PROVE GateInv
  OBVIOUS
<1>1. TypeOK
  BY ConnAssumption DEF Init, TypeOK, Phase, Outcome, PC, Result
<1>2. ChainInv /\ OrderInv
  BY ConnAssumption DEF Init, ChainInv, OrderInv, Holding
<1>3. ActiveInv /\ MethodInv
  BY ConnAssumption DEF Init, ActiveInv, MethodInv, Holding
<1> QED
  BY <1>1, <1>2, <1>3 DEF GateInv

LEMMA GateInvariant == Spec => []GateInv
BY GateInit, GateStep, PTL DEF Spec

\* Transactions of one connection never overlap, whatever the flows call and
\* however their continuations interleave (the comment at connection-gate.ts 1-3).
THEOREM TransactionsExclude == Spec => []OneTransactionAtATime
<1>1. GateInv => OneTransactionAtATime
  BY ConnAssumption DEF GateInv, ActiveInv, OneTransactionAtATime, TypeOK
<1> QED
  BY <1>1, GateInvariant, PTL

\* Calls of exclusive() are admitted in the order they were made, each after
\* every earlier one has settled and SQLite has closed its transaction.
THEOREM AdmittedInOrder == Spec => NoOvertaking
<1> DEFINE InOrder ==
      \A t, u \in Tx :
        /\ phase[t] = "queued" /\ phase'[t] = "admitted"
        /\ At[u] = At[t] /\ ticket[u] # 0 /\ ticket[u] < ticket[t]
        => phase[u] = "settled" /\ inTx[At[u]] = None
<1>1. GateInv /\ [Next]_vars => [InOrder]_vars
  <2> SUFFICES ASSUME GateInv, [Next]_vars,
                      NEW t \in Tx, phase[t] = "queued", phase'[t] = "admitted"
               PROVE  /\ \A u \in Tx : At[u] = At[t] /\ ticket[u] # 0 /\ ticket[u] < ticket[t]
                                         => phase[u] = "settled"
                      /\ inTx[At[t]] = None
    OBVIOUS
  <2>1. phase \in [Tx -> Phase] /\ inTx \in [Conn -> Tx \cup {None}] /\ At[t] \in Conn
    BY ConnAssumption DEF GateInv, TypeOK
  <2>2. Admit(t)
    BY <2>1 DEF Next, Continue, Call, Terminated, CallTransaction, Refuse, Chain,
       WaitForActive, Admit, Begin, BeginSucceeds, BeginFails, Commit, Rollback, Release,
       CallStatement, WaitAgain, PassStatement, PassMethod, Execute, Fork, Finish, vars,
       txVars
  <2>3. /\ \A u \in Tx : At[u] = At[t] /\ ticket[u] # 0 /\ ticket[u] < ticket[t]
                           => phase[u] = "settled"
        /\ \A u \in Tx : At[u] = At[t] => phase[u] \notin Holding
    BY <2>2, AdmittedAlone DEF Admit
  <2>4. inTx[At[t]] = None
    <3> SUFFICES ASSUME inTx[At[t]] \in Tx PROVE FALSE
      BY <2>1
    <3>1. At[inTx[At[t]]] = At[t] /\ phase[inTx[At[t]]] = "open"
      BY <2>1, ConnAssumption DEF GateInv, ActiveInv
    <3> QED
      BY <2>3, <3>1 DEF Holding
  <2> QED
    BY <2>3, <2>4
<1> QED
  BY <1>1, GateInvariant, PTL DEF Spec, NoOvertaking

-----------------------------------------------------------------------------
(* Why a statement stays out of the transactions it waited for.  It waits    *)
(* for a call of its own connection that was admitted, a settled call stays  *)
(* settled, and a call is settled when the statement gets past it; only a    *)
(* call that holds the gate has a transaction open.                          *)

\* What a flow waits for at the gate.
AwaitInv ==
  \A f \in Flow : pc[f] = "wait" =>
    /\ cur[f] # None /\ awaits[f] # None /\ At[awaits[f]] = At[cur[f]]
    /\ phase[awaits[f]] \in Holding \cup {"settled"}

\* A statement that was called and has not run belongs to one flow.
PendingInv ==
  /\ \A f \in Flow : pc[f] = "passed" => cur[f] \in Stmt
  /\ \A f \in Flow : cur[f] \in Stmt => done[cur[f]] = "called" /\ pc[f] \in {"wait", "passed"}
  /\ \A f, g \in Flow : cur[f] \in Stmt /\ cur[f] = cur[g] => f = g
  /\ \A s \in Stmt : done[s] = "new" => behind[s] = {}
  /\ \A s \in Stmt : done[s] \in {"new", "called"} => landed[s] = None

\* Everything a statement waited for has settled, but what it waits for now.
BehindInv ==
  \A f \in Flow : cur[f] \in Stmt =>
    \A t \in behind[cur[f]] : phase[t] = "settled" \/ (pc[f] = "wait" /\ awaits[f] = t)

WaitInv == GateInv /\ AwaitInv /\ PendingInv /\ BehindInv /\ WaitersStayOut

\* No step moves a call that holds the gate anywhere but on to "settled", and
\* a settled one stays.
LEMMA PhaseOnward ==
  ASSUME GateInv, [Next]_vars
  PROVE  /\ \A t \in Tx : phase[t] \in Holding \cup {"settled"}
                         => phase'[t] \in Holding \cup {"settled"}
         /\ \A t \in Tx : phase[t] = "settled" => phase'[t] = "settled"
<1> USE ConnAssumption DEF Holding
<1>1. phase \in [Tx -> Phase] /\ MethodInv
  BY DEF GateInv, TypeOK
<1>2. ASSUME NEW f \in Flow, PassMethod(f)
      PROVE  cur[f] \in Tx /\ phase' = [phase EXCEPT ![cur[f]] = "queued"] /\ phase[cur[f]] = "new"
  BY <1>1, <1>2 DEF PassMethod, Chain, MethodInv
<1>3. \/ UNCHANGED phase
      \/ \E t \in Tx : phase[t] = "new" /\ \E p \in Phase : phase' = [phase EXCEPT ![t] = p]
      \/ \E t \in Tx : phase[t] = "queued" /\ \E p \in Phase : phase' = [phase EXCEPT ![t] = p]
      \/ \E t \in Tx : /\ phase[t] \in Holding
                       /\ \E p \in Holding \cup {"settled"} : phase' = [phase EXCEPT ![t] = p]
  BY <1>1, <1>2 DEF Next, Continue, Call, Terminated, CallTransaction, Refuse, Chain,
     WaitForActive, Admit, Begin, BeginSucceeds, BeginFails, Commit, Rollback, Release,
     CallbackRuns, CallStatement, WaitAgain, PassStatement, Execute, Fork, Finish, vars,
     txVars, Phase
<1> QED
  BY <1>1, <1>3

\* `active` of a connection is a call of that connection that holds the gate.
LEMMA ActiveHolds ==
  ASSUME GateInv, NEW c \in Conn, active[c] # None
  PROVE  active[c] \in Tx /\ At[active[c]] = c /\ phase[active[c]] \in Holding
BY ConnAssumption DEF GateInv, TypeOK, ActiveInv

\* Steps that touch no pending statement and no waiting flow.
LEMMA AwayFromGate ==
  ASSUME WaitInv, [Next]_vars, UNCHANGED stmtVars,
         \A f \in Flow : \/ pc'[f] = pc[f] /\ cur'[f] = cur[f] /\ awaits'[f] = awaits[f]
                         \/ pc'[f] \notin {"wait", "passed"} /\ cur'[f] \notin Stmt
  PROVE  WaitInv'
<1> USE ConnAssumption DEF WaitInv
<1>1. GateInv'
  BY GateStep
<1>2. /\ \A t \in Tx : phase[t] \in Holding \cup {"settled"}
                       => phase'[t] \in Holding \cup {"settled"}
      /\ \A t \in Tx : phase[t] = "settled" => phase'[t] = "settled"
      /\ awaits \in [Flow -> Tx \cup {None}] /\ behind \in [Stmt -> SUBSET Tx]
  BY PhaseOnward DEF GateInv, TypeOK
<1>3. AwaitInv'
  BY <1>2 DEF AwaitInv
<1>4. PendingInv'
  BY DEF PendingInv, stmtVars
<1>5. BehindInv'
  BY <1>2 DEF BehindInv, stmtVars
<1>6. WaitersStayOut'
  BY DEF WaitersStayOut, stmtVars
<1> QED
  BY <1>1, <1>3, <1>4, <1>5, <1>6

LEMMA WaitStep == WaitInv /\ [Next]_vars => WaitInv'
<1> SUFFICES ASSUME WaitInv, [Next]_vars PROVE WaitInv'
  OBVIOUS
<1> USE ConnAssumption DEF WaitInv
<1>0. /\ GateInv /\ GateInv' /\ TypeOK /\ TypeOK'
      /\ AwaitInv /\ PendingInv /\ BehindInv /\ WaitersStayOut
  BY GateStep DEF GateInv
<1>t. /\ pc \in [Flow -> PC] /\ cur \in [Flow -> Tx \cup Stmt \cup {None}]
      /\ awaits \in [Flow -> Tx \cup {None}] /\ active \in [Conn -> Tx \cup {None}]
      /\ done \in [Stmt -> Result] /\ behind \in [Stmt -> SUBSET Tx]
      /\ landed \in [Stmt -> Tx \cup {None}] /\ inTx \in [Conn -> Tx \cup {None}]
      /\ phase \in [Tx -> Phase] /\ \A x \in Tx \cup Stmt : At[x] \in Conn
  BY <1>0 DEF TypeOK
<1>1. ASSUME NEW f \in Flow, NEW t \in Tx, CallTransaction(f, t) PROVE WaitInv'
  <2>1. CASE WaitForActive(f, t) /\ active[At[t]] # None
             /\ UNCHANGED <<tail, ticket, phase, owner, outer>>
    <3>1. /\ pc' = [pc EXCEPT ![f] = "wait"] /\ cur' = [cur EXCEPT ![f] = t]
          /\ awaits' = [awaits EXCEPT ![f] = active[At[t]]]
          /\ pc[f] = "run" /\ UNCHANGED <<phase, done, behind, landed>>
      BY <1>1, <2>1 DEF CallTransaction, WaitForActive, stmtVars
    <3>2. active[At[t]] \in Tx /\ At[active[At[t]]] = At[t] /\ phase[active[At[t]]] \in Holding
      BY <1>0, <1>t, <2>1, ActiveHolds
    <3>3. AwaitInv'
      BY <1>0, <1>t, <3>1, <3>2 DEF AwaitInv
    <3>4. PendingInv'
      BY <1>0, <1>t, <3>1 DEF PendingInv
    <3>5. BehindInv'
      BY <1>0, <1>t, <3>1 DEF BehindInv
    <3>6. WaitersStayOut'
      BY <1>0, <3>1 DEF WaitersStayOut
    <3> QED
      BY <1>0, <3>3, <3>4, <3>5, <3>6
  <2>2. CASE (Refuse(f, t) \/ Chain(f, t)) /\ UNCHANGED awaits
    <3>1. /\ UNCHANGED stmtVars
          /\ \A g \in Flow : \/ pc'[g] = pc[g] /\ cur'[g] = cur[g] /\ awaits'[g] = awaits[g]
                             \/ pc'[g] \notin {"wait", "passed"} /\ cur'[g] \notin Stmt
      BY <1>1, <1>t, <2>2 DEF CallTransaction, Refuse, Chain
    <3> QED
      BY <3>1, AwayFromGate
  <2> QED
    BY <1>1, <2>1, <2>2 DEF CallTransaction
<1>2. ASSUME NEW t \in Tx, Admit(t) \/ Begin(t) \/ Commit(t) \/ Rollback(t) \/ Release(t)
      PROVE  WaitInv'
  <2>1. UNCHANGED <<stmtVars, awaits>>
    BY <1>2 DEF Admit, Begin, Commit, Rollback, Release
  <2>2. \E o : \/ UNCHANGED <<pc, cur>>
               \/ pc' = [pc EXCEPT ![o] = "run"] /\ cur' = [cur EXCEPT ![o] = None]
               \/ pc' = [pc EXCEPT ![o] = "blocked"] /\ cur' = [cur EXCEPT ![o] = t]
    BY <1>2 DEF Admit, Begin, BeginSucceeds, BeginFails, Commit, Rollback, Release
  <2>3. \A g \in Flow : \/ pc'[g] = pc[g] /\ cur'[g] = cur[g] /\ awaits'[g] = awaits[g]
                        \/ pc'[g] \notin {"wait", "passed"} /\ cur'[g] \notin Stmt
    BY <1>t, <2>1, <2>2
  <2> QED
    BY <2>1, <2>3, AwayFromGate
<1>3. ASSUME NEW f \in Flow, PassMethod(f) PROVE WaitInv'
  <2>1. /\ UNCHANGED stmtVars
        /\ \A g \in Flow : \/ pc'[g] = pc[g] /\ cur'[g] = cur[g] /\ awaits'[g] = awaits[g]
                           \/ pc'[g] \notin {"wait", "passed"} /\ cur'[g] \notin Stmt
    BY <1>3, <1>t DEF PassMethod, Chain
  <2> QED
    BY <2>1, AwayFromGate
<1>4. ASSUME NEW f \in Flow, NEW g \in Flow, Fork(f, g) \/ Finish(f) PROVE WaitInv'
  <2>1. /\ UNCHANGED <<stmtVars, cur, awaits>>
        /\ \A h \in Flow : pc'[h] = pc[h] \/ (pc[h] \in {"run", "unborn"} /\ pc'[h] \in {"run", "finished"})
    BY <1>4, <1>t DEF Fork, Finish
  <2>2. \A h \in Flow : pc[h] \in {"run", "unborn"} => cur[h] \notin Stmt
    BY <1>0 DEF PendingInv
  <2>3. \A h \in Flow : \/ pc'[h] = pc[h] /\ cur'[h] = cur[h] /\ awaits'[h] = awaits[h]
                        \/ pc'[h] \notin {"wait", "passed"} /\ cur'[h] \notin Stmt
    BY <2>1, <2>2
  <2> QED
    BY <2>1, <2>3, AwayFromGate
<1>5. ASSUME NEW f \in Flow, NEW s \in Stmt, CallStatement(f, s) PROVE WaitInv'
  <2>1. /\ done[s] = "new" /\ behind[s] = {} /\ pc[f] = "run"
        /\ done' = [done EXCEPT ![s] = "called"]
        /\ UNCHANGED <<phase, landed>>
        /\ cur' = [cur EXCEPT ![f] = s]
        /\ \A g \in Flow : cur[g] # s
    BY <1>0, <1>5 DEF CallStatement, WaitForActive, PendingInv, txVars
  <2>2. CASE pc' = [pc EXCEPT ![f] = "passed"] /\ UNCHANGED <<awaits, behind>>
    <3>1. AwaitInv'
      BY <1>0, <1>t, <2>1, <2>2 DEF AwaitInv
    <3>2. PendingInv'
      BY <1>0, <1>t, <2>1, <2>2 DEF PendingInv
    <3>3. BehindInv'
      BY <1>0, <1>t, <2>1, <2>2 DEF BehindInv
    <3>4. WaitersStayOut'
      BY <1>0, <2>1, <2>2 DEF WaitersStayOut
    <3> QED
      BY <1>0, <3>1, <3>2, <3>3, <3>4
  <2>3. CASE /\ pc' = [pc EXCEPT ![f] = "wait"] /\ active[At[s]] # None
             /\ awaits' = [awaits EXCEPT ![f] = active[At[s]]]
             /\ behind' = [behind EXCEPT ![s] = @ \cup {active[At[s]]}]
    <3>1. active[At[s]] \in Tx /\ At[active[At[s]]] = At[s] /\ phase[active[At[s]]] \in Holding
      BY <1>0, <1>t, <2>3, ActiveHolds
    <3>2. AwaitInv'
      BY <1>0, <1>t, <2>1, <2>3, <3>1 DEF AwaitInv
    <3>3. PendingInv'
      BY <1>0, <1>t, <2>1, <2>3 DEF PendingInv
    <3>4. BehindInv'
      BY <1>0, <1>t, <2>1, <2>3 DEF BehindInv
    <3>5. WaitersStayOut'
      BY <1>0, <1>t, <2>1, <2>3, <3>1 DEF WaitersStayOut, PendingInv
    <3> QED
      BY <1>0, <3>2, <3>3, <3>4, <3>5
  <2> QED
    BY <1>5, <2>2, <2>3 DEF CallStatement, WaitForActive
<1>6. ASSUME NEW f \in Flow, WaitAgain(f) PROVE WaitInv'
  <2> DEFINE a == active[At[cur[f]]]
  <2>1. /\ pc[f] = "wait" /\ cur[f] \in Tx \cup Stmt /\ phase[awaits[f]] = "settled" /\ a # None
        /\ awaits' = [awaits EXCEPT ![f] = a]
        /\ behind' = [s \in Stmt |-> IF s = cur[f] THEN behind[s] \cup {a} ELSE behind[s]]
        /\ UNCHANGED <<phase, pc, cur, done, landed>>
    BY <1>6, <1>t DEF WaitAgain, Settled, txVars
  <2>2. a \in Tx /\ At[a] = At[cur[f]] /\ phase[a] \in Holding
    BY <1>0, <1>t, <2>1, ActiveHolds
  <2>3. AwaitInv'
    BY <1>0, <1>t, <2>1, <2>2 DEF AwaitInv
  <2>4. PendingInv'
    BY <1>0, <1>t, <2>1 DEF PendingInv
  <2>5. BehindInv'
    BY <1>0, <1>t, <2>1 DEF BehindInv, PendingInv
  <2>6. WaitersStayOut'
    BY <1>0, <1>t, <2>1, <2>2 DEF WaitersStayOut, PendingInv
  <2> QED
    BY <1>0, <2>3, <2>4, <2>5, <2>6
<1>7. ASSUME NEW f \in Flow, PassStatement(f) PROVE WaitInv'
  <2>1. /\ pc[f] = "wait" /\ cur[f] \in Stmt /\ phase[awaits[f]] = "settled"
        /\ pc' = [pc EXCEPT ![f] = "passed"] /\ awaits' = [awaits EXCEPT ![f] = None]
        /\ UNCHANGED <<phase, cur, done, behind, landed>>
    BY <1>7 DEF PassStatement, Settled, txVars, stmtVars
  <2>2. AwaitInv'
    BY <1>0, <1>t, <2>1 DEF AwaitInv
  <2>3. PendingInv'
    BY <1>0, <1>t, <2>1 DEF PendingInv
  <2>4. BehindInv'
    BY <1>0, <1>t, <2>1 DEF BehindInv
  <2>5. WaitersStayOut'
    BY <1>0, <2>1 DEF WaitersStayOut
  <2> QED
    BY <1>0, <2>2, <2>3, <2>4, <2>5
<1>8. ASSUME NEW f \in Flow, Execute(f) PROVE WaitInv'
  <2> DEFINE s == cur[f]
             t == inTx[At[s]]
  <2>1. /\ pc[f] = "passed" /\ s \in Stmt /\ done[s] = "called"
        /\ done'[s] \in {"ok", "failed"} /\ \A x \in Stmt \ {s} : done'[x] = done[x]
        /\ landed' = [landed EXCEPT ![s] = t]
        /\ pc' = [pc EXCEPT ![f] = "run"] /\ cur' = [cur EXCEPT ![f] = None]
        /\ UNCHANGED <<phase, awaits, behind>>
    BY <1>0, <1>8, <1>t DEF Execute, PendingInv, txVars
  <2>2. t # None => t \in Tx /\ phase[t] = "open"
    BY <1>0, <1>t, <2>1 DEF GateInv, ActiveInv
  <2>3. t \notin behind[s]
    BY <1>0, <1>t, <2>1, <2>2 DEF BehindInv
  <2>4. AwaitInv'
    BY <1>0, <1>t, <2>1 DEF AwaitInv
  <2>5. PendingInv'
    BY <1>0, <1>t, <2>1 DEF PendingInv
  <2>6. BehindInv'
    BY <1>0, <1>t, <2>1 DEF BehindInv
  <2>7. WaitersStayOut'
    BY <1>0, <1>t, <2>1, <2>3 DEF WaitersStayOut
  <2> QED
    BY <1>0, <2>4, <2>5, <2>6, <2>7
<1>9. CASE UNCHANGED vars
  BY <1>9, AwayFromGate DEF vars, flowVars
<1> QED
  BY <1>1, <1>2, <1>3, <1>4, <1>5, <1>6, <1>7, <1>8, <1>9
     DEF Next, Continue, Call, Terminated

LEMMA WaitInit == Init => WaitInv
<1> SUFFICES ASSUME Init PROVE WaitInv
  OBVIOUS
<1>1. GateInv
  BY GateInit
<1>2. AwaitInv /\ PendingInv /\ BehindInv /\ WaitersStayOut
  BY ConnAssumption DEF Init, AwaitInv, PendingInv, BehindInv, WaitersStayOut
<1> QED
  BY <1>1, <1>2 DEF WaitInv

\* A statement that waited at the gate for a transaction runs outside it, and
\* outside every other transaction the loop of outside() made it wait for.
THEOREM WaitersExcluded == Spec => []WaitersStayOut
<1>1. WaitInv => WaitersStayOut
  BY DEF WaitInv
<1> QED
  BY <1>1, WaitInit, WaitStep, PTL DEF Spec

-----------------------------------------------------------------------------
(* Who is inside what. *)

\* The transactions a flow has open, one inside the other.
Frames(f) == {t \in Tx : phase[t] \in Holding /\ owner[t] = f}

\* The flow that made a call is blocked in it, or runs its callback.
OwnerInv ==
  /\ \A f \in Flow : /\ pc[f] = "unborn" => ctx[f] = None
                     /\ pc[f] = "finished" => ctx[f] = base[f]
                     /\ pc[f] \in {"run", "unborn", "finished"} => cur[f] = None
                     /\ pc[f] = "wait" => cur[f] # None /\ ~Inside(f, At[cur[f]])
  /\ \A t \in Tx :
       /\ owner[t] \in Flow => pc[owner[t]] # "unborn"
       /\ phase[t] \in {"queued", "admitted", "ended"} =>
            owner[t] \in Flow /\ pc[owner[t]] = "blocked" /\ cur[owner[t]] = t
       /\ phase[t] \in {"admitted", "ended"} => ctx[owner[t]] = t
       /\ phase[t] = "open" => owner[t] \in Flow /\ pc[owner[t]] # "finished"
       /\ phase[t] = "queued" => outer[t] = ctx[owner[t]] /\ ~Inside(owner[t], At[t])

\* A forked flow inherits a transaction of another flow, whose callback has run.
BaseInv ==
  \A f \in Flow :
    base[f] # None => phase[base[f]] \in {"open", "ended", "settled"} /\ owner[base[f]] # f

\* A flow's store is the innermost transaction it has open, ...
InnermostInv ==
  \A f \in Flow : ctx[f] \in Frames(f) \/ (ctx[f] = base[f] /\ Frames(f) = {})

\* ... and the others are outside of one another, down to what it was forked in.
NestedInv ==
  \A f \in Flow :
    /\ \A t \in Frames(f) : outer[t] \in Frames(f) \cup {base[f]} /\ outer[t] # ctx[f]
    /\ \A t, u \in Frames(f) : outer[t] = outer[u] => t = u
    /\ \A S \in SUBSET Frames(f) : S # {} => \E t \in S : outer[t] \notin S

OutcomeInv ==
  \A t \in Tx : outcome[t] = "none" <=> phase[t] \notin {"ended", "settled"}

StackInv == GateInv /\ OwnerInv /\ BaseInv /\ InnermostInv /\ NestedInv /\ OutcomeInv

-----------------------------------------------------------------------------
(* Where a statement runs. *)

\* A statement is issued in the context its flow is still in when it runs.
IssuedInv == \A f \in Flow : cur[f] \in Stmt => home[cur[f]] = ctx[f]

\* Nothing a committed callback forked is still running.
AwaitedInv ==
  \A t \in Tx, f \in Flow : outcome[t] = "committed" /\ base[f] = t => pc[f] = "finished"

\* A write of a callback ran in its transaction, or after that was rolled back.
HomeInv ==
  \A s \in Stmt, t \in Tx :
    IssuedIn(s, t) /\ done[s] \in {"ok", "failed"} => landed[s] = t \/ outcome[t] = "rolledback"

CompleteInv == WaitInv /\ StackInv /\ IssuedInv /\ AwaitedInv /\ HomeInv

-----------------------------------------------------------------------------
(* The stack of a flow. *)

\* Steps that open, close and hand over no transaction.
LEMMA StackStays ==
  ASSUME InnermostInv, NestedInv, UNCHANGED <<ctx, base>>,
         \A f \in Flow : Frames(f)' = Frames(f),
         \A t \in Tx : phase[t] \in Holding => outer'[t] = outer[t]
  PROVE  InnermostInv' /\ NestedInv'
<1>1. ASSUME NEW f \in Flow
      PROVE  (ctx[f] \in Frames(f) \/ (ctx[f] = base[f] /\ Frames(f) = {}))'
  <2>1. ctx[f] \in Frames(f) \/ (ctx[f] = base[f] /\ Frames(f) = {})
    BY DEF InnermostInv
  <2>2. ctx'[f] = ctx[f] /\ base'[f] = base[f] /\ Frames(f)' = Frames(f)
    OBVIOUS
  <2> QED
    BY <2>1, <2>2
<1>2. ASSUME NEW f \in Flow
      PROVE  (/\ \A t \in Frames(f) : outer[t] \in Frames(f) \cup {base[f]} /\ outer[t] # ctx[f]
              /\ \A t, u \in Frames(f) : outer[t] = outer[u] => t = u
              /\ \A S \in SUBSET Frames(f) : S # {} => \E t \in S : outer[t] \notin S)'
  <2> DEFINE F == Frames(f)
  <2>1. /\ \A t \in F : outer[t] \in F \cup {base[f]} /\ outer[t] # ctx[f]
        /\ \A t, u \in F : outer[t] = outer[u] => t = u
        /\ \A S \in SUBSET F : S # {} => \E t \in S : outer[t] \notin S
    BY DEF NestedInv
  <2>2. ctx'[f] = ctx[f] /\ base'[f] = base[f] /\ F' = F
    OBVIOUS
  <2>3. \A t \in F : outer'[t] = outer[t]
    BY DEF Frames
  <2> HIDE DEF F
  <2>4. /\ \A t \in F' : outer'[t] \in F' \cup {base'[f]} /\ outer'[t] # ctx'[f]
        /\ \A t, u \in F' : outer'[t] = outer'[u] => t = u
    BY <2>1, <2>2, <2>3
  <2>5. ASSUME NEW S \in SUBSET F', S # {} PROVE \E t \in S : outer'[t] \notin S
    <3>1. PICK t \in S : outer[t] \notin S
      BY <2>1, <2>2, <2>5
    <3>2. t \in F
      BY <2>2
    <3> QED
      BY <2>3, <3>1, <3>2
  <2> QED
    BY <2>4, <2>5 DEF F
<1> QED
  BY <1>1, <1>2 DEF InnermostInv, NestedInv

\* The calls, their flows and their outcomes.
FlowInv == OwnerInv /\ BaseInv /\ OutcomeInv

LEMMA CallsKeepFlowInv ==
  ASSUME StackInv, [Next]_vars,
         NEW f \in Flow, NEW t \in Tx, CallTransaction(f, t)
  PROVE  FlowInv'
<1> USE ConnAssumption DEF FlowInv, StackInv, GateInv, TypeOK
<1>1. pc[f] = "run" /\ phase[t] = "new" /\ \A g \in Flow : cur[g] # t
  BY DEF CallTransaction
<1>2. CASE Refuse(f, t) /\ UNCHANGED awaits
  BY <1>1, <1>2 DEF CallTransaction, Refuse, OwnerInv, BaseInv, OutcomeInv, Inside
<1>3. CASE ~Inside(f, At[t]) /\ Chain(f, t) /\ UNCHANGED awaits
  BY <1>1, <1>3 DEF CallTransaction, Chain, OwnerInv, BaseInv, OutcomeInv, Inside
<1>4. CASE /\ ~Inside(f, At[t]) /\ WaitForActive(f, t)
           /\ UNCHANGED <<tail, ticket, phase, owner, outer>>
  BY <1>1, <1>4 DEF CallTransaction, WaitForActive, OwnerInv, BaseInv, OutcomeInv, Inside
<1> QED
  BY <1>2, <1>3, <1>4 DEF CallTransaction

LEMMA AdmitKeepsFlowInv ==
  ASSUME StackInv, NEW t \in Tx, Admit(t)
  PROVE  FlowInv'
BY ConnAssumption, SMTT(30) DEF FlowInv, StackInv, GateInv, TypeOK, Admit, OwnerInv,
   BaseInv, OutcomeInv, Inside

LEMMA BeginKeepsFlowInv ==
  ASSUME StackInv, NEW t \in Tx, Begin(t)
  PROVE  FlowInv'
<1> USE ConnAssumption DEF FlowInv, StackInv, GateInv, TypeOK, Begin, OwnerInv, BaseInv, OutcomeInv
<1>1. CASE BeginSucceeds(t)
  BY <1>1, SMTT(30) DEF BeginSucceeds, Inside
<1>2. CASE BeginFails(t)
  BY <1>2, SMTT(30) DEF BeginFails, Inside
<1> QED
  BY <1>1, <1>2

LEMMA EndKeepsFlowInv ==
  ASSUME StackInv, NEW t \in Tx, Commit(t) \/ Rollback(t)
  PROVE  FlowInv'
BY ConnAssumption, SMTT(30) DEF FlowInv, StackInv, GateInv, TypeOK, Commit, Rollback,
   CallbackRuns, OwnerInv, BaseInv, OutcomeInv, Inside

LEMMA ReleaseKeepsFlowInv ==
  ASSUME StackInv, NEW t \in Tx, Release(t)
  PROVE  FlowInv'
BY ConnAssumption, SMTT(30) DEF FlowInv, StackInv, GateInv, TypeOK, Release, OwnerInv,
   BaseInv, OutcomeInv, Inside

\* A flow that runs is inside nothing, or inside a callback that has begun.
LEMMA RunsInside ==
  ASSUME StackInv, NEW f \in Flow, pc[f] \in {"run", "wait", "passed"}, ctx[f] # None
  PROVE  \/ ctx[f] \in Frames(f) /\ phase[ctx[f]] = "open"
         \/ ctx[f] = base[f] /\ phase[ctx[f]] \in {"open", "ended", "settled"}
<1> USE DEF StackInv, GateInv, TypeOK
<1>1. ctx[f] \in Frames(f) \/ ctx[f] = base[f]
  BY DEF InnermostInv
<1>2. CASE ctx[f] \in Frames(f)
  BY <1>2 DEF Frames, Holding, OwnerInv
<1>3. CASE ctx[f] = base[f]
  BY <1>3 DEF BaseInv
<1> QED
  BY <1>1, <1>2, <1>3

LEMMA ForkKeepsFlowInv ==
  ASSUME StackInv, NEW f \in Flow, NEW g \in Flow, Fork(f, g)
  PROVE  FlowInv'
<1> USE ConnAssumption DEF FlowInv, StackInv, GateInv, TypeOK
<1>1. ctx[f] # None => phase[ctx[f]] \in {"open", "ended", "settled"}
  BY RunsInside DEF Fork
<1>2. /\ pc[f] = "run" /\ pc[g] = "unborn" /\ f # g
      /\ pc'[g] = "run" /\ ctx'[g] = ctx[f] /\ base'[g] = ctx[f]
      /\ \A h \in Flow \ {g} : pc'[h] = pc[h] /\ ctx'[h] = ctx[h] /\ base'[h] = base[h]
      /\ UNCHANGED <<cur, phase, owner, outer, outcome>>
  BY DEF Fork, txVars
<1>4. \A t \in Tx : owner[t] # g
  BY <1>2 DEF OwnerInv
<1>3. BaseInv' /\ OutcomeInv'
  BY <1>1, <1>2, <1>4 DEF BaseInv, OutcomeInv
<1>5. OwnerInv'
  BY <1>2, <1>4 DEF OwnerInv, Inside
<1> QED
  BY <1>3, <1>5

LEMMA StatementsKeepFlowInv ==
  ASSUME StackInv, NEW f \in Flow,
         \/ WaitAgain(f) \/ PassStatement(f) \/ Execute(f)
         \/ \E s \in Stmt : CallStatement(f, s)
  PROVE  FlowInv'
<1> USE ConnAssumption DEF FlowInv, StackInv, GateInv, TypeOK
<1>1. /\ UNCHANGED <<phase, owner, outer, outcome, ctx, base>>
      /\ \A g \in Flow \ {f} : pc'[g] = pc[g] /\ cur'[g] = cur[g]
      /\ pc[f] \in {"run", "wait", "passed"} /\ pc'[f] \in {"run", "wait", "passed"}
      /\ pc'[f] = "run" => cur'[f] = None
      /\ pc'[f] = "wait" => cur'[f] # None /\ ~Inside(f, At[cur'[f]])
  BY DEF WaitAgain, PassStatement, Execute, CallStatement, WaitForActive, txVars, OwnerInv
<1>2. \A t \in Tx : phase[t] \in {"queued", "admitted", "ended"} => owner[t] # f
  BY <1>1 DEF OwnerInv
<1>3. OwnerInv'
  BY <1>1, <1>2 DEF OwnerInv, Inside
<1> QED
  BY <1>1, <1>3 DEF BaseInv, OutcomeInv

LEMMA PassMethodKeepsFlowInv ==
  ASSUME StackInv, NEW f \in Flow, PassMethod(f)
  PROVE  FlowInv'
<1> USE ConnAssumption DEF FlowInv, StackInv, GateInv, TypeOK
<1>1. phase[cur[f]] = "new" /\ ~Inside(f, At[cur[f]])
  BY DEF PassMethod, MethodInv, OwnerInv
<1> QED
  BY <1>1 DEF PassMethod, Chain, OwnerInv, BaseInv, OutcomeInv, Inside

LEMMA FinishKeepsFlowInv ==
  ASSUME StackInv, NEW f \in Flow, Finish(f)
  PROVE  FlowInv'
<1> USE ConnAssumption DEF FlowInv, StackInv, GateInv, TypeOK
<1>1. UNCHANGED <<phase, owner, outer, outcome, ctx, base, cur>>
  BY DEF Finish, txVars
<1>2. \A t \in Tx : phase[t] = "open" => owner[t] # f
  BY DEF Finish, InnermostInv, BaseInv, Frames, Holding
<1>3. OwnerInv'
  BY <1>1, <1>2 DEF Finish, OwnerInv, Inside
<1> QED
  BY <1>1, <1>3 DEF BaseInv, OutcomeInv

LEMMA FlowStep == StackInv /\ [Next]_vars => FlowInv'
<1> SUFFICES ASSUME StackInv, [Next]_vars PROVE FlowInv'
  OBVIOUS
<1>1. CASE Continue
  BY <1>1, AdmitKeepsFlowInv, BeginKeepsFlowInv, ReleaseKeepsFlowInv, StatementsKeepFlowInv,
     PassMethodKeepsFlowInv DEF Continue
<1>2. CASE Call
  BY <1>2, CallsKeepFlowInv, EndKeepsFlowInv, ForkKeepsFlowInv, StatementsKeepFlowInv,
     FinishKeepsFlowInv DEF Call
<1>3. CASE UNCHANGED vars
  BY <1>3 DEF vars, gateVars, txVars, flowVars, StackInv, FlowInv, OwnerInv, BaseInv,
     OutcomeInv, Inside
<1> QED
  BY <1>1, <1>2, <1>3 DEF Next, Terminated

\* A transaction is opened inside what its flow is in.
LEMMA AdmitKeepsStack ==
  ASSUME StackInv, NEW t \in Tx, Admit(t)
  PROVE  InnermostInv' /\ NestedInv'
<1> USE DEF Holding, StackInv, GateInv, TypeOK
<1> DEFINE f == owner[t]
<1>1. /\ f \in Flow /\ phase[t] = "queued" /\ phase' = [phase EXCEPT ![t] = "admitted"]
      /\ outer[t] = ctx[f] /\ ctx' = [ctx EXCEPT ![f] = t]
      /\ UNCHANGED <<owner, outer, base>>
  BY DEF Admit, OwnerInv
<1>2. Frames(f)' = Frames(f) \cup {t} /\ t \notin Frames(f)
  BY <1>1 DEF Frames
<1>3. \A g \in Flow \ {f} : Frames(g)' = Frames(g)
  BY <1>1 DEF Frames
<1>4. \A g \in Flow \ {f} : ctx'[g] = ctx[g]
  BY <1>1
<1>5. ctx'[f] = t
  BY <1>1
<1>6. InnermostInv'
  BY <1>1, <1>2, <1>3, <1>4, <1>5 DEF InnermostInv
<1>7. base[f] # t
  BY <1>1, ConnAssumption DEF BaseInv
<1>8. ctx[f] \in Frames(f) \cup {base[f]} /\ ctx[f] # t
  BY <1>1, <1>2, <1>7 DEF InnermostInv
<1>9. \A u \in Frames(f) : outer[u] \in Frames(f) \cup {base[f]} /\ outer[u] # ctx[f] /\ outer[u] # t
  BY <1>1, <1>2, <1>7 DEF NestedInv
<1>10. ASSUME NEW g \in Flow
       PROVE (/\ \A u \in Frames(g) : outer[u] \in Frames(g) \cup {base[g]} /\ outer[u] # ctx[g]
              /\ \A u, v \in Frames(g) : outer[u] = outer[v] => u = v
              /\ \A S \in SUBSET Frames(g) : S # {} => \E u \in S : outer[u] \notin S)'
  <2>1. CASE g # f
    <3> HIDE DEF f
    <3>1. /\ Frames(g)' = Frames(g) /\ ctx'[g] = ctx[g] /\ base'[g] = base[g] /\ outer' = outer
      BY <1>1, <1>3, <1>4, <2>1
    <3> QED
      BY <3>1 DEF NestedInv
  <2>2. CASE g = f
    <3>1. /\ \A u \in Frames(f) \cup {t} : outer[u] \in Frames(f) \cup {t, base[f]} /\ outer[u] # t
          /\ \A u, v \in Frames(f) \cup {t} : outer[u] = outer[v] => u = v
      BY <1>1, <1>8, <1>9 DEF NestedInv
    <3>2. ASSUME NEW S \in SUBSET (Frames(f) \cup {t}), S # {} PROVE \E u \in S : outer[u] \notin S
      <4> DEFINE R == S \ {t}
      <4>1. CASE R = {}
        BY <1>1, <1>8, <3>2, <4>1
      <4>2. CASE R # {}
        <5>1. PICK u \in R : outer[u] \notin R
          BY <1>1, <4>2 DEF NestedInv
        <5> QED
          BY <1>9, <5>1
      <4> QED
        BY <4>1, <4>2
    <3>3. Frames(g)' = Frames(f) \cup {t} /\ ctx'[g] = t /\ base'[g] = base[f] /\ outer' = outer
      BY <1>1, <1>2, <1>5, <2>2
    <3>4. t \notin Frames(f) /\ ctx[f] # t
      BY <1>2, <1>8
    <3> DEFINE F == Frames(g)'
    <3> HIDE DEF f, F
    <3>5. F = Frames(f) \cup {t}
      BY <3>3 DEF F
    <3>6. /\ \A u \in F : outer'[u] \in F \cup {base'[g]} /\ outer'[u] # ctx'[g]
          /\ \A u, v \in F : outer'[u] = outer'[v] => u = v
      BY <3>1, <3>3, <3>5
    <3>7. \A S \in SUBSET F : S # {} => \E u \in S : outer'[u] \notin S
      BY <3>2, <3>3, <3>5
    <3> QED
      BY <3>6, <3>7 DEF F
  <2> QED
    BY <2>1, <2>2
<1> QED
  BY <1>6, <1>10 DEF NestedInv

\* Leaving the innermost transaction leads to the next one.
LEMMA ReleaseKeepsStack ==
  ASSUME StackInv, NEW t \in Tx, Release(t)
  PROVE  InnermostInv' /\ NestedInv'
<1> USE DEF Holding, StackInv, GateInv, TypeOK
<1> DEFINE f == owner[t]
<1>1. /\ f \in Flow /\ phase[t] = "ended" /\ phase' = [phase EXCEPT ![t] = "settled"]
      /\ ctx[f] = t /\ ctx' = [ctx EXCEPT ![f] = outer[t]]
      /\ UNCHANGED <<owner, outer, base>>
  BY DEF Release, OwnerInv
<1>2. Frames(f)' = Frames(f) \ {t} /\ t \in Frames(f)
  BY <1>1 DEF Frames
<1>3. \A g \in Flow \ {f} : Frames(g)' = Frames(g)
  BY <1>1 DEF Frames
<1>4. /\ \A g \in Flow \ {f} : ctx'[g] = ctx[g]
      /\ ctx'[f] = outer[t]
  BY <1>1
<1>5. /\ \A u \in Frames(f) : outer[u] \in (Frames(f) \ {t}) \cup {base[f]}
      /\ \A u, v \in Frames(f) : outer[u] = outer[v] => u = v
      /\ \A S \in SUBSET Frames(f) : S # {} => \E u \in S : outer[u] \notin S
  BY <1>1 DEF NestedInv
<1>6. outer[t] \in Frames(f) \ {t} \/ (outer[t] = base[f] /\ Frames(f) \ {t} = {})
  <2> DEFINE R == Frames(f) \ {t}
  <2>1. SUFFICES ASSUME outer[t] \notin R, R # {} PROVE FALSE
    BY <1>2, <1>5
  <2>2. PICK u \in R : outer[u] \notin R
    BY <1>5, <2>1
  <2>3. outer[u] = base[f] /\ outer[t] = base[f]
    BY <1>2, <1>5, <2>1, <2>2
  <2> QED
    BY <1>2, <1>5, <2>2, <2>3
<1>7. ASSUME NEW g \in Flow
      PROVE  (/\ ctx[g] \in Frames(g) \/ (ctx[g] = base[g] /\ Frames(g) = {})
              /\ \A u \in Frames(g) : outer[u] \in Frames(g) \cup {base[g]} /\ outer[u] # ctx[g]
              /\ \A u, v \in Frames(g) : outer[u] = outer[v] => u = v
              /\ \A S \in SUBSET Frames(g) : S # {} => \E u \in S : outer[u] \notin S)'
  <2>1. CASE g # f
    <3> HIDE DEF f
    <3>1. /\ Frames(g)' = Frames(g) /\ ctx'[g] = ctx[g] /\ base'[g] = base[g] /\ outer' = outer
      BY <1>1, <1>3, <1>4, <2>1
    <3>2. /\ ctx[g] \in Frames(g) \/ (ctx[g] = base[g] /\ Frames(g) = {})
          /\ \A u \in Frames(g) : outer[u] \in Frames(g) \cup {base[g]} /\ outer[u] # ctx[g]
          /\ \A u, v \in Frames(g) : outer[u] = outer[v] => u = v
          /\ \A S \in SUBSET Frames(g) : S # {} => \E u \in S : outer[u] \notin S
      BY DEF NestedInv, InnermostInv
    <3> QED
      BY <3>1, <3>2
  <2>2. CASE g = f
    <3>1. \A u \in Frames(f) \ {t} : outer[u] # outer[t]
      BY <1>2, <1>5
    <3>2. /\ Frames(g)' = Frames(f) \ {t} /\ ctx'[g] = outer[t] /\ base'[g] = base[f]
          /\ outer' = outer
      BY <1>1, <1>2, <1>4, <2>2
    <3> DEFINE F == Frames(g)'
    <3> HIDE DEF f, F
    <3>3. F = Frames(f) \ {t}
      BY <3>2 DEF F
    <3>4. /\ ctx'[g] \in F \/ (ctx'[g] = base'[g] /\ F = {})
          /\ \A u \in F : outer'[u] \in F \cup {base'[g]} /\ outer'[u] # ctx'[g]
          /\ \A u, v \in F : outer'[u] = outer'[v] => u = v
      BY <1>5, <1>6, <3>1, <3>2, <3>3
    <3>5. \A S \in SUBSET F : S # {} => \E u \in S : outer'[u] \notin S
      BY <1>5, <3>2, <3>3
    <3> QED
      BY <3>4, <3>5 DEF F
  <2> QED
    BY <2>1, <2>2
<1> QED
  BY <1>7 DEF NestedInv, InnermostInv

\* A forked flow has no transaction of its own yet.
LEMMA ForkKeepsStack ==
  ASSUME StackInv, NEW f \in Flow, NEW g \in Flow, Fork(f, g)
  PROVE  InnermostInv' /\ NestedInv'
<1> USE DEF Holding, StackInv, GateInv, TypeOK
<1>1. /\ pc[g] = "unborn" /\ ctx'[g] = ctx[f] /\ base'[g] = ctx[f]
      /\ \A h \in Flow \ {g} : ctx'[h] = ctx[h] /\ base'[h] = base[h]
      /\ UNCHANGED <<phase, owner, outer>>
  BY DEF Fork, txVars
<1>2. Frames(g) = {} /\ \A h \in Flow : Frames(h)' = Frames(h)
  BY <1>1 DEF Frames, OwnerInv
<1>3. ASSUME NEW h \in Flow
      PROVE  (/\ ctx[h] \in Frames(h) \/ (ctx[h] = base[h] /\ Frames(h) = {})
              /\ \A u \in Frames(h) : outer[u] \in Frames(h) \cup {base[h]} /\ outer[u] # ctx[h]
              /\ \A u, v \in Frames(h) : outer[u] = outer[v] => u = v
              /\ \A S \in SUBSET Frames(h) : S # {} => \E u \in S : outer[u] \notin S)'
  <2>1. CASE h = g
    BY <1>1, <1>2, <2>1
  <2>2. CASE h # g
    <3>1. /\ Frames(h)' = Frames(h) /\ ctx'[h] = ctx[h] /\ base'[h] = base[h] /\ outer' = outer
      BY <1>1, <1>2, <2>2
    <3>2. /\ ctx[h] \in Frames(h) \/ (ctx[h] = base[h] /\ Frames(h) = {})
          /\ \A u \in Frames(h) : outer[u] \in Frames(h) \cup {base[h]} /\ outer[u] # ctx[h]
          /\ \A u, v \in Frames(h) : outer[u] = outer[v] => u = v
          /\ \A S \in SUBSET Frames(h) : S # {} => \E u \in S : outer[u] \notin S
      BY DEF NestedInv, InnermostInv
    <3> QED
      BY <3>1, <3>2
  <2> QED
    BY <2>1, <2>2
<1> QED
  BY <1>3 DEF NestedInv, InnermostInv

LEMMA StackStep == StackInv /\ [Next]_vars => StackInv'
<1> SUFFICES ASSUME StackInv, [Next]_vars PROVE StackInv'
  OBVIOUS
<1> USE ConnAssumption DEF StackInv, Holding
<1>1. GateInv' /\ FlowInv' /\ TypeOK /\ MethodInv
  BY GateStep, FlowStep DEF GateInv
<1> SUFFICES InnermostInv' /\ NestedInv'
  BY <1>1 DEF FlowInv
\* A step that stays in the same transactions.
<1> DEFINE Stays ==
      /\ UNCHANGED <<ctx, base>>
      /\ \A t \in Tx : phase'[t] \in Holding <=> phase[t] \in Holding
      /\ \A t \in Tx : phase[t] \in Holding => outer'[t] = outer[t] /\ owner'[t] = owner[t]
<1>2. ASSUME Stays PROVE InnermostInv' /\ NestedInv'
  <2>1. \A f \in Flow : Frames(f)' = Frames(f)
    BY <1>2 DEF Frames
  <2> QED
    BY <1>2, <2>1, StackStays
<1>3. ASSUME NEW f \in Flow, NEW t \in Tx, CallTransaction(f, t) PROVE Stays
  BY <1>1, <1>3 DEF CallTransaction, Refuse, Chain, TypeOK
<1>4. ASSUME NEW f \in Flow, PassMethod(f) PROVE Stays
  BY <1>1, <1>4 DEF PassMethod, Chain, TypeOK, MethodInv
<1>5. ASSUME NEW t \in Tx, Begin(t) \/ Commit(t) \/ Rollback(t) PROVE Stays
  BY <1>1, <1>5 DEF Begin, BeginSucceeds, BeginFails, Commit, Rollback, CallbackRuns, TypeOK
<1>6. ASSUME NEW f \in Flow,
             \/ WaitAgain(f) \/ PassStatement(f) \/ Execute(f) \/ Finish(f)
             \/ \E s \in Stmt : CallStatement(f, s)
      PROVE  Stays
  BY <1>6 DEF WaitAgain, PassStatement, Execute, Finish, CallStatement, txVars
<1>7. CASE UNCHANGED vars
  BY <1>2, <1>7 DEF vars, txVars, flowVars
<1> QED
  BY <1>2, <1>3, <1>4, <1>5, <1>6, <1>7, AdmitKeepsStack, ReleaseKeepsStack, ForkKeepsStack
  DEF Next, Continue, Call, Terminated

LEMMA StackInit == Init => StackInv
<1> SUFFICES ASSUME Init PROVE StackInv
  OBVIOUS
<1>1. \A f \in Flow : Frames(f) = {}
  BY DEF Init, Frames, Holding
<1>2. InnermostInv /\ NestedInv
  BY <1>1 DEF Init, InnermostInv, NestedInv
<1>3. OwnerInv /\ BaseInv /\ OutcomeInv
  BY ConnAssumption DEF Init, OwnerInv, BaseInv, OutcomeInv
<1> QED
  BY <1>2, <1>3, GateInit DEF StackInv

-----------------------------------------------------------------------------
(* What a transaction holds. *)

\* What is decided stays decided, and a flow that is finished stays finished.
LEMMA Settling ==
  ASSUME StackInv, [Next]_vars
  PROVE  /\ \A t \in Tx : outcome[t] # "none" => outcome'[t] = outcome[t]
         /\ \A f \in Flow : pc[f] = "finished" => pc'[f] = "finished" /\ UNCHANGED base[f]
<1> USE ConnAssumption DEF StackInv, GateInv, TypeOK
<1>1. ASSUME NEW f \in Flow, NEW t \in Tx, CallTransaction(f, t)
      PROVE  /\ UNCHANGED <<outcome, base>>
             /\ \A g \in Flow : pc[g] = "finished" => pc'[g] = "finished"
  BY <1>1 DEF CallTransaction, Refuse, Chain, WaitForActive
<1>2. ASSUME NEW t \in Tx, Admit(t) \/ Release(t)
      PROVE  /\ UNCHANGED <<outcome, base>>
             /\ \A g \in Flow : pc[g] = "finished" => pc'[g] = "finished"
  BY <1>2 DEF Admit, Release, OwnerInv
<1>3. ASSUME NEW t \in Tx, Begin(t) \/ Commit(t) \/ Rollback(t)
      PROVE  /\ \A u \in Tx : outcome[u] # "none" => outcome'[u] = outcome[u]
             /\ UNCHANGED base /\ \A g \in Flow : pc[g] = "finished" => pc'[g] = "finished"
  <2>1. outcome[t] = "none"
    BY <1>3 DEF Begin, Commit, Rollback, CallbackRuns, OutcomeInv
  <2> QED
    BY <1>3, <2>1 DEF Begin, BeginSucceeds, BeginFails, Commit, Rollback, CallbackRuns, OwnerInv
<1>4. ASSUME NEW f \in Flow, NEW s \in Stmt, CallStatement(f, s)
      PROVE  /\ UNCHANGED <<outcome, base>>
             /\ \A g \in Flow : pc[g] = "finished" => pc'[g] = "finished"
  BY <1>4 DEF CallStatement, WaitForActive, txVars
<1>5. ASSUME NEW f \in Flow, WaitAgain(f) \/ PassStatement(f) \/ PassMethod(f) \/ Execute(f) \/ Finish(f)
      PROVE  /\ UNCHANGED <<outcome, base>>
             /\ \A g \in Flow : pc[g] = "finished" => pc'[g] = "finished"
  BY <1>5 DEF WaitAgain, PassStatement, PassMethod, Chain, Execute, Finish, txVars
<1>6. ASSUME NEW f \in Flow, NEW g \in Flow, Fork(f, g)
      PROVE  /\ UNCHANGED outcome
             /\ \A h \in Flow : pc[h] = "finished" => pc'[h] = "finished" /\ UNCHANGED base[h]
  BY <1>6 DEF Fork, txVars
<1>7. CASE UNCHANGED vars
  BY <1>7 DEF vars, txVars, flowVars
<1> QED
  BY <1>1, <1>2, <1>3, <1>4, <1>5, <1>6, <1>7 DEF Next, Continue, Call, Terminated

\* Only committing decides that nothing may be inside a transaction any more,
\* and only work inside forks more of it.
LEMMA AwaitedStep ==
  ASSUME StackInv, AwaitedInv, [Next]_vars
  PROVE  AwaitedInv'
<1> USE ConnAssumption DEF StackInv, GateInv, TypeOK
<1>1. ASSUME NEW t \in Tx, NEW f \in Flow, outcome'[t] = "committed", base'[f] = t
      PROVE  pc'[f] = "finished"
  <2>1. CASE outcome[t] = "committed" /\ base[f] = t
    BY <2>1, Settling DEF AwaitedInv
  <2>2. CASE outcome[t] # "committed"
    <3>1. Commit(t) /\ UNCHANGED base
      BY <1>1, <2>2 DEF Next, Continue, Call, Terminated, CallTransaction, Admit, Begin,
         BeginSucceeds, BeginFails, Release, Commit, Rollback, CallStatement, WaitAgain,
         PassStatement, PassMethod, Execute, Fork, Finish, vars, txVars, flowVars
    <3>2. pc[f] = "finished"
      BY <1>1, <3>1 DEF Commit, Unfinished
    <3> QED
      BY <3>2, Settling
  <2>3. CASE outcome[t] = "committed" /\ base[f] # t
    <3>1. PICK g \in Flow : Fork(g, f)
      BY <1>1, <2>3 DEF Next, Continue, Call, Terminated, CallTransaction, Admit, Begin,
         BeginSucceeds, BeginFails, Release, Commit, Rollback, CallStatement, WaitAgain,
         PassStatement, PassMethod, Execute, Fork, Finish, vars, txVars, flowVars
    <3>2. pc[g] = "run" /\ ctx[g] = t
      BY <1>1, <3>1 DEF Fork
    <3>3. base[g] = t
      BY <2>3, <3>2, RunsInside DEF OutcomeInv
    <3> QED
      BY <2>3, <3>2, <3>3 DEF AwaitedInv
  <2> QED
    BY <2>1, <2>2, <2>3
<1> QED
  BY <1>1 DEF AwaitedInv

\* A statement in flight keeps its context: its flow does nothing else.
LEMMA IssuedStep ==
  ASSUME WaitInv, StackInv, IssuedInv, [Next]_vars
  PROVE  IssuedInv'
<1> USE ConnAssumption DEF StackInv, GateInv, TypeOK, IssuedInv
<1> DEFINE Away ==
      /\ UNCHANGED home
      /\ \A f \in Flow : cur'[f] \in Stmt => cur'[f] = cur[f] /\ ctx'[f] = ctx[f]
<1>0. ASSUME Away PROVE IssuedInv'
  BY <1>0
<1>1. ASSUME NEW f \in Flow, NEW t \in Tx, CallTransaction(f, t) PROVE Away
  BY <1>1 DEF CallTransaction, Refuse, Chain, WaitForActive, stmtVars
<1>2. ASSUME NEW t \in Tx, Admit(t) \/ Release(t) PROVE Away
  <2>1. CASE Admit(t)
    BY <2>1, SMTT(30) DEF Admit, OwnerInv, stmtVars
  <2>2. CASE Release(t)
    BY <2>2, SMTT(30) DEF Release, OwnerInv, stmtVars
  <2> QED
    BY <1>2, <2>1, <2>2
<1>3. ASSUME NEW t \in Tx, Begin(t) \/ Commit(t) \/ Rollback(t) PROVE Away
  BY <1>3 DEF Begin, BeginSucceeds, BeginFails, Commit, Rollback, stmtVars
<1>4. ASSUME NEW f \in Flow, NEW s \in Stmt, CallStatement(f, s) PROVE IssuedInv'
  BY <1>4 DEF CallStatement, WaitForActive, WaitInv, PendingInv
<1>5. ASSUME NEW f \in Flow,
             WaitAgain(f) \/ PassStatement(f) \/ PassMethod(f) \/ Execute(f) \/ Finish(f)
      PROVE  Away
  BY <1>5 DEF WaitAgain, PassStatement, PassMethod, Chain, Execute, Finish, stmtVars
<1>6. ASSUME NEW f \in Flow, NEW g \in Flow, Fork(f, g) PROVE Away
  BY <1>6 DEF Fork, OwnerInv, stmtVars
<1>7. CASE UNCHANGED vars
  BY <1>7 DEF vars, flowVars, stmtVars
<1> QED
  BY <1>0, <1>1, <1>2, <1>3, <1>4, <1>5, <1>6, <1>7 DEF Next, Continue, Call, Terminated

\* Where the statement of a callback runs: in its transaction, unless that has
\* been rolled back under it.
LEMMA RunsAtHome ==
  ASSUME CompleteInv, NEW f \in Flow, pc[f] = "passed",
         NEW t \in Tx, ctx[f] = t
  PROVE  (phase[t] = "open" /\ inTx[At[t]] = t) \/ outcome[t] = "rolledback"
<1> USE ConnAssumption DEF CompleteInv, StackInv, GateInv, TypeOK, Outcome
<1>1. CASE phase[t] = "open"
  BY <1>1 DEF ActiveInv
<1>2. CASE phase[t] # "open"
  <2>1. ctx[f] = base[f] /\ phase[t] \in {"ended", "settled"}
    BY <1>2, RunsInside
  <2> QED
    BY <2>1 DEF AwaitedInv, OutcomeInv
<1> QED
  BY <1>1, <1>2

LEMMA HomeStep ==
  ASSUME CompleteInv, [Next]_vars
  PROVE  HomeInv'
<1> USE ConnAssumption DEF CompleteInv, StackInv, GateInv, TypeOK
<1>1. ASSUME NEW f \in Flow, Execute(f) PROVE HomeInv'
  <2> SUFFICES ASSUME NEW s \in Stmt, NEW t \in Tx, home'[s] = t, At[s] = At[t], done'[s] \in {"ok", "failed"}
               PROVE  landed'[s] = t \/ outcome'[t] = "rolledback"
    BY DEF HomeInv, IssuedIn
  <2>1. CASE s # cur[f]
    BY <1>1, <2>1 DEF Execute, HomeInv, IssuedIn, txVars
  <2>2. CASE s = cur[f]
    <3>1. ctx[f] = t /\ pc[f] = "passed" /\ landed'[s] = inTx[At[s]] /\ UNCHANGED outcome
      BY <1>1, <2>2 DEF Execute, IssuedInv, txVars, WaitInv, PendingInv
    <3> QED
      BY <3>1, RunsAtHome
  <2> QED
    BY <2>1, <2>2
<1>2. ASSUME NEW f \in Flow, NEW s \in Stmt, CallStatement(f, s) PROVE HomeInv'
  BY <1>2 DEF CallStatement, HomeInv, IssuedIn, txVars
<1>3. ASSUME \A f \in Flow : ~Execute(f), \A f \in Flow, s \in Stmt : ~CallStatement(f, s)
      PROVE  UNCHANGED <<done, home, landed>>
  BY <1>3 DEF Next, Continue, Call, Terminated, CallTransaction, Admit, Begin, Release,
     Commit, Rollback, WaitAgain, PassStatement, PassMethod, Fork, Finish, vars, stmtVars
<1>4. CASE UNCHANGED <<done, home, landed>>
  BY <1>4, Settling DEF HomeInv, IssuedIn
<1> QED
  BY <1>1, <1>2, <1>3, <1>4

LEMMA CompleteStep == CompleteInv /\ [Next]_vars => CompleteInv'
BY WaitStep, StackStep, IssuedStep, AwaitedStep, HomeStep DEF CompleteInv

LEMMA CompleteInit == Init => CompleteInv
<1> SUFFICES ASSUME Init PROVE CompleteInv
  OBVIOUS
<1>1. StackInv /\ WaitInv
  BY StackInit, WaitInit
<1> QED
  BY <1>1, ConnAssumption DEF Init, CompleteInv, IssuedInv, AwaitedInv, HomeInv

\* A transaction that committed holds every write of its callback, in whatever
\* flow it was made, however many flows and transactions there are.
THEOREM CommittedKeepsItsWrites == Spec => []CommittedIsComplete
<1>1. CompleteInv => CommittedIsComplete
  BY DEF CompleteInv, HomeInv, CommittedIsComplete, Durable
<1> QED
  BY <1>1, CompleteInit, CompleteStep, PTL DEF Spec

-----------------------------------------------------------------------------
(* Nobody waits for himself, over one connection. *)

OneConnection == \A x, y \in Tx \cup Stmt : At[x] = At[y]

\* A flow that is not inside the connection has no transaction open on it.
LEMMA OutsideHasNone ==
  ASSUME OneConnection, StackInv, NEW f \in Flow, NEW x \in Tx \cup Stmt, ~Inside(f, At[x])
  PROVE  Frames(f) = {}
BY ConnAssumption DEF OneConnection, StackInv, InnermostInv, Inside, Frames

OwnWait == \A f \in Flow : pc[f] = "wait" => owner[awaits[f]] # f

LEMMA OwnWaitStep ==
  ASSUME OneConnection, StackInv, WaitInv, OwnWait, [Next]_vars
  PROVE  OwnWait'
<1> USE ConnAssumption DEF StackInv, GateInv, TypeOK
<1>1. ASSUME NEW f \in Flow, pc'[f] = "wait" PROVE owner'[awaits'[f]] # f
  <2>1. CASE pc[f] = "wait" /\ awaits'[f] = awaits[f]
    <3>1. awaits[f] \in Tx /\ phase[awaits[f]] \in Holding \cup {"settled"}
      BY <2>1 DEF WaitInv, AwaitInv
    <3>2. owner'[awaits[f]] = owner[awaits[f]]
      BY <3>1 DEF Holding, MethodInv, Next, Continue, Call, Terminated, CallTransaction,
         Refuse, Chain, Admit, Begin, Release, Commit, Rollback, CallStatement, WaitAgain,
         PassStatement, PassMethod, Execute, Fork, Finish, vars, txVars
    <3> QED
      BY <2>1, <3>2 DEF OwnWait
  <2>2. CASE pc[f] # "wait" \/ awaits'[f] # awaits[f]
    <3>1. PICK x \in Tx \cup Stmt :
            ~Inside(f, At[x]) /\ active[At[x]] # None /\ awaits'[f] = active[At[x]] /\ UNCHANGED owner
      BY <1>1, <2>2 DEF OwnerInv, Next, Continue, Call, Terminated, CallTransaction, Refuse,
         Chain, WaitForActive, Admit, Begin, BeginSucceeds, BeginFails, Release, Commit,
         Rollback, CallStatement, WaitAgain, PassStatement, PassMethod, Execute, Fork,
         Finish, vars, txVars, flowVars
    <3>2. At[x] \in Conn
      OBVIOUS
    <3>3. active[At[x]] \in Tx /\ phase[active[At[x]]] \in Holding
      BY <3>1, <3>2, ActiveHolds
    <3>4. Frames(f) = {}
      BY <3>1, OutsideHasNone
    <3> QED
      BY <3>1, <3>3, <3>4 DEF Frames
  <2> QED
    BY <2>1, <2>2
<1> QED
  BY <1>1 DEF OwnWait

\* Over one connection a flow never waits for a transaction it is running,
\* at the gate or in the chain (connection-gate.ts, 5 and 26): calls inside go
\* straight through or are refused.
THEOREM NobodyWaitsForItself ==
  ASSUME OneConnection
  PROVE  Spec => []NeverWaitsForItself
<1>1. StackInv /\ OwnWait => NeverWaitsForItself
  <2> SUFFICES ASSUME StackInv, NEW t \in Tx, NEW u \in Tx, phase[t] = "queued",
                      phase[u] \in Holding, owner[t] = owner[u]
               PROVE  FALSE
    BY DEF OwnWait, NeverWaitsForItself
  <2>1. owner[t] \in Flow /\ ~Inside(owner[t], At[t])
    BY DEF StackInv, OwnerInv
  <2> QED
    BY <2>1, OutsideHasNone DEF Frames
<1>2. Init => OwnWait
  BY ConnAssumption DEF Init, OwnWait
<1>3. StackInv /\ WaitInv /\ OwnWait /\ [Next]_vars => OwnWait'
  BY OwnWaitStep
<1> QED
  BY <1>1, <1>2, <1>3, StackInit, StackStep, WaitInit, WaitStep, PTL DEF Spec

-----------------------------------------------------------------------------
(* The disciplined program: its transactions are atomic. *)

\* No flow is forked, and a write that has run is in its callback's transaction.
PlacedInv ==
  /\ \A f \in Root : pc[f] # "unborn"
  /\ \A f \in Flow : base[f] = None
  /\ \A s \in Stmt : done[s] \in {"ok", "failed"} => landed[s] = home[s]

AtomicInv == CompleteInv /\ Disciplined /\ PlacedInv

\* A statement of the disciplined program runs in the open transaction it was
\* issued in.
LEMMA RunsInItsTransaction ==
  ASSUME AtomicInv, NEW f \in Flow, pc[f] = "passed"
  PROVE  /\ cur[f] \in Stmt /\ done[cur[f]] = "called" /\ home[cur[f]] \in Tx
         /\ At[home[cur[f]]] = At[cur[f]]
         /\ phase[home[cur[f]]] = "open" /\ inTx[At[cur[f]]] = home[cur[f]]
<1> USE ConnAssumption DEF AtomicInv, CompleteInv, StackInv, GateInv, TypeOK
<1> DEFINE s == cur[f]
<1>1. s \in Stmt /\ done[s] = "called" /\ home[s] = ctx[f]
  BY DEF WaitInv, PendingInv, IssuedInv
<1>2. home[s] \in Tx /\ At[home[s]] = At[s] /\ ctx[f] # None
  BY <1>1 DEF Disciplined
<1>3. phase[ctx[f]] = "open"
  BY <1>2, RunsInside DEF PlacedInv
<1> QED
  BY <1>1, <1>2, <1>3 DEF ActiveInv

LEMMA PlacedStep ==
  ASSUME AtomicInv, [Next /\ Disciplined']_vars
  PROVE  AtomicInv'
<1> USE ConnAssumption DEF AtomicInv
<1>1. [Next]_vars /\ CompleteInv'
  BY CompleteStep
<1>2. Disciplined'
  BY DEF Disciplined, vars, stmtVars, flowVars
<1>3. TypeOK /\ StackInv
  BY DEF CompleteInv, StackInv, GateInv
<1>4. \A f \in Flow : pc[f] # "unborn" => pc'[f] # "unborn"
  <2>1. CASE Continue
    BY <1>3, <2>1 DEF TypeOK, Continue, Admit, Begin, BeginSucceeds, BeginFails, Release,
       WaitAgain, PassStatement, PassMethod, Chain, Execute
  <2>2. CASE Call
    BY <1>3, <2>2 DEF TypeOK, Call, CallTransaction, Refuse, Chain, WaitForActive, Commit,
       Rollback, CallStatement, Fork, Finish
  <2> QED
    BY <1>1, <2>1, <2>2 DEF Next, Terminated, vars, flowVars
<1>5. UNCHANGED base
  <2>1. ASSUME NEW f \in Flow, NEW g \in Flow, Fork(f, g) PROVE FALSE
    BY <1>2, <1>3, <2>1 DEF Fork, Disciplined, PlacedInv, TypeOK
  <2> QED
    BY <1>1, <2>1 DEF Next, Continue, Call, Terminated, CallTransaction, Admit, Begin,
       Release, Commit, Rollback, CallStatement, WaitAgain, PassStatement, PassMethod,
       Execute, Finish, vars, flowVars
<1>6. (\A s \in Stmt : done[s] \in {"ok", "failed"} => landed[s] = home[s])'
  <2>1. ASSUME NEW f \in Flow, Execute(f), NEW s \in Stmt, done'[s] \in {"ok", "failed"}
        PROVE  landed'[s] = home'[s]
    BY <1>3, <2>1, RunsInItsTransaction DEF Execute, PlacedInv, TypeOK
  <2>2. ASSUME NEW f \in Flow, NEW s \in Stmt, CallStatement(f, s), NEW r \in Stmt,
               done'[r] \in {"ok", "failed"}
        PROVE  landed'[r] = home'[r]
    BY <1>3, <2>2 DEF CallStatement, PlacedInv, TypeOK
  <2>3. \/ \E f \in Flow : Execute(f) \/ \E s \in Stmt : CallStatement(f, s)
        \/ UNCHANGED <<done, home, landed>>
    BY <1>1 DEF Next, Continue, Call, Terminated, CallTransaction, Admit, Begin, Release,
       Commit, Rollback, WaitAgain, PassStatement, PassMethod, Fork, Finish, vars, stmtVars
  <2> QED
    BY <2>1, <2>2, <2>3 DEF PlacedInv
<1>7. PlacedInv'
  BY <1>4, <1>5, <1>6 DEF PlacedInv
<1> QED
  BY <1>1, <1>2, <1>7

LEMMA PlacedInit == Init => AtomicInv
<1> SUFFICES ASSUME Init PROVE AtomicInv
  OBVIOUS
<1>1. CompleteInv
  BY CompleteInit
<1>2. Disciplined /\ PlacedInv
  BY ConnAssumption DEF Init, Disciplined, PlacedInv
<1> QED
  BY <1>1, <1>2 DEF AtomicInv

\* A transaction that is rolled back leaves nothing of its callback behind, in
\* a program that awaits what it starts.
THEOREM RolledBackLeavesNoTrace == DisciplinedSpec => []RolledBackLeavesNothing
<1>1. AtomicInv => RolledBackLeavesNothing
  BY ConnAssumption DEF AtomicInv, PlacedInv, RolledBackLeavesNothing, IssuedIn, Durable
<1> QED
  BY <1>1, PlacedInit, PlacedStep, PTL DEF DisciplinedSpec

-----------------------------------------------------------------------------
(* ... and are those of AtomicTransactions. *)

LEMMA ExecuteRefines ==
  ASSUME AtomicInv, NEW f \in Flow, Execute(f)
  PROVE  [Atomic!Next]_(Atomic!vars)
<1> USE ConnAssumption
<1>0. pc[f] = "passed"
  BY DEF Execute
<1> PICK s \in Stmt, t \in Tx : cur[f] = s /\ home[s] = t
  BY <1>0, RunsInItsTransaction
<1>1. /\ s \in Stmt /\ done[s] = "called" /\ home[s] = t /\ t \in Tx /\ At[t] = At[s]
      /\ phase[t] = "open" /\ landed'[s] = t
      /\ UNCHANGED <<outcome, home>>
      /\ \A r \in Stmt \ {s} : done'[r] = done[r] /\ landed'[r] = landed[r]
      /\ done'[s] \in {"ok", "failed"}
  BY <1>0, RunsInItsTransaction DEF AtomicInv, CompleteInv, StackInv, GateInv, TypeOK,
     Execute, txVars
<1>2. outcome[t] = "none" /\ t # None
  BY <1>1 DEF AtomicInv, CompleteInv, StackInv, OutcomeInv
<1>3. Stored' = Stored
  BY <1>1, <1>2 DEF Stored, Durable
<1>4. CASE done'[s] = "failed"
  <2>1. \A u \in Tx : CallbackWrites(u)' = CallbackWrites(u)
    BY <1>1, <1>4 DEF CallbackWrites, IssuedIn
  <2> QED
    BY <1>1, <1>3, <2>1 DEF Atomic!vars
<1>5. CASE done'[s] = "ok"
  <2>0. \A u \in Tx, r \in Stmt : (IssuedIn(r, u) /\ done[r] = "ok")'
                                  <=> (IssuedIn(r, u) /\ done[r] = "ok") \/ (u = t /\ r = s)
    BY <1>1, <1>5 DEF IssuedIn
  <2>1. CallbackWrites(t)' = CallbackWrites(t) \cup {s}
    BY <1>1, <2>0 DEF CallbackWrites, IssuedIn
  <2>2. \A u \in Tx \ {t} : CallbackWrites(u)' = CallbackWrites(u)
    BY <2>0 DEF CallbackWrites, IssuedIn
  <2>3. s \notin Atomic!Written
    BY <1>1 DEF Atomic!Written, CallbackWrites
  <2>4. Atomic!Write(t, s)
    BY <1>1, <1>2, <1>3, <2>1, <2>2, <2>3 DEF Atomic!Write
  <2> QED
    BY <1>1, <2>4 DEF Atomic!Next
<1> QED
  BY <1>1, <1>4, <1>5

LEMMA CommitRefines ==
  ASSUME AtomicInv, NEW t \in Tx, Commit(t)
  PROVE  Atomic!Next
<1> USE ConnAssumption
<1>1. /\ outcome[t] = "none" /\ outcome' = [outcome EXCEPT ![t] = "committed"]
      /\ outcome \in [Tx -> Outcome] /\ UNCHANGED <<done, home, landed>>
  BY DEF Commit, CallbackRuns, AtomicInv, CompleteInv, StackInv, GateInv, TypeOK,
     OutcomeInv, stmtVars
<1>2. \A u \in Tx : CallbackWrites(u)' = CallbackWrites(u)
  BY <1>1 DEF CallbackWrites, IssuedIn
<1>3. \A s \in Stmt : done[s] = "ok" => /\ landed[s] = home[s] /\ home[s] \in Tx
                                        /\ IssuedIn(s, t) <=> home[s] = t
  BY DEF AtomicInv, PlacedInv, Disciplined, CompleteInv, StackInv, GateInv, TypeOK, IssuedIn
<1>4. Stored' = Stored \cup CallbackWrites(t)
  <2>1. \A s \in Stmt : Durable(s)' <=> Durable(s) \/ (IssuedIn(s, t) /\ done[s] = "ok")
    <3> SUFFICES ASSUME NEW s \in Stmt, done[s] = "ok"
                 PROVE  Durable(s)' <=> Durable(s) \/ IssuedIn(s, t)
      BY <1>1 DEF Durable
    <3>1. landed[s] \in Tx /\ landed[s] # None /\ (IssuedIn(s, t) <=> landed[s] = t)
      BY <1>3
    <3>2. outcome'[landed[s]] = IF landed[s] = t THEN "committed" ELSE outcome[landed[s]]
      BY <1>1, <3>1
    <3> QED
      BY <1>1, <3>1, <3>2 DEF Durable
  <2> QED
    BY <2>1 DEF Stored, CallbackWrites
<1>5. Atomic!Commit(t)
  BY <1>1, <1>2, <1>4 DEF Atomic!Commit
<1> QED
  BY <1>5 DEF Atomic!Next

\* A BEGIN that fails, and a ROLLBACK.
LEMMA RollbackRefines ==
  ASSUME AtomicInv, NEW t \in Tx, outcome[t] = "none",
         outcome' = [outcome EXCEPT ![t] = "rolledback"], UNCHANGED <<done, home, landed>>
  PROVE  Atomic!Next
<1> USE ConnAssumption
<1>1. outcome \in [Tx -> Outcome]
  BY DEF AtomicInv, CompleteInv, StackInv, GateInv, TypeOK
<1>2. \A u \in Tx : CallbackWrites(u)' = CallbackWrites(u)
  BY DEF CallbackWrites, IssuedIn
<1>3. \A s \in Stmt : done[s] = "ok" => landed[s] \in Tx
  BY DEF AtomicInv, PlacedInv, Disciplined, CompleteInv, StackInv, GateInv, TypeOK
<1>4. Stored' = Stored
  BY <1>1, <1>3 DEF Stored, Durable
<1>5. Atomic!Rollback(t)
  BY <1>2, <1>4 DEF Atomic!Rollback
<1> QED
  BY <1>5 DEF Atomic!Next

\* Every other step is none of AtomicTransactions.
LEMMA ElsewhereStutters ==
  ASSUME AtomicInv, UNCHANGED outcome,
         \/ UNCHANGED <<done, home, landed>>
         \/ \E f \in Flow, s \in Stmt : CallStatement(f, s)
  PROVE  UNCHANGED Atomic!vars
<1> USE ConnAssumption
<1>1. \A u \in Tx : CallbackWrites(u)' = CallbackWrites(u)
  BY DEF CallStatement, CallbackWrites, IssuedIn, AtomicInv, CompleteInv, StackInv, GateInv, TypeOK
<1>2. Stored' = Stored
  BY DEF CallStatement, Stored, Durable, AtomicInv, CompleteInv, StackInv, GateInv, TypeOK
<1> QED
  BY <1>1, <1>2 DEF Atomic!vars

\* The writes of a callback enter the database in the step that commits it, or
\* never do.
THEOREM TransactionsAreAtomic == DisciplinedSpec => ImplementsAtomicTransactions
<1>1. Init => Atomic!Init
  <2> SUFFICES ASSUME Init PROVE Atomic!Init
    OBVIOUS
  <2>1. Stored = {} /\ \A t \in Tx : CallbackWrites(t) = {}
    BY DEF Init, Stored, Durable, CallbackWrites
  <2> QED
    BY <2>1 DEF Init, Atomic!Init
<1>2. ASSUME AtomicInv, [Next]_vars PROVE [Atomic!Next]_(Atomic!vars)
  <2> USE DEF AtomicInv, CompleteInv, StackInv, GateInv, TypeOK
  <2>1. ASSUME NEW t \in Tx, Rollback(t) PROVE Atomic!Next
    BY <1>2, <2>1, RollbackRefines DEF Rollback, CallbackRuns, OutcomeInv, stmtVars
  <2>2. ASSUME NEW t \in Tx, Begin(t) PROVE [Atomic!Next]_(Atomic!vars)
    <3>1. CASE BeginSucceeds(t)
      BY <1>2, <2>2, <3>1, ElsewhereStutters DEF Begin, BeginSucceeds, stmtVars
    <3>2. CASE BeginFails(t)
      BY <1>2, <2>2, <3>2, RollbackRefines DEF Begin, BeginFails, OutcomeInv, stmtVars
    <3> QED
      BY <2>2, <3>1, <3>2 DEF Begin
  <2>3. ASSUME \A f \in Flow : ~Execute(f), \A t \in Tx : ~Commit(t) /\ ~Rollback(t) /\ ~Begin(t)
        PROVE  UNCHANGED Atomic!vars
    <3>1. /\ UNCHANGED outcome
          /\ \/ UNCHANGED <<done, home, landed>>
             \/ \E f \in Flow, s \in Stmt : CallStatement(f, s)
      BY <1>2, <2>3 DEF Next, Continue, Call, Terminated, CallTransaction, Admit, Release,
         CallStatement, WaitAgain, PassStatement, PassMethod, Fork, Finish, vars, txVars,
         stmtVars
    <3> QED
      BY <1>2, <3>1, ElsewhereStutters
  <2> QED
    BY <1>2, <2>1, <2>2, <2>3, ExecuteRefines, CommitRefines
<1>3. [Next /\ Disciplined']_vars => [Next]_vars
  OBVIOUS
<1> QED
  BY <1>1, <1>2, <1>3, PlacedInit, PlacedStep, PTL
  DEF DisciplinedSpec, ImplementsAtomicTransactions, Atomic!Spec
=============================================================================
