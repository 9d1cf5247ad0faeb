----------------------------- MODULE SqliteWorker -----------------------------
(***************************************************************************)
(* A browser page and the worker that owns its database: the client of     *)
(* connectSqliteWorker (worker/client.ts), the host of serveSqliteWorker   *)
(* (worker/host.ts) and the messages between them (worker/protocol.ts).    *)
(*                                                                         *)
(* A page is one load of a tab: one client over one worker.  The client    *)
(* keeps the calls that have no answer yet and settles each one once; the  *)
(* host runs the messages one at a time in the order they were posted.     *)
(* A unit of work is one transaction here: it commits or it throws with    *)
(* nothing written.  (A unit that commits one and throws in the next is    *)
(* still reported "not-applied"; see the README.)  Every message can be    *)
(* posted and every call read: postMessage does not throw.                 *)
(*                                                                         *)
(* This module has the actions of one page; Handover composes the pages.   *)
(***************************************************************************)
EXTENDS Integers, Sequences

CONSTANTS
  Page,       \* loads of a tab, each with a client and a worker
  Unit,       \* calls of units of work
  Release,    \* the release message
  None        \* no message, no page

ASSUME WorkerAssumption ==
  Release \notin Unit /\ None \notin Page \cup Unit \cup {Release}

VARIABLES
  \* the client
  closed,     \* it refuses new calls
  pending,    \* the messages that wait for an answer
  releasing,  \* its release(): "none", "waiting", "resolved", "rejected"
  sender,     \* the page that made each call
  result,     \* how each call was settled
  \* the two directions of the port, and the worker
  inbox,      \* messages posted and not yet taken by the host's queue
  outbox,     \* answers posted and not yet received
  worker,     \* "none", "alive", "crashed" or "terminated"
  \* the host
  hand,       \* the message being handled
  stage,      \* how far handle() has come; "ok" and "failed": its answer
  context,    \* whether `open` has returned a database that is not closed
  released,   \* it serves no more calls
  \* the database
  effect      \* what each unit has written: "none" or "applied"

clientVars == <<closed, pending, releasing, sender, result>>
portVars   == <<inbox, outbox>>
hostVars   == <<worker, hand, stage, context, released, effect>>
workerVars == <<clientVars, portVars, hostVars>>

Message == Unit \cup {Release}
Answer  == [id : Message, ok : BOOLEAN]

WorkerTypeOK ==
  /\ closed    \in [Page -> BOOLEAN]
  /\ pending   \in [Page -> SUBSET Message]
  /\ releasing \in [Page -> {"none", "waiting", "resolved", "rejected"}]
  /\ sender    \in [Unit -> Page \cup {None}]
  /\ result    \in [Unit -> {"none", "ok", "not-applied", "unknown"}]
  /\ inbox     \in [Page -> Seq(Message)]
  /\ outbox    \in [Page -> Seq(Answer)]
  /\ worker    \in [Page -> {"none", "alive", "crashed", "terminated"}]
  /\ hand      \in [Page -> Message \cup {None}]
  /\ stage     \in [Page -> {"idle", "opening", "running", "closing", "ok", "failed"}]
  /\ context   \in [Page -> {"none", "open"}]
  /\ released  \in [Page -> BOOLEAN]
  /\ effect    \in [Unit -> {"none", "applied"}]

WorkerInit ==
  /\ closed    = [p \in Page |-> FALSE]
  /\ pending   = [p \in Page |-> {}]
  /\ releasing = [p \in Page |-> "none"]
  /\ sender    = [u \in Unit |-> None]
  /\ result    = [u \in Unit |-> "none"]
  /\ inbox     = [p \in Page |-> <<>>]
  /\ outbox    = [p \in Page |-> <<>>]
  /\ worker    = [p \in Page |-> "none"]
  /\ hand      = [p \in Page |-> None]
  /\ stage     = [p \in Page |-> "idle"]
  /\ context   = [p \in Page |-> "none"]
  /\ released  = [p \in Page |-> FALSE]
  /\ effect    = [u \in Unit |-> "none"]

-----------------------------------------------------------------------------
(* The client. *)

\* send(): the message waits for its answer and is posted.
Send(p, m) ==
  /\ pending' = [pending EXCEPT ![p] = @ \cup {m}]
  /\ inbox'   = [inbox EXCEPT ![p] = IF worker[p] = "alive" THEN Append(@, m) ELSE @]

\* call(), on a client that is open.
Call(p, u) ==
  /\ worker[p] # "none" /\ sender[u] = None /\ ~closed[p]
  /\ sender' = [sender EXCEPT ![u] = p]
  /\ Send(p, u)
  /\ UNCHANGED <<closed, releasing, result, outbox, hostVars>>

\* ... and on one that is closed.
CallRefused(p, u) ==
  /\ worker[p] # "none" /\ sender[u] = None /\ closed[p]
  /\ sender' = [sender EXCEPT ![u] = p]
  /\ result' = [result EXCEPT ![u] = "not-applied"]
  /\ UNCHANGED <<closed, pending, releasing, portVars, hostVars>>

\* The timer of a call with timeoutMs fires before its answer arrives.
Timeout(p, u) ==
  /\ u \in pending[p] /\ u \in Unit
  /\ pending' = [pending EXCEPT ![p] = @ \ {u}]
  /\ result'  = [result EXCEPT ![u] = "unknown"]
  /\ UNCHANGED <<closed, releasing, sender, portVars, hostVars>>

\* Mutant: the errors keep the constructor's default outcome.
FailAllAsRefused(p) ==
  /\ closed'    = [closed EXCEPT ![p] = TRUE]
  /\ result'    = [u \in Unit |-> IF u \in pending[p] THEN "not-applied" ELSE result[u]]
  /\ releasing' = [releasing EXCEPT ![p] = IF Release \in pending[p] THEN "rejected" ELSE @]
  /\ pending'   = [pending EXCEPT ![p] = {}]

\* failAll(): every call that waits is settled as unknown, and so is a
\* release.
FailAll(p) ==
  /\ closed'    = [closed EXCEPT ![p] = TRUE]
  /\ result'    = [u \in Unit |-> IF u \in pending[p] THEN "unknown" ELSE result[u]]
  /\ releasing' = [releasing EXCEPT ![p] = IF Release \in pending[p] THEN "rejected" ELSE @]
  /\ pending'   = [pending EXCEPT ![p] = {}]

\* The worker stops in the middle of whatever it does: a transaction that has
\* not committed is lost.
Stop(p, how) ==
  /\ worker'  = [worker EXCEPT ![p] = how]
  /\ inbox'   = [inbox EXCEPT ![p] = <<>>]
  /\ hand'    = [hand EXCEPT ![p] = None]
  /\ stage'   = [stage EXCEPT ![p] = "idle"]
  /\ context' = [context EXCEPT ![p] = "none"]

\* The client has not yet been told that its worker failed, or has calls to fail.
Unfailed(p) == ~closed[p] \/ pending[p] # {}

\* Mutant: the pending calls are forgotten instead of failed.
FailureIgnored(p) ==
  /\ worker[p] \in {"alive", "crashed"} /\ ~closed[p]
  /\ closed' = [closed EXCEPT ![p] = TRUE]
  /\ UNCHANGED <<pending, releasing, sender, result, portVars, hostVars>>

\* The port's `error` or `messageerror` event.  The worker has crashed; or it
\* lives: something in it threw and nobody caught it, or an answer of it could
\* not be read.  Only the client stops then: nothing terminates the worker,
\* which goes on with the messages it has.
TransportFails(p) ==
  /\ worker[p] \in {"alive", "crashed"} /\ Unfailed(p)
  /\ FailAll(p)
  /\ UNCHANGED <<sender, portVars, hostVars>>

\* dispose().
Dispose(p) ==
  /\ worker[p] # "none"
  /\ FailAll(p)
  /\ Stop(p, "terminated")
  /\ UNCHANGED <<sender, outbox, released, effect>>

\* Mutant: release() does not await the worker's answer.
ReleaseNotAwaited(p) ==
  /\ worker[p] # "none" /\ ~closed[p]
  /\ closed'    = [closed EXCEPT ![p] = TRUE]
  /\ releasing' = [releasing EXCEPT ![p] = "resolved"]
  /\ Stop(p, "terminated")
  /\ UNCHANGED <<pending, sender, result, outbox, released, effect>>

\* release() on an open client: no new calls, and the release message goes
\* behind the accepted ones.  (On a closed client it resolves at once.)
StartRelease(p) ==
  /\ worker[p] # "none" /\ ~closed[p]
  /\ closed'    = [closed EXCEPT ![p] = TRUE]
  /\ releasing' = [releasing EXCEPT ![p] = "waiting"]
  /\ Send(p, Release)
  /\ UNCHANGED <<sender, result, outbox, hostVars>>

\* The answer at the head of the port, while someone waits for it.
Answered(p, id, ok) ==
  /\ outbox[p] # <<>> /\ Head(outbox[p]) = [id |-> id, ok |-> ok]
  /\ id \in pending[p]
  /\ outbox'  = [outbox EXCEPT ![p] = Tail(@)]
  /\ pending' = [pending EXCEPT ![p] = @ \ {id}]

\* A call is answered.
Settle(p) ==
  /\ \E u \in Unit, ok \in BOOLEAN :
       /\ Answered(p, u, ok)
       /\ result' = [result EXCEPT ![u] = IF ok THEN "ok" ELSE "not-applied"]
  /\ UNCHANGED <<closed, releasing, sender, inbox, hostVars>>

\* The release is answered: the worker is terminated and release() resolves.
ReleaseDone(p) ==
  /\ Answered(p, Release, TRUE)
  /\ releasing' = [releasing EXCEPT ![p] = "resolved"]
  /\ worker'    = [worker EXCEPT ![p] = "terminated"]
  /\ UNCHANGED <<closed, sender, result, inbox, hand, stage, context, released, effect>>

\* The worker could not close its database: release() rejects.
ReleaseFailed(p) ==
  /\ Answered(p, Release, FALSE)
  /\ releasing' = [releasing EXCEPT ![p] = "rejected"]
  /\ UNCHANGED <<closed, sender, result, inbox, hostVars>>

\* An answer nobody waits for any more.
IgnoreAnswer(p) ==
  /\ outbox[p] # <<>> /\ Head(outbox[p]).id \notin pending[p]
  /\ outbox' = [outbox EXCEPT ![p] = Tail(@)]
  /\ UNCHANGED <<clientVars, inbox, hostVars>>

-----------------------------------------------------------------------------
(* The host. *)

\* The queue's next message, when the last one has been answered.
Take(p, m) ==
  /\ worker[p] = "alive" /\ stage[p] = "idle"
  /\ inbox[p] # <<>> /\ Head(inbox[p]) = m
  /\ inbox' = [inbox EXCEPT ![p] = Tail(@)]
  /\ hand'  = [hand EXCEPT ![p] = m]

\* A release: from now on every call is refused, and an open database closed.
TakeRelease(p) ==
  /\ Take(p, Release)
  /\ released' = [released EXCEPT ![p] = TRUE]
  /\ stage'    = [stage EXCEPT ![p] = IF context[p] = "open" THEN "closing" ELSE "ok"]
  /\ UNCHANGED <<clientVars, outbox, worker, context, effect>>

\* A call: refused after a release; otherwise the database is opened first if
\* it is not open.
TakeCall(p) ==
  /\ \E u \in Unit : Take(p, u)
  /\ stage' = [stage EXCEPT ![p] = IF released[p] THEN "failed"
                                   ELSE IF context[p] = "open" THEN "running" ELSE "opening"]
  /\ UNCHANGED <<clientVars, outbox, worker, context, released, effect>>

\* A step of handle() that only moves it on.
Proceed(p, from, to) ==
  /\ worker[p] = "alive" /\ stage[p] = from
  /\ stage' = [stage EXCEPT ![p] = to]
  /\ UNCHANGED <<clientVars, portVars, worker, hand, released>>

\* open() returns, or fails: the next call will try again.
Opened(p) ==
  /\ Proceed(p, "opening", "running")
  /\ context' = [context EXCEPT ![p] = "open"]
  /\ UNCHANGED effect

OpenFails(p) == Proceed(p, "opening", "failed") /\ UNCHANGED <<context, effect>>

\* The unit commits, or throws.
UnitCommits(p) ==
  /\ Proceed(p, "running", "ok")
  /\ effect' = [effect EXCEPT ![hand[p]] = "applied"]
  /\ UNCHANGED context

UnitThrows(p) == Proceed(p, "running", "failed") /\ UNCHANGED <<context, effect>>

\* close() returns, or throws; the host has let go of the database either way.
Close(p) ==
  /\ \E to \in {"ok", "failed"} : Proceed(p, "closing", to)
  /\ context' = [context EXCEPT ![p] = "none"]
  /\ UNCHANGED effect

\* Mutant: the message is let go before its answer is built.
ReplyWithoutId(p) ==
  /\ worker[p] = "alive" /\ stage[p] \in {"ok", "failed"}
  /\ outbox' = [outbox EXCEPT ![p] = Append(@, [id |-> None, ok |-> stage[p] = "ok"])]
  /\ hand'   = [hand EXCEPT ![p] = None]
  /\ stage'  = [stage EXCEPT ![p] = "idle"]
  /\ UNCHANGED <<clientVars, inbox, worker, context, released, effect>>

\* The answer is posted.
Reply(p) ==
  /\ worker[p] = "alive" /\ stage[p] \in {"ok", "failed"}
  /\ outbox' = [outbox EXCEPT ![p] = Append(@, [id |-> hand[p], ok |-> stage[p] = "ok"])]
  /\ hand'   = [hand EXCEPT ![p] = None]
  /\ stage'  = [stage EXCEPT ![p] = "idle"]
  /\ UNCHANGED <<clientVars, inbox, worker, context, released, effect>>

\* The worker dies.
Crash(p) ==
  /\ worker[p] = "alive"
  /\ Stop(p, "crashed")
  /\ UNCHANGED <<clientVars, outbox, released, effect>>

\* What the worker and the page's event loop do on their own.
Host(p) ==
  \/ TakeRelease(p) \/ TakeCall(p)
  \/ Opened(p) \/ OpenFails(p) \/ UnitCommits(p) \/ UnitThrows(p)
  \/ Close(p) \/ Reply(p)

\* Answers, apart from the one that ends a release.
Receive(p) == Settle(p) \/ ReleaseFailed(p) \/ IgnoreAnswer(p)

-----------------------------------------------------------------------------
(* Properties. *)

\* The worker may still write: it runs, and has a database or would open one.
CanWrite(p) == worker[p] = "alive" /\ (~released[p] \/ context[p] = "open")

\* What a call is told is true and stays true: "ok" only of work that is
\* committed, "not-applied" only of work that nothing will commit any more
\* (SqliteWorkerError.outcome, protocol.ts).
OutcomesAreTrue ==
  \A u \in Unit : /\ result[u] = "ok" => effect[u] = "applied"
                  /\ result[u] = "not-applied" => effect[u] = "none"

\* release() of an open client resolves only when every accepted call has been
\* settled, and then the worker never writes again ("wait for accepted ones,
\* close the database, terminate the worker").  (Of a closed one it resolves at
\* once: Handover's OwnerRuns and OneWriter say what comes of that.)
ReleaseDrains ==
  \A p \in Page : releasing[p] = "resolved" =>
    ~CanWrite(p) /\ \A u \in Unit : sender[u] = p => result[u] # "none"
=============================================================================
