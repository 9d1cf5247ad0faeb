------------------------------- MODULE Handover -------------------------------
(***************************************************************************)
(* Which page owns the browser database: claimDatabase (worker/client.ts)  *)
(* over the Web Locks API and a BroadcastChannel, composed with the pages' *)
(* clients and workers (SqliteWorker).                                     *)
(*                                                                         *)
(* A page that gets the lock connects its worker and registers its         *)
(* onTakeoverRequested handler in the same job, as the header of client.ts *)
(* shows; the handler calls the client's release().  A page that does not  *)
(* get it may ask for it (takeOver): it requests the lock again, waiting,  *)
(* and broadcasts "takeover".                                              *)
(***************************************************************************)
EXTENDS SqliteWorker

CONSTANT MaxAsks    \* bound: calls of takeOver() per page

VARIABLES
  lock,       \* the page that holds the Web Lock
  waiters,    \* the lock's queue of requests
  role,       \* what claimDatabase came to for the page
  heard,      \* takeover messages on their way to each page
  asks,       \* calls of takeOver() per page
  handing,    \* the takeover handler awaits the client's release()
  orderly     \* history: no takeover was heard during a release, and no worker
              \* that lives has reported an error

ownerVars  == <<lock, waiters, role, heard, asks, handing>>
systemVars == <<workerVars, ownerVars>>
vars       == <<systemVars, orderly>>

Role == {"new", "refused", "waiting", "owner", "gaveUp", "gone"}

TypeOK ==
  /\ WorkerTypeOK
  /\ lock    \in Page \cup {None}
  /\ waiters \in Seq(Page)
  /\ role    \in [Page -> Role]
  /\ heard   \in [Page -> Nat]
  /\ asks    \in [Page -> 0 .. MaxAsks]
  /\ handing \in [Page -> BOOLEAN]
  /\ orderly \in BOOLEAN

Init ==
  /\ WorkerInit
  /\ lock    = None
  /\ waiters = <<>>
  /\ role    = [p \in Page |-> "new"]
  /\ heard   = [p \in Page |-> 0]
  /\ asks    = [p \in Page |-> 0]
  /\ handing = [p \in Page |-> FALSE]
  /\ orderly = TRUE

-----------------------------------------------------------------------------

\* The page has the lock: it starts its worker and listens for takeovers.
Own(p) ==
  /\ lock'   = p
  /\ role'   = [role EXCEPT ![p] = "owner"]
  /\ worker' = [worker EXCEPT ![p] = "alive"]
  /\ UNCHANGED <<clientVars, portVars, hand, stage, context, released, effect>>

\* The page's BroadcastChannel is closed: no message reaches it any more.
CloseChannel(p) == heard' = [heard EXCEPT ![p] = 0]

\* release() of an ownership: the channel is closed and the lock let go, once.
LetGo(p) ==
  /\ lock' = IF lock = p THEN None ELSE lock
  /\ role' = [role EXCEPT ![p] = "gone"]
  /\ CloseChannel(p)

\* claimDatabase: the lock is free ...
Claim(p) ==
  /\ role[p] = "new" /\ lock = None /\ waiters = <<>>
  /\ Own(p)
  /\ UNCHANGED <<waiters, heard, asks, handing>>

\* ... or was not within the grace.
ClaimRefused(p) ==
  /\ role[p] = "new" /\ (lock # None \/ waiters # <<>>)
  /\ role' = [role EXCEPT ![p] = "refused"]
  /\ UNCHANGED <<workerVars, lock, waiters, heard, asks, handing>>

\* The page's BroadcastChannel is open.
Tuned(p) == role[p] \in {"refused", "waiting", "owner"}

\* takeOver(): a waiting lock request, and the message to every other page.
Ask(p) ==
  /\ role[p] \in {"refused", "waiting"} /\ asks[p] < MaxAsks
  /\ role'    = [role EXCEPT ![p] = "waiting"]
  /\ asks'    = [asks EXCEPT ![p] = @ + 1]
  /\ waiters' = Append(waiters, p)
  /\ heard'   = [q \in Page |-> IF q # p /\ Tuned(q) THEN heard[q] + 1 ELSE heard[q]]
  /\ UNCHANGED <<workerVars, lock, handing>>

\* release() of a page that is not the owner closes its channel and no more:
\* its lock request stays.
GiveUp(p) ==
  /\ role[p] \in {"refused", "waiting"}
  /\ role' = [role EXCEPT ![p] = "gaveUp"]
  /\ CloseChannel(p)
  /\ UNCHANGED <<workerVars, lock, waiters, asks, handing>>

\* The browser grants the free lock to the request at the head of the queue:
\* to a page that waits, or to one that does not care any more.
Grant ==
  /\ lock = None /\ waiters # <<>>
  /\ waiters' = Tail(waiters)
  /\ LET next == Head(waiters) IN
       \/ role[next] = "waiting" /\ Own(next)
       \/ role[next] # "waiting" /\ lock' = next /\ UNCHANGED <<role, workerVars>>
  /\ UNCHANGED <<heard, asks, handing>>

\* A takeover message reaches a page.
Hear(p) == heard[p] > 0 /\ heard' = [heard EXCEPT ![p] = @ - 1]

\* Mutant: the lock goes before the handler has run.
LetGoFirst(p) ==
  /\ heard[p] > 0 /\ role[p] = "owner" /\ ~closed[p]
  /\ StartRelease(p)
  /\ LetGo(p)
  /\ UNCHANGED <<waiters, asks, handing>>

\* The owner's handler calls the client's release() and awaits it.
HandlerDrains(p) ==
  /\ Hear(p) /\ role[p] = "owner" /\ ~closed[p]
  /\ StartRelease(p)
  /\ handing' = [handing EXCEPT ![p] = TRUE]
  /\ UNCHANGED <<lock, waiters, role, asks>>

\* release() of a client that is closed already resolves at once, and the lock
\* goes.
HandlerReturns(p) ==
  /\ heard[p] > 0 /\ role[p] = "owner" /\ closed[p]
  /\ LetGo(p)
  /\ UNCHANGED <<workerVars, waiters, asks, handing>>

\* Nobody listens on the channel.
NobodyListens(p) ==
  /\ Hear(p) /\ role[p] # "owner"
  /\ UNCHANGED <<workerVars, lock, waiters, role, asks, handing>>

\* Mutant: nothing follows the handler.
LockKept(p) == ReleaseDone(p) /\ UNCHANGED ownerVars

\* The client's release() resolves; a handler that awaits it returns, and the
\* lock goes.
Resolve(p) ==
  /\ ReleaseDone(p)
  /\ IF handing[p] THEN LetGo(p) ELSE UNCHANGED <<lock, role, heard>>
  /\ UNCHANGED <<waiters, asks, handing>>

\* The app gives up ownership once its client's release() has ended (on a client
\* that failed it resolves at once), or its worker is dead.
OwnerLeaves(p) ==
  /\ role[p] = "owner" /\ (worker[p] # "alive" \/ (closed[p] /\ releasing[p] # "waiting"))
  /\ LetGo(p)
  /\ UNCHANGED <<workerVars, waiters, asks, handing>>

\* The tab is closed or reloaded: the browser stops its worker, drops its lock
\* and its requests.
Unload(p) ==
  /\ role[p] # "gone"
  /\ Stop(p, "terminated")
  /\ closed'  = [closed EXCEPT ![p] = TRUE]
  /\ pending' = [pending EXCEPT ![p] = {}]
  /\ role'    = [role EXCEPT ![p] = "gone"]
  /\ lock'    = IF lock = p THEN None ELSE lock
  /\ waiters' = SelectSeq(waiters, LAMBDA q : q # p)
  /\ CloseChannel(p)
  /\ UNCHANGED <<releasing, sender, result, outbox, released, effect, asks, handing>>

Program(p) ==
  \/ Claim(p) \/ ClaimRefused(p) \/ Ask(p) \/ GiveUp(p) \/ OwnerLeaves(p) \/ Unload(p)
  \/ /\ \/ \E u \in Unit : Call(p, u) \/ CallRefused(p, u) \/ Timeout(p, u)
        \/ StartRelease(p) \/ Dispose(p) \/ Crash(p)
     /\ UNCHANGED ownerVars

Continue(p) ==
  \/ HandlerDrains(p) \/ HandlerReturns(p) \/ NobodyListens(p) \/ Resolve(p)
  \/ (Host(p) \/ Receive(p) \/ TransportFails(p)) /\ UNCHANGED ownerVars

Step == Grant \/ \E p \in Page : Program(p) \/ Continue(p)

-----------------------------------------------------------------------------
(* Two things the lock does not survive. *)

\* No takeover message reaches a page while its client's release() is under
\* way: the second release() resolves at once and the lock goes too early.
OneReleaseAtATime ==
  \A p \in Page : HandlerReturns(p) => releasing[p] # "waiting"

\* No worker that lives reports an error (or the page listens for the event too
\* and disposes of its client there and then).  Otherwise the client is closed
\* over a worker that can write, release() resolves at once, and a single
\* takeover takes the lock away.
NoErrorOfALiveWorker ==
  \A p \in Page : TransportFails(p) => worker[p] = "crashed"

Next ==
  /\ Step
  /\ orderly' = (orderly /\ OneReleaseAtATime /\ NoErrorOfALiveWorker)

Spec == Init /\ [][Next]_vars

\* The worker's queue moves, a unit ends, answers and messages arrive, the
\* browser reports a crash and grants its locks.  Nothing is assumed of what the
\* app calls, and no worker that lives need ever report an error.
Fairness ==
  /\ WF_systemVars(Grant)
  /\ \A p \in Page :
       /\ WF_systemVars(Host(p) /\ UNCHANGED ownerVars)
       /\ WF_systemVars((Receive(p) /\ UNCHANGED ownerVars) \/ Resolve(p))
       /\ WF_systemVars(worker[p] = "crashed" /\ TransportFails(p) /\ UNCHANGED ownerVars)
       /\ WF_systemVars(HandlerDrains(p) \/ HandlerReturns(p) \/ NobodyListens(p))

FairSpec == Spec /\ Fairness

\* What a single takeover does: no second one during a release, and no app
\* gives the lock up unasked (run worker_takeover).
SingleTakeovers ==
  Init /\ [][Next /\ OneReleaseAtATime /\ \A p \in Page : OwnerLeaves(p) => HandlerReturns(p)]_vars

-----------------------------------------------------------------------------
(* Properties. *)

\* Only the page that holds the lock may have a worker that can still write:
\* an owner has stopped its writes for good before another page owns the
\* database (worker/client.ts, 3 and 187-190).  This holds while no takeover
\* is heard during a release and no worker that lives reports an error.
OneWriter == orderly => \A p \in Page : CanWrite(p) => lock = p

\* A unit of work runs only in the worker of the page that holds the lock ("The
\* owner stops its writes, and only then releases the lock", worker/client.ts,
\* 189-191).
OwnerRuns == \A p \in Page : stage[p] = "running" => lock = p

\* Every call is settled: an answer, a timeout or a failed worker ends it, and
\* nothing waits forever (unless its page is gone).
CallSettles ==
  \A u \in Unit, p \in Page : u \in pending[p] ~> u \notin pending[p]

\* The handover broke off: the owner's release() rejected, and its handler
\* with it, and the lock stays until the page unloads.
BrokeOff == \E p \in Page : role[p] = "owner" /\ releasing[p] = "rejected"

\* A page that asked for the database gets it, or gives up, unless the
\* handover breaks off or the page that has the lock does not want it any more.
TakeoverCompletes ==
  \A p \in Page :
    role[p] = "waiting" ~>
      \/ role[p] # "waiting"
      \/ BrokeOff
      \/ lock # None /\ role[lock] # "owner"
=============================================================================
