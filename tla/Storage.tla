------------------------------- MODULE Storage -------------------------------
(***************************************************************************)
(* RetentionWorker (collection/retention.py) at work on the SQLite store:    *)
(* a task that purges the store at intervals, next to the writes of the      *)
(* collector.  The runtime closes the worker first, with a timeout, and the  *)
(* store last (proxy/runtime.py, _close).                                    *)
(***************************************************************************)
EXTENDS SqliteStore

VARIABLES
  keeper,    \* _worker: "none", "sleeping", "purging", "over"
  stop,      \* _stop
  purge,     \* the purge the worker waits for: {} or a singleton
  ending     \* close() of the worker: "no", "waiting", "closed"

keeperVars == <<keeper, stop, purge, ending>>
vars == <<storeVars, keeperVars>>

Init == /\ StoreInit
        /\ keeper = "none" /\ stop = FALSE /\ purge = {} /\ ending = "no"

-----------------------------------------------------------------------------
Start ==
  /\ keeper = "none" /\ ~stop
  /\ keeper' = "sleeping"
  /\ UNCHANGED <<storeVars, stop, purge, ending>>

(* The interval is over before _stop is set.                                *)
Tick(p) ==
  /\ keeper = "sleeping" /\ ~stop
  /\ Invoke(p)
  /\ keeper' = "purging" /\ purge' = {p}
  /\ UNCHANGED <<stop, ending>>

(* The purge returned or raised, or _stop woke the worker.                  *)
GoOn ==
  /\ \/ keeper = "purging" /\ \A p \in purge : call[p] \in {"refused", "raised", "returned"}
     \/ keeper = "sleeping" /\ stop
  /\ keeper' = IF stop THEN "over" ELSE "sleeping"
  /\ purge' = {}
  /\ UNCHANGED <<storeVars, stop, ending>>

-----------------------------------------------------------------------------
(* close(timeout)                                                           *)
CloseKeeper ==
  /\ ending = "no"
  /\ stop' = TRUE
  /\ ending' = IF keeper = "none" THEN "closed" ELSE "waiting"
  /\ UNCHANGED <<storeVars, keeper, purge>>

KeeperOver ==
  /\ ending = "waiting" /\ keeper = "over"
  /\ ending' = "closed"
  /\ UNCHANGED <<storeVars, keeper, stop, purge>>

(* The time is over: the worker is cancelled, and with it the call of the   *)
(* purge it waits for, not the operation.                                   *)
MayCancel == keeper \in {"sleeping", "purging"}

CancelKeeper ==
  /\ ending = "waiting" /\ MayCancel
  /\ \/ \E p \in purge : Leave(p)
     \/ /\ \A p \in purge : call[p] \notin {"waiting", "awaiting"}
        /\ UNCHANGED storeVars
  /\ keeper' = "over" /\ purge' = {} /\ ending' = "closed"
  /\ UNCHANGED stop

-----------------------------------------------------------------------------
(* The writes of the collector, and queries; their tasks may be cancelled.  *)
Ask(w) == Invoke(w) /\ UNCHANGED keeperVars

Abandon(w) == Leave(w) /\ UNCHANGED keeperVars

MayCloseStore == ending = "closed"

KeeperStep == GoOn \/ KeeperOver \/ CancelKeeper

Next ==
  \/ Start \/ CloseKeeper \/ KeeperStep
  \/ \E p \in Purges : Tick(p)
  \/ \E w \in Writes \union Queries : Ask(w) \/ Abandon(w)
  \/ /\ \/ LoopStep \/ ThreadStep
        \/ MayCloseStore /\ Close
        \/ \E lot \in Lots : Expire(lot)
     /\ UNCHANGED keeperVars

(* The event loop runs what is ready, and the timer of close() fires.       *)
LoopFairness ==
  /\ WF_vars(KeeperStep)
  /\ \A o \in Calls : WF_vars((Resume(o) \/ Completed(o) \/ Return(o)) /\ UNCHANGED keeperVars)
  /\ WF_vars(CloseReturns /\ UNCHANGED keeperVars)

(* A database that ends every operation it begins.                          *)
ThreadFairness == WF_vars(ThreadStep /\ UNCHANGED keeperVars)

Spec     == Init /\ [][Next]_vars
FairSpec == Spec /\ LoopFairness

-----------------------------------------------------------------------------
(* Every variable has its type. *)
TypeOK ==
  /\ closing \in {"no", "queued", "ran", "closed"}
  /\ holder \in SUBSET Calls /\ waiters \in Seq(Calls) /\ lane \in Seq(Calls \union {Closer})
  /\ call \in [Calls -> {"new", "waiting", "awaiting", "left", "refused", "raised", "returned"}]
  /\ work \in [Calls -> {"none", "queued", "fetched", "ok", "failed"}]
  /\ open \in BOOLEAN /\ rows \in Parts /\ expired \in Parts
  /\ asOf \in [Calls -> Views] /\ found \in [Calls -> Parts]
  /\ keeper \in {"none", "sleeping", "purging", "over"} /\ stop \in BOOLEAN
  /\ purge \in SUBSET Purges /\ ending \in {"no", "waiting", "closed"}

InLane == {lane[i] : i \in DOMAIN lane} \ {Closer}

(* The slot is held by one call from its grant until its operation is over, *)
(* although callers leave: nothing else is in the executor, a cancelled     *)
(* waiter takes nothing with it, and nobody waits for a slot nobody has.    *)
SlotNeverLost ==
  /\ Cardinality(holder) <= 1
  /\ InLane \subseteq holder
  /\ waiters # <<>> => holder # {}
  /\ \A o \in holder : call[o] = "waiting" \/ work[o] # "none"

(* close_db() is the last thing the connection is used for: it is neither   *)
(* taken away from an operation nor opened again by a late one.             *)
NothingAfterClose ==
  closing \in {"ran", "closed"} => ~open /\ lane = <<>>

(* The one connection is used by one operation at a time, and not after     *)
(* close(), whoever left and whenever.                                      *)
ConnectionIsExclusive == SlotNeverLost /\ NothingAfterClose

(* The events of the writes that were carried out.                          *)
Written == UNION {Batch[w] : w \in {x \in Writes : work[x] = "ok"}}

(* What was acknowledged stays until it expires, and the rows are those of  *)
(* writes that were carried out: a write that failed leaves no part of its   *)
(* batch, a purge takes nothing early, however they overlap.                 *)
AcknowledgedStays ==
  /\ Acknowledged \subseteq rows.summary \union expired.summary
  /\ Acknowledged \subseteq rows.detail \union expired.detail
  /\ rows.detail \subseteq rows.summary
  /\ rows.summary \subseteq Written

(* The limit of the query q excludes the event e: it is reached by older    *)
(* events that q wants too, which it shows or which expired while it ran.   *)
BeyondLimit(q, e) ==
  LET ranOut == (Written \intersect Wanted[q] \intersect expired.summary) \ asOf[q].expired.summary
  IN  \E page \in SUBSET (found[q].summary \union ranOut) :
        Cardinality(page) = Limit[q] /\ \A d \in page : Created[d] < Created[e]

(* A query shows every event it wants that was acknowledged before it was   *)
(* called and has not expired, unless its limit excludes it: no event that   *)
(* had expired before it was called is shown or takes up room, however late  *)
(* it is purged.  It shows nothing that was never written, and details to    *)
(* those only who may see them, until they expire.                           *)
QueriesSeeAcknowledged ==
  \A q \in Queries : work[q] = "ok" =>
    LET gone == asOf[q].expired
    IN  /\ \A e \in (asOf[q].acknowledged \intersect Wanted[q]) \ expired.summary :
             e \in found[q].summary \/ BeyondLimit(q, e)
        /\ Cardinality(found[q].summary) <= Limit[q]
        /\ found[q].summary \subseteq (Written \intersect Wanted[q]) \ gone.summary
        /\ found[q].detail \subseteq found[q].summary \ gone.detail
        /\ q \in Privileged => found[q].summary \ expired.detail \subseteq found[q].detail
        /\ q \notin Privileged => found[q].detail = {}

(* What the store tells is true: acknowledgements and queries.              *)
AnswersAreTrue == AcknowledgedStays /\ QueriesSeeAcknowledged

-----------------------------------------------------------------------------
Told == [w \in Writes |-> CASE call[w] \in {"waiting", "awaiting"} -> "open"
                            [] call[w] = "returned" -> "acknowledged"
                            [] OTHER -> call[w]]

Contract == INSTANCE StoreContract
              WITH Definite <- TRUE, told <- Told, wrote <- {w \in Writes : work[w] = "ok"},
                   shut <- closing \in {"ran", "closed"}

(* The store keeps its contract: writes are atomic, acknowledged only after *)
(* they took effect, and never take effect after they raised or after       *)
(* close(), whoever was cancelled meanwhile.                                *)
KeepsContract == Contract!Spec

(* close() of the retention worker returns even if the database hangs; if   *)
(* operations end, every call ends and close() of the store returns.         *)
CallsEnd ==
  /\ ending = "waiting" ~> ending = "closed"
  /\ ThreadFairness =>
       /\ <>[](\A o \in Calls : call[o] \notin {"waiting", "awaiting"})
       /\ closing = "queued" ~> closing = "closed"
=============================================================================
