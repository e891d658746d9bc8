----------------------------- MODULE SqliteStore -----------------------------
(***************************************************************************)
(* SQLiteEventStore (collection/sqlite.py): a semaphore that admits one      *)
(* operation at a time to an executor with one thread, callers that may be   *)
(* cancelled while their operation runs on, and a close() that puts the      *)
(* closing of the connection behind the operation that runs.                 *)
(*                                                                         *)
(* A coroutine's code between two awaits is one action; what the thread does *)
(* for one operation is one action, since no other thread has the            *)
(* connection, except that the clock goes on while a query is at work.  An   *)
(* event is a row with a summary and a detail, which expires first; the      *)
(* filters of a query are the set of events that match them.                 *)
(*                                                                         *)
(* An operator whose name has a suffix after "_" is a plausible bug, used by *)
(* no definition: it stands for the operator it precedes when the properties *)
(* are tested against it.                                                    *)
(***************************************************************************)
EXTENDS Naturals, Sequences, FiniteSets, SequencesExt

CONSTANTS
  Events,      \* ids of the events
  Writes,      \* calls of write_batch()
  Purges,      \* calls of purge_expired()
  Queries,     \* calls of query() that the checks of its arguments let through
  Batch,       \* Batch[w]: the events of the write w
  Wanted,      \* Wanted[q]: the events that match the filters of the query q
  Limit,       \* Limit[q]: query.limit
  Created,     \* Created[e]: the place of e in the order of created_at and event_id
  Privileged,  \* the queries with access.allow_details
  PurgeSize,   \* batch_size of purge_expired()
  Lots,        \* the sets of events that expire together
  Plans        \* a bound: the sets of calls that are made in one behaviour

Calls  == Writes \union Purges \union Queries
Closer == "close_db"

ASSUME StoreAssumption ==
  /\ Writes \intersect Purges = {} /\ Queries \intersect (Writes \union Purges) = {}
  /\ Batch \in [Writes -> SUBSET Events] /\ Wanted \in [Queries -> SUBSET Events]
  /\ Limit \in [Queries -> Nat \ {0}] /\ Privileged \subseteq Queries
  /\ IsFiniteSet(Events) /\ Created \in [Events -> Nat]
  /\ \A d, e \in Events : Created[d] = Created[e] => d = e
  /\ PurgeSize \in Nat \ {0}
  /\ Lots \subseteq SUBSET Events /\ Plans \subseteq SUBSET Calls
  /\ Closer \notin Calls

VARIABLES
  closing,   \* _closing: "no", "queued", "ran" (in the thread), "closed"
  holder,    \* the call that has the slot: {} or a singleton
  waiters,   \* the calls that wait for the slot, in order
  lane,      \* the queue of the executor; its head is what the thread does
  call,      \* the caller of each call: "new", "waiting" for the slot, "awaiting" the
             \* operation, "left" (cancelled), "refused", "raised", "returned"
  work,      \* the operation of each call: "none", "queued", "fetched" (the rows of a
             \* query), "ok", "failed"
  open,      \* _connection is not None
  rows,      \* the events and the details in the table
  expired,   \* external: those past summary_expires_at, detail_expires_at
  asOf,      \* what was so when a purge or query was called: the events and details
             \* that had expired and, for a query, the events that were acknowledged
  found      \* the result of a query; the expired events and details left by a purge

slotVars == <<holder, waiters, lane>>
dataVars == <<open, rows, found>>
storeVars == <<closing, slotVars, call, work, dataVars, expired, asOf>>

Parts   == [summary : SUBSET Events, detail : SUBSET Events]
Nothing == [summary |-> {}, detail |-> {}]
Views   == [acknowledged : SUBSET Events, expired : Parts]

(* a without b; a detail goes with its event.                               *)
Without(a, b) == [summary |-> a.summary \ b.summary,
                  detail  |-> a.detail \ (b.summary \union b.detail)]

With(a, events) == [summary |-> a.summary \union events, detail |-> a.detail \union events]

-----------------------------------------------------------------------------
StoreInit ==
  /\ closing = "no" /\ holder = {} /\ waiters = <<>> /\ lane = <<>>
  /\ call = [o \in Calls |-> "new"] /\ work = [o \in Calls |-> "none"]
  /\ open = FALSE /\ rows = Nothing /\ expired = Nothing
  /\ asOf = [o \in Calls |-> [acknowledged |-> {}, expired |-> Nothing]]
  /\ found = [o \in Calls |-> Nothing]

(* The clock passes expiry times; a detail never outlives its event.        *)
Expire(lot) ==
  /\ \/ /\ ~(lot \subseteq expired.detail)
        /\ expired' = [expired EXCEPT !.detail = @ \union lot]
     \/ /\ lot \subseteq expired.detail /\ ~(lot \subseteq expired.summary)
        /\ expired' = [expired EXCEPT !.summary = @ \union lot]
  /\ UNCHANGED <<closing, slotVars, call, work, dataVars, asOf>>

-----------------------------------------------------------------------------
(* _run()                                                                   *)

(* The slot goes to the longest waiter, or to nobody.                       *)
PassSlot(line) ==
  /\ holder' = IF line = <<>> THEN {} ELSE {Head(line)}
  /\ waiters' = IF line = <<>> THEN <<>> ELSE Tail(line)

(* From the slot to run_in_executor, unless the store is closing by now.    *)
Submitted(o) ==
  /\ lane' = Append(lane, o)
  /\ call' = [call EXCEPT ![o] = "awaiting"]
  /\ work' = [work EXCEPT ![o] = "queued"]

Acknowledged == UNION {Batch[w] : w \in {x \in Writes : call[x] = "returned"}}

Invoke(o) ==
  /\ call[o] = "new" /\ \E P \in Plans : {o} \union {x \in Calls : call[x] # "new"} \subseteq P
  /\ asOf' = IF o \in Writes THEN asOf
             ELSE [asOf EXCEPT ![o] =
                     [acknowledged |-> IF o \in Queries THEN Acknowledged ELSE {},
                      expired |-> expired]]
  /\ IF closing # "no"
     THEN call' = [call EXCEPT ![o] = "refused"] /\ UNCHANGED <<slotVars, work>>
     ELSE IF holder = {}
     THEN Submitted(o) /\ holder' = {o} /\ UNCHANGED waiters
     ELSE /\ call' = [call EXCEPT ![o] = "waiting"]
          /\ waiters' = Append(waiters, o)
          /\ UNCHANGED <<holder, lane, work>>
  /\ UNCHANGED <<closing, dataVars, expired>>

(* The slot was passed to a waiter, whose task runs now.                    *)
Resume(o) ==
  /\ call[o] = "waiting" /\ o \in holder
  /\ IF closing # "no"
     THEN call' = [call EXCEPT ![o] = "refused"] /\ PassSlot(waiters) /\ UNCHANGED <<lane, work>>
     ELSE Submitted(o) /\ UNCHANGED <<holder, waiters>>
  /\ UNCHANGED <<closing, dataVars, expired, asOf>>

(* The caller is cancelled.  A waiter that has the slot already passes it   *)
(* on; an operation that was submitted keeps it and runs on.                *)
LeavesLine(o) ==
  /\ \E i \in DOMAIN waiters : waiters[i] = o /\ waiters' = RemoveAt(waiters, i)
  /\ UNCHANGED holder

SlotAfterLeaving_Kept(o) ==
  IF call[o] = "awaiting" \/ o \in holder THEN UNCHANGED <<holder, waiters>> ELSE LeavesLine(o)

SlotAfterLeaving_Freed(o) ==
  IF o \in holder THEN PassSlot(waiters)
  ELSE IF call[o] = "awaiting" THEN UNCHANGED <<holder, waiters>> ELSE LeavesLine(o)

SlotAfterLeaving(o) ==
  IF call[o] = "awaiting" THEN UNCHANGED <<holder, waiters>>
  ELSE IF o \in holder THEN PassSlot(waiters) ELSE LeavesLine(o)

Leave(o) ==
  /\ call[o] \in {"waiting", "awaiting"}
  /\ call' = [call EXCEPT ![o] = "left"]
  /\ SlotAfterLeaving(o)
  /\ UNCHANGED <<closing, lane, work, dataVars, expired, asOf>>

(* completed(): the future of the operation is done, whoever waits for it.  *)
Completed(o) ==
  /\ o \in holder /\ work[o] \in {"ok", "failed"}
  /\ PassSlot(waiters)
  /\ UNCHANGED <<closing, lane, call, work, dataVars, expired, asOf>>

(* asyncio.wait returns after the callback that was added before its own.   *)
Return(o) ==
  /\ call[o] = "awaiting" /\ work[o] \in {"ok", "failed"} /\ o \notin holder
  /\ call' = [call EXCEPT ![o] = IF work[o] = "ok" THEN "returned" ELSE "raised"]
  /\ UNCHANGED <<closing, slotVars, work, dataVars, expired, asOf>>

-----------------------------------------------------------------------------
(* The thread                                                               *)

(* The thread ends the operation o; the connection may be opened by it.     *)
Runs(o, result) ==
  /\ lane # <<>> /\ Head(lane) = o
  /\ lane' = Tail(lane)
  /\ work' = [work EXCEPT ![o] = result]
  /\ open' \in IF result = "ok" THEN {TRUE} ELSE {open, TRUE}
  /\ UNCHANGED <<closing, holder, waiters, call, expired, asOf>>

(* An event that is there already, with its detail or without, is left; what*)
(* a failed transaction did is rolled back.                                 *)
WriteRuns(w, result) ==
  /\ w \in Writes /\ Runs(w, result)
  /\ rows' = IF result = "ok" THEN With(rows, Batch[w] \ rows.summary) ELSE rows
  /\ UNCHANGED found

(* LIMIT: what a statement takes of the rows it is about.                   *)
Limited(due, size) == {S \in SUBSET due : \/ Cardinality(S) = size
                                         \/ (Cardinality(S) < size /\ S = due)}

(* A purge deletes a bounded number of the details, then of the events, that*)
(* had expired when it was called; if those that are left cannot be counted,*)
(* it raises although the deletion is committed.                            *)
PurgeRuns(p, result) ==
  /\ p \in Purges /\ Runs(p, result)
  /\ \/ \E details \in Limited(rows.detail \intersect asOf[p].expired.detail, PurgeSize),
          events \in Limited(rows.summary \intersect asOf[p].expired.summary, PurgeSize) :
          LET left == Without(rows, [summary |-> events, detail |-> details])
              due  == asOf[p].expired
          IN  /\ rows' = left
              /\ found' = IF result = "failed" THEN found
                          ELSE [found EXCEPT ![p] =
                                  [summary |-> left.summary \intersect due.summary,
                                   detail  |-> left.detail \intersect due.detail]]
     \/ result = "failed" /\ UNCHANGED <<rows, found>>

(* query(): the statement takes the oldest rows that match, as many as the  *)
(* limit allows; then what has expired since is not shown, and nothing takes *)
(* its place.                                                               *)
Matching_Expired(q) == rows.summary \intersect Wanted[q]

Matching(q) == (rows.summary \intersect Wanted[q]) \ expired.summary

Pages(q) == {page \in Limited(Matching(q), Limit[q]) :
               \A e \in page, d \in Matching(q) \ page : Created[e] < Created[d]}

Fetch(q) ==
  /\ q \in Queries /\ work[q] = "queued" /\ lane # <<>> /\ Head(lane) = q
  /\ work' = [work EXCEPT ![q] = "fetched"] /\ open' = TRUE
  /\ \E page \in Pages(q) :
       found' = [found EXCEPT ![q] =
         [summary |-> page,
          detail  |-> IF q \in Privileged THEN page \intersect rows.detail ELSE {}]]
  /\ UNCHANGED <<closing, slotVars, call, rows, expired, asOf>>

QueryRuns(q, result) ==
  /\ q \in Queries /\ Runs(q, result)
  /\ result = "ok" => work[q] = "fetched"
  /\ found' = IF result = "failed" THEN found ELSE [found EXCEPT ![q] = Without(@, expired)]
  /\ UNCHANGED rows

(* close_db()                                                               *)
CloseRuns ==
  /\ lane # <<>> /\ Head(lane) = Closer
  /\ lane' = Tail(lane)
  /\ closing' = "ran" /\ open' = FALSE
  /\ UNCHANGED <<holder, waiters, call, work, rows, found, expired, asOf>>

-----------------------------------------------------------------------------
(* close(): the first call submits close_db(), without asking for the slot. *)
LaneWithClose_First == <<Closer>> \o lane

LaneWithClose == Append(lane, Closer)

Close ==
  /\ closing = "no"
  /\ closing' = "queued"
  /\ lane' = LaneWithClose
  /\ UNCHANGED <<holder, waiters, call, work, dataVars, expired, asOf>>

CloseReturns ==
  /\ closing = "ran"
  /\ closing' = "closed"
  /\ UNCHANGED <<slotVars, call, work, dataVars, expired, asOf>>

-----------------------------------------------------------------------------
LoopStep == CloseReturns \/ \E o \in Calls : Resume(o) \/ Completed(o) \/ Return(o)

ThreadStep ==
  \/ CloseRuns
  \/ \E q \in Queries : Fetch(q)
  \/ \E result \in {"ok", "failed"} :
       \/ \E w \in Writes : WriteRuns(w, result)
       \/ \E p \in Purges : PurgeRuns(p, result)
       \/ \E q \in Queries : QueryRuns(q, result)
=============================================================================
