---------------------------- MODULE PostgresStore ----------------------------
(***************************************************************************)
(* PostgreSQLEventStore (collection/postgresql.py) in several processes that *)
(* share a database.  Each process admits one operation at a time to its     *)
(* connection, runs it as a task for at most ten seconds, and drops the      *)
(* connection whenever the task did not end well.  The server is a part of   *)
(* its own: it goes on with a transaction whose client has left.             *)
(*                                                                         *)
(* Code between two awaits is one action.  The statements of one operation   *)
(* are actions, the inserts of a batch one of them.  An event is a row with  *)
(* its detail.                                                               *)
(*                                                                         *)
(* An operator whose name has a suffix after "_" is a plausible bug, used by *)
(* no definition: it stands for the operator it precedes when the properties *)
(* are tested against it.                                                    *)
(***************************************************************************)
EXTENDS Naturals, Sequences, FiniteSets, SequencesExt

CONSTANTS
  Stores,      \* the stores, one in each process
  Events,      \* ids of the events
  Writes,      \* calls of write_batch()
  Purges,      \* calls of purge_expired()
  Queries,     \* calls of query(), with access to details
  Home,        \* Home[o]: the store of the call o
  Batch,       \* Batch[w]: the events of the write w
  Wanted,      \* Wanted[q]: the events that match the filters of the query q
  Limit,       \* Limit[q]: query.limit
  Created,     \* Created[e]: the place of e in the order of created_at and event_id
  PurgeSize,   \* batch_size of purge_expired()
  Lots,        \* the sets of events that expire together
  Plans,       \* a bound: the sets of calls that are made in one behaviour
  Closable     \* a bound: the stores that are closed in the end

Calls  == Writes \union Purges \union Queries
Closer == "close_db"

ASSUME StoreAssumption ==
  /\ Writes \intersect Purges = {} /\ Queries \intersect (Writes \union Purges) = {}
  /\ Home \in [Calls -> Stores]
  /\ Batch \in [Writes -> SUBSET Events] /\ Wanted \in [Queries -> SUBSET Events]
  /\ Limit \in [Queries -> Nat \ {0}]
  /\ IsFiniteSet(Events) /\ Created \in [Events -> Nat]
  /\ \A d, e \in Events : Created[d] = Created[e] => d = e
  /\ PurgeSize \in Nat \ {0}
  /\ Lots \subseteq SUBSET Events
  /\ Plans \subseteq SUBSET Calls /\ Closable \subseteq Stores
  /\ Closer \notin Calls

VARIABLES
  closing,   \* _closing of each store: "no", "queued", "closed"
  line,      \* _slot of each store: its holder, then those who wait, in order
  conn,      \* _connection of each store: "none", "raw" (not set up yet), "ready"
  session,   \* the calls whose transaction is open in the connection of each store
  at,        \* how far each call is
  txn,       \* external: its transaction: "none", "open", "sent" (COMMIT), "committed",
             \* "aborted"
  mine,      \* external: the rows and details it inserted or deleted
  asOf,      \* what was so when a purge or query was called: the rows and details
             \* that had expired and, for a query, the events that were acknowledged
  found,     \* the rows and details of a query, the expired ones left by a purge
  rows,      \* external: the rows and details in the table
  expired    \* external: those past summary_expires_at, detail_expires_at

processVars == <<closing, line, conn, session, at>>
serverVars  == <<txn, mine, rows>>
vars == <<processVars, serverVars, asOf, found, expired>>

Parts   == [summary : SUBSET Events, detail : SUBSET Events]
Nothing == [summary |-> {}, detail |-> {}]
Views   == [acknowledged : SUBSET Events, expired : Parts]
NoView  == [acknowledged |-> {}, expired |-> Nothing]

Without(a, b) == [summary |-> a.summary \ b.summary,
                  detail  |-> a.detail \ (b.summary \union b.detail)]

(* The places of a call whose task runs.                                    *)
Running == {"connecting", "configuring", "working", "summaries", "counting", "committing",
            "acknowledging", "filtering"}
Over    == {"returned", "raised", "refused"}

Live(o)  == txn[o] \in {"open", "sent"}
Locks(o) == UNION {mine[x].summary \union mine[x].detail : x \in {y \in Calls \ {o} : Live(y)}}

Init ==
  /\ closing = [s \in Stores |-> "no"] /\ line = [s \in Stores |-> <<>>]
  /\ conn = [s \in Stores |-> "none"] /\ session = [s \in Stores |-> {}]
  /\ at = [o \in Calls |-> "new"] /\ txn = [o \in Calls |-> "none"]
  /\ mine = [o \in Calls |-> Nothing] /\ asOf = [o \in Calls |-> NoView]
  /\ found = [o \in Calls |-> Nothing]
  /\ rows = Nothing /\ expired = Nothing

-----------------------------------------------------------------------------
(* _run()                                                                   *)

(* _db(): a connection that is there is used as it is.                      *)
Entry(s) == IF conn[s] = "none" THEN "connecting" ELSE "working"

Acknowledged == UNION {Batch[w] : w \in {x \in Writes : at[x] = "returned"}}

Invoke(o) ==
  LET s == Home[o]
  IN  /\ at[o] = "new" /\ \E P \in Plans : {o} \union {x \in Calls : at[x] # "new"} \subseteq P
      /\ at' = [at EXCEPT ![o] = IF closing[s] # "no" THEN "refused"
                                 ELSE IF line[s] # <<>> THEN "waiting" ELSE Entry(s)]
      /\ line' = IF closing[s] # "no" THEN line ELSE [line EXCEPT ![s] = Append(@, o)]
      /\ asOf' = IF o \in Writes THEN asOf
                 ELSE [asOf EXCEPT ![o] =
                         [acknowledged |-> IF o \in Queries THEN Acknowledged ELSE {},
                          expired |-> expired]]
      /\ UNCHANGED <<closing, conn, session, serverVars, found, expired>>

(* The slot was passed to a waiter, whose task runs now.                    *)
Resume(o) ==
  LET s == Home[o]
  IN  /\ at[o] = "waiting" /\ Head(line[s]) = o
      /\ at' = [at EXCEPT ![o] = IF closing[s] # "no" THEN "refused" ELSE Entry(s)]
      /\ line' = IF closing[s] # "no" THEN [line EXCEPT ![s] = Tail(@)] ELSE line
      /\ UNCHANGED <<closing, conn, session, serverVars, asOf, found, expired>>

(* _stop(): the connection goes first, so that the task ends at once, and   *)
(* the slot is given up when it has ended.                                  *)
Dropped_Kept(s) == UNCHANGED <<conn, session>>

Dropped(s) == /\ conn' = [conn EXCEPT ![s] = "none"]
              /\ session' = [session EXCEPT ![s] = {}]

Stop(o) ==
  /\ Dropped(Home[o])
  /\ at' = [at EXCEPT ![o] = "raised"]
  /\ line' = [line EXCEPT ![Home[o]] = Tail(@)]
  /\ found' = [found EXCEPT ![o] = Nothing]
  /\ asOf' = [asOf EXCEPT ![o] = NoView]
  /\ UNCHANGED <<closing, serverVars, expired>>

(* The time of the operation is over, wherever it is, or it failed.         *)
Stoppable_Connected == Running \ {"connecting"}

Stoppable == Running

Fail(o) == at[o] \in Stoppable /\ Stop(o)

(* The caller is cancelled.                                                 *)
Leave(o) ==
  \/ at[o] \in Running \union {"done"} /\ Stop(o)
  \/ /\ at[o] = "waiting"
     /\ at' = [at EXCEPT ![o] = "raised"]
     /\ \E i \in DOMAIN line[Home[o]] :
          line[Home[o]][i] = o /\ line' = [line EXCEPT ![Home[o]] = RemoveAt(@, i)]
     /\ UNCHANGED <<closing, conn, session, serverVars, asOf, found, expired>>

Return(o) ==
  /\ at[o] = "done"
  /\ at' = [at EXCEPT ![o] = "returned"]
  /\ line' = [line EXCEPT ![Home[o]] = Tail(@)]
  /\ UNCHANGED <<closing, conn, session, serverVars, asOf, found, expired>>

-----------------------------------------------------------------------------
(* The task of an operation                                                 *)

(* _db(): the connection is kept before it is set up.                       *)
Connect(o) ==
  /\ at[o] = "connecting"
  /\ conn' = [conn EXCEPT ![Home[o]] = "raw"]
  /\ at' = [at EXCEPT ![o] = "configuring"]
  /\ UNCHANGED <<closing, line, session, serverVars, asOf, found, expired>>

Configure(o) ==
  /\ at[o] = "configuring"
  /\ conn' = [conn EXCEPT ![Home[o]] = "ready"]
  /\ at' = [at EXCEPT ![o] = "working"]
  /\ UNCHANGED <<closing, line, session, serverVars, asOf, found, expired>>

(* A statement of o at the place "from": the first one opens its            *)
(* transaction, unless the server has ended it.                             *)
Statement(o, from, to) ==
  /\ at[o] = from /\ txn[o] = IF from = "working" THEN "none" ELSE "open"
  /\ at' = [at EXCEPT ![o] = to]
  /\ UNCHANGED <<closing, line, conn, asOf, expired>>

Begin(o) == /\ txn' = [txn EXCEPT ![o] = "open"]
            /\ session' = [session EXCEPT ![Home[o]] = @ \union {o}]

(* INSERT ... ON CONFLICT DO NOTHING, which waits for a transaction that    *)
(* inserted or deleted the same id.                                         *)
Insert(w) ==
  /\ w \in Writes /\ Statement(w, "working", "committing") /\ Begin(w)
  /\ Batch[w] \intersect Locks(w) = {}
  /\ mine' = LET new == Batch[w] \ rows.summary
             IN  [mine EXCEPT ![w] = [summary |-> new, detail |-> new]]
  /\ UNCHANGED <<rows, found>>

(* LIMIT: what a statement takes of the rows it is about.                   *)
Limited(due, size) == {S \in SUBSET due : \/ Cardinality(S) = size
                                         \/ (Cardinality(S) < size /\ S = due)}

(* FOR UPDATE SKIP LOCKED: a bounded number of the rows nobody has locked.  *)
Claims_Locked(p, due) == Limited(due, PurgeSize)

Claims(p, due) == Limited(due \ Locks(p), PurgeSize)

ClaimDetails(p) ==
  /\ p \in Purges /\ Statement(p, "working", "summaries") /\ Begin(p)
  /\ \E S \in Claims(p, rows.detail \intersect asOf[p].expired.detail) :
       mine' = [mine EXCEPT ![p].detail = S]
  /\ UNCHANGED <<rows, found>>

Due_Detail(p) == rows.summary \intersect asOf[p].expired.detail

Due(p) == rows.summary \intersect asOf[p].expired.summary

ClaimSummaries(p) ==
  /\ Statement(p, "summaries", "counting")
  /\ \E S \in Claims(p, Due(p)) :
       mine' = [mine EXCEPT ![p].summary = S]
  /\ UNCHANGED <<session, txn, rows, found>>

Count(p) ==
  /\ Statement(p, "counting", "committing")
  /\ found' = [found EXCEPT ![p] =
       LET seen == Without(rows, mine[p])
       IN  [summary |-> seen.summary \intersect asOf[p].expired.summary,
            detail  |-> seen.detail \intersect asOf[p].expired.detail]]
  /\ UNCHANGED <<session, serverVars>>

SendCommit(o) ==
  /\ Statement(o, "committing", "acknowledging")
  /\ txn' = [txn EXCEPT ![o] = "sent"]
  /\ UNCHANGED <<session, mine, rows, found>>

(* The answer of the server to COMMIT ends the task well.                   *)
Acknowledgeable_Sent(o) == txn[o] \in {"sent", "committed"}

Acknowledgeable(o) == txn[o] = "committed"

Answered(o) ==
  /\ at[o] = "acknowledging" /\ Acknowledgeable(o)
  /\ at' = [at EXCEPT ![o] = "done"]
  /\ session' = [session EXCEPT ![Home[o]] = @ \ {o}]
  /\ UNCHANGED <<closing, line, conn, serverVars, asOf, found, expired>>

(* query(): a statement without a transaction takes the oldest rows that    *)
(* match, as many as the limit allows.                                      *)
Matching(q) == (rows.summary \intersect Wanted[q]) \ expired.summary

Pages(q) == {page \in Limited(Matching(q), Limit[q]) :
               \A e \in page, d \in Matching(q) \ page : Created[e] < Created[d]}

Fetch(q) ==
  /\ q \in Queries /\ Statement(q, "working", "filtering")
  /\ \E page \in Pages(q) :
       found' = [found EXCEPT ![q] =
         [summary |-> page, detail |-> (page \intersect rows.detail) \ expired.detail]]
  /\ UNCHANGED <<session, serverVars>>

(* What has expired since is not shown, and nothing takes its place.        *)
Filter(q) ==
  /\ at[q] = "filtering"
  /\ at' = [at EXCEPT ![q] = "done"]
  /\ found' = [found EXCEPT ![q] = Without(@, expired)]
  /\ UNCHANGED <<closing, line, conn, session, serverVars, asOf, expired>>

TaskStep(o) ==
  \/ Connect(o) \/ Configure(o) \/ Insert(o) \/ ClaimDetails(o) \/ ClaimSummaries(o) \/ Count(o)
  \/ SendCommit(o) \/ Answered(o) \/ Fetch(o) \/ Filter(o)

-----------------------------------------------------------------------------
(* close(): shielded, its task waits in the line like everyone.             *)
Close(s) ==
  /\ closing[s] = "no" /\ s \in Closable
  /\ closing' = [closing EXCEPT ![s] = "queued"]
  /\ line' = [line EXCEPT ![s] = Append(@, Closer)]
  /\ UNCHANGED <<conn, session, at, serverVars, asOf, found, expired>>

CloseDb(s) ==
  /\ line[s] # <<>> /\ Head(line[s]) = Closer
  /\ Dropped(s)
  /\ line' = [line EXCEPT ![s] = Tail(@)]
  /\ closing' = [closing EXCEPT ![s] = "closed"]
  /\ UNCHANGED <<at, serverVars, asOf, found, expired>>

-----------------------------------------------------------------------------
(* The server: a COMMIT it was sent may take effect although its client has *)
(* gone; a transaction may be aborted at any time.                          *)
Commit(o) ==
  /\ txn[o] = "sent"
  /\ txn' = [txn EXCEPT ![o] = "committed"]
  /\ rows' = IF o \in Writes THEN [summary |-> rows.summary \union mine[o].summary,
                                   detail  |-> rows.detail \union mine[o].detail]
             ELSE Without(rows, mine[o])
  /\ UNCHANGED <<processVars, mine, asOf, found, expired>>

Abort(o) ==
  /\ Live(o)
  /\ txn' = [txn EXCEPT ![o] = "aborted"]
  /\ mine' = [mine EXCEPT ![o] = Nothing]
  /\ UNCHANGED <<processVars, rows, asOf, found, expired>>

(* The clock passes expiry times; a detail never outlives its row.          *)
Expire(lot) ==
  /\ \/ ~(lot \subseteq expired.detail)
        /\ expired' = [expired EXCEPT !.detail = @ \union lot]
     \/ lot \subseteq expired.detail /\ ~(lot \subseteq expired.summary)
        /\ expired' = [expired EXCEPT !.summary = @ \union lot]
  /\ UNCHANGED <<processVars, serverVars, asOf, found>>

-----------------------------------------------------------------------------
LoopStep(o) == Resume(o) \/ Return(o)

Next ==
  \/ \E o \in Calls : \/ Invoke(o) \/ LoopStep(o) \/ TaskStep(o) \/ Fail(o) \/ Leave(o)
                      \/ Commit(o) \/ Abort(o)
  \/ \E s \in Stores : Close(s) \/ CloseDb(s)
  \/ \E lot \in Lots : Expire(lot)

(* The event loop runs what is ready, and the timer of an operation fires,  *)
(* whatever the server does.                                                *)
Fairness ==
  /\ \A o \in Calls : WF_vars(LoopStep(o)) /\ WF_vars(Fail(o))
  /\ \A s \in Stores : WF_vars(CloseDb(s))

Spec     == Init /\ [][Next]_vars
FairSpec == Spec /\ Fairness
=============================================================================
