---------------------------- MODULE PostgresProofs ----------------------------
(***************************************************************************)
(* Proofs about the PostgreSQL store (PostgresStore): its connection is      *)
(* clean, the table is exactly what the committed transactions made of it,   *)
(* queries see what was acknowledged, and it keeps the contract of an        *)
(* indefinite store.  They hold for any number of processes, calls and       *)
(* events, whichever of them time out, leave or are aborted.                 *)
(*                                                                         *)
(* The argument: in each process one call has the slot and the others wait   *)
(* behind it (LineInv), so that only its transaction is open in the          *)
(* connection (ConnInv); what became of a transaction is known from the      *)
(* place of its call, unless the call left (TxnInv); transactions that are   *)
(* open hold different rows, which balances the books (RowsInv); and what a  *)
(* query was to show is in the table or has expired (SeenInv).               *)
(***************************************************************************)
EXTENDS PostgresProps, FiniteSetTheorems, SequenceTheorems, TLAPS

-----------------------------------------------------------------------------
(* The inductive invariant                                                  *)

(* The places of a call that has the slot and has begun.                    *)
Busy == Running \union {"done"}

(* The line of a store: the call with the slot, those who wait, and the     *)
(* closing of the connection behind them; each once, and nobody after it.   *)
StoreLine(s) ==
  /\ \A i \in DOMAIN line[s] :
       \/ line[s][i] = Closer /\ i = Len(line[s]) /\ closing[s] = "queued"
       \/ /\ line[s][i] \in Calls /\ Home[line[s][i]] = s
          /\ at[line[s][i]] = "waiting" \/ (i = 1 /\ at[line[s][i]] \in Busy)
  /\ \A i, j \in DOMAIN line[s] : line[s][i] = line[s][j] => i = j
  /\ closing[s] = "closed" => line[s] = <<>>

(* A call that has not ended is in the line of its store.                   *)
InLine(o) ==
  at[o] \in Busy \union {"waiting"} => \E i \in DOMAIN line[Home[o]] : line[Home[o]][i] = o

LineInv == (\A s \in Stores : StoreLine(s)) /\ (\A o \in Calls : InLine(o))

(* The places of a call whose transaction was opened in the connection.     *)
InTxn == {"summaries", "counting", "committing", "acknowledging"}

(* The connection has the transaction of the call that works in it, if any; *)
(* it is half set up only while a call sets it up.                          *)
ConnInv ==
  \A s \in Stores :
    /\ \A o \in session[s] : Home[o] = s /\ at[o] \in InTxn
    /\ conn[s] = "raw" => \E o \in Calls : Home[o] = s /\ at[o] = "configuring"
    /\ closing[s] = "closed" => conn[s] = "none"

(* What the place of a call says of its transaction.                        *)
TxnInv ==
  \A o \in Calls :
    /\ at[o] \in {"new", "waiting", "refused", "connecting", "configuring", "working",
                  "filtering"} =>
         txn[o] = "none"
    /\ at[o] \in {"summaries", "counting", "committing"} => txn[o] \in {"open", "aborted"}
    /\ at[o] = "acknowledging" => txn[o] \in {"sent", "committed", "aborted"}
    /\ at[o] \in {"done", "returned"} /\ o \notin Queries => txn[o] = "committed"
    /\ o \in Queries => at[o] \notin InTxn /\ txn[o] = "none"
    /\ at[o] = "filtering" => o \in Queries
    /\ at[o] \in {"summaries", "counting"} => o \in Purges
    /\ txn[o] \in {"none", "aborted"} => mine[o] = Nothing

Claimed(o) == mine[o].summary \union mine[o].detail

(* What was deleted by the transactions that are committed.                 *)
Deleted == UNION {mine[p].summary : p \in Committed(Purges)}

(* What the open transactions hold, and what they will do to the table.     *)
ClaimsInv ==
  /\ \A w \in Writes : /\ mine[w].summary = mine[w].detail
                       /\ mine[w].summary \subseteq Batch[w]
                       /\ Live(w) => /\ mine[w].summary \intersect rows.summary = {}
                                     /\ Batch[w] \ mine[w].summary \subseteq
                                          rows.summary \union Deleted
  /\ \A p \in Purges : /\ mine[p].summary \subseteq expired.summary
                       /\ mine[p].detail \subseteq expired.detail
                       /\ Live(p) => /\ mine[p].summary \subseteq rows.summary
                                     /\ mine[p].detail \subseteq rows.detail
  /\ \A o, x \in Calls : Live(o) /\ Live(x) /\ o # x => Claimed(o) \intersect Claimed(x) = {}

(* How often an event was inserted, and deleted, and its detail.            *)
Inserted(e) == {w \in Committed(Writes) : e \in mine[w].summary}
Removed(e)  == {p \in Committed(Purges) : e \in mine[p].summary}
Stripped(e) == {p \in Committed(Purges) : e \in mine[p].detail}

(* The books balance.                                                       *)
Balanced(e) ==
  /\ Cardinality(Inserted(e)) = Cardinality(Removed(e)) + (IF e \in rows.summary THEN 1 ELSE 0)
  /\ Cardinality(Stripped(e)) + (IF e \in rows.detail THEN 1 ELSE 0) <= Cardinality(Inserted(e))

(* The transactions there ever were are finitely many.                      *)
Begun == {o \in Calls : txn[o] # "none"}

RowsInv ==
  /\ rows.detail \subseteq rows.summary /\ rows.summary \subseteq Written
  /\ Written \ rows.summary \subseteq Deleted
  /\ IsFiniteSet(Begun)
  /\ \A e \in Events : Balanced(e)

(* What a query shows, at the moment: all it must show that its limit lets  *)
(* through, and nothing it must not.                                        *)
Seen(q) ==
  /\ \A e \in (asOf[q].acknowledged \intersect Wanted[q]) \ expired.summary :
       e \in found[q].summary \/ BeyondLimit(q, e)
  /\ Cardinality(found[q].summary) <= Limit[q]
  /\ found[q].summary \subseteq (Written \intersect Wanted[q]) \ asOf[q].expired.summary
  /\ found[q].detail \subseteq found[q].summary \ asOf[q].expired.detail

(* Purges and queries go by what was true when they were called.            *)
SeenInv ==
  /\ expired.summary \subseteq expired.detail
  /\ \A o \in Calls : /\ asOf[o].acknowledged \subseteq Written
                      /\ asOf[o].expired.summary \subseteq expired.summary
                      /\ asOf[o].expired.detail \subseteq expired.detail
  /\ \A q \in Queries : at[q] \in {"filtering", "done", "returned"} => Seen(q)

IInv == TypeOK /\ LineInv /\ ConnInv /\ TxnInv /\ ClaimsInv /\ RowsInv /\ SeenInv

-----------------------------------------------------------------------------
(* Sequences                                                                *)

(* A sequence without its element at i.                                     *)
LEMMA RemoveAtProperties ==
  ASSUME NEW S, NEW s \in Seq(S), NEW i \in 1..Len(s)
  PROVE  /\ RemoveAt(s, i) \in Seq(S)
         /\ Len(RemoveAt(s, i)) = Len(s) - 1
         /\ \A j \in 1..(Len(s) - 1) : RemoveAt(s, i)[j] = IF j < i THEN s[j] ELSE s[j + 1]
<1> DEFINE a == SubSeq(s, 1, i - 1)
           b == SubSeq(s, i + 1, Len(s))
<1>0. Len(s) \in Nat /\ i \in Int /\ 1 <= i /\ i <= Len(s)
  BY LenProperties
<1>1. /\ a \in Seq(S) /\ Len(a) = i - 1
      /\ \A j \in 1..(i - 1) : a[j] = s[j]
  BY LenProperties, SubSeqProperties
<1>2. /\ b \in Seq(S) /\ Len(b) = Len(s) - i
      /\ \A j \in 1..(Len(s) - i) : b[j] = s[i + j]
  BY LenProperties, SubSeqProperties
<1>3. RemoveAt(s, i) = a \o b
  BY DEF RemoveAt
<1> HIDE DEF a, b
<1>4. /\ a \o b \in Seq(S) /\ Len(a \o b) = Len(a) + Len(b)
      /\ \A j \in 1..(Len(a) + Len(b)) :
           (a \o b)[j] = IF j <= Len(a) THEN a[j] ELSE b[j - Len(a)]
  BY <1>1, <1>2, ConcatProperties
<1>5. Len(a) + Len(b) = Len(s) - 1
  BY <1>0, <1>1, <1>2
<1>6. ASSUME NEW j \in 1..(Len(s) - 1)
      PROVE  (a \o b)[j] = IF j < i THEN s[j] ELSE s[j + 1]
  <2>1. (a \o b)[j] = IF j <= i - 1 THEN a[j] ELSE b[j - (i - 1)]
    BY <1>1, <1>4, <1>5
  <2>2. CASE j < i
    BY <1>0, <1>1, <2>1, <2>2
  <2>3. CASE ~(j < i)
    <3>1. j - (i - 1) \in 1..(Len(s) - i) /\ i + (j - (i - 1)) = j + 1
      BY <1>0, <2>3
    <3> QED
      BY <1>0, <1>2, <2>1, <2>3, <3>1
  <2> QED
    BY <2>2, <2>3
<1> QED
  BY <1>3, <1>4, <1>5, <1>6

(* A line without its first element.                                        *)
LEMMA TailProperties ==
  ASSUME NEW S, NEW s \in Seq(S), s # <<>>
  PROVE  /\ Head(s) = s[1] /\ s[1] \in S /\ Tail(s) \in Seq(S)
         /\ Len(s) \in Nat \ {0} /\ DOMAIN s = 1..Len(s)
         /\ Len(Tail(s)) = Len(s) - 1 /\ DOMAIN Tail(s) = 1..(Len(s) - 1)
         /\ \A i \in 1..(Len(s) - 1) : Tail(s)[i] = s[i + 1]
<1>1. Len(s) \in Nat \ {0} /\ DOMAIN s = 1..Len(s)
  BY EmptySeq, LenProperties
<1>2. Head(s) = s[1] /\ s[1] \in S
  BY <1>1, LenProperties
<1>3. /\ Tail(s) \in Seq(S) /\ Len(Tail(s)) = Len(s) - 1
      /\ \A i \in 1..Len(Tail(s)) : Tail(s)[i] = s[i + 1]
  BY HeadTailProperties
<1>4. DOMAIN Tail(s) = 1..(Len(s) - 1)
  BY <1>3, LenProperties
<1> QED
  BY <1>1, <1>2, <1>3, <1>4

-----------------------------------------------------------------------------
(* Every step keeps the types                                               *)

(* What is taken from the rows and details are rows and details.            *)
LEMMA PartsType ==
  /\ Nothing \in Parts /\ NoView \in Views
  /\ \A a, b \in Parts : Without(a, b) \in Parts
  BY DEF Parts, Nothing, Views, NoView, Without

(* The calls are of one kind each.                                          *)
LEMMA KindsDiffer ==
  /\ \A o \in Calls : /\ o \in Writes \/ o \in Purges \/ o \in Queries
                      /\ Home[o] \in Stores /\ o # Closer
  /\ \A w \in Writes : w \in Calls /\ w \notin Purges /\ w \notin Queries
  /\ \A p \in Purges : p \in Calls /\ p \notin Writes /\ p \notin Queries
  /\ \A q \in Queries : q \in Calls /\ q \notin Writes /\ q \notin Purges
  BY StoreAssumption DEF Calls

(* An event was written, or deleted, by a transaction that is committed.    *)
LEMMA InWritten ==
  /\ \A e : e \in Written <=> \E w \in Writes : txn[w] = "committed" /\ e \in Batch[w]
  /\ \A e : e \in Written' <=> \E w \in Writes : txn'[w] = "committed" /\ e \in Batch[w]
  /\ \A e : e \in Deleted <=> \E p \in Purges : txn[p] = "committed" /\ e \in mine[p].summary
  /\ \A e : e \in Deleted' <=> \E p \in Purges : txn'[p] = "committed" /\ e \in mine'[p].summary
  BY DEF Written, Deleted, Committed

(* What was written are events, and only that was acknowledged.             *)
LEMMA AcknowledgedWritten ==
  ASSUME TxnInv
  PROVE  Written \in SUBSET Events /\ Acknowledged \subseteq Written
<1>1. Written \in SUBSET Events
  BY StoreAssumption DEF Written, Committed
<1>2. \A w \in Writes : at[w] = "returned" => txn[w] = "committed"
  BY KindsDiffer DEF TxnInv
<1> QED
  BY <1>1, <1>2 DEF Acknowledged, Written, Committed

Places == Running \union Over \union {"new", "waiting", "done"}

ProcessTypes ==
  /\ closing \in [Stores -> {"no", "queued", "closed"}]
  /\ line \in [Stores -> Seq(Calls \union {Closer})]
  /\ conn \in [Stores -> {"none", "raw", "ready"}]
  /\ session \in [Stores -> SUBSET Calls]
  /\ at \in [Calls -> Places]

DataTypes ==
  /\ txn \in [Calls -> {"none", "open", "sent", "committed", "aborted"}]
  /\ mine \in [Calls -> Parts] /\ asOf \in [Calls -> Views] /\ found \in [Calls -> Parts]
  /\ rows \in Parts /\ expired \in Parts

(* The types of what the processes have, and of the rest.                   *)
LEMMA TypesSplit ==
  /\ TypeOK <=> ProcessTypes /\ DataTypes
  /\ TypeOK' <=> ProcessTypes' /\ DataTypes'
  BY DEF TypeOK, ProcessTypes, DataTypes, Places

(* The names of the places.                                                 *)
LEMMA PlaceNames ==
  /\ Running \subseteq Busy /\ Busy \subseteq Places /\ Over \subseteq Places
  /\ {"new", "waiting", "done", "connecting", "configuring", "working", "summaries", "counting",
      "committing", "acknowledging", "filtering", "returned", "raised", "refused"} = Places
  /\ Busy = {"connecting", "configuring", "working", "summaries", "counting", "committing",
             "acknowledging", "filtering", "done"}
  /\ Over = {"returned", "raised", "refused"}
  BY DEF Places, Running, Busy, Over

(* A call moves on, of which the line knows nothing.                        *)
Moves(o, from, to) ==
  /\ at[o] = from /\ at' = [at EXCEPT ![o] = to]
  /\ UNCHANGED <<closing, line>>

(* A call with the slot is over, and gives it up.                           *)
Departs(o, to) ==
  /\ line' = [line EXCEPT ![Home[o]] = Tail(@)]
  /\ at' = [at EXCEPT ![o] = to]
  /\ UNCHANGED closing

(* What a step does to the places of the calls and to the lines.            *)
Steps(o) ==
  \/ \E to \in Busy : at[o] \in Busy /\ Moves(o, at[o], to)
  \/ \E to \in Over : at[o] \in Busy /\ Departs(o, to)
  \/ Invoke(o) \/ Resume(o)
  \/ at[o] = "waiting" /\ Leave(o)

LineSteps ==
  \/ \E o \in Calls : Steps(o)
  \/ \E s \in Stores : Close(s) \/ CloseDb(s)
  \/ UNCHANGED <<closing, line, at>>

(* Every step moves one call, or none, and the lines with it.               *)
LEMMA NextSteps == [Next]_vars => LineSteps
<1> SUFFICES ASSUME [Next]_vars PROVE LineSteps
  OBVIOUS
<1> USE PlaceNames DEF LineSteps, Steps
<1>1. ASSUME NEW o \in Calls, Invoke(o) \/ Resume(o) PROVE LineSteps
  BY <1>1
<1>2. ASSUME NEW o \in Calls, Return(o) PROVE LineSteps
  BY <1>2 DEF Return, Departs
<1>3. ASSUME NEW o \in Calls, Stop(o), at[o] \in Busy PROVE LineSteps
  BY <1>3 DEF Stop, Departs
<1>4. ASSUME NEW o \in Calls, Fail(o) \/ Leave(o) PROVE LineSteps
  <2>1. CASE Fail(o)
    BY <1>3, <2>1 DEF Fail, Stoppable
  <2>2. CASE Leave(o) /\ at[o] # "waiting"
    BY <1>3, <2>2 DEF Leave, Busy
  <2>3. CASE Leave(o) /\ at[o] = "waiting"
    BY <2>3
  <2> QED
    BY <1>4, <2>1, <2>2, <2>3
<1>5. ASSUME NEW o \in Calls, TaskStep(o) PROVE LineSteps
  BY <1>5 DEF TaskStep, Connect, Configure, Insert, ClaimDetails, ClaimSummaries, Count,
     SendCommit, Answered, Fetch, Filter, Statement, Moves
<1>6. ASSUME NEW o \in Calls, Commit(o) \/ Abort(o) PROVE LineSteps
  BY <1>6 DEF Commit, Abort, processVars
<1>7. ASSUME NEW lot \in Lots, Expire(lot) PROVE LineSteps
  BY <1>7 DEF Expire, processVars
<1>8. CASE UNCHANGED vars
  BY <1>8 DEF vars, processVars
<1> QED
  BY <1>1, <1>2, <1>4, <1>5, <1>6, <1>7, <1>8 DEF Next, LoopStep

(* Whoever is busy is the first of the line of his store.                   *)
LEMMA BusyFirst ==
  ASSUME ProcessTypes, LineInv, NEW o \in Calls, at[o] \in Busy
  PROVE  /\ line[Home[o]] # <<>> /\ 1 \in DOMAIN line[Home[o]] /\ line[Home[o]][1] = o
         /\ Head(line[Home[o]]) = o
         /\ \A x \in Calls : Home[x] = Home[o] /\ at[x] \in Busy => x = o
         /\ closing[Home[o]] # "closed"
<1>0. Home[o] \in Stores /\ o # Closer
  BY KindsDiffer
<1>1. ASSUME NEW x \in Calls, Home[x] = Home[o], at[x] \in Busy
      PROVE  1 \in DOMAIN line[Home[o]] /\ line[Home[o]][1] = x
  <2>1. PICK i \in DOMAIN line[Home[o]] : line[Home[o]][i] = x
    BY <1>1 DEF LineInv, InLine
  <2>2. x # Closer /\ at[x] # "waiting"
    BY <1>1, KindsDiffer, PlaceNames
  <2>3. i = 1
    BY <1>0, <2>1, <2>2 DEF LineInv, StoreLine
  <2> QED
    BY <2>1, <2>3
<1>2. 1 \in DOMAIN line[Home[o]] /\ line[Home[o]][1] = o
  BY <1>1
<1>3. line[Home[o]] \in Seq(Calls \union {Closer})
  BY <1>0 DEF ProcessTypes
<1>4. line[Home[o]] # <<>>
  BY <1>2
<1>5. Head(line[Home[o]]) = o
  BY <1>2, <1>3, <1>4, TailProperties
<1> QED
  BY <1>0, <1>1, <1>2, <1>4, <1>5 DEF LineInv, StoreLine

(* Processes keep the types of what they have.                              *)
LEMMA NextProcessTypes == TypeOK /\ LineInv /\ [Next]_vars => ProcessTypes'
<1> SUFFICES ASSUME TypeOK, LineInv, [Next]_vars PROVE ProcessTypes'
  OBVIOUS
<1>0. ProcessTypes
  BY TypesSplit
<1>a. Running \subseteq Places /\ Over \subseteq Places /\ "waiting" \in Places /\ "done" \in Places
  BY DEF Places
<1>1. LineSteps
  BY NextSteps
<1>2. at' \in [Calls -> Places]
  <2>1. ASSUME NEW o \in Calls, Steps(o) PROVE at' \in [Calls -> Places]
    BY <1>0, <1>a, <2>1, PlaceNames
    DEF Steps, Moves, Departs, Invoke, Resume, Leave, Stop, Entry, ProcessTypes
  <2> QED
    BY <1>0, <1>1, <2>1 DEF LineSteps, Close, CloseDb, ProcessTypes
<1>3. closing' \in [Stores -> {"no", "queued", "closed"}]
  BY <1>0, <1>1 DEF LineSteps, Steps, Moves, Departs, Invoke, Resume, Leave, Stop, Close, CloseDb,
     ProcessTypes
<1>4. line' \in [Stores -> Seq(Calls \union {Closer})]
  <2>a. line \in [Stores -> Seq(Calls \union {Closer})]
    BY <1>0 DEF ProcessTypes
  <2>b. ASSUME NEW s \in Stores, NEW new \in Seq(Calls \union {Closer}),
               line' = [line EXCEPT ![s] = new]
        PROVE  line' \in [Stores -> Seq(Calls \union {Closer})]
    BY <2>a, <2>b
  <2>1. ASSUME NEW o \in Calls, at[o] \in Busy, NEW to, Departs(o, to)
        PROVE  line' \in [Stores -> Seq(Calls \union {Closer})]
    <3>1. line[Home[o]] # <<>> /\ Home[o] \in Stores
      BY <1>0, <2>1, BusyFirst, KindsDiffer
    <3>2. Tail(line[Home[o]]) \in Seq(Calls \union {Closer})
      BY <2>a, <3>1, TailProperties
    <3> QED
      BY <2>1, <2>b, <3>1, <3>2 DEF Departs
  <2>2. ASSUME NEW o \in Calls, Invoke(o)
        PROVE  line' \in [Stores -> Seq(Calls \union {Closer})]
    <3>1. Append(line[Home[o]], o) \in Seq(Calls \union {Closer}) /\ Home[o] \in Stores
      BY <2>a, KindsDiffer, AppendProperties
    <3> QED
      BY <2>a, <2>2, <2>b, <3>1 DEF Invoke
  <2>3. ASSUME NEW o \in Calls, Resume(o)
        PROVE  line' \in [Stores -> Seq(Calls \union {Closer})]
    <3>1. Home[o] \in Stores /\ at[o] = "waiting"
      BY <2>3, KindsDiffer DEF Resume
    <3>2. line[Home[o]] # <<>>
      BY <3>1 DEF LineInv, InLine
    <3>3. Tail(line[Home[o]]) \in Seq(Calls \union {Closer})
      BY <2>a, <3>1, <3>2, TailProperties
    <3> QED
      BY <2>a, <2>3, <2>b, <3>1, <3>3 DEF Resume
  <2>4. ASSUME NEW o \in Calls, at[o] = "waiting", Leave(o)
        PROVE  line' \in [Stores -> Seq(Calls \union {Closer})]
    <3>1. Home[o] \in Stores
      BY KindsDiffer
    <3>2. PICK i \in DOMAIN line[Home[o]] :
            line' = [line EXCEPT ![Home[o]] = RemoveAt(line[Home[o]], i)]
      BY <2>4, PlaceNames DEF Leave, Busy
    <3>3. RemoveAt(line[Home[o]], i) \in Seq(Calls \union {Closer})
      BY <2>a, <3>1, RemoveAtProperties, LenProperties
    <3> QED
      BY <2>b, <3>1, <3>2, <3>3
  <2>5. ASSUME NEW s \in Stores, Close(s)
        PROVE  line' \in [Stores -> Seq(Calls \union {Closer})]
    <3>1. Append(line[s], Closer) \in Seq(Calls \union {Closer})
      BY <2>a, AppendProperties
    <3> QED
      BY <2>5, <2>b, <3>1 DEF Close
  <2>6. ASSUME NEW s \in Stores, CloseDb(s)
        PROVE  line' \in [Stores -> Seq(Calls \union {Closer})]
    <3>1. line[s] # <<>> /\ line' = [line EXCEPT ![s] = Tail(line[s])]
      BY <2>6 DEF CloseDb
    <3>2. Tail(line[s]) \in Seq(Calls \union {Closer})
      BY <2>a, <3>1, TailProperties
    <3> QED
      BY <2>b, <3>1, <3>2
  <2> QED
    BY <1>1, <2>a, <2>1, <2>2, <2>3, <2>4, <2>5, <2>6 DEF LineSteps, Steps, Moves
<1>5. conn' \in [Stores -> {"none", "raw", "ready"}]
  BY <1>0 DEF ProcessTypes, Next, LoopStep, TaskStep, Connect, Configure, Insert, ClaimDetails,
     ClaimSummaries, Count, SendCommit, Answered, Fetch, Filter, Statement, Invoke, Resume, Return,
     Fail, Leave, Stop, Dropped, Commit, Abort, Close, CloseDb, Expire, vars, processVars
<1>6. session' \in [Stores -> SUBSET Calls]
  <2>a. session \in [Stores -> SUBSET Calls]
    BY <1>0 DEF ProcessTypes
  <2>1. ASSUME NEW o \in Calls, Begin(o) PROVE session' \in [Stores -> SUBSET Calls]
    BY <2>a, <2>1 DEF Begin
  <2>2. ASSUME NEW o \in Calls, Stop(o) PROVE session' \in [Stores -> SUBSET Calls]
    BY <2>a, <2>2 DEF Stop, Dropped
  <2>3. ASSUME NEW o \in Calls, Answered(o) PROVE session' \in [Stores -> SUBSET Calls]
    BY <2>a, <2>3 DEF Answered
  <2>4. ASSUME NEW s \in Stores, CloseDb(s) PROVE session' \in [Stores -> SUBSET Calls]
    BY <2>a, <2>4 DEF CloseDb, Dropped
  <2>5. CASE UNCHANGED session
    BY <2>a, <2>5
  <2> QED
    BY <2>1, <2>2, <2>3, <2>4, <2>5 DEF Next, LoopStep, TaskStep, Connect, Configure, Insert,
       ClaimDetails, ClaimSummaries, Count, SendCommit, Fetch, Filter, Invoke, Resume, Return,
       Fail, Leave, Commit, Abort, Close, Expire, vars, processVars
<1> QED
  BY <1>2, <1>3, <1>4, <1>5, <1>6 DEF ProcessTypes

(* The server keeps the types of what it has, the clock those of its own,   *)
(* and the tasks those of what they find.                                   *)
LEMMA NextDataTypes == TypeOK /\ TxnInv /\ [Next]_vars => DataTypes'
<1> SUFFICES ASSUME TypeOK, TxnInv, [Next]_vars PROVE DataTypes'
  OBVIOUS
<1>0. DataTypes
  BY TypesSplit
<1>a. /\ txn \in [Calls -> {"none", "open", "sent", "committed", "aborted"}]
      /\ mine \in [Calls -> Parts] /\ asOf \in [Calls -> Views] /\ found \in [Calls -> Parts]
      /\ rows \in Parts /\ expired \in Parts
  BY <1>0 DEF DataTypes
<1>b. \A a \in Parts : a.summary \in SUBSET Events /\ a.detail \in SUBSET Events
  BY DEF Parts
<1>c. \A S, D \in SUBSET Events : [summary |-> S, detail |-> D] \in Parts
  BY DEF Parts
<1> USE <1>a DEF DataTypes
<1>1. ASSUME NEW o \in Calls, Invoke(o) PROVE DataTypes'
  <2>1. Acknowledged \in SUBSET Events
    BY AcknowledgedWritten
  <2>2. asOf' \in [Calls -> Views]
    <3>1. [acknowledged |-> IF o \in Queries THEN Acknowledged ELSE {},
           expired |-> expired] \in Views
      BY <2>1 DEF Views
    <3> QED
      BY <1>1, <3>1 DEF Invoke
  <2> QED
    BY <1>1, <2>2 DEF Invoke, serverVars
<1>2. ASSUME NEW o \in Calls, Stop(o) PROVE DataTypes'
  BY <1>2, PartsType DEF Stop, serverVars
<1>3. ASSUME NEW o \in Calls, Resume(o) \/ Return(o) \/ Connect(o) \/ Configure(o) \/ Answered(o)
      PROVE  DataTypes'
  BY <1>3 DEF Resume, Return, Connect, Configure, Answered, serverVars
<1>4. ASSUME NEW o \in Calls, Fail(o) \/ Leave(o) PROVE DataTypes'
  BY <1>4, <1>2 DEF Fail, Leave, serverVars
<1>5. ASSUME NEW w \in Calls, Insert(w) PROVE DataTypes'
  <2>1. /\ txn' = [txn EXCEPT ![w] = "open"] /\ UNCHANGED <<asOf, found, rows, expired>>
        /\ w \in Writes
        /\ mine' = [mine EXCEPT ![w] = [summary |-> Batch[w] \ rows.summary,
                                        detail |-> Batch[w] \ rows.summary]]
    BY <1>5 DEF Insert, Begin, Statement
  <2>2. Batch[w] \ rows.summary \in SUBSET Events
    BY <2>1, StoreAssumption
  <2>3. [summary |-> Batch[w] \ rows.summary, detail |-> Batch[w] \ rows.summary] \in Parts
    BY <1>c, <2>2
  <2> QED
    BY <2>1, <2>3
<1>6. ASSUME NEW p \in Calls, ClaimDetails(p) PROVE DataTypes'
  <2>1. PICK S \in Claims(p, rows.detail \intersect asOf[p].expired.detail) :
          mine' = [mine EXCEPT ![p].detail = S]
    BY <1>6 DEF ClaimDetails
  <2>2. S \in SUBSET Events
    BY <1>b DEF Claims, Limited
  <2>3. mine' \in [Calls -> Parts]
    BY <2>1, <2>2 DEF Parts
  <2> QED
    BY <1>6, <2>3 DEF ClaimDetails, Begin, Statement
<1>7. ASSUME NEW p \in Calls, ClaimSummaries(p) PROVE DataTypes'
  <2>1. PICK S \in Claims(p, Due(p)) : mine' = [mine EXCEPT ![p].summary = S]
    BY <1>7 DEF ClaimSummaries
  <2>2. S \in SUBSET Events
    BY <1>b DEF Claims, Limited, Due
  <2>3. mine' \in [Calls -> Parts]
    BY <2>1, <2>2 DEF Parts
  <2> QED
    BY <1>7, <2>3 DEF ClaimSummaries, Statement
<1>8. ASSUME NEW p \in Calls, Count(p) PROVE DataTypes'
  <2>1. Without(rows, mine[p]) \in Parts
    BY PartsType
  <2>2. [summary |-> Without(rows, mine[p]).summary \intersect asOf[p].expired.summary,
         detail  |-> Without(rows, mine[p]).detail \intersect asOf[p].expired.detail] \in Parts
    BY <1>b, <1>c, <2>1
  <2> QED
    BY <1>8, <2>2 DEF Count, Statement, serverVars
<1>9. ASSUME NEW o \in Calls, SendCommit(o) PROVE DataTypes'
  BY <1>9 DEF SendCommit, Statement
<1>10. ASSUME NEW q \in Calls, Fetch(q) PROVE DataTypes'
  <2>1. PICK page \in Pages(q) :
          found' = [found EXCEPT ![q] =
            [summary |-> page, detail |-> (page \intersect rows.detail) \ expired.detail]]
    BY <1>10 DEF Fetch
  <2>2. page \in SUBSET Events
    BY <1>b DEF Pages, Limited, Matching
  <2>3. [summary |-> page, detail |-> (page \intersect rows.detail) \ expired.detail] \in Parts
    BY <1>b, <1>c, <2>2
  <2> QED
    BY <1>10, <2>1, <2>3 DEF Fetch, Statement, serverVars
<1>11. ASSUME NEW q \in Calls, Filter(q) PROVE DataTypes'
  BY <1>11, PartsType DEF Filter, serverVars
<1>12. ASSUME NEW o \in Calls, Commit(o) PROVE DataTypes'
  <2>1. [summary |-> rows.summary \union mine[o].summary,
         detail |-> rows.detail \union mine[o].detail] \in Parts
    BY <1>b, <1>c
  <2> QED
    BY <1>12, <2>1, PartsType DEF Commit
<1>13. ASSUME NEW o \in Calls, Abort(o) PROVE DataTypes'
  BY <1>13, PartsType DEF Abort
<1>14. ASSUME NEW s \in Stores, Close(s) \/ CloseDb(s) PROVE DataTypes'
  BY <1>14 DEF Close, CloseDb, serverVars
<1>15. ASSUME NEW lot \in Lots, Expire(lot) PROVE DataTypes'
  <2>1. lot \in SUBSET Events
    BY StoreAssumption
  <2>2. expired' \in Parts
    BY <1>15, <2>1 DEF Expire, Parts
  <2> QED
    BY <1>15, <2>2 DEF Expire, serverVars
<1>16. CASE UNCHANGED vars
  BY <1>16 DEF vars, serverVars
<1> QED
  BY <1>1, <1>3, <1>4, <1>5, <1>6, <1>7, <1>8, <1>9, <1>10, <1>11, <1>12, <1>13, <1>14, <1>15,
     <1>16 DEF Next, LoopStep, TaskStep

(* Every step keeps the types.                                              *)
LEMMA NextType == TypeOK /\ LineInv /\ TxnInv /\ [Next]_vars => TypeOK'
  BY NextProcessTypes, NextDataTypes, TypesSplit

-----------------------------------------------------------------------------
(* Every step keeps the lines                                               *)

(* All is well with the line of s and the calls of s.                       *)
LineOf(s) == StoreLine(s) /\ \A x \in Calls : Home[x] = s => InLine(x)

(* The lines of the stores are independent.                                 *)
LEMMA LinesSplit ==
  /\ LineInv <=> \A s \in Stores : LineOf(s)
  /\ LineInv' <=> \A s \in Stores : LineOf(s)'
  BY KindsDiffer DEF LineInv, LineOf

(* A line as a sequence.                                                    *)
LEMMA LineSeq ==
  ASSUME ProcessTypes, NEW s \in Stores
  PROVE  /\ line[s] \in Seq(Calls \union {Closer}) /\ Len(line[s]) \in Nat
         /\ DOMAIN line[s] = 1..Len(line[s])
         /\ line[s] # <<>> => /\ 1 \in DOMAIN line[s] /\ Head(line[s]) = line[s][1]
                              /\ line[s][1] \in Calls \union {Closer}
         /\ line[s] = <<>> => DOMAIN line[s] = {}
<1>1. line[s] \in Seq(Calls \union {Closer})
  BY DEF ProcessTypes
<1>2. Len(line[s]) \in Nat /\ DOMAIN line[s] = 1..Len(line[s])
  BY <1>1, LenProperties
<1>3. line[s] # <<>> => /\ 1 \in DOMAIN line[s] /\ Head(line[s]) = line[s][1]
                        /\ line[s][1] \in Calls \union {Closer}
  BY <1>1, TailProperties
<1>4. line[s] = <<>> => DOMAIN line[s] = {}
  BY <1>1, <1>2
<1> QED
  BY <1>1, <1>2, <1>3, <1>4

(* Another store is not concerned.                                          *)
LEMMA OtherLine ==
  ASSUME NEW s \in Stores, LineOf(s), line'[s] = line[s], closing'[s] = closing[s],
         \A x \in Calls : Home[x] = s => at'[x] = at[x]
  PROVE  LineOf(s)'
<1>1. StoreLine(s)'
  BY DEF LineOf, StoreLine
<1>2. \A x \in Calls : Home[x] = s => InLine(x)'
  BY DEF LineOf, InLine
<1> QED
  BY <1>1, <1>2 DEF LineOf

(* The first of a line goes on.                                             *)
LEMMA FirstGoesOn ==
  ASSUME ProcessTypes, NEW s \in Stores, LineOf(s), line[s] # <<>>, line[s][1] # Closer,
         line'[s] = line[s], closing'[s] = closing[s],
         at'[line[s][1]] \in Busy,
         \A x \in Calls : Home[x] = s /\ x # line[s][1] => at'[x] = at[x]
  PROVE  LineOf(s)'
<1>0. 1 \in DOMAIN line[s]
  BY LineSeq
<1>1. StoreLine(s)'
  <2> SUFFICES ASSUME NEW i \in DOMAIN line[s], line[s][i] # Closer
               PROVE  at'[line[s][i]] = "waiting" \/ (i = 1 /\ at'[line[s][i]] \in Busy)
    BY DEF LineOf, StoreLine
  <2>1. CASE i = 1
    BY <2>1
  <2>2. CASE i # 1
    <3>1. line[s][i] # line[s][1] /\ line[s][i] \in Calls /\ Home[line[s][i]] = s
      BY <1>0, <2>2 DEF LineOf, StoreLine
    <3> QED
      BY <2>2, <3>1 DEF LineOf, StoreLine
  <2> QED
    BY <2>1, <2>2
<1>2. \A x \in Calls : Home[x] = s => InLine(x)'
  <2> SUFFICES ASSUME NEW x \in Calls, Home[x] = s PROVE InLine(x)'
    OBVIOUS
  <2>1. CASE x = line[s][1]
    BY <1>0, <2>1 DEF InLine
  <2>2. CASE x # line[s][1]
    BY <2>2 DEF LineOf, InLine
  <2> QED
    BY <2>1, <2>2
<1> QED
  BY <1>1, <1>2 DEF LineOf

(* The first of a line leaves it, or the connection is closed.              *)
LEMMA FirstLeaves ==
  ASSUME ProcessTypes, NEW s \in Stores, LineOf(s), line[s] # <<>>, line'[s] = Tail(line[s]),
         \/ line[s][1] # Closer /\ closing'[s] = closing[s] /\ at'[line[s][1]] \in Over
         \/ line[s][1] = Closer /\ closing'[s] = "closed",
         \A x \in Calls : Home[x] = s /\ x # line[s][1] => at'[x] = at[x]
  PROVE  LineOf(s)'
<1>0. line[s] \in Seq(Calls \union {Closer}) /\ 1 \in DOMAIN line[s]
  BY LineSeq
<1>1. /\ Len(line[s]) \in Nat \ {0} /\ DOMAIN line[s] = 1..Len(line[s])
      /\ Len(line'[s]) = Len(line[s]) - 1 /\ DOMAIN line'[s] = 1..(Len(line[s]) - 1)
      /\ \A i \in 1..(Len(line[s]) - 1) : line'[s][i] = line[s][i + 1]
      /\ line'[s] \in Seq(Calls \union {Closer})
  BY <1>0, TailProperties
<1>2. \A i \in DOMAIN line'[s] :
        /\ i + 1 \in DOMAIN line[s] /\ i + 1 # 1 /\ line'[s][i] = line[s][i + 1]
        /\ i + 1 = Len(line[s]) => i = Len(line'[s])
  BY <1>1
<1>3. line[s][1] = Closer => Len(line[s]) = 1
  BY <1>0, KindsDiffer DEF LineOf, StoreLine
<1>4. \A i \in DOMAIN line'[s] :
        \/ line'[s][i] = Closer /\ i = Len(line'[s]) /\ closing'[s] = "queued"
        \/ /\ line'[s][i] \in Calls /\ Home[line'[s][i]] = s
           /\ at'[line'[s][i]] = "waiting"
  <2> SUFFICES ASSUME NEW i \in DOMAIN line'[s]
               PROVE  \/ line[s][i + 1] = Closer /\ i = Len(line'[s]) /\ closing'[s] = "queued"
                      \/ /\ line[s][i + 1] \in Calls /\ Home[line[s][i + 1]] = s
                         /\ at'[line[s][i + 1]] = "waiting"
    BY <1>2
  <2>1. line[s][1] # Closer
    BY <1>1, <1>2, <1>3
  <2>2. line[s][i + 1] # line[s][1]
    BY <1>0, <1>2 DEF LineOf, StoreLine
  <2>3. CASE line[s][i + 1] = Closer
    BY <1>2, <2>1, <2>3, KindsDiffer DEF LineOf, StoreLine
  <2>4. CASE line[s][i + 1] # Closer
    BY <1>2, <2>2, <2>4 DEF LineOf, StoreLine
  <2> QED
    BY <2>3, <2>4
<1>5. \A i, j \in DOMAIN line'[s] : line'[s][i] = line'[s][j] => i = j
  <2> SUFFICES ASSUME NEW i \in DOMAIN line'[s], NEW j \in DOMAIN line'[s],
                      line'[s][i] = line'[s][j]
               PROVE  i = j
    OBVIOUS
  <2>1. i + 1 = j + 1
    BY <1>2 DEF LineOf, StoreLine
  <2> QED
    BY <1>1, <2>1
<1>6. closing'[s] = "closed" => line'[s] = <<>>
  <2>1. CASE line[s][1] = Closer
    <3>1. Len(line'[s]) = 0
      BY <1>1, <1>3, <2>1
    <3> QED
      BY <1>1, <3>1, EmptySeq
  <2>2. CASE line[s][1] # Closer
    BY <2>2 DEF LineOf, StoreLine
  <2> QED
    BY <2>1, <2>2
<1>7. \A x \in Calls : Home[x] = s => InLine(x)'
  <2> SUFFICES ASSUME NEW x \in Calls, Home[x] = s, at'[x] \in Busy \union {"waiting"}
               PROVE  \E i \in DOMAIN line'[s] : line'[s][i] = x
    BY DEF InLine
  <2>1. x # line[s][1]
    BY KindsDiffer, PlaceNames
  <2>2. PICK k \in DOMAIN line[s] : line[s][k] = x
    BY <2>1 DEF LineOf, InLine
  <2>3. k # 1
    BY <2>1, <2>2
  <2>4. k - 1 \in DOMAIN line'[s] /\ line'[s][k - 1] = line[s][k]
    BY <1>1, <2>3
  <2> QED
    BY <2>2, <2>4
<1> QED
  BY <1>4, <1>5, <1>6, <1>7 DEF LineOf, StoreLine

(* One who waits leaves the line.                                           *)
LEMMA OneLeaves ==
  ASSUME ProcessTypes, NEW s \in Stores, LineOf(s), NEW n \in DOMAIN line[s],
         line'[s] = RemoveAt(line[s], n), closing'[s] = closing[s],
         line[s][n] # Closer, at[line[s][n]] = "waiting", at'[line[s][n]] \in Over,
         \A x \in Calls : Home[x] = s /\ x # line[s][n] => at'[x] = at[x]
  PROVE  LineOf(s)'
<1>0. /\ line[s] \in Seq(Calls \union {Closer}) /\ Len(line[s]) \in Nat
      /\ DOMAIN line[s] = 1..Len(line[s])
  BY LineSeq
<1>1. /\ line'[s] \in Seq(Calls \union {Closer})
      /\ Len(line'[s]) = Len(line[s]) - 1
      /\ \A j \in 1..(Len(line[s]) - 1) :
           line'[s][j] = IF j < n THEN line[s][j] ELSE line[s][j + 1]
  BY <1>0, RemoveAtProperties
<1>2. DOMAIN line'[s] = 1..(Len(line[s]) - 1)
  BY <1>1, LenProperties
<1> DEFINE From(j) == IF j < n THEN j ELSE j + 1
<1>3. \A j \in DOMAIN line'[s] :
        /\ From(j) \in DOMAIN line[s] /\ From(j) # n /\ line'[s][j] = line[s][From(j)]
        /\ From(j) = Len(line[s]) => j = Len(line'[s])
        /\ From(j) = 1 => j = 1
  BY <1>0, <1>1, <1>2
<1>4. \A j, k \in DOMAIN line'[s] : From(j) = From(k) => j = k
  BY <1>0, <1>2
<1>5. \A k \in DOMAIN line[s] : k # n => \E j \in DOMAIN line'[s] : From(j) = k
  <2> SUFFICES ASSUME NEW k \in DOMAIN line[s], k # n
               PROVE  \E j \in DOMAIN line'[s] : From(j) = k
    OBVIOUS
  <2>1. CASE k < n
    BY <1>0, <1>2, <2>1
  <2>2. CASE ~(k < n)
    <3>1. k - 1 \in DOMAIN line'[s] /\ From(k - 1) = k
      BY <1>0, <1>2, <2>2
    <3> QED
      BY <3>1
  <2> QED
    BY <2>1, <2>2
<1> HIDE DEF From
<1>6. \A j \in DOMAIN line'[s] :
        \/ line'[s][j] = Closer /\ j = Len(line'[s]) /\ closing'[s] = "queued"
        \/ /\ line'[s][j] \in Calls /\ Home[line'[s][j]] = s
           /\ at'[line'[s][j]] = "waiting" \/ (j = 1 /\ at'[line'[s][j]] \in Busy)
  <2> SUFFICES ASSUME NEW j \in DOMAIN line'[s], NEW k, k = From(j)
               PROVE  \/ line[s][k] = Closer /\ j = Len(line'[s]) /\ closing'[s] = "queued"
                      \/ /\ line[s][k] \in Calls /\ Home[line[s][k]] = s
                         /\ at'[line[s][k]] = "waiting" \/ (j = 1 /\ at'[line[s][k]] \in Busy)
    BY <1>3
  <2>1. k \in DOMAIN line[s] /\ line[s][k] # line[s][n]
    BY <1>3 DEF LineOf, StoreLine
  <2>2. CASE line[s][k] = Closer
    BY <1>3, <2>1, <2>2, KindsDiffer DEF LineOf, StoreLine
  <2>3. CASE line[s][k] # Closer
    BY <1>3, <2>1, <2>3 DEF LineOf, StoreLine
  <2> QED
    BY <2>2, <2>3
<1>7. \A i, j \in DOMAIN line'[s] : line'[s][i] = line'[s][j] => i = j
  BY <1>3, <1>4 DEF LineOf, StoreLine
<1>8. closing'[s] = "closed" => line'[s] = <<>>
  BY <1>0 DEF LineOf, StoreLine
<1>9. \A x \in Calls : Home[x] = s => InLine(x)'
  <2> SUFFICES ASSUME NEW x \in Calls, Home[x] = s, at'[x] \in Busy \union {"waiting"}
               PROVE  \E i \in DOMAIN line'[s] : line'[s][i] = x
    BY DEF InLine
  <2>1. x # line[s][n]
    BY PlaceNames
  <2>2. PICK k \in DOMAIN line[s] : line[s][k] = x
    BY <2>1 DEF LineOf, InLine
  <2>3. k # n
    BY <2>1, <2>2
  <2> QED
    BY <1>3, <1>5, <2>2, <2>3
<1> QED
  BY <1>6, <1>7, <1>8, <1>9 DEF LineOf, StoreLine

(* Somebody joins the line, or the closing of the connection does.          *)
LEMMA OneJoins ==
  ASSUME ProcessTypes, NEW s \in Stores, LineOf(s), closing[s] = "no", NEW new,
         line'[s] = Append(line[s], new),
         \/ /\ new \in Calls /\ Home[new] = s /\ closing'[s] = closing[s] /\ at[new] = "new"
            /\ at'[new] = "waiting" \/ (line[s] = <<>> /\ at'[new] \in Busy)
         \/ new = Closer /\ closing'[s] = "queued",
         \A x \in Calls : Home[x] = s /\ x # new => at'[x] = at[x]
  PROVE  LineOf(s)'
<1>0. /\ line[s] \in Seq(Calls \union {Closer}) /\ Len(line[s]) \in Nat
      /\ DOMAIN line[s] = 1..Len(line[s]) /\ new \in Calls \union {Closer}
      /\ line[s] = <<>> => Len(line[s]) = 0
  BY LineSeq, EmptySeq
<1>1. /\ line'[s] \in Seq(Calls \union {Closer}) /\ Len(line'[s]) = Len(line[s]) + 1
      /\ \A i \in 1..Len(line[s]) : line'[s][i] = line[s][i]
      /\ line'[s][Len(line[s]) + 1] = new
  BY <1>0, AppendProperties
<1>2. DOMAIN line'[s] = 1..(Len(line[s]) + 1)
  BY <1>1, LenProperties
<1>3. \A i \in DOMAIN line'[s] : \/ i \in DOMAIN line[s] /\ line'[s][i] = line[s][i]
                                 \/ i = Len(line'[s]) /\ line'[s][i] = new
  BY <1>0, <1>1, <1>2
<1>4. \A i \in DOMAIN line[s] : line[s][i] # Closer /\ line[s][i] # new
  <2> SUFFICES ASSUME NEW i \in DOMAIN line[s] PROVE line[s][i] # Closer /\ line[s][i] # new
    OBVIOUS
  <2>1. line[s][i] # Closer /\ line[s][i] \in Calls /\ at[line[s][i]] \in Busy \union {"waiting"}
    BY KindsDiffer DEF LineOf, StoreLine
  <2>2. "new" \notin Busy
    BY DEF Busy, Running
  <2> QED
    BY <2>1, <2>2
<1>5. \A i \in DOMAIN line'[s] :
        \/ line'[s][i] = Closer /\ i = Len(line'[s]) /\ closing'[s] = "queued"
        \/ /\ line'[s][i] \in Calls /\ Home[line'[s][i]] = s
           /\ at'[line'[s][i]] = "waiting" \/ (i = 1 /\ at'[line'[s][i]] \in Busy)
  <2> SUFFICES ASSUME NEW i \in DOMAIN line'[s]
               PROVE  \/ line'[s][i] = Closer /\ i = Len(line'[s]) /\ closing'[s] = "queued"
                      \/ /\ line'[s][i] \in Calls /\ Home[line'[s][i]] = s
                         /\ at'[line'[s][i]] = "waiting" \/ (i = 1 /\ at'[line'[s][i]] \in Busy)
    OBVIOUS
  <2>1. CASE i \in DOMAIN line[s] /\ line'[s][i] = line[s][i]
    BY <1>4, <2>1 DEF LineOf, StoreLine
  <2>2. CASE i = Len(line'[s]) /\ line'[s][i] = new
    BY <1>0, <1>1, <2>2
  <2> QED
    BY <1>3, <2>1, <2>2
<1>6. \A i, j \in DOMAIN line'[s] : line'[s][i] = line'[s][j] => i = j
  BY <1>3, <1>4 DEF LineOf, StoreLine
<1>7. closing'[s] # "closed"
  OBVIOUS
<1>8. \A x \in Calls : Home[x] = s => InLine(x)'
  <2> SUFFICES ASSUME NEW x \in Calls, Home[x] = s, at'[x] \in Busy \union {"waiting"}
               PROVE  \E i \in DOMAIN line'[s] : line'[s][i] = x
    BY DEF InLine
  <2>1. CASE x = new
    <3>1. Len(line[s]) + 1 \in DOMAIN line'[s]
      BY <1>0, <1>2
    <3> QED
      BY <1>1, <2>1, <3>1
  <2>2. CASE x # new
    <3>1. PICK k \in DOMAIN line[s] : line[s][k] = x
      BY <2>2 DEF LineOf, InLine
    <3>2. k \in DOMAIN line'[s] /\ line'[s][k] = line[s][k]
      BY <1>0, <1>1, <1>2
    <3> QED
      BY <3>1, <3>2
  <2> QED
    BY <2>1, <2>2
<1> QED
  BY <1>5, <1>6, <1>7, <1>8 DEF LineOf, StoreLine

(* Every step keeps the lines.                                              *)
LEMMA NextLine == TypeOK /\ LineInv /\ [Next]_vars => LineInv'
<1> SUFFICES ASSUME TypeOK, LineInv, [Next]_vars, NEW s \in Stores PROVE LineOf(s)'
  BY LinesSplit
<1>0. ProcessTypes /\ LineOf(s)
  BY TypesSplit, LinesSplit
<1>a. /\ closing \in [Stores -> {"no", "queued", "closed"}]
      /\ line \in [Stores -> Seq(Calls \union {Closer})]
      /\ at \in [Calls -> Places]
  BY <1>0 DEF ProcessTypes
<1>1. ASSUME NEW o \in Calls, Steps(o), Home[o] # s PROVE LineOf(s)'
  <2>1. line'[s] = line[s] /\ closing'[s] = closing[s]
    BY <1>1, <1>a, PlaceNames DEF Steps, Moves, Departs, Invoke, Resume, Leave, Busy
  <2>2. \A x \in Calls : Home[x] = s => at'[x] = at[x]
    BY <1>1, <1>a, PlaceNames DEF Steps, Moves, Departs, Invoke, Resume, Leave, Busy
  <2> QED
    BY <1>0, <2>1, <2>2, OtherLine
<1>2. ASSUME NEW o \in Calls, Home[o] = s, at[o] \in Busy, NEW to \in Busy, Moves(o, at[o], to)
      PROVE  LineOf(s)'
  <2>1. line[s] # <<>> /\ line[s][1] = o /\ o # Closer
    BY <1>0, <1>2, BusyFirst, KindsDiffer
  <2>2. /\ line'[s] = line[s] /\ closing'[s] = closing[s] /\ at'[o] = to
        /\ \A x \in Calls : x # o => at'[x] = at[x]
    BY <1>2, <1>a DEF Moves
  <2> QED
    BY <1>0, <2>1, <2>2, FirstGoesOn
<1>3. ASSUME NEW o \in Calls, Home[o] = s, at[o] \in Busy, NEW to \in Over, Departs(o, to)
      PROVE  LineOf(s)'
  <2>1. line[s] # <<>> /\ line[s][1] = o /\ o # Closer
    BY <1>0, <1>3, BusyFirst, KindsDiffer
  <2>2. /\ line'[s] = Tail(line[s]) /\ closing'[s] = closing[s] /\ at'[o] = to
        /\ \A x \in Calls : x # o => at'[x] = at[x]
    BY <1>3, <1>a DEF Departs
  <2> QED
    BY <1>0, <2>1, <2>2, FirstLeaves
<1>4. ASSUME NEW o \in Calls, Home[o] = s, Invoke(o) PROVE LineOf(s)'
  <2>0. /\ closing'[s] = closing[s] /\ at[o] = "new"
        /\ \A x \in Calls : x # o => at'[x] = at[x]
    BY <1>4, <1>a DEF Invoke
  <2>1. CASE closing[s] # "no"
    <3>1. line'[s] = line[s] /\ at'[o] = "refused"
      BY <1>4, <1>a, <2>1 DEF Invoke
    <3>2. StoreLine(s)'
      <4>1. \A i \in DOMAIN line[s] : line[s][i] # o
        BY <1>0, <2>0, PlaceNames, KindsDiffer DEF LineOf, StoreLine
      <4> QED
        BY <1>0, <2>0, <3>1, <4>1 DEF LineOf, StoreLine
    <3>3. \A x \in Calls : Home[x] = s => InLine(x)'
      BY <1>0, <2>0, <3>1, PlaceNames DEF LineOf, InLine
    <3> QED
      BY <3>2, <3>3 DEF LineOf
  <2>2. CASE closing[s] = "no"
    <3>1. /\ line'[s] = Append(line[s], o)
          /\ at'[o] = IF line[s] # <<>> THEN "waiting" ELSE Entry(s)
      BY <1>4, <1>a, <2>2 DEF Invoke
    <3>2. Entry(s) \in Busy
      BY PlaceNames DEF Entry
    <3> QED
      BY <1>0, <1>4, <2>0, <2>2, <3>1, <3>2, OneJoins
  <2> QED
    BY <2>1, <2>2
<1>5. ASSUME NEW o \in Calls, Home[o] = s, Resume(o) PROVE LineOf(s)'
  <2>0. /\ closing'[s] = closing[s] /\ at[o] = "waiting" /\ Head(line[s]) = o
        /\ \A x \in Calls : x # o => at'[x] = at[x]
    BY <1>5, <1>a DEF Resume
  <2>1. line[s] # <<>> /\ line[s][1] = o /\ o # Closer
    <3>1. line[s] # <<>>
      BY <1>0, <1>5, <2>0, LineSeq DEF LineOf, InLine
    <3> QED
      BY <1>0, <2>0, <3>1, LineSeq, KindsDiffer
  <2>2. CASE closing[s] # "no"
    <3>1. line'[s] = Tail(line[s]) /\ at'[o] = "refused"
      BY <1>5, <1>a, <2>2 DEF Resume
    <3> QED
      BY <1>0, <2>0, <2>1, <3>1, FirstLeaves, PlaceNames
  <2>3. CASE closing[s] = "no"
    <3>1. line'[s] = line[s] /\ at'[o] = Entry(s)
      BY <1>5, <1>a, <2>3 DEF Resume
    <3> QED
      BY <1>0, <2>0, <2>1, <3>1, FirstGoesOn, PlaceNames DEF Entry
  <2> QED
    BY <2>2, <2>3
<1>6. ASSUME NEW o \in Calls, Home[o] = s, at[o] = "waiting", Leave(o) PROVE LineOf(s)'
  <2>1. /\ at' = [at EXCEPT ![o] = "raised"] /\ closing' = closing
        /\ \E i \in DOMAIN line[s] :
             line[s][i] = o /\ line' = [line EXCEPT ![s] = RemoveAt(line[s], i)]
    BY <1>6, PlaceNames DEF Leave, Busy
  <2>2. PICK i \in DOMAIN line[s] :
          line[s][i] = o /\ line' = [line EXCEPT ![s] = RemoveAt(line[s], i)]
    BY <2>1
  <2>3. /\ line'[s] = RemoveAt(line[s], i) /\ at'[o] = "raised" /\ o # Closer
        /\ \A x \in Calls : x # o => at'[x] = at[x]
    BY <1>a, <2>1, <2>2, KindsDiffer
  <2> QED
    BY <1>0, <1>6, <2>1, <2>2, <2>3, OneLeaves, PlaceNames
<1>7. ASSUME NEW t \in Stores, Close(t) \/ CloseDb(t), t # s PROVE LineOf(s)'
  BY <1>0, <1>7, <1>a, OtherLine DEF Close, CloseDb
<1>8. CASE Close(s)
  <2>1. /\ line'[s] = Append(line[s], Closer) /\ closing'[s] = "queued" /\ at' = at
        /\ closing[s] = "no"
    BY <1>8, <1>a DEF Close
  <2> QED
    BY <1>0, <2>1, OneJoins
<1>9. CASE CloseDb(s)
  <2>1. /\ line[s] # <<>> /\ Head(line[s]) = Closer /\ line'[s] = Tail(line[s])
        /\ closing'[s] = "closed" /\ at' = at
    BY <1>9, <1>a DEF CloseDb
  <2>2. line[s][1] = Closer
    BY <1>0, <2>1, LineSeq
  <2> QED
    BY <1>0, <2>1, <2>2, FirstLeaves
<1>10. CASE UNCHANGED <<closing, line, at>>
  BY <1>0, <1>10, OtherLine
<1> QED
  BY <1>1, <1>2, <1>3, <1>4, <1>5, <1>6, <1>7, <1>8, <1>9, <1>10, NextSteps
  DEF LineSteps, Steps

-----------------------------------------------------------------------------
(* Every step keeps the connections                                         *)

(* All is well with the connection of s.                                    *)
ConnOf(s) ==
  /\ \A o \in session[s] : Home[o] = s /\ at[o] \in InTxn
  /\ conn[s] = "raw" => \E o \in Calls : Home[o] = s /\ at[o] = "configuring"
  /\ closing[s] = "closed" => conn[s] = "none"

(* A call moves on, and no other, and it was not one the connection was for.*)
LEMMA ConnKept ==
  ASSUME NEW s \in Stores, ConnOf(s), session[s] \subseteq Calls,
         session'[s] = session[s], conn'[s] = conn[s],
         closing'[s] = "closed" => closing[s] = "closed", NEW o \in Calls,
         \A x \in Calls : x # o => at'[x] = at[x],
         Home[o] # s \/ at'[o] = at[o] \/ at[o] \notin InTxn \union {"configuring"}
  PROVE  ConnOf(s)'
<1>1. \A x \in session[s] : x \in Calls /\ Home[x] = s /\ at[x] \in InTxn
  BY DEF ConnOf
<1>2. \A x \in session[s] : Home[x] = s /\ at'[x] \in InTxn
  BY <1>1
<1>3. conn[s] = "raw" => \E x \in Calls : Home[x] = s /\ at'[x] = "configuring"
  BY DEF ConnOf
<1> QED
  BY <1>2, <1>3 DEF ConnOf

(* Every step keeps the connections.                                        *)
LEMMA NextConn == TypeOK /\ LineInv /\ ConnInv /\ [Next]_vars => ConnInv'
<1> SUFFICES ASSUME TypeOK, LineInv, ConnInv, [Next]_vars, NEW s \in Stores PROVE ConnOf(s)'
  BY DEF ConnInv, ConnOf
<1>0. ConnOf(s) /\ ProcessTypes
  BY TypesSplit DEF ConnInv, ConnOf
<1>a. /\ conn \in [Stores -> {"none", "raw", "ready"}] /\ session \in [Stores -> SUBSET Calls]
      /\ closing \in [Stores -> {"no", "queued", "closed"}] /\ at \in [Calls -> Places]
      /\ session[s] \subseteq Calls
  BY <1>0 DEF ProcessTypes
<1>b. \A o \in Calls : Home[o] \in Stores
  BY KindsDiffer
<1>1. ASSUME NEW o \in Calls,
             Invoke(o) \/ Resume(o) \/ Return(o) \/ (at[o] = "waiting" /\ Leave(o)) \/ Fetch(o)
             \/ Filter(o)
      PROVE  ConnOf(s)'
  <2>1. UNCHANGED <<conn, session, closing>>
    BY <1>1, PlaceNames
    DEF Invoke, Resume, Return, Leave, Fetch, Filter, Statement, Busy, serverVars
  <2>2. at[o] \in {"new", "waiting", "done", "working", "filtering"}
    BY <1>1 DEF Invoke, Resume, Return, Leave, Fetch, Filter, Statement
  <2>3. at[o] \notin InTxn \union {"configuring"}
    BY <2>2 DEF InTxn
  <2>4. \A x \in Calls : x # o => at'[x] = at[x]
    BY <1>1, <1>a, PlaceNames
    DEF Invoke, Resume, Return, Leave, Fetch, Filter, Statement, Busy
  <2> QED
    BY <1>0, <1>a, <2>1, <2>3, <2>4, ConnKept
<1>2. ASSUME NEW o \in Calls, Stop(o) PROVE ConnOf(s)'
  <2>1. \A x \in Calls : x # o => at'[x] = at[x]
    BY <1>2, <1>a DEF Stop
  <2>2. CASE Home[o] = s
    <3>1. conn'[s] = "none" /\ session'[s] = {}
      BY <1>2, <1>a, <2>2 DEF Stop, Dropped
    <3> QED
      BY <3>1 DEF ConnOf
  <2>3. CASE Home[o] # s
    <3>1. conn'[s] = conn[s] /\ session'[s] = session[s] /\ closing' = closing
      BY <1>2, <1>a, <2>3 DEF Stop, Dropped
    <3> QED
      BY <1>0, <1>a, <2>1, <2>3, <3>1, ConnKept
  <2> QED
    BY <2>2, <2>3
<1>3. ASSUME NEW o \in Calls, Connect(o) \/ Configure(o) PROVE ConnOf(s)'
  <2>1. /\ at[o] \in {"connecting", "configuring"} /\ closing' = closing /\ session' = session
        /\ conn' = [conn EXCEPT ![Home[o]] = IF at[o] = "connecting" THEN "raw" ELSE "ready"]
        /\ at' = [at EXCEPT ![o] = IF at[o] = "connecting" THEN "configuring" ELSE "working"]
    BY <1>3 DEF Connect, Configure
  <2>2. /\ at'[o] = IF at[o] = "connecting" THEN "configuring" ELSE "working"
        /\ \A x \in Calls : x # o => at'[x] = at[x]
    BY <1>a, <2>1
  <2>3. CASE Home[o] # s
    <3>1. conn'[s] = conn[s]
      BY <2>1, <2>3
    <3> QED
      BY <1>0, <1>a, <2>1, <2>2, <2>3, <3>1, ConnKept
  <2>4. CASE Home[o] = s
    <3>1. conn'[s] = IF at[o] = "connecting" THEN "raw" ELSE "ready"
      BY <1>a, <2>1, <2>4
    <3>2. closing[s] # "closed"
      BY <1>0, <2>1, <2>4, BusyFirst, PlaceNames
    <3>3. \A x \in session[s] : Home[x] = s /\ at'[x] \in InTxn
      <4>1. at[o] \notin InTxn
        BY <2>1 DEF InTxn
      <4> QED
        BY <1>0, <1>a, <2>2, <4>1 DEF ConnOf
    <3>4. conn'[s] = "raw" => at'[o] = "configuring"
      BY <2>1, <2>2, <3>1
    <3> QED
      BY <2>1, <2>4, <3>2, <3>3, <3>4 DEF ConnOf
  <2> QED
    BY <2>3, <2>4
<1>4. ASSUME NEW o \in Calls, Insert(o) \/ ClaimDetails(o) \/ ClaimSummaries(o) \/ Count(o)
             \/ SendCommit(o)
      PROVE  ConnOf(s)'
  <2>1. /\ at[o] # "configuring" /\ UNCHANGED <<closing, conn>>
        /\ \A x \in Calls : x # o => at'[x] = at[x]
    BY <1>4, <1>a DEF Insert, ClaimDetails, ClaimSummaries, Count, SendCommit, Statement
  <2>2. at'[o] \in InTxn
    BY <1>4, <1>a DEF Insert, ClaimDetails, ClaimSummaries, Count, SendCommit, Statement, InTxn
  <2>3. session' = session \/ session' = [session EXCEPT ![Home[o]] = @ \union {o}]
    BY <1>4 DEF Insert, ClaimDetails, ClaimSummaries, Count, SendCommit, Begin, serverVars
  <2>4. \A x \in session'[s] : (x = o /\ Home[o] = s) \/ x \in session[s]
    BY <1>a, <1>b, <2>3
  <2>5. \A x \in session'[s] : Home[x] = s /\ at'[x] \in InTxn
    BY <1>0, <1>a, <2>1, <2>2, <2>4 DEF ConnOf
  <2>6. conn'[s] = "raw" => \E x \in Calls : Home[x] = s /\ at'[x] = "configuring"
    BY <1>0, <2>1 DEF ConnOf
  <2> QED
    BY <1>0, <2>1, <2>5, <2>6 DEF ConnOf
<1>5. ASSUME NEW o \in Calls, Answered(o) PROVE ConnOf(s)'
  <2>1. /\ at[o] = "acknowledging" /\ UNCHANGED <<closing, conn>>
        /\ \A x \in Calls : x # o => at'[x] = at[x]
    BY <1>5, <1>a DEF Answered
  <2>2. \A x \in session'[s] : x \in session[s] /\ (Home[o] = s => x # o)
    BY <1>5, <1>a, <1>b DEF Answered
  <2>3. \A x \in session'[s] : Home[x] = s /\ at'[x] \in InTxn
    BY <1>0, <1>a, <2>1, <2>2 DEF ConnOf
  <2>4. conn'[s] = "raw" => \E x \in Calls : Home[x] = s /\ at'[x] = "configuring"
    BY <1>0, <2>1 DEF ConnOf
  <2> QED
    BY <1>0, <2>1, <2>3, <2>4 DEF ConnOf
<1>6. ASSUME NEW t \in Stores, Close(t) PROVE ConnOf(s)'
  <2>1. /\ UNCHANGED <<conn, session, at>>
        /\ closing'[s] = "closed" => closing[s] = "closed"
    BY <1>6, <1>a DEF Close
  <2> QED
    BY <1>0, <2>1 DEF ConnOf
<1>7. ASSUME NEW t \in Stores, CloseDb(t) PROVE ConnOf(s)'
  <2>1. CASE t = s
    BY <1>7, <1>a, <2>1 DEF CloseDb, Dropped, ConnOf
  <2>2. CASE t # s
    BY <1>0, <1>7, <1>a, <2>2 DEF CloseDb, Dropped, ConnOf
  <2> QED
    BY <2>1, <2>2
<1>8. CASE UNCHANGED <<closing, conn, session, at>>
  BY <1>0, <1>8 DEF ConnOf
<1>9. ASSUME NEW o \in Calls, Commit(o) \/ Abort(o) PROVE ConnOf(s)'
  BY <1>8, <1>9 DEF Commit, Abort, processVars
<1>10. ASSUME NEW lot \in Lots, Expire(lot) PROVE ConnOf(s)'
  BY <1>8, <1>10 DEF Expire, processVars
<1>11. ASSUME NEW o \in Calls, Fail(o) \/ Leave(o) PROVE ConnOf(s)'
  BY <1>1, <1>2, <1>11 DEF Fail, Leave
<1>12. ASSUME NEW o \in Calls, TaskStep(o) PROVE ConnOf(s)'
  BY <1>1, <1>3, <1>4, <1>5, <1>12 DEF TaskStep
<1>13. CASE UNCHANGED vars
  BY <1>8, <1>13 DEF vars, processVars
<1> QED
  BY <1>1, <1>6, <1>7, <1>9, <1>10, <1>11, <1>12, <1>13 DEF Next, LoopStep

(* What is true when somebody works: his connection is set up, and nobody   *)
(* else's transaction is open in it.                                        *)
LEMMA CleanFromInv == ProcessTypes /\ LineInv /\ ConnInv => ConnectionIsClean
<1> SUFFICES ASSUME ProcessTypes, LineInv, ConnInv, NEW s \in Stores
             PROVE  LET holder == {o \in Calls : line[s] # <<>> /\ Head(line[s]) = o
                                                 /\ at[o] # "waiting"}
                    IN  /\ {o \in Calls : Home[o] = s /\ at[o] \in Running \union {"done"}} = holder
                        /\ session[s] \subseteq holder
                        /\ conn[s] = "raw" => \E o \in holder : at[o] = "configuring"
                        /\ closing[s] = "closed" => conn[s] = "none"
  BY DEF ConnectionIsClean
<1> DEFINE busy   == {o \in Calls : Home[o] = s /\ at[o] \in Running \union {"done"}}
           holder == {o \in Calls : line[s] # <<>> /\ Head(line[s]) = o /\ at[o] # "waiting"}
<1>0. session[s] \subseteq Calls
  BY DEF ProcessTypes
<1>1. ASSUME NEW o \in busy PROVE o \in holder
  <2>1. Home[o] = s /\ at[o] \in Busy /\ at[o] # "waiting"
    BY PlaceNames DEF Busy
  <2> QED
    BY <2>1, BusyFirst
<1>2. ASSUME NEW o \in holder PROVE o \in busy
  <2>1. 1 \in DOMAIN line[s] /\ line[s][1] = o
    BY LineSeq
  <2>2. o # Closer
    BY KindsDiffer
  <2> QED
    BY <2>1, <2>2 DEF LineInv, StoreLine, Busy
<1>3. busy = holder
  BY <1>1, <1>2
<1>4. session[s] \subseteq busy
  <2>1. InTxn \subseteq Running
    BY DEF InTxn, Running
  <2> QED
    BY <1>0, <2>1 DEF ConnInv
<1>5. conn[s] = "raw" => \E o \in busy : at[o] = "configuring"
  BY DEF ConnInv, Running
<1> HIDE DEF busy
<1> QED
  BY <1>3, <1>4, <1>5 DEF ConnInv, busy

-----------------------------------------------------------------------------
(* Every step keeps what is known of the transactions                       *)

(* All is well with the transaction of o.                                   *)
TxnOf(o) ==
  /\ at[o] \in {"new", "waiting", "refused", "connecting", "configuring", "working",
                "filtering"} =>
       txn[o] = "none"
  /\ at[o] \in {"summaries", "counting", "committing"} => txn[o] \in {"open", "aborted"}
  /\ at[o] = "acknowledging" => txn[o] \in {"sent", "committed", "aborted"}
  /\ at[o] \in {"done", "returned"} /\ o \notin Queries => txn[o] = "committed"
  /\ o \in Queries => at[o] \notin InTxn /\ txn[o] = "none"
  /\ at[o] = "filtering" => o \in Queries
  /\ at[o] \in {"summaries", "counting"} => o \in Purges
  /\ txn[o] \in {"none", "aborted"} => mine[o] = Nothing

(* A step of one call changes nothing of another call.                      *)
LEMMA OthersStay ==
  ASSUME TypeOK, NEW o \in Calls,
         Invoke(o) \/ LoopStep(o) \/ TaskStep(o) \/ Fail(o) \/ Leave(o) \/ Commit(o) \/ Abort(o)
  PROVE  \A x \in Calls : x # o => /\ at'[x] = at[x] /\ txn'[x] = txn[x] /\ mine'[x] = mine[x]
                                   /\ asOf'[x] = asOf[x] /\ found'[x] = found[x]
<1>0. /\ at \in [Calls -> Places]
      /\ txn \in [Calls -> {"none", "open", "sent", "committed", "aborted"}]
      /\ mine \in [Calls -> Parts] /\ asOf \in [Calls -> Views] /\ found \in [Calls -> Parts]
  BY TypesSplit DEF ProcessTypes, DataTypes
<1> SUFFICES ASSUME NEW x \in Calls, x # o
             PROVE  /\ at'[x] = at[x] /\ txn'[x] = txn[x] /\ mine'[x] = mine[x]
                    /\ asOf'[x] = asOf[x] /\ found'[x] = found[x]
  OBVIOUS
<1>1. at'[x] = at[x]
  BY <1>0 DEF Invoke, LoopStep, Resume, Return, TaskStep, Connect, Configure, Insert, ClaimDetails,
     ClaimSummaries, Count, SendCommit, Answered, Fetch, Filter, Statement, Fail, Leave, Stop,
     Commit, Abort, processVars
<1>2. txn'[x] = txn[x]
  BY <1>0 DEF Invoke, LoopStep, Resume, Return, TaskStep, Connect, Configure, Insert, ClaimDetails,
     ClaimSummaries, Count, SendCommit, Answered, Fetch, Filter, Begin, Fail, Leave, Stop,
     Commit, Abort, serverVars
<1>3. mine'[x] = mine[x]
  BY <1>0 DEF Invoke, LoopStep, Resume, Return, TaskStep, Connect, Configure, Insert, ClaimDetails,
     ClaimSummaries, Count, SendCommit, Answered, Fetch, Filter, Fail, Leave, Stop,
     Commit, Abort, serverVars
<1>4. asOf'[x] = asOf[x]
  BY <1>0 DEF Invoke, LoopStep, Resume, Return, TaskStep, Connect, Configure, Insert, ClaimDetails,
     ClaimSummaries, Count, SendCommit, Answered, Fetch, Filter, Statement, Fail, Leave, Stop,
     Commit, Abort
<1>5. found'[x] = found[x]
  BY <1>0 DEF Invoke, LoopStep, Resume, Return, TaskStep, Connect, Configure, Insert, ClaimDetails,
     ClaimSummaries, Count, SendCommit, Answered, Fetch, Filter, Fail, Leave, Stop,
     Commit, Abort
<1> QED
  BY <1>1, <1>2, <1>3, <1>4, <1>5

(* Every step keeps what is known of the transactions.                      *)
LEMMA NextTxn == TypeOK /\ LineInv /\ TxnInv /\ [Next]_vars => TxnInv'
<1> SUFFICES ASSUME TypeOK, LineInv, TxnInv, [Next]_vars PROVE \A x \in Calls : TxnOf(x)'
  BY DEF TxnInv, TxnOf
<1>a. /\ at \in [Calls -> Places]
      /\ txn \in [Calls -> {"none", "open", "sent", "committed", "aborted"}]
      /\ mine \in [Calls -> Parts]
  BY TypesSplit DEF ProcessTypes, DataTypes
<1>b. \A x \in Calls : TxnOf(x)
  BY DEF TxnInv, TxnOf
<1>c. ASSUME NEW o \in Calls,
             Invoke(o) \/ LoopStep(o) \/ TaskStep(o) \/ Fail(o) \/ Leave(o) \/ Commit(o)
             \/ Abort(o),
             TxnOf(o)'
      PROVE  \A x \in Calls : TxnOf(x)'
  <2> SUFFICES ASSUME NEW x \in Calls, x # o PROVE TxnOf(x)'
    BY <1>c
  <2>1. at'[x] = at[x] /\ txn'[x] = txn[x] /\ mine'[x] = mine[x]
    BY <1>c, OthersStay
  <2> QED
    BY <1>b, <2>1 DEF TxnOf
<1>1. ASSUME NEW o \in Calls, Invoke(o) \/ Resume(o) PROVE TxnOf(o)'
  <2>1. /\ at[o] \in {"new", "waiting"} /\ txn' = txn /\ mine' = mine
        /\ at'[o] \in {"refused", "waiting", "connecting", "working"}
    BY <1>1, <1>a DEF Invoke, Resume, Entry, serverVars
  <2> QED
    BY <1>b, <2>1 DEF TxnOf, InTxn
<1>2. ASSUME NEW o \in Calls, Return(o) PROVE TxnOf(o)'
  <2>1. at[o] = "done" /\ txn' = txn /\ mine' = mine /\ at'[o] = "returned"
    BY <1>2, <1>a DEF Return, serverVars
  <2> QED
    BY <1>b, <2>1 DEF TxnOf, InTxn
<1>3. ASSUME NEW o \in Calls, Fail(o) \/ Leave(o) PROVE TxnOf(o)'
  <2>1. txn' = txn /\ mine' = mine /\ at'[o] = "raised"
    BY <1>3, <1>a DEF Fail, Leave, Stop, serverVars
  <2> QED
    BY <1>b, <2>1 DEF TxnOf, InTxn
<1>4. ASSUME NEW o \in Calls, Connect(o) \/ Configure(o) PROVE TxnOf(o)'
  <2>1. /\ at[o] \in {"connecting", "configuring"} /\ txn' = txn /\ mine' = mine
        /\ at'[o] \in {"configuring", "working"}
    BY <1>4, <1>a DEF Connect, Configure, serverVars
  <2> QED
    BY <1>b, <2>1 DEF TxnOf, InTxn
<1>5. ASSUME NEW o \in Calls, Insert(o) \/ ClaimDetails(o) PROVE TxnOf(o)'
  <2>1. /\ o \notin Queries /\ txn'[o] = "open"
        /\ at'[o] = "committing" \/ (at'[o] = "summaries" /\ o \in Purges)
    BY <1>5, <1>a, KindsDiffer DEF Insert, ClaimDetails, Statement, Begin
  <2> QED
    BY <2>1 DEF TxnOf
<1>6. ASSUME NEW o \in Calls, ClaimSummaries(o) \/ Count(o) PROVE TxnOf(o)'
  <2>1. /\ at[o] \in {"summaries", "counting"} /\ txn[o] = "open" /\ txn' = txn
        /\ at'[o] \in {"counting", "committing"}
    BY <1>6, <1>a DEF ClaimSummaries, Count, Statement, serverVars
  <2> QED
    BY <1>b, <2>1, KindsDiffer DEF TxnOf
<1>7. ASSUME NEW o \in Calls, SendCommit(o) PROVE TxnOf(o)'
  <2>1. at[o] = "committing" /\ txn'[o] = "sent" /\ at'[o] = "acknowledging"
    BY <1>7, <1>a DEF SendCommit, Statement
  <2> QED
    BY <1>b, <2>1 DEF TxnOf, InTxn
<1>8. ASSUME NEW o \in Calls, Answered(o) PROVE TxnOf(o)'
  <2>1. at[o] = "acknowledging" /\ txn[o] = "committed" /\ txn' = txn /\ at'[o] = "done"
    BY <1>8, <1>a DEF Answered, Acknowledgeable, serverVars
  <2> QED
    BY <1>b, <2>1 DEF TxnOf, InTxn
<1>9. ASSUME NEW o \in Calls, Fetch(o) \/ Filter(o) PROVE TxnOf(o)'
  <2>1. /\ at[o] \in {"working", "filtering"} /\ txn' = txn /\ mine' = mine
        /\ at'[o] \in {"filtering", "done"}
    BY <1>9, <1>a DEF Fetch, Filter, Statement, serverVars
  <2>2. o \in Queries
    BY <1>b, <1>9 DEF Fetch, Filter, TxnOf
  <2> QED
    BY <1>b, <2>1, <2>2 DEF TxnOf, InTxn
<1>10. ASSUME NEW o \in Calls, Commit(o) PROVE TxnOf(o)'
  <2>1. txn[o] = "sent" /\ txn'[o] = "committed" /\ at' = at
    BY <1>10, <1>a DEF Commit, processVars
  <2> QED
    BY <1>b, <2>1 DEF TxnOf
<1>11. ASSUME NEW o \in Calls, Abort(o) PROVE TxnOf(o)'
  <2>1. txn[o] \in {"open", "sent"} /\ txn'[o] = "aborted" /\ at' = at /\ mine'[o] = Nothing
    BY <1>11, <1>a DEF Abort, Live, processVars
  <2> QED
    BY <1>b, <2>1 DEF TxnOf
<1>12. ASSUME UNCHANGED <<at, txn, mine>> PROVE \A x \in Calls : TxnOf(x)'
  BY <1>b, <1>12 DEF TxnOf
<1>13. CASE \/ UNCHANGED vars \/ \E lot \in Lots : Expire(lot)
            \/ \E s \in Stores : Close(s) \/ CloseDb(s)
  BY <1>12, <1>13 DEF Close, CloseDb, Expire, vars, processVars, serverVars
<1>14. ASSUME NEW o \in Calls, TaskStep(o) PROVE TxnOf(o)'
  BY <1>4, <1>5, <1>6, <1>7, <1>8, <1>9, <1>14 DEF TaskStep
<1>15. ASSUME NEW o \in Calls, LoopStep(o) PROVE TxnOf(o)'
  BY <1>1, <1>2, <1>15 DEF LoopStep
<1> QED
  BY <1>c, <1>1, <1>3, <1>10, <1>11, <1>13, <1>14, <1>15 DEF Next

-----------------------------------------------------------------------------
(* Every step keeps the claims of the open transactions                     *)

(* The steps the server and the clock take part in.                         *)
ServerSteps ==
  \/ \E o \in Calls : \/ Insert(o) \/ ClaimDetails(o) \/ ClaimSummaries(o) \/ SendCommit(o)
                      \/ Commit(o) \/ Abort(o)
  \/ \E lot \in Lots : Expire(lot)
  \/ UNCHANGED <<serverVars, expired>>

(* Every other step leaves the server and the clock alone.                  *)
LEMMA NextServerSteps == [Next]_vars => ServerSteps
<1> SUFFICES ASSUME [Next]_vars PROVE ServerSteps
  OBVIOUS
<1>1. ASSUME NEW o \in Calls, Invoke(o) \/ LoopStep(o) \/ Fail(o) \/ Leave(o) PROVE ServerSteps
  BY <1>1 DEF Invoke, LoopStep, Resume, Return, Fail, Leave, Stop, ServerSteps
<1>2. ASSUME NEW o \in Calls, TaskStep(o) PROVE ServerSteps
  <2>1. CASE Connect(o) \/ Configure(o) \/ Answered(o) \/ Filter(o)
    BY <2>1 DEF Connect, Configure, Answered, Filter, ServerSteps
  <2>2. CASE Count(o) \/ Fetch(o)
    BY <2>2 DEF Count, Fetch, Statement, ServerSteps
  <2>3. CASE Insert(o) \/ ClaimDetails(o) \/ ClaimSummaries(o) \/ SendCommit(o)
    BY <2>3 DEF ServerSteps
  <2> QED
    BY <1>2, <2>1, <2>2, <2>3 DEF TaskStep
<1>3. ASSUME NEW o \in Calls, Commit(o) \/ Abort(o) PROVE ServerSteps
  BY <1>3 DEF ServerSteps
<1>4. ASSUME NEW s \in Stores, Close(s) \/ CloseDb(s) PROVE ServerSteps
  BY <1>4 DEF Close, CloseDb, ServerSteps
<1>5. ASSUME NEW lot \in Lots, Expire(lot) PROVE ServerSteps
  BY <1>5 DEF ServerSteps
<1>6. CASE UNCHANGED vars
  BY <1>6 DEF vars, ServerSteps
<1> QED
  BY <1>1, <1>2, <1>3, <1>4, <1>5, <1>6 DEF Next

(* What the clock passes stays past.                                        *)
LEMMA ExpiredGrows ==
  ASSUME DataTypes, [Next]_vars
  PROVE  expired.summary \subseteq expired'.summary /\ expired.detail \subseteq expired'.detail
<1>1. CASE UNCHANGED expired
  BY <1>1
<1>2. ASSUME NEW lot \in Lots, Expire(lot)
      PROVE  expired.summary \subseteq expired'.summary /\ expired.detail \subseteq expired'.detail
  BY <1>2 DEF Expire, DataTypes, Parts
<1>3. ASSUME NEW o \in Calls,
             Insert(o) \/ ClaimDetails(o) \/ ClaimSummaries(o) \/ SendCommit(o) \/ Commit(o)
             \/ Abort(o)
      PROVE  expired' = expired
  BY <1>3 DEF Insert, ClaimDetails, ClaimSummaries, SendCommit, Commit, Abort, Statement
<1> QED
  BY <1>1, <1>2, <1>3, NextServerSteps DEF ServerSteps

(* A transaction begins, or claims more, and no other changes.              *)
Uncommitted(o) ==
  /\ txn[o] # "committed" /\ txn'[o] \in {"open", "sent", "aborted"} /\ rows' = rows
  /\ \A x \in Calls : x # o => txn'[x] = txn[x] /\ mine'[x] = mine[x]

(* The books are not touched before a transaction is committed.             *)
LEMMA BooksStay ==
  ASSUME DataTypes, NEW o \in Calls, Uncommitted(o)
  PROVE  /\ Written' = Written /\ Deleted' = Deleted
         /\ \A e : /\ Inserted(e)' = Inserted(e) /\ Removed(e)' = Removed(e)
                    /\ Stripped(e)' = Stripped(e)
<1>1. \A x \in Calls : /\ txn'[x] = "committed" <=> txn[x] = "committed"
                       /\ txn[x] = "committed" => mine'[x] = mine[x]
  BY DEF Uncommitted
<1>2. /\ Committed(Writes)' = Committed(Writes) /\ Committed(Purges)' = Committed(Purges)
      /\ \A x \in Committed(Writes) \union Committed(Purges) : mine'[x] = mine[x]
  BY <1>1, KindsDiffer DEF Committed
<1> QED
  BY <1>2 DEF Written, Deleted, Inserted, Removed, Stripped

(* All is well with the claims of x.                                        *)
ClaimsOf(x) ==
  /\ x \in Writes => /\ mine[x].summary = mine[x].detail
                     /\ mine[x].summary \subseteq Batch[x]
                     /\ Live(x) => /\ mine[x].summary \intersect rows.summary = {}
                                   /\ Batch[x] \ mine[x].summary \subseteq
                                        rows.summary \union Deleted
  /\ x \in Purges => /\ mine[x].summary \subseteq expired.summary
                     /\ mine[x].detail \subseteq expired.detail
                     /\ Live(x) => /\ mine[x].summary \subseteq rows.summary
                                   /\ mine[x].detail \subseteq rows.detail

(* The claims, call by call and pair by pair.                               *)
LEMMA ClaimsSplit ==
  /\ ClaimsInv <=> /\ \A x \in Calls : ClaimsOf(x)
                   /\ \A o, x \in Calls : Live(o) /\ Live(x) /\ o # x =>
                        Claimed(o) \intersect Claimed(x) = {}
  /\ ClaimsInv' <=> /\ \A x \in Calls : ClaimsOf(x)'
                    /\ \A o, x \in Calls : Live(o)' /\ Live(x)' /\ o # x =>
                         Claimed(o)' \intersect Claimed(x)' = {}
  BY KindsDiffer DEF ClaimsInv, ClaimsOf

(* One transaction claims what nobody else has.                             *)
LEMMA OneClaims ==
  ASSUME DataTypes, ClaimsInv, expired' = expired, NEW o \in Calls, Uncommitted(o), ClaimsOf(o)',
         \/ txn'[o] = "aborted"
         \/ \A e \in Claimed(o)' : (e \in Claimed(o) /\ Live(o)) \/ e \notin Locks(o)
  PROVE  ClaimsInv'
<1>1. \A x \in Calls : x # o => /\ txn'[x] = txn[x] /\ mine'[x] = mine[x]
                                /\ Live(x)' = Live(x) /\ Claimed(x)' = Claimed(x)
  BY DEF Uncommitted, Live, Claimed
<1>2. \A x \in Calls : ClaimsOf(x)'
  <2> SUFFICES ASSUME NEW x \in Calls, x # o PROVE ClaimsOf(x)'
    OBVIOUS
  <2>1. /\ ClaimsOf(x) /\ rows' = rows /\ Deleted' = Deleted
        /\ Live(x)' = Live(x) /\ mine'[x] = mine[x]
    BY <1>1, ClaimsSplit, BooksStay DEF Uncommitted
  <2> QED
    BY <2>1 DEF ClaimsOf
<1>3. ASSUME NEW x \in Calls, x # o, Live(x)', Live(o)'
      PROVE  Claimed(o)' \intersect Claimed(x)' = {}
  <2>1. Live(x) /\ Claimed(x)' = Claimed(x) /\ txn'[o] # "aborted"
    BY <1>1, <1>3 DEF Live
  <2>2. Claimed(x) \subseteq Locks(o)
    BY <1>3, <2>1 DEF Locks, Claimed
  <2>3. Live(o) => Claimed(o) \intersect Claimed(x) = {}
    BY <1>3, <2>1, ClaimsSplit
  <2> QED
    BY <2>1, <2>2, <2>3
<1>4. ASSUME NEW x \in Calls, NEW y \in Calls, x # y, Live(x)', Live(y)'
      PROVE  Claimed(x)' \intersect Claimed(y)' = {}
  BY <1>1, <1>3, <1>4, ClaimsSplit
<1> QED
  BY <1>2, <1>4, ClaimsSplit

(* A transaction that writes or deletes is committed.                       *)
LEMMA CommitRows ==
  ASSUME DataTypes, TxnInv, NEW o \in Calls, Commit(o)
  PROVE  /\ txn[o] = "sent" /\ txn' = [txn EXCEPT ![o] = "committed"] /\ mine' = mine
         /\ expired' = expired /\ o \notin Queries /\ Live(o) /\ ~Live(o)'
         /\ \A x \in Calls : x # o => txn'[x] = txn[x] /\ Live(x)' = Live(x)
         /\ o \in Writes => /\ rows'.summary = rows.summary \union mine[o].summary
                            /\ rows'.detail = rows.detail \union mine[o].detail
         /\ o \in Purges => /\ rows'.summary = rows.summary \ mine[o].summary
                            /\ rows'.detail = rows.detail \ (mine[o].summary \union mine[o].detail)
         /\ o \in Writes => Written' = Written \union Batch[o] /\ Deleted' = Deleted
         /\ o \in Purges => Written' = Written /\ Deleted' = Deleted \union mine[o].summary
<1>1. /\ txn[o] = "sent" /\ txn' = [txn EXCEPT ![o] = "committed"] /\ mine' = mine
      /\ expired' = expired
  BY DEF Commit
<1>2. /\ txn'[o] = "committed" /\ \A x \in Calls : x # o => txn'[x] = txn[x]
  BY <1>1 DEF DataTypes
<1>3. o \notin Queries
  BY <1>1 DEF TxnInv
<1>4. o \in Writes => /\ rows'.summary = rows.summary \union mine[o].summary
                      /\ rows'.detail = rows.detail \union mine[o].detail
  BY DEF Commit
<1>5. o \in Purges => /\ rows'.summary = rows.summary \ mine[o].summary
                      /\ rows'.detail = rows.detail \ (mine[o].summary \union mine[o].detail)
  BY KindsDiffer DEF Commit, Without
<1>6. o \in Writes => /\ Committed(Writes)' = Committed(Writes) \union {o}
                      /\ Committed(Purges)' = Committed(Purges)
  BY <1>2, KindsDiffer DEF Committed
<1>7. o \in Purges => /\ Committed(Purges)' = Committed(Purges) \union {o}
                      /\ Committed(Writes)' = Committed(Writes)
  BY <1>2, KindsDiffer DEF Committed
<1>8. o \in Writes => Written' = Written \union Batch[o] /\ Deleted' = Deleted
  BY <1>1, <1>6 DEF Written, Deleted
<1>9. o \in Purges => Written' = Written /\ Deleted' = Deleted \union mine[o].summary
  BY <1>1, <1>7 DEF Written, Deleted
<1> QED
  BY <1>1, <1>2, <1>3, <1>4, <1>5, <1>8, <1>9 DEF Live

(* Every step keeps the claims.                                             *)
LEMMA NextClaims ==
  TypeOK /\ TxnInv /\ ClaimsInv /\ RowsInv /\ SeenInv /\ [Next]_vars => ClaimsInv'
<1> SUFFICES ASSUME TypeOK, TxnInv, ClaimsInv, RowsInv, SeenInv, [Next]_vars PROVE ClaimsInv'
  OBVIOUS
<1>0. DataTypes
  BY TypesSplit
<1>a. /\ txn \in [Calls -> {"none", "open", "sent", "committed", "aborted"}]
      /\ mine \in [Calls -> Parts]
  BY <1>0 DEF DataTypes
<1>b. /\ \A x \in Calls : ClaimsOf(x)
      /\ \A x, y \in Calls : Live(x) /\ Live(y) /\ x # y => Claimed(x) \intersect Claimed(y) = {}
  BY ClaimsSplit
<1>1. ASSUME NEW o \in Calls, Insert(o) PROVE ClaimsInv'
  <2> DEFINE new == Batch[o] \ rows.summary
  <2>1. /\ o \in Writes /\ txn[o] = "none" /\ txn' = [txn EXCEPT ![o] = "open"]
        /\ mine' = [mine EXCEPT ![o] = [summary |-> new, detail |-> new]]
        /\ rows' = rows /\ expired' = expired /\ Batch[o] \intersect Locks(o) = {}
    BY <1>1 DEF Insert, Statement, Begin
  <2>2. txn'[o] = "open" /\ mine'[o].summary = new /\ mine'[o].detail = new /\ Uncommitted(o)
    BY <1>a, <2>1 DEF Uncommitted
  <2>3. ClaimsOf(o)'
    BY <2>1, <2>2, KindsDiffer DEF ClaimsOf
  <2>4. \A e \in Claimed(o)' : e \notin Locks(o)
    BY <2>1, <2>2 DEF Claimed
  <2> QED
    BY <1>0, <2>1, <2>2, <2>3, <2>4, OneClaims
<1>2. ASSUME NEW o \in Calls, ClaimDetails(o) PROVE ClaimsInv'
  <2>1. /\ o \in Purges /\ txn[o] = "none" /\ txn' = [txn EXCEPT ![o] = "open"]
        /\ rows' = rows /\ expired' = expired
    BY <1>2 DEF ClaimDetails, Statement, Begin
  <2>2. PICK S \in Claims(o, rows.detail \intersect asOf[o].expired.detail) :
          mine' = [mine EXCEPT ![o].detail = S]
    BY <1>2 DEF ClaimDetails
  <2>3. S \subseteq (rows.detail \intersect asOf[o].expired.detail) \ Locks(o)
    BY DEF Claims, Limited
  <2>4. mine[o] = Nothing /\ mine[o].summary = {}
    BY <2>1 DEF TxnInv, Nothing
  <2>5. mine'[o].summary = {} /\ mine'[o].detail = S
    BY <1>a, <2>2, <2>4 DEF Parts
  <2>6. txn'[o] = "open" /\ Uncommitted(o)
    BY <1>a, <2>1, <2>2 DEF Uncommitted
  <2>7. ClaimsOf(o)'
    BY <2>1, <2>3, <2>5, KindsDiffer DEF ClaimsOf, SeenInv
  <2>8. \A e \in Claimed(o)' : e \notin Locks(o)
    BY <2>3, <2>5 DEF Claimed
  <2> QED
    BY <1>0, <2>1, <2>6, <2>7, <2>8, OneClaims
<1>3. ASSUME NEW o \in Calls, ClaimSummaries(o) PROVE ClaimsInv'
  <2>1. /\ at[o] = "summaries" /\ txn[o] = "open" /\ txn' = txn
        /\ rows' = rows /\ expired' = expired
    BY <1>3 DEF ClaimSummaries, Statement
  <2>2. PICK S \in Claims(o, Due(o)) : mine' = [mine EXCEPT ![o].summary = S]
    BY <1>3 DEF ClaimSummaries
  <2>3. S \subseteq (rows.summary \intersect asOf[o].expired.summary) \ Locks(o)
    BY DEF Claims, Limited, Due
  <2>4. o \in Purges /\ Live(o) /\ ClaimsOf(o)
    BY <1>b, <2>1 DEF TxnInv, Live
  <2>5. mine'[o].summary = S /\ mine'[o].detail = mine[o].detail
    BY <1>a, <2>2 DEF Parts
  <2>6. txn'[o] = "open" /\ Uncommitted(o)
    BY <1>a, <2>1, <2>2 DEF Uncommitted
  <2>7. ClaimsOf(o)'
    BY <2>1, <2>3, <2>4, <2>5, KindsDiffer DEF ClaimsOf, SeenInv
  <2>8. \A e \in Claimed(o)' : e \in Claimed(o) \/ e \notin Locks(o)
    BY <2>3, <2>5 DEF Claimed
  <2> QED
    BY <1>0, <2>1, <2>4, <2>6, <2>7, <2>8, OneClaims
<1>4. ASSUME NEW o \in Calls, SendCommit(o) PROVE ClaimsInv'
  <2>1. /\ txn[o] = "open" /\ txn' = [txn EXCEPT ![o] = "sent"] /\ mine' = mine
        /\ rows' = rows /\ expired' = expired
    BY <1>4 DEF SendCommit, Statement
  <2>2. txn'[o] = "sent" /\ Uncommitted(o) /\ Live(o)
    BY <1>a, <2>1 DEF Uncommitted, Live
  <2>3. ClaimsOf(o)'
    BY <1>0, <1>b, <2>1, <2>2, BooksStay DEF ClaimsOf
  <2>4. \A e \in Claimed(o)' : e \in Claimed(o)
    BY <2>1 DEF Claimed
  <2> QED
    BY <1>0, <2>1, <2>2, <2>3, <2>4, OneClaims
<1>5. ASSUME NEW o \in Calls, Abort(o) PROVE ClaimsInv'
  <2>1. /\ txn[o] \in {"open", "sent"} /\ txn' = [txn EXCEPT ![o] = "aborted"]
        /\ mine' = [mine EXCEPT ![o] = Nothing] /\ rows' = rows /\ expired' = expired
    BY <1>5 DEF Abort, Live
  <2>2. txn'[o] = "aborted" /\ Uncommitted(o) /\ mine'[o] = Nothing
    BY <1>a, <2>1 DEF Uncommitted
  <2>3. ClaimsOf(o)'
    BY <2>2 DEF ClaimsOf, Nothing, Live
  <2> QED
    BY <1>0, <2>1, <2>2, <2>3, OneClaims
<1>6. ASSUME NEW o \in Calls, Commit(o) PROVE ClaimsInv'
  <2>1. /\ mine' = mine /\ expired' = expired /\ Live(o) /\ ~Live(o)' /\ o \notin Queries
        /\ \A x \in Calls : x # o => Live(x)' = Live(x)
    BY <1>0, <1>6, CommitRows
  <2>2. ASSUME NEW x \in Calls PROVE ClaimsOf(x)'
    <3>1. ClaimsOf(x)
      BY <1>b
    <3>2. CASE ~Live(x)'
      BY <2>1, <3>1, <3>2 DEF ClaimsOf
    <3>3. CASE Live(x)' /\ o \in Writes
      <4>1. Live(x) /\ x # o /\ Claimed(x) \intersect Claimed(o) = {}
        BY <1>b, <2>1, <3>3
      <4>2. /\ rows'.summary = rows.summary \union mine[o].summary
            /\ rows'.detail = rows.detail \union mine[o].detail /\ Deleted' = Deleted
        BY <1>0, <1>6, <3>3, CommitRows
      <4> QED
        BY <2>1, <3>1, <4>1, <4>2 DEF ClaimsOf, Claimed
    <3>4. CASE Live(x)' /\ o \in Purges
      <4>1. Live(x) /\ x # o /\ Claimed(x) \intersect Claimed(o) = {}
        BY <1>b, <2>1, <3>4
      <4>2. /\ rows'.summary = rows.summary \ mine[o].summary
            /\ rows'.detail = rows.detail \ (mine[o].summary \union mine[o].detail)
            /\ Deleted' = Deleted \union mine[o].summary
        BY <1>0, <1>6, <3>4, CommitRows
      <4> QED
        BY <2>1, <3>1, <4>1, <4>2 DEF ClaimsOf, Claimed
    <3> QED
      BY <2>1, <3>2, <3>3, <3>4, KindsDiffer
  <2>3. \A x, y \in Calls : Live(x)' /\ Live(y)' /\ x # y =>
          Claimed(x)' \intersect Claimed(y)' = {}
    BY <1>b, <2>1 DEF Claimed
  <2> QED
    BY <2>2, <2>3, ClaimsSplit
<1>7. ASSUME NEW lot \in Lots, Expire(lot) PROVE ClaimsInv'
  <2>1. UNCHANGED serverVars
    BY <1>7 DEF Expire
  <2>2. /\ txn' = txn /\ mine' = mine /\ rows' = rows
        /\ expired.summary \subseteq expired'.summary /\ expired.detail \subseteq expired'.detail
    BY <1>0, <2>1, ExpiredGrows DEF serverVars
  <2>3. Deleted' = Deleted
    BY <2>2 DEF Deleted, Committed
  <2> QED
    BY <2>2, <2>3 DEF ClaimsInv, Live, Claimed
<1>8. CASE UNCHANGED <<serverVars, expired>>
  BY <1>8 DEF ClaimsInv, Live, Claimed, Deleted, Committed, serverVars
<1> QED
  BY <1>1, <1>2, <1>3, <1>4, <1>5, <1>6, <1>7, <1>8, NextServerSteps DEF ServerSteps

-----------------------------------------------------------------------------
(* Every step keeps the books                                               *)

(* The transactions in the books are finitely many.                         *)
LEMMA BooksFinite ==
  ASSUME IsFiniteSet(Begun), NEW e
  PROVE  /\ IsFiniteSet(Inserted(e)) /\ IsFiniteSet(Removed(e)) /\ IsFiniteSet(Stripped(e))
         /\ Cardinality(Inserted(e)) \in Nat /\ Cardinality(Removed(e)) \in Nat
         /\ Cardinality(Stripped(e)) \in Nat
<1>1. Inserted(e) \subseteq Begun /\ Removed(e) \subseteq Begun /\ Stripped(e) \subseteq Begun
  BY KindsDiffer DEF Inserted, Removed, Stripped, Committed, Begun
<1>2. IsFiniteSet(Inserted(e)) /\ IsFiniteSet(Removed(e)) /\ IsFiniteSet(Stripped(e))
  BY <1>1, FS_Subset
<1> QED
  BY <1>2, FS_CardinalityType

(* The books balance when a write is committed.                             *)
LEMMA WriteBalances ==
  ASSUME DataTypes, TxnInv, ClaimsInv, RowsInv, NEW w \in Writes, Commit(w), NEW e \in Events
  PROVE  Balanced(e)'
<1>1. /\ txn[w] = "sent" /\ txn' = [txn EXCEPT ![w] = "committed"] /\ mine' = mine /\ Live(w)
      /\ \A x \in Calls : x # w => txn'[x] = txn[x]
      /\ rows'.summary = rows.summary \union mine[w].summary
      /\ rows'.detail = rows.detail \union mine[w].detail
  BY CommitRows, KindsDiffer
<1>2. txn'[w] = "committed"
  BY <1>1, KindsDiffer DEF DataTypes
<1>3. mine[w].summary = mine[w].detail /\ mine[w].summary \intersect rows.summary = {}
  BY <1>1 DEF ClaimsInv
<1>4. Removed(e)' = Removed(e) /\ Stripped(e)' = Stripped(e)
  BY <1>1, KindsDiffer DEF Removed, Stripped, Committed
<1>5. /\ w \notin Inserted(e)
      /\ Inserted(e)' = IF e \in mine[w].summary THEN Inserted(e) \union {w} ELSE Inserted(e)
  BY <1>1, <1>2, KindsDiffer DEF Inserted, Committed
<1>6. /\ Cardinality(Inserted(e)) \in Nat /\ Cardinality(Removed(e)) \in Nat
      /\ Cardinality(Stripped(e)) \in Nat /\ IsFiniteSet(Inserted(e))
  BY BooksFinite DEF RowsInv
<1>7. Balanced(e) /\ rows.detail \subseteq rows.summary
  BY DEF RowsInv
<1>8. CASE e \in mine[w].summary
  <2>1. Cardinality(Inserted(e)') = Cardinality(Inserted(e)) + 1
    BY <1>5, <1>6, <1>8, FS_AddElement
  <2>2. e \notin rows.summary /\ e \notin rows.detail /\ e \in rows'.summary /\ e \in rows'.detail
    BY <1>1, <1>3, <1>7, <1>8
  <2> QED
    BY <1>4, <1>6, <1>7, <2>1, <2>2 DEF Balanced
<1>9. CASE e \notin mine[w].summary
  <2>1. (e \in rows'.summary <=> e \in rows.summary) /\ (e \in rows'.detail <=> e \in rows.detail)
    BY <1>1, <1>3, <1>9
  <2>2. Inserted(e)' = Inserted(e)
    BY <1>5, <1>9
  <2> QED
    BY <1>4, <1>7, <2>1, <2>2 DEF Balanced
<1> QED
  BY <1>8, <1>9

(* The books balance when a purge is committed.                             *)
LEMMA PurgeBalances ==
  ASSUME DataTypes, TxnInv, ClaimsInv, RowsInv, NEW p \in Purges, Commit(p), NEW e \in Events
  PROVE  Balanced(e)'
<1>1. /\ txn[p] = "sent" /\ txn' = [txn EXCEPT ![p] = "committed"] /\ mine' = mine /\ Live(p)
      /\ \A x \in Calls : x # p => txn'[x] = txn[x]
      /\ rows'.summary = rows.summary \ mine[p].summary
      /\ rows'.detail = rows.detail \ (mine[p].summary \union mine[p].detail)
  BY CommitRows, KindsDiffer
<1>2. txn'[p] = "committed"
  BY <1>1, KindsDiffer DEF DataTypes
<1>3. mine[p].summary \subseteq rows.summary /\ mine[p].detail \subseteq rows.detail
  BY <1>1 DEF ClaimsInv
<1>4. Inserted(e)' = Inserted(e)
  BY <1>1, KindsDiffer DEF Inserted, Committed
<1>5. /\ p \notin Removed(e) /\ p \notin Stripped(e)
      /\ Removed(e)' = IF e \in mine[p].summary THEN Removed(e) \union {p} ELSE Removed(e)
      /\ Stripped(e)' = IF e \in mine[p].detail THEN Stripped(e) \union {p} ELSE Stripped(e)
  BY <1>1, <1>2, KindsDiffer DEF Removed, Stripped, Committed
<1>6. /\ Cardinality(Inserted(e)) \in Nat /\ Cardinality(Removed(e)) \in Nat
      /\ Cardinality(Stripped(e)) \in Nat
      /\ IsFiniteSet(Removed(e)) /\ IsFiniteSet(Stripped(e))
  BY BooksFinite DEF RowsInv
<1>7. Balanced(e) /\ rows.detail \subseteq rows.summary
  BY DEF RowsInv
<1>8. Cardinality(Removed(e)') = Cardinality(Removed(e)) + (IF e \in mine[p].summary THEN 1 ELSE 0)
  <2>1. CASE e \in mine[p].summary
    BY <1>5, <1>6, <2>1, FS_AddElement
  <2>2. CASE e \notin mine[p].summary
    BY <1>5, <1>6, <2>2
  <2> QED
    BY <2>1, <2>2
<1>9. Cardinality(Stripped(e)') = Cardinality(Stripped(e)) + (IF e \in mine[p].detail THEN 1 ELSE 0)
  <2>1. CASE e \in mine[p].detail
    BY <1>5, <1>6, <2>1, FS_AddElement
  <2>2. CASE e \notin mine[p].detail
    BY <1>5, <1>6, <2>2
  <2> QED
    BY <2>1, <2>2
<1>10. e \in mine[p].summary =>
         e \in rows.summary /\ e \notin rows'.summary /\ e \notin rows'.detail
  BY <1>1, <1>3
<1>11. e \notin mine[p].summary => (e \in rows'.summary <=> e \in rows.summary)
  BY <1>1
<1>12. e \in mine[p].detail => e \in rows.detail /\ e \notin rows'.detail
  BY <1>1, <1>3
<1>13. e \notin mine[p].summary /\ e \notin mine[p].detail =>
         (e \in rows'.detail <=> e \in rows.detail)
  BY <1>1
<1> QED
  BY <1>4, <1>6, <1>7, <1>8, <1>9, <1>10, <1>11, <1>12, <1>13 DEF Balanced

(* A step of the server adds at most one transaction.                       *)
LEMMA BegunFinite ==
  ASSUME DataTypes, IsFiniteSet(Begun), ServerSteps
  PROVE  IsFiniteSet(Begun)'
<1>1. \/ \E o \in Calls : Begun' \subseteq Begun \union {o}
      \/ Begun' = Begun
  <2>1. ASSUME NEW o \in Calls, \A x \in Calls : x # o => txn'[x] = txn[x]
        PROVE  Begun' \subseteq Begun \union {o}
    BY <2>1 DEF Begun
  <2>2. ASSUME NEW o \in Calls,
               Insert(o) \/ ClaimDetails(o) \/ ClaimSummaries(o) \/ SendCommit(o) \/ Commit(o)
               \/ Abort(o)
        PROVE  Begun' \subseteq Begun \union {o}
    <3>1. \A x \in Calls : x # o => txn'[x] = txn[x]
      BY <2>2 DEF Insert, ClaimDetails, ClaimSummaries, SendCommit, Commit, Abort, Begin, DataTypes
    <3> QED
      BY <2>1, <3>1
  <2>3. CASE UNCHANGED serverVars
    BY <2>3 DEF Begun, serverVars
  <2> QED
    BY <2>2, <2>3 DEF ServerSteps, Expire
<1>2. ASSUME NEW o \in Calls, Begun' \subseteq Begun \union {o} PROVE IsFiniteSet(Begun')
  BY <1>2, FS_AddElement, FS_Subset
<1> QED
  BY <1>1, <1>2

(* Every step keeps the books.                                              *)
LEMMA NextRows == TypeOK /\ TxnInv /\ ClaimsInv /\ RowsInv /\ [Next]_vars => RowsInv'
<1> SUFFICES ASSUME TypeOK, TxnInv, ClaimsInv, RowsInv, [Next]_vars PROVE RowsInv'
  OBVIOUS
<1>0. DataTypes /\ ServerSteps
  BY TypesSplit, NextServerSteps
<1>a. IsFiniteSet(Begun)'
  BY <1>0, BegunFinite DEF RowsInv
<1>1. ASSUME NEW o \in Calls, Uncommitted(o) PROVE RowsInv'
  <2>1. /\ Written' = Written /\ Deleted' = Deleted /\ rows' = rows
        /\ \A e : /\ Inserted(e)' = Inserted(e) /\ Removed(e)' = Removed(e)
                   /\ Stripped(e)' = Stripped(e)
    BY <1>0, <1>1, BooksStay DEF Uncommitted
  <2> QED
    BY <1>a, <2>1 DEF RowsInv, Balanced
<1>2. ASSUME NEW o \in Calls,
             Insert(o) \/ ClaimDetails(o) \/ ClaimSummaries(o) \/ SendCommit(o) \/ Abort(o)
      PROVE  RowsInv'
  <2>1. Uncommitted(o)
    BY <1>0, <1>2 DEF Insert, ClaimDetails, ClaimSummaries, SendCommit, Abort, Statement, Begin,
       Live, Uncommitted, DataTypes
  <2> QED
    BY <1>1, <2>1
<1>3. ASSUME NEW o \in Calls, Commit(o), o \in Writes PROVE RowsInv'
  <2>1. /\ Live(o) /\ Written' = Written \union Batch[o] /\ Deleted' = Deleted
        /\ rows'.summary = rows.summary \union mine[o].summary
        /\ rows'.detail = rows.detail \union mine[o].detail
    BY <1>0, <1>3, CommitRows
  <2>2. /\ mine[o].summary = mine[o].detail /\ mine[o].summary \subseteq Batch[o]
        /\ Batch[o] \ mine[o].summary \subseteq rows.summary \union Deleted
    BY <1>3, <2>1 DEF ClaimsInv
  <2>3. /\ rows'.detail \subseteq rows'.summary /\ rows'.summary \subseteq Written'
        /\ Written' \ rows'.summary \subseteq Deleted'
    BY <2>1, <2>2 DEF RowsInv
  <2> QED
    BY <1>0, <1>3, <1>a, <2>3, WriteBalances DEF RowsInv
<1>4. ASSUME NEW o \in Calls, Commit(o), o \in Purges PROVE RowsInv'
  <2>1. /\ Written' = Written /\ Deleted' = Deleted \union mine[o].summary
        /\ rows'.summary = rows.summary \ mine[o].summary
        /\ rows'.detail = rows.detail \ (mine[o].summary \union mine[o].detail)
    BY <1>0, <1>4, CommitRows
  <2>2. /\ rows'.detail \subseteq rows'.summary /\ rows'.summary \subseteq Written'
        /\ Written' \ rows'.summary \subseteq Deleted'
    BY <2>1 DEF RowsInv
  <2> QED
    BY <1>0, <1>4, <1>a, <2>2, PurgeBalances DEF RowsInv
<1>5. ASSUME NEW o \in Calls, Commit(o) PROVE RowsInv'
  BY <1>0, <1>3, <1>4, <1>5, CommitRows, KindsDiffer
<1>6. CASE UNCHANGED serverVars
  BY <1>a, <1>6 DEF RowsInv, Balanced, Written, Deleted, Inserted, Removed, Stripped, Committed,
     serverVars
<1>7. ASSUME NEW lot \in Lots, Expire(lot) PROVE RowsInv'
  BY <1>6, <1>7 DEF Expire
<1> QED
  BY <1>0, <1>2, <1>5, <1>6, <1>7 DEF ServerSteps

-----------------------------------------------------------------------------
(* Every step keeps what calls go by                                        *)

(* What is committed stays committed.                                       *)
LEMMA CommittedStays ==
  ASSUME TypeOK, TxnInv, [Next]_vars
  PROVE  /\ \A x \in Calls : txn[x] = "committed" => txn'[x] = "committed"
         /\ Written \subseteq Written'
<1>0. DataTypes /\ ServerSteps
  BY TypesSplit, NextServerSteps
<1>1. \A x \in Calls : txn[x] = "committed" => txn'[x] = "committed"
  BY <1>0 DEF ServerSteps, Insert, ClaimDetails, ClaimSummaries, SendCommit, Commit, Abort, Expire,
     Statement, Begin, Live, DataTypes, serverVars
<1> QED
  BY <1>1, InWritten, KindsDiffer

(* All is well with what x goes by.                                         *)
SeenOf(x) ==
  /\ asOf[x].acknowledged \subseteq Written
  /\ asOf[x].expired.summary \subseteq expired.summary
  /\ asOf[x].expired.detail \subseteq expired.detail
  /\ x \in Queries /\ at[x] \in {"filtering", "done", "returned"} => Seen(x)

(* What calls go by, call by call.                                          *)
LEMMA SeenSplit ==
  /\ SeenInv <=> expired.summary \subseteq expired.detail /\ \A x \in Calls : SeenOf(x)
  /\ SeenInv' <=> expired'.summary \subseteq expired'.detail /\ \A x \in Calls : SeenOf(x)'
  BY KindsDiffer DEF SeenInv, SeenOf

(* Sets of events have a size.                                              *)
LEMMA EventsFinite ==
  ASSUME NEW S, S \subseteq Events
  PROVE  IsFiniteSet(S) /\ Cardinality(S) \in Nat
  BY StoreAssumption, FS_Subset, FS_CardinalityType

(* What the limit excluded it excludes for good: events that are not shown  *)
(* any more have expired.                                                   *)
LEMMA BeyondStays ==
  ASSUME NEW q, NEW e, BeyondLimit(q, e), asOf'[q] = asOf[q],
         Written \subseteq Written', expired.summary \subseteq expired'.summary,
         found[q].summary \ found'[q].summary
           \subseteq (Written \intersect Wanted[q] \intersect expired.summary)
                      \ asOf[q].expired.summary
  PROVE  BeyondLimit(q, e)'
  BY DEF BeyondLimit

(* What a query has found stays what it must be, whatever others do.        *)
LEMMA FoundStays ==
  ASSUME NEW q, Seen(q), asOf'[q] = asOf[q], found'[q] = found[q],
         Written \subseteq Written', expired.summary \subseteq expired'.summary
  PROVE  Seen(q)'
<1>1. \A e : BeyondLimit(q, e) => BeyondLimit(q, e)'
  BY BeyondStays
<1> QED
  BY <1>1 DEF Seen

(* A call that goes by what it went by sees no less.                        *)
LEMMA SeenKept ==
  ASSUME NEW x \in Calls, SeenOf(x), asOf'[x] = asOf[x], found'[x] = found[x] \/ x \in Purges,
         at'[x] \in {"filtering", "done", "returned"} /\ x \in Queries =>
           at[x] \in {"filtering", "done", "returned"},
         Written \subseteq Written', expired.summary \subseteq expired'.summary,
         expired.detail \subseteq expired'.detail
  PROVE  SeenOf(x)'
  BY KindsDiffer, FoundStays DEF SeenOf

(* Every step keeps what calls go by.                                       *)
LEMMA NextSeen ==
  TypeOK /\ LineInv /\ TxnInv /\ ClaimsInv /\ RowsInv /\ SeenInv /\ [Next]_vars => SeenInv'
<1> SUFFICES ASSUME TypeOK, LineInv, TxnInv, ClaimsInv, RowsInv, SeenInv, [Next]_vars
             PROVE  expired'.summary \subseteq expired'.detail /\ \A x \in Calls : SeenOf(x)'
  BY SeenSplit
<1>0. ProcessTypes /\ DataTypes /\ ServerSteps
  BY TypesSplit, NextServerSteps
<1>a. /\ at \in [Calls -> Places] /\ asOf \in [Calls -> Views] /\ found \in [Calls -> Parts]
  BY <1>0 DEF ProcessTypes, DataTypes
<1>b. /\ Written \subseteq Written' /\ expired.summary \subseteq expired'.summary
      /\ expired.detail \subseteq expired'.detail
  BY <1>0, CommittedStays, ExpiredGrows
<1>c. (\A x \in Calls : SeenOf(x)) /\ expired.summary \subseteq expired.detail
  BY SeenSplit
<1>d. \A x \in Calls :
        /\ asOf'[x] = asOf[x] /\ (found'[x] = found[x] \/ x \in Purges)
        /\ at'[x] \in {"filtering", "done", "returned"} /\ x \in Queries =>
             at[x] \in {"filtering", "done", "returned"}
        => SeenOf(x)'
  BY <1>b, <1>c, SeenKept
<1>1. expired'.summary \subseteq expired'.detail
  <2>1. ASSUME NEW lot \in Lots, Expire(lot) PROVE expired'.summary \subseteq expired'.detail
    BY <1>0, <1>c, <2>1 DEF Expire, DataTypes, Parts
  <2> QED
    BY <1>0, <1>c, <2>1 DEF ServerSteps, Insert, ClaimDetails, ClaimSummaries, SendCommit, Commit,
       Abort, Statement
<1>2. ASSUME NEW o \in Calls,
             Invoke(o) \/ LoopStep(o) \/ TaskStep(o) \/ Fail(o) \/ Leave(o) \/ Commit(o)
             \/ Abort(o),
             SeenOf(o)'
      PROVE  \A x \in Calls : SeenOf(x)'
  BY <1>2, <1>d, OthersStay
<1>3. ASSUME NEW o \in Calls, Invoke(o) PROVE SeenOf(o)'
  <2>1. /\ at'[o] \in {"refused", "waiting", "connecting", "working"} /\ expired' = expired
    BY <1>3, <1>a DEF Invoke, Entry
  <2>2. \/ asOf' = asOf
        \/ asOf'[o].expired = expired /\ asOf'[o].acknowledged \subseteq Acknowledged
    BY <1>3, <1>a DEF Invoke
  <2> QED
    BY <1>b, <1>c, <2>1, <2>2, AcknowledgedWritten DEF SeenOf
<1>4. ASSUME NEW o \in Calls, Stop(o) PROVE SeenOf(o)'
  <2>1. asOf'[o] = NoView /\ at'[o] = "raised"
    BY <1>4, <1>a DEF Stop
  <2> QED
    BY <2>1 DEF SeenOf, NoView, Nothing
<1>5. ASSUME NEW o \in Calls, LoopStep(o) \/ (at[o] = "waiting" /\ Leave(o)) PROVE SeenOf(o)'
  <2>1. asOf' = asOf /\ found' = found
    BY <1>5, PlaceNames DEF LoopStep, Resume, Return, Leave, Busy
  <2>2. at'[o] \in {"refused", "connecting", "working", "raised"} \/ at[o] = "done"
    BY <1>5, <1>a, PlaceNames DEF LoopStep, Resume, Return, Leave, Entry, Busy
  <2> QED
    BY <1>d, <2>1, <2>2
<1>6. ASSUME NEW o \in Calls, Fail(o) \/ Leave(o) PROVE SeenOf(o)'
  BY <1>4, <1>5, <1>6 DEF Fail, Leave
<1>7. ASSUME NEW o \in Calls, Connect(o) \/ Configure(o) \/ Insert(o) \/ ClaimDetails(o)
             \/ ClaimSummaries(o) \/ SendCommit(o) \/ Answered(o)
      PROVE  SeenOf(o)'
  <2>1. asOf' = asOf /\ found' = found
    BY <1>7 DEF Connect, Configure, Insert, ClaimDetails, ClaimSummaries, SendCommit, Answered,
       Statement
  <2>2. at'[o] \in {"configuring", "working"} \union InTxn \/ o \notin Queries
    <3>1. CASE Answered(o)
      BY <3>1 DEF Answered, TxnInv, InTxn
    <3> QED
      BY <1>7, <1>a, <3>1 DEF Connect, Configure, Insert, ClaimDetails, ClaimSummaries, SendCommit,
         Statement, InTxn
  <2> QED
    BY <1>d, <2>1, <2>2 DEF InTxn
<1>8. ASSUME NEW o \in Calls, Count(o) PROVE SeenOf(o)'
  <2>1. o \in Purges /\ asOf' = asOf
    BY <1>8 DEF Count, Statement, TxnInv
  <2> QED
    BY <1>d, <2>1, KindsDiffer
<1>9. ASSUME NEW o \in Calls, Fetch(o) PROVE SeenOf(o)'
  <2>1. PICK page \in Pages(o) :
          found' = [found EXCEPT ![o] =
            [summary |-> page, detail |-> (page \intersect rows.detail) \ expired.detail]]
    BY <1>9 DEF Fetch
  <2>2. /\ o \in Queries /\ asOf' = asOf /\ expired' = expired
        /\ found'[o].summary = page
        /\ found'[o].detail = (page \intersect rows.detail) \ expired.detail
    BY <1>9, <1>a, <2>1 DEF Fetch, Statement
  <2>3. Limit[o] \in Nat \ {0}
    BY <2>2, StoreAssumption
  <2>4. page \subseteq Matching(o) /\ page \subseteq Events
    BY <1>0 DEF Pages, Limited, Matching, DataTypes, Parts
  <2>5. \/ Cardinality(page) = Limit[o]
        \/ Cardinality(page) < Limit[o] /\ page = Matching(o)
    BY DEF Pages, Limited
  <2>6. Cardinality(page) <= Limit[o]
    BY <2>3, <2>4, <2>5, EventsFinite
  <2>7. /\ Written \subseteq rows.summary \union expired.summary /\ rows.summary \subseteq Written
        /\ asOf[o].acknowledged \subseteq Written
        /\ asOf[o].expired.summary \subseteq expired.summary
        /\ asOf[o].expired.detail \subseteq expired.detail
    BY <1>c DEF SeenOf, RowsInv, ClaimsInv, Deleted, Committed
  <2>8. ASSUME NEW e \in (asOf[o].acknowledged \intersect Wanted[o]) \ expired.summary,
               e \notin page
        PROVE  BeyondLimit(o, e)'
    <3>1. e \in Matching(o) \ page
      BY <2>7, <2>8 DEF Matching
    <3>2. Cardinality(page) = Limit[o] /\ \A d \in page : Created[d] < Created[e]
      BY <2>5, <3>1 DEF Pages
    <3> QED
      BY <2>2, <3>2 DEF BeyondLimit
  <2>9. page \subseteq (Written \intersect Wanted[o]) \ asOf[o].expired.summary
    BY <2>4, <2>7 DEF Matching
  <2>10. Seen(o)'
    BY <1>b, <2>2, <2>6, <2>7, <2>8, <2>9 DEF Seen
  <2> QED
    BY <1>b, <2>2, <2>7, <2>10 DEF SeenOf
<1>10. ASSUME NEW o \in Calls, Filter(o) PROVE SeenOf(o)'
  <2>1. /\ at[o] = "filtering" /\ o \in Queries /\ asOf' = asOf /\ expired' = expired
        /\ found'[o].summary = found[o].summary \ expired.summary
        /\ found'[o].detail = found[o].detail \ (expired.summary \union expired.detail)
    BY <1>10, <1>a DEF Filter, Without, TxnInv
  <2>2. Seen(o) /\ SeenOf(o)
    BY <1>c, <2>1 DEF SeenOf
  <2>3. \A e : BeyondLimit(o, e) => BeyondLimit(o, e)'
    <3>1. found[o].summary \ found'[o].summary
            \subseteq (Written \intersect Wanted[o] \intersect expired.summary)
                       \ asOf[o].expired.summary
      BY <2>1, <2>2 DEF Seen
    <3> QED
      BY <1>b, <2>1, <3>1, BeyondStays
  <2>4. Cardinality(found'[o].summary) <= Limit[o]
    <3>1. found[o].summary \subseteq Events
      BY <2>2, AcknowledgedWritten DEF Seen
    <3>2. /\ Cardinality(found[o].summary) \in Nat /\ Cardinality(found'[o].summary) \in Nat
          /\ Cardinality(found'[o].summary) <= Cardinality(found[o].summary)
      BY <2>1, <3>1, EventsFinite, FS_Subset
    <3> QED
      BY <2>1, <2>2, <3>2, StoreAssumption DEF Seen
  <2>5. Seen(o)'
    BY <1>b, <2>1, <2>2, <2>3, <2>4 DEF Seen
  <2> QED
    BY <1>b, <2>1, <2>2, <2>5 DEF SeenOf
<1>11. ASSUME NEW o \in Calls, TaskStep(o) PROVE SeenOf(o)'
  BY <1>7, <1>8, <1>9, <1>10, <1>11 DEF TaskStep
<1>12. CASE UNCHANGED <<asOf, found, at>>
  BY <1>1, <1>d, <1>12
<1>13. ASSUME NEW o \in Calls, Commit(o) \/ Abort(o) PROVE \A x \in Calls : SeenOf(x)'
  BY <1>12, <1>13 DEF Commit, Abort, processVars
<1>14. CASE \/ UNCHANGED vars \/ \E lot \in Lots : Expire(lot)
            \/ \E s \in Stores : Close(s) \/ CloseDb(s)
  BY <1>12, <1>14 DEF Close, CloseDb, Expire, vars, processVars
<1> QED
  BY <1>1, <1>2, <1>3, <1>5, <1>6, <1>11, <1>13, <1>14 DEF Next

-----------------------------------------------------------------------------
(* The invariant                                                            *)

(* At the start nothing was called, written or expired.                     *)
LEMMA InitInv == Init => IInv
<1> SUFFICES ASSUME Init PROVE IInv
  OBVIOUS
<1>0. Nothing \in Parts /\ NoView \in Views /\ \A s \in Stores : line[s] = <<>> /\ closing[s] = "no"
  BY PartsType DEF Init
<1>a. \A o \in Calls : at[o] = "new" /\ txn[o] = "none" /\ mine[o] = Nothing /\ asOf[o] = NoView
  BY DEF Init
<1>1. TypeOK
  <2>1. ProcessTypes
    <3>1. line \in [Stores -> Seq(Calls \union {Closer})]
      <4>1. <<>> \in Seq(Calls \union {Closer})
        OBVIOUS
      <4> QED
        BY <4>1 DEF Init
    <3>2. at \in [Calls -> Places]
      BY DEF Init, Places
    <3> QED
      BY <3>1, <3>2 DEF Init, ProcessTypes
  <2>2. DataTypes
    BY <1>0 DEF Init, DataTypes
  <2> QED
    BY <2>1, <2>2, TypesSplit
<1>2. LineInv
  <2>1. \A s \in Stores : DOMAIN line[s] = {}
    BY <1>0
  <2>2. "new" \notin Busy \union {"waiting"}
    BY DEF Busy, Running
  <2> QED
    BY <1>0, <1>a, <2>1, <2>2 DEF LineInv, StoreLine, InLine
<1>3. ConnInv
  BY DEF Init, ConnInv
<1>4. TxnInv
  BY <1>a DEF TxnInv, InTxn
<1>5. ClaimsInv
  BY <1>a, KindsDiffer DEF ClaimsInv, Live, Nothing
<1>6. RowsInv
  <2>1. Committed(Writes) = {} /\ Committed(Purges) = {} /\ Begun = {}
    BY <1>a, KindsDiffer DEF Committed, Begun
  <2>2. Written = {} /\ \A e : Inserted(e) = {} /\ Removed(e) = {} /\ Stripped(e) = {}
    BY <2>1 DEF Written, Inserted, Removed, Stripped
  <2>3. rows.summary = {} /\ rows.detail = {}
    BY DEF Init, Nothing
  <2>4. IsFiniteSet({}) /\ Cardinality({}) = 0
    BY FS_EmptySet
  <2>5. \A e \in Events : Balanced(e)
    BY <2>2, <2>3, <2>4 DEF Balanced
  <2> QED
    BY <2>1, <2>2, <2>3, <2>4, <2>5 DEF RowsInv
<1>7. SeenInv
  <2>1. expired.summary = {} /\ expired.detail = {}
    BY DEF Init, Nothing
  <2> QED
    BY <1>a, <2>1, KindsDiffer DEF SeenInv, NoView, Nothing
<1> QED
  BY <1>1, <1>2, <1>3, <1>4, <1>5, <1>6, <1>7 DEF IInv

(* IInv holds whatever the calls, the server and the clock do.              *)
LEMMA Invariance == Spec => []IInv
<1>1. TypeOK /\ LineInv /\ TxnInv /\ [Next]_vars => TypeOK'
  BY NextType
<1>2. IInv /\ [Next]_vars => IInv'
  BY <1>1, NextLine, NextConn, NextTxn, NextClaims, NextRows, NextSeen DEF IInv
<1> QED
  BY InitInv, <1>2, PTL DEF Spec

(* Every variable has its type, whatever _run(), the tasks, the server and  *)
(* close() do.                                                              *)
THEOREM TypeCorrect == Spec => []TypeOK
<1>1. IInv => TypeOK
  BY DEF IInv
<1> QED
  BY Invariance, <1>1, PTL

(* The connection serves one operation at a time, set up and with no open   *)
(* transaction of an earlier one, because _stop() drops it whenever a task  *)
(* did not end well, before it gives up the slot; closed, there is none.    *)
THEOREM ConnectionClean == Spec => []ConnectionIsClean
<1>1. IInv => ConnectionIsClean
  BY TypesSplit, CleanFromInv DEF IInv
<1> QED
  BY Invariance, <1>1, PTL

(* The table is what the committed transactions of write_batch() and        *)
(* purge_expired() made of it, each as a whole; only what has expired is    *)
(* gone, and what purges report is what they deleted, for any number of     *)
(* processes, wherever calls are stopped and transactions aborted.          *)
THEOREM RowsExact == Spec => []RowsAreExact
<1>1. IInv => RowsAreExact
  <2> SUFFICES ASSUME IInv PROVE RowsAreExact
    OBVIOUS
  <2>1. /\ rows.summary \subseteq Written /\ Written \ rows.summary \subseteq Deleted
        /\ rows.detail \subseteq rows.summary
        /\ \A e \in Events : Balanced(e)
    BY DEF IInv, RowsInv
  <2>2. \A p \in Committed(Purges) : /\ mine[p].summary \subseteq expired.summary
                                     /\ mine[p].detail \subseteq expired.detail
    BY DEF IInv, ClaimsInv, Committed
  <2> QED
    BY <2>1, <2>2 DEF RowsAreExact, Deleted, Balanced, Inserted, Removed, Stripped
<1> QED
  BY Invariance, <1>1, PTL

(* query() returns, of what it wants, every event acknowledged before it    *)
(* was called that has not expired when it answers, up to its limit in the   *)
(* order of created_at and event_id, and nothing that was never written or   *)
(* had expired, whichever processes write and purge meanwhile.               *)
THEOREM QueriesTrue == Spec => []QueriesSeeAcknowledged
<1>1. IInv => QueriesSeeAcknowledged
  BY DEF IInv, SeenInv, Seen, QueriesSeeAcknowledged
<1> QED
  BY Invariance, <1>1, PTL

-----------------------------------------------------------------------------
(* The store keeps its contract                                             *)

(* What the contract calls the state of a caller.                           *)
Tale(c) == CASE c \in {"new", "refused", "raised"} -> c
             [] c = "returned" -> "acknowledged"
             [] OTHER -> "open"

Wrote   == Committed(Writes)
AllShut == Closable # {} /\ \A s \in Closable : closing[s] = "closed"

(* What the contract is told of a write is told of the place of its call.   *)
LEMMA ToldIsTale ==
  /\ Told = [w \in Writes |-> Tale(at[w])] /\ Told' = [w \in Writes |-> Tale(at'[w])]
  /\ Tale("new") = "new" /\ Tale("refused") = "refused" /\ Tale("raised") = "raised"
  /\ Tale("returned") = "acknowledged" /\ Tale("waiting") = "open"
  /\ \A c \in Busy : Tale(c) = "open"
  BY DEF Told, Tale, Busy, Running

(* One call moves, and what is told of it with it.                          *)
LEMMA ToldMoves ==
  ASSUME TypeOK, NEW o \in Calls, NEW c, at' = [at EXCEPT ![o] = c]
  PROVE  /\ o \in Writes => Told' = [Told EXCEPT ![o] = Tale(c)] /\ Told[o] = Tale(at[o])
         /\ o \notin Writes => Told' = Told
         /\ Tale(c) = Tale(at[o]) => Told' = Told
<1>1. \A w \in Writes : w \in Calls /\ at'[w] = IF w = o THEN c ELSE at[w]
  BY KindsDiffer DEF TypeOK
<1>2. Told = [w \in Writes |-> Tale(at[w])] /\ Told' = [w \in Writes |-> Tale(at'[w])]
  BY ToldIsTale
<1> QED
  BY <1>1, <1>2

(* A step of one call that is no commit makes no write take effect.         *)
LEMMA WroteStays ==
  ASSUME TypeOK, NEW o \in Calls,
         Invoke(o) \/ LoopStep(o) \/ TaskStep(o) \/ Fail(o) \/ Leave(o) \/ Abort(o)
  PROVE  Wrote' = Wrote
<1>1. txn \in [Calls -> {"none", "open", "sent", "committed", "aborted"}]
  BY DEF TypeOK
<1>2. \/ txn' = txn
      \/ /\ txn[o] \in {"none", "open", "sent"}
         /\ txn' = [txn EXCEPT ![o] = "open"] \/ txn' = [txn EXCEPT ![o] = "sent"]
            \/ txn' = [txn EXCEPT ![o] = "aborted"]
  BY DEF Invoke, LoopStep, Resume, Return, TaskStep, Connect, Configure, Insert, ClaimDetails,
     ClaimSummaries, Count, SendCommit, Answered, Fetch, Filter, Statement, Begin, Fail, Leave,
     Stop, Abort, Live, serverVars
<1>3. \A w \in Calls : txn'[w] = "committed" <=> txn[w] = "committed"
  BY <1>1, <1>2
<1> QED
  BY <1>3, KindsDiffer DEF Wrote, Committed

(* The steps of the contract, in terms of the store.                        *)
LEMMA ContractSteps ==
  /\ \A w \in Writes : \A how \in {"open", "refused"} :
       /\ Told[w] = "new" /\ Told' = [Told EXCEPT ![w] = how]
       /\ Wrote' = Wrote /\ AllShut' = AllShut
       => Contract!Next
  /\ \A w \in Writes : \A how \in {"acknowledged", "refused", "raised"} :
       /\ Told[w] = "open" /\ Told' = [Told EXCEPT ![w] = how]
       /\ how = "acknowledged" => w \in Wrote
       /\ how = "refused" => w \notin Wrote
       /\ Wrote' = Wrote /\ AllShut' = AllShut
       => Contract!Next
  /\ \A w \in Writes :
       /\ w \notin Wrote /\ Told[w] \in {"open", "raised"} /\ Wrote' = Wrote \union {w}
       /\ Told' = Told /\ AllShut' = AllShut
       => Contract!Next
  /\ ~AllShut /\ AllShut' /\ Wrote' = Wrote /\ Told' = Told => Contract!Next
  BY DEF Contract!Next, Contract!Begin, Contract!Tell, Contract!TakeEffect, Contract!Shut, Wrote,
     AllShut

(* Every step of the store is a step of the contract, or none.              *)
LEMMA NextContract == IInv /\ [Next]_vars => [Contract!Next]_(Contract!vars)
<1> SUFFICES ASSUME IInv, [Next]_vars PROVE [Contract!Next]_(Contract!vars)
  OBVIOUS
<1>0. TypeOK /\ LineInv /\ TxnInv
  BY DEF IInv
<1>t. \A o \in Calls : txn[o] \in {"none", "open", "sent", "committed", "aborted"}
  BY <1>0 DEF TypeOK
<1>a. ASSUME Told' = Told, Wrote' = Wrote, AllShut' = AllShut
      PROVE  UNCHANGED Contract!vars
  BY <1>a DEF Contract!vars, Wrote, AllShut
<1>b. ASSUME UNCHANGED <<at, txn, closing>> PROVE UNCHANGED Contract!vars
  BY <1>a, <1>b DEF Told, Wrote, Committed, AllShut
<1>c. ASSUME NEW o \in Calls, NEW c, at' = [at EXCEPT ![o] = c], closing' = closing, Wrote' = Wrote,
             o \notin Writes \/ Tale(c) = Tale(at[o])
      PROVE  UNCHANGED Contract!vars
  BY <1>0, <1>a, <1>c, ToldMoves DEF AllShut
<1>d. ASSUME NEW o \in Calls, o \in Writes, NEW c, at' = [at EXCEPT ![o] = c], closing' = closing,
             Wrote' = Wrote,
             \/ at[o] = "new" /\ Tale(c) \in {"open", "refused"}
             \/ Tale(at[o]) = "open" /\ \/ c = "returned" /\ o \in Wrote
                                        \/ c = "refused" /\ o \notin Wrote
                                        \/ c = "raised"
      PROVE  Contract!Next
  <2>1. Told' = [Told EXCEPT ![o] = Tale(c)] /\ Told[o] = Tale(at[o])
    BY <1>0, <1>d, ToldMoves
  <2>2. AllShut' = AllShut
    BY <1>d DEF AllShut
  <2>3. CASE at[o] = "new" /\ Tale(c) \in {"open", "refused"}
    BY <1>d, <2>1, <2>2, <2>3, ContractSteps, ToldIsTale
  <2>4. CASE Tale(at[o]) = "open" /\ c \in {"returned", "refused", "raised"}
    <3>1. /\ Tale(c) \in {"acknowledged", "refused", "raised"}
          /\ Tale(c) = "acknowledged" => c = "returned"
          /\ Tale(c) = "refused" => c = "refused"
      BY <2>4, ToldIsTale
    <3>2. /\ Told[o] = "open" /\ (Tale(c) = "acknowledged" => o \in Wrote)
          /\ Tale(c) = "refused" => o \notin Wrote
      BY <1>d, <2>1, <2>4, <3>1, ToldIsTale
    <3> QED
      BY <1>d, <2>1, <2>2, <3>1, <3>2, ContractSteps
  <2> QED
    BY <1>d, <2>3, <2>4
<1>1. ASSUME NEW o \in Calls, Invoke(o) PROVE [Contract!Next]_(Contract!vars)
  <2>1. closing' = closing /\ at[o] = "new" /\ Wrote' = Wrote
    BY <1>0, <1>1, WroteStays DEF Invoke
  <2>2. PICK c \in {"refused", "waiting"} \union Busy : at' = [at EXCEPT ![o] = c]
    BY <1>1, PlaceNames DEF Invoke, Entry
  <2>3. Tale(c) \in {"open", "refused"}
    BY ToldIsTale
  <2> QED
    BY <1>c, <1>d, <2>1, <2>2, <2>3
<1>2. ASSUME NEW o \in Calls, Resume(o) PROVE [Contract!Next]_(Contract!vars)
  <2>1. closing' = closing /\ at[o] = "waiting" /\ Wrote' = Wrote
    BY <1>0, <1>2, WroteStays DEF Resume, LoopStep
  <2>2. o \notin Wrote
    BY <1>0, <2>1 DEF TxnInv, Wrote, Committed
  <2>3. PICK c \in {"refused"} \union Busy : at' = [at EXCEPT ![o] = c]
    BY <1>2, PlaceNames DEF Resume, Entry
  <2>4. Tale(at[o]) = "open" /\ (c = "refused" \/ Tale(c) = "open")
    BY <2>1, ToldIsTale
  <2> QED
    BY <1>c, <1>d, <2>1, <2>2, <2>3, <2>4
<1>3. ASSUME NEW o \in Calls, Fail(o) \/ Leave(o) PROVE [Contract!Next]_(Contract!vars)
  <2>1. closing' = closing /\ at' = [at EXCEPT ![o] = "raised"] /\ Wrote' = Wrote
    BY <1>0, <1>3, WroteStays DEF Fail, Leave, Stop
  <2>2. Tale(at[o]) = "open"
    <3>1. at[o] \in Busy \union {"waiting"}
      BY <1>3 DEF Fail, Stoppable, Leave, Busy
    <3> QED
      BY <3>1, ToldIsTale
  <2> QED
    BY <1>c, <1>d, <2>1, <2>2
<1>4. ASSUME NEW o \in Calls, Return(o) PROVE [Contract!Next]_(Contract!vars)
  <2>1. /\ closing' = closing /\ at[o] = "done" /\ at' = [at EXCEPT ![o] = "returned"]
        /\ Wrote' = Wrote
    BY <1>0, <1>4, WroteStays DEF Return, LoopStep
  <2>2. Tale(at[o]) = "open"
    BY <2>1, ToldIsTale, PlaceNames
  <2>3. o \in Writes => o \in Wrote
    BY <1>0, <2>1, KindsDiffer DEF TxnInv, Wrote, Committed
  <2> QED
    BY <1>c, <1>d, <2>1, <2>2, <2>3
<1>5. ASSUME NEW o \in Calls, TaskStep(o) PROVE [Contract!Next]_(Contract!vars)
  <2>1. closing' = closing /\ Wrote' = Wrote /\ at[o] \in Busy
    <3>1. closing' = closing
      BY <1>5 DEF TaskStep, Connect, Configure, Insert, ClaimDetails, ClaimSummaries, Count,
         SendCommit, Answered, Fetch, Filter, Statement
    <3>2. at[o] \in Busy
      BY <1>5, PlaceNames DEF TaskStep, Connect, Configure, Insert, ClaimDetails, ClaimSummaries,
         Count, SendCommit, Answered, Fetch, Filter, Statement
    <3> QED
      BY <1>0, <1>5, <3>1, <3>2, WroteStays
  <2>2. PICK c \in Busy : at' = [at EXCEPT ![o] = c]
    BY <1>5, PlaceNames DEF TaskStep, Connect, Configure, Insert, ClaimDetails, ClaimSummaries,
       Count, SendCommit, Answered, Fetch, Filter, Statement
  <2>3. Tale(c) = "open" /\ Tale(at[o]) = "open"
    BY <2>1, ToldIsTale
  <2> QED
    BY <1>c, <2>1, <2>2, <2>3
<1>6. ASSUME NEW o \in Calls, Commit(o) PROVE [Contract!Next]_(Contract!vars)
  <2>1. /\ at' = at /\ closing' = closing /\ txn[o] = "sent"
        /\ txn' = [txn EXCEPT ![o] = "committed"]
    BY <1>6 DEF Commit, processVars
  <2>2. Told' = Told /\ AllShut' = AllShut
    BY <2>1 DEF Told, AllShut
  <2>3. \A x \in Calls : txn'[x] = IF x = o THEN "committed" ELSE txn[x]
    BY <1>0, <2>1 DEF TypeOK
  <2>4. CASE o \in Writes
    <3>1. o \notin Wrote /\ Wrote' = Wrote \union {o}
      BY <2>1, <2>3, <2>4, KindsDiffer DEF Wrote, Committed
    <3>2. at[o] \in Busy \/ at[o] = "raised"
      <4>1. at[o] \in Places /\ at[o] \notin {"new", "waiting", "refused", "done", "returned"}
        BY <1>0, <2>1, <2>4, TypesSplit, KindsDiffer DEF TxnInv, ProcessTypes
      <4> QED
        BY <4>1, PlaceNames
    <3>3. Told[o] \in {"open", "raised"}
      BY <2>4, <3>2, ToldIsTale
    <3> QED
      BY <2>2, <2>4, <3>1, <3>3, ContractSteps
  <2>5. CASE o \notin Writes
    <3>1. Wrote' = Wrote
      BY <2>3, <2>5, KindsDiffer DEF Wrote, Committed
    <3> QED
      BY <1>a, <2>2, <3>1
  <2> QED
    BY <2>4, <2>5
<1>7. ASSUME NEW o \in Calls, Abort(o) PROVE [Contract!Next]_(Contract!vars)
  <2>1. at' = at /\ closing' = closing /\ Wrote' = Wrote
    BY <1>0, <1>7, WroteStays DEF Abort, processVars
  <2> QED
    BY <1>a, <2>1 DEF Told, AllShut
<1>8. ASSUME NEW s \in Stores, Close(s) \/ CloseDb(s) PROVE [Contract!Next]_(Contract!vars)
  <2>1. Told' = Told /\ Wrote' = Wrote
    BY <1>8 DEF Close, CloseDb, serverVars, Told, Wrote, Committed
  <2>2. AllShut => AllShut'
    <3>1. \A t \in Stores : closing[t] = "closed" => closing'[t] = "closed"
      BY <1>0, <1>8 DEF Close, CloseDb, TypeOK
    <3> QED
      BY <3>1, StoreAssumption DEF AllShut
  <2>3. CASE AllShut' = AllShut
    BY <1>a, <2>1, <2>3
  <2>4. CASE ~AllShut /\ AllShut'
    BY <2>1, <2>4, ContractSteps
  <2> QED
    BY <2>2, <2>3, <2>4 DEF AllShut
<1>9. ASSUME NEW lot \in Lots, Expire(lot) PROVE [Contract!Next]_(Contract!vars)
  BY <1>9, <1>b DEF Expire, processVars, serverVars
<1>10. CASE UNCHANGED vars
  BY <1>10, <1>b DEF vars, processVars, serverVars
<1> QED
  BY <1>1, <1>2, <1>3, <1>4, <1>5, <1>6, <1>7, <1>8, <1>9, <1>10 DEF Next, LoopStep

(* The store implements the contract of an indefinite store: a write takes  *)
(* effect as a whole and once, is acknowledged only then, and never takes   *)
(* effect if it was refused; if it raised, write_batch() does not know, and *)
(* the server may commit it afterwards.                                     *)
THEOREM ContractKept == Spec => KeepsContract
<1>1. Init => Contract!Init
  <2> SUFFICES ASSUME Init PROVE Contract!Init
    OBVIOUS
  <2>1. \A w \in Writes : w \in Calls /\ at[w] = "new" /\ txn[w] = "none"
    BY KindsDiffer DEF Init
  <2>2. Told = [w \in Writes |-> "new"]
    BY <2>1, ToldIsTale
  <2>3. Committed(Writes) = {}
    BY <2>1 DEF Committed
  <2>4. (Closable # {} /\ \A s \in Closable : closing[s] = "closed") = FALSE
    BY StoreAssumption DEF Init
  <2> QED
    BY <2>2, <2>3, <2>4 DEF Contract!Init
<1> QED
  BY Invariance, <1>1, NextContract, PTL DEF KeepsContract, Contract!Spec, Spec
=============================================================================
