---------------------------- MODULE StorageProofs ----------------------------
(***************************************************************************)
(* Proofs about the SQLite store and its users (SqliteStore, Storage): the   *)
(* one connection is used by one operation at a time and not after close(),  *)
(* what the store tells is true, and it keeps its contract.  They hold for   *)
(* any number of calls and events, whoever is cancelled at whichever step.   *)
(*                                                                         *)
(* The argument: the slot, the executor's queue and the places of the callers*)
(* determine each other (SlotInv, LaneInv, CallInv), so that at most one     *)
(* operation is ever queued; whatever a write put into the table is there or *)
(* has expired, and what a query has fetched is what it must show, already   *)
(* before it looks again at what expired (DataInv).                          *)
(***************************************************************************)
EXTENDS Storage, FiniteSetTheorems, SequenceTheorems, TLAPS

-----------------------------------------------------------------------------
(* The inductive invariant                                                  *)

(* One call has the slot or none; the others wait in line, each once and    *)
(* without the slot, and only while somebody has it.                        *)
SlotInv ==
  /\ \A o, x \in holder : o = x
  /\ \A i \in DOMAIN waiters : call[waiters[i]] = "waiting" /\ waiters[i] \notin holder
  /\ \A i, j \in DOMAIN waiters : waiters[i] = waiters[j] => i = j
  /\ waiters # <<>> => holder # {}
  /\ \A o \in holder : call[o] = "waiting" \/ work[o] # "none"

(* The operations in the executor.                                          *)
Queued == {o \in Calls : work[o] \in {"queued", "fetched"}}

(* The executor has the operation of the call with the slot, then the       *)
(* closing of the connection, and nothing else.                             *)
LaneInv ==
  /\ Queued \subseteq holder
  /\ closing \in {"ran", "closed"} => ~open
  /\ \/ closing # "queued" /\ Queued = {} /\ lane = <<>>
     \/ closing = "queued" /\ Queued = {} /\ lane = <<Closer>>
     \/ closing = "no" /\ \E o \in Queued : lane = <<o>>
     \/ closing = "queued" /\ \E o \in Queued : lane = <<o, Closer>>

(* A caller that waits for the slot, or gave up before, has no operation;   *)
(* what the others were told is what became of theirs.                      *)
CallInv ==
  \A o \in Calls :
    /\ call[o] \in {"new", "waiting", "refused"} => work[o] = "none"
    /\ call[o] = "awaiting" => work[o] # "none"
    /\ call[o] = "returned" => work[o] = "ok"
    /\ call[o] = "raised" => work[o] = "failed"
    /\ work[o] = "fetched" => o \in Queries

(* The rows q has fetched, or has shown of them what has not expired: all   *)
(* it must see that its limit lets through, and nothing it must not.        *)
Shown(q) ==
  /\ \A e \in (asOf[q].acknowledged \intersect Wanted[q]) \ expired.summary :
       e \in found[q].summary \/ BeyondLimit(q, e)
  /\ Cardinality(found[q].summary) <= Limit[q]
  /\ found[q].summary \subseteq (Written \intersect Wanted[q]) \ asOf[q].expired.summary
  /\ found[q].detail \subseteq found[q].summary
  /\ q \in Privileged => found[q].summary \ expired.detail \subseteq found[q].detail
  /\ q \notin Privileged => found[q].detail = {}

(* What was written is in the table or has expired, and the table has       *)
(* nothing else; purges and queries go by what was true when they began.    *)
DataInv ==
  /\ expired.summary \subseteq expired.detail
  /\ rows.detail \subseteq rows.summary /\ rows.summary \subseteq Written
  /\ Written \subseteq rows.summary \union expired.summary
  /\ Written \subseteq rows.detail \union expired.detail
  /\ \A o \in Calls : /\ asOf[o].acknowledged \subseteq Written
                      /\ asOf[o].expired.summary \subseteq expired.summary
                      /\ asOf[o].expired.detail \subseteq expired.detail
  /\ \A q \in Queries :
       /\ work[q] \in {"fetched", "ok"} => Shown(q)
       /\ work[q] = "ok" => found[q].detail \intersect asOf[q].expired.detail = {}

IInv == TypeOK /\ SlotInv /\ LaneInv /\ CallInv /\ DataInv

-----------------------------------------------------------------------------
(* Sequences and sets                                                       *)

(* A sequence without its element at i.                                     *)
LEMMA RemoveAtProperties ==
  ASSUME NEW S, NEW s \in Seq(S), NEW i \in 1..Len(s)
  PROVE  /\ RemoveAt(s, i) \in Seq(S)
         /\ Len(RemoveAt(s, i)) = Len(s) - 1
         /\ \A j \in 1..(Len(s) - 1) : RemoveAt(s, i)[j] = IF j < i THEN s[j] ELSE s[j + 1]
<1> DEFINE a == SubSeq(s, 1, i - 1)
           b == SubSeq(s, i + 1, Len(s))
<1>0. Len(s) \in Nat /\ i \in Int /\ 1 <= i /\ i <= Len(s)
  BY LenProperties
<1>1. /\ a \in Seq(S) /\ Len(a) = i - 1
      /\ \A j \in 1..(i - 1) : a[j] = s[j]
  BY LenProperties, SubSeqProperties
<1>2. /\ b \in Seq(S) /\ Len(b) = Len(s) - i
      /\ \A j \in 1..(Len(s) - i) : b[j] = s[i + j]
  BY LenProperties, SubSeqProperties
<1>3. RemoveAt(s, i) = a \o b
  BY DEF RemoveAt
<1> HIDE DEF a, b
<1>4. /\ a \o b \in Seq(S) /\ Len(a \o b) = Len(a) + Len(b)
      /\ \A j \in 1..(Len(a) + Len(b)) :
           (a \o b)[j] = IF j <= Len(a) THEN a[j] ELSE b[j - Len(a)]
  BY <1>1, <1>2, ConcatProperties
<1>5. Len(a) + Len(b) = Len(s) - 1
  BY <1>0, <1>1, <1>2
<1>6. ASSUME NEW j \in 1..(Len(s) - 1)
      PROVE  (a \o b)[j] = IF j < i THEN s[j] ELSE s[j + 1]
  <2>1. (a \o b)[j] = IF j <= i - 1 THEN a[j] ELSE b[j - (i - 1)]
    BY <1>1, <1>4, <1>5
  <2>2. CASE j < i
    BY <1>0, <1>1, <2>1, <2>2
  <2>3. CASE ~(j < i)
    <3>1. j - (i - 1) \in 1..(Len(s) - i) /\ i + (j - (i - 1)) = j + 1
      BY <1>0, <2>3
    <3> QED
      BY <1>0, <1>2, <2>1, <2>3, <3>1
  <2> QED
    BY <2>2, <2>3
<1> QED
  BY <1>3, <1>4, <1>5, <1>6

(* A line without its first element.                                        *)
LEMMA TailProperties ==
  ASSUME NEW S, NEW s \in Seq(S), s # <<>>
  PROVE  /\ Head(s) = s[1] /\ s[1] \in S /\ Tail(s) \in Seq(S)
         /\ Len(s) \in Nat \ {0} /\ DOMAIN s = 1..Len(s)
         /\ Len(Tail(s)) = Len(s) - 1 /\ DOMAIN Tail(s) = 1..(Len(s) - 1)
         /\ \A i \in 1..(Len(s) - 1) : Tail(s)[i] = s[i + 1]
<1>1. Len(s) \in Nat \ {0} /\ DOMAIN s = 1..Len(s)
  BY EmptySeq, LenProperties
<1>2. Head(s) = s[1] /\ s[1] \in S
  BY <1>1, LenProperties
<1>3. /\ Tail(s) \in Seq(S) /\ Len(Tail(s)) = Len(s) - 1
      /\ \A i \in 1..Len(Tail(s)) : Tail(s)[i] = s[i + 1]
  BY HeadTailProperties
<1>4. DOMAIN Tail(s) = 1..(Len(s) - 1)
  BY <1>3, LenProperties
<1> QED
  BY <1>1, <1>2, <1>3, <1>4

(* One thing put behind another.                                            *)
LEMMA AppendTwo == \A a, b : Append(<<a>>, b) = <<a, b>>
<1> SUFFICES ASSUME NEW a, NEW b PROVE Append(<<a>>, b) = <<a, b>>
  OBVIOUS
<1>1. <<a>> \in Seq({a, b}) /\ <<a, b>> \in Seq({a, b}) /\ Len(<<a>>) = 1 /\ Len(<<a, b>>) = 2
  OBVIOUS
<1>2. Append(<<a>>, b) \in Seq({a, b}) /\ Len(Append(<<a>>, b)) = 2
  BY <1>1, AppendProperties
<1>3. Append(<<a>>, b)[1] = a /\ Append(<<a>>, b)[2] = b
  BY <1>1, AppendProperties
<1>4. \A i \in 1..2 : Append(<<a>>, b)[i] = <<a, b>>[i]
  BY <1>3
<1> QED
  BY <1>1, <1>2, <1>4, SeqEqual

-----------------------------------------------------------------------------
(* What the store does, whoever of Storage asks for it.                     *)
StoreMoves ==
  \/ \E o \in Calls : Invoke(o) \/ Resume(o) \/ Leave(o) \/ Completed(o) \/ Return(o)
  \/ \E result \in {"ok", "failed"} :
       \/ \E w \in Writes : WriteRuns(w, result)
       \/ \E p \in Purges : PurgeRuns(p, result)
       \/ \E q \in Queries : QueryRuns(q, result)
  \/ \E q \in Queries : Fetch(q)
  \/ CloseRuns \/ Close \/ CloseReturns
  \/ \E lot \in Lots : Expire(lot)
  \/ UNCHANGED storeVars

(* Every step of the system is one of them.                                 *)
LEMMA NextMoves == TypeOK /\ [Next]_vars => StoreMoves
<1> SUFFICES ASSUME TypeOK, [Next]_vars PROVE StoreMoves
  OBVIOUS
<1> USE DEF StoreMoves
<1>0. Purges \subseteq Calls /\ Writes \subseteq Calls /\ Queries \subseteq Calls
      /\ purge \subseteq Purges
  BY DEF Calls, TypeOK
<1>1. CASE Start \/ CloseKeeper \/ GoOn \/ KeeperOver
  BY <1>1 DEF Start, CloseKeeper, GoOn, KeeperOver
<1>2. CASE CancelKeeper
  BY <1>0, <1>2 DEF CancelKeeper
<1>3. CASE \E p \in Purges : Tick(p)
  BY <1>0, <1>3 DEF Tick
<1>4. CASE \E w \in Writes \union Queries : Ask(w) \/ Abandon(w)
  BY <1>0, <1>4 DEF Ask, Abandon
<1>5. CASE LoopStep \/ ThreadStep \/ Close \/ \E lot \in Lots : Expire(lot)
  BY <1>5 DEF LoopStep, ThreadStep
<1>6. CASE UNCHANGED vars
  BY <1>6 DEF vars
<1> QED
  BY <1>1, <1>2, <1>3, <1>4, <1>5, <1>6 DEF Next, KeeperStep

(* The slot goes to the first of the line, or to nobody.                    *)
LEMMA PassSlotEffect ==
  ASSUME TypeOK, PassSlot(waiters)
  PROVE  /\ waiters' \in Seq(Calls) /\ holder' \in SUBSET Calls
         /\ waiters = <<>> => holder' = {} /\ waiters' = <<>>
         /\ waiters # <<>> =>
              /\ 1 \in DOMAIN waiters /\ holder' = {waiters[1]}
              /\ \A i \in DOMAIN waiters' : /\ i + 1 \in DOMAIN waiters /\ i \in Nat \ {0}
                                            /\ waiters'[i] = waiters[i + 1]
<1>1. waiters \in Seq(Calls)
  BY DEF TypeOK
<1>2. CASE waiters = <<>>
  BY <1>1, <1>2 DEF PassSlot
<1>3. CASE waiters # <<>>
  <2>1. holder' = {Head(waiters)} /\ waiters' = Tail(waiters)
    BY <1>3 DEF PassSlot
  <2> QED
    BY <1>1, <1>3, <2>1, TailProperties
<1> QED
  BY <1>2, <1>3

(* A waiter leaves the line, the others keep their order.                   *)
LEMMA LeavesLineEffect ==
  ASSUME TypeOK, NEW o, LeavesLine(o)
  PROVE  /\ waiters' \in Seq(Calls) /\ holder' = holder /\ waiters # <<>>
         /\ \E i \in DOMAIN waiters :
              /\ waiters[i] = o
              /\ \A j \in DOMAIN waiters' :
                   /\ j \in Nat /\ i \in Nat
                   /\ j < i => j \in DOMAIN waiters /\ waiters'[j] = waiters[j]
                   /\ ~(j < i) => j + 1 \in DOMAIN waiters /\ waiters'[j] = waiters[j + 1]
<1>1. waiters \in Seq(Calls) /\ DOMAIN waiters = 1..Len(waiters) /\ Len(waiters) \in Nat
  BY LenProperties DEF TypeOK
<1>2. PICK i \in DOMAIN waiters : waiters[i] = o /\ waiters' = RemoveAt(waiters, i)
  BY DEF LeavesLine
<1>3. /\ waiters' \in Seq(Calls) /\ Len(waiters') = Len(waiters) - 1
      /\ \A j \in 1..(Len(waiters) - 1) :
           waiters'[j] = IF j < i THEN waiters[j] ELSE waiters[j + 1]
  BY <1>1, <1>2, RemoveAtProperties
<1>4. DOMAIN waiters' = 1..(Len(waiters) - 1)
  BY <1>3, LenProperties
<1>5. waiters # <<>>
  BY <1>1, <1>2, EmptySeq
<1>6. \A j \in DOMAIN waiters' :
        /\ j \in Nat /\ i \in Nat
        /\ j < i => j \in DOMAIN waiters /\ waiters'[j] = waiters[j]
        /\ ~(j < i) => j + 1 \in DOMAIN waiters /\ waiters'[j] = waiters[j + 1]
  BY <1>1, <1>2, <1>3, <1>4
<1> QED
  BY <1>2, <1>3, <1>5, <1>6 DEF LeavesLine

(* A caller joins the end of the line.                                      *)
LEMMA JoinsLineEffect ==
  ASSUME TypeOK, NEW o \in Calls, waiters' = Append(waiters, o)
  PROVE  /\ waiters' \in Seq(Calls)
         /\ \A i \in DOMAIN waiters' : \/ i \in DOMAIN waiters /\ waiters'[i] = waiters[i]
                                       \/ i = Len(waiters) + 1 /\ waiters'[i] = o
<1>1. waiters \in Seq(Calls) /\ DOMAIN waiters = 1..Len(waiters) /\ Len(waiters) \in Nat
  BY LenProperties DEF TypeOK
<1>2. /\ waiters' \in Seq(Calls) /\ Len(waiters') = Len(waiters) + 1
      /\ \A i \in 1..Len(waiters) : waiters'[i] = waiters[i]
      /\ waiters'[Len(waiters) + 1] = o
  BY <1>1, AppendProperties
<1>3. DOMAIN waiters' = 1..(Len(waiters) + 1)
  BY <1>2, LenProperties
<1> QED
  BY <1>1, <1>2, <1>3

-----------------------------------------------------------------------------
(* Every step keeps the types                                               *)
StoreTypes ==
  /\ closing \in {"no", "queued", "ran", "closed"}
  /\ holder \in SUBSET Calls /\ waiters \in Seq(Calls) /\ lane \in Seq(Calls \union {Closer})
  /\ call \in [Calls -> {"new", "waiting", "awaiting", "left", "refused", "raised", "returned"}]
  /\ work \in [Calls -> {"none", "queued", "fetched", "ok", "failed"}]
  /\ open \in BOOLEAN /\ rows \in Parts /\ expired \in Parts
  /\ asOf \in [Calls -> Views] /\ found \in [Calls -> Parts]

KeeperTypes ==
  /\ keeper \in {"none", "sleeping", "purging", "over"} /\ stop \in BOOLEAN
  /\ purge \in SUBSET Purges /\ ending \in {"no", "waiting", "closed"}

(* The types of the store and those of the retention worker.                *)
LEMMA TypesSplit ==
  /\ TypeOK <=> StoreTypes /\ KeeperTypes
  /\ TypeOK' <=> StoreTypes' /\ KeeperTypes'
  BY DEF TypeOK, StoreTypes, KeeperTypes

(* What is taken from the rows and details, or added, are rows and details. *)
LEMMA PartsType ==
  /\ Nothing \in Parts
  /\ \A a, b \in Parts : Without(a, b) \in Parts
  /\ \A a \in Parts : \A E \in SUBSET Events : With(a, E) \in Parts
  BY DEF Parts, Nothing, Without, With

(* The calls are of one kind each.                                          *)
LEMMA KindsDiffer ==
  /\ \A o \in Calls : o \in Writes \/ o \in Purges \/ o \in Queries
  /\ \A w \in Writes : w \in Calls /\ w \notin Purges /\ w \notin Queries
  /\ \A p \in Purges : p \in Calls /\ p \notin Writes /\ p \notin Queries
  /\ \A q \in Queries : q \in Calls /\ q \notin Writes /\ q \notin Purges
  BY StoreAssumption DEF Calls

(* What was written are events.                                             *)
LEMMA WrittenType == Written \in SUBSET Events
  BY StoreAssumption DEF Written

(* Only what was written was acknowledged.                                  *)
LEMMA AcknowledgedWritten ==
  ASSUME CallInv
  PROVE  Acknowledged \subseteq Written
  BY DEF CallInv, Acknowledged, Written, Calls

(* What the store does keeps the types of its variables.                    *)
LEMMA StoreType == IInv /\ StoreMoves => StoreTypes'
<1> SUFFICES ASSUME IInv, StoreMoves PROVE StoreTypes'
  OBVIOUS
<1>0. StoreTypes
  BY TypesSplit DEF IInv
<1> USE <1>0 DEF StoreTypes, slotVars, dataVars
<1>1. ASSUME NEW o \in Calls, Invoke(o) PROVE StoreTypes'
  <2>1. Acknowledged \in SUBSET Events
    BY AcknowledgedWritten, WrittenType DEF IInv
  <2>2. asOf' \in [Calls -> Views]
    <3>1. [acknowledged |-> IF o \in Queries THEN Acknowledged ELSE {},
           expired |-> expired] \in Views
      BY <2>1 DEF Views
    <3> QED
      BY <1>1, <3>1 DEF Invoke
  <2>0. /\ Append(waiters, o) \in Seq(Calls)
        /\ Append(lane, o) \in Seq(Calls \union {Closer})
    OBVIOUS
  <2>3. /\ holder' \in SUBSET Calls /\ waiters' \in Seq(Calls)
        /\ lane' \in Seq(Calls \union {Closer})
    BY <1>1, <2>0 DEF Invoke, Submitted
  <2>4. call' \in [Calls -> {"new", "waiting", "awaiting", "left", "refused", "raised",
                             "returned"}]
    BY <1>1 DEF Invoke, Submitted
  <2>5. work' \in [Calls -> {"none", "queued", "fetched", "ok", "failed"}]
    BY <1>1 DEF Invoke, Submitted
  <2> QED
    BY <1>1, <2>2, <2>3, <2>4, <2>5 DEF Invoke
<1>2. ASSUME NEW o \in Calls, Resume(o) PROVE StoreTypes'
  <2>0. Append(lane, o) \in Seq(Calls \union {Closer})
    OBVIOUS
  <2>1. /\ holder' \in SUBSET Calls /\ waiters' \in Seq(Calls)
        /\ lane' \in Seq(Calls \union {Closer})
    BY <1>2, <2>0, PassSlotEffect DEF Resume, Submitted, IInv
  <2>2. call' \in [Calls -> {"new", "waiting", "awaiting", "left", "refused", "raised",
                             "returned"}]
    BY <1>2 DEF Resume, Submitted
  <2>3. work' \in [Calls -> {"none", "queued", "fetched", "ok", "failed"}]
    BY <1>2 DEF Resume, Submitted
  <2> QED
    BY <1>2, <2>1, <2>2, <2>3 DEF Resume
<1>3. ASSUME NEW o \in Calls, Leave(o) PROVE StoreTypes'
  <2>1. holder' \in SUBSET Calls /\ waiters' \in Seq(Calls)
    BY <1>3, PassSlotEffect, LeavesLineEffect DEF Leave, SlotAfterLeaving, IInv
  <2> QED
    BY <1>3, <2>1 DEF Leave
<1>4. ASSUME NEW o \in Calls, Completed(o) PROVE StoreTypes'
  <2>1. holder' \in SUBSET Calls /\ waiters' \in Seq(Calls)
    BY <1>4, PassSlotEffect DEF Completed, IInv
  <2> QED
    BY <1>4, <2>1 DEF Completed
<1>5. ASSUME NEW o \in Calls, Return(o) PROVE StoreTypes'
  BY <1>5 DEF Return
<1>6. ASSUME NEW w \in Writes, NEW result \in {"ok", "failed"}, WriteRuns(w, result)
      PROVE StoreTypes'
  <2>1. lane \in Seq(Calls \union {Closer}) /\ lane # <<>> /\ lane' = Tail(lane)
    BY <1>6 DEF WriteRuns, Runs
  <2>2. lane' \in Seq(Calls \union {Closer})
    BY <2>1, HeadTailProperties
  <2>3. work' \in [Calls -> {"none", "queued", "fetched", "ok", "failed"}] /\ open' \in BOOLEAN
    BY <1>6 DEF WriteRuns, Runs
  <2>4. rows' \in Parts
    BY <1>6, PartsType, StoreAssumption DEF WriteRuns
  <2> QED
    BY <1>6, <2>2, <2>3, <2>4 DEF WriteRuns, Runs
<1>7. ASSUME NEW p \in Purges, NEW result \in {"ok", "failed"}, PurgeRuns(p, result)
      PROVE StoreTypes'
  <2>1. lane \in Seq(Calls \union {Closer}) /\ lane # <<>> /\ lane' = Tail(lane)
    BY <1>7 DEF PurgeRuns, Runs
  <2>2. lane' \in Seq(Calls \union {Closer})
    BY <2>1, HeadTailProperties
  <2>3. work' \in [Calls -> {"none", "queued", "fetched", "ok", "failed"}] /\ open' \in BOOLEAN
    BY <1>7 DEF PurgeRuns, Runs
  <2>4. rows' \in Parts /\ found' \in [Calls -> Parts]
    <3>1. CASE UNCHANGED <<rows, found>>
      BY <3>1
    <3>2. ASSUME NEW details \in Limited(rows.detail \intersect asOf[p].expired.detail, PurgeSize),
                 NEW events \in Limited(rows.summary \intersect asOf[p].expired.summary, PurgeSize),
                 LET left == Without(rows, [summary |-> events, detail |-> details])
                 IN  /\ rows' = left
                     /\ found' = IF result = "failed" THEN found
                                 ELSE [found EXCEPT ![p] =
                                   [summary |-> left.summary \intersect asOf[p].expired.summary,
                                    detail  |-> left.detail \intersect asOf[p].expired.detail]]
          PROVE  rows' \in Parts /\ found' \in [Calls -> Parts]
      <4>1. [summary |-> events, detail |-> details] \in Parts
        BY DEF Limited, Parts
      <4>2. rows' \in Parts
        BY <3>2, <4>1, PartsType
      <4>3. [summary |-> rows'.summary \intersect asOf[p].expired.summary,
             detail  |-> rows'.detail \intersect asOf[p].expired.detail] \in Parts
        BY <4>2 DEF Parts
      <4> QED
        BY <3>2, <4>2, <4>3
    <3> QED
      BY <1>7, <3>1, <3>2 DEF PurgeRuns
  <2> QED
    BY <1>7, <2>2, <2>3, <2>4 DEF PurgeRuns, Runs
<1>8. ASSUME NEW q \in Queries, NEW result \in {"ok", "failed"}, QueryRuns(q, result)
      PROVE StoreTypes'
  <2>1. lane \in Seq(Calls \union {Closer}) /\ lane # <<>> /\ lane' = Tail(lane)
    BY <1>8 DEF QueryRuns, Runs
  <2>2. lane' \in Seq(Calls \union {Closer})
    BY <2>1, HeadTailProperties
  <2>3. work' \in [Calls -> {"none", "queued", "fetched", "ok", "failed"}] /\ open' \in BOOLEAN
    BY <1>8 DEF QueryRuns, Runs
  <2>4. found' \in [Calls -> Parts]
    <3>1. Without(found[q], expired) \in Parts
      BY PartsType DEF Calls
    <3> QED
      BY <1>8, <3>1 DEF QueryRuns
  <2> QED
    BY <1>8, <2>2, <2>3, <2>4 DEF QueryRuns, Runs
<1>9. CASE CloseRuns
  <2>1. lane \in Seq(Calls \union {Closer}) /\ lane # <<>> /\ lane' = Tail(lane)
    BY <1>9 DEF CloseRuns
  <2>2. lane' \in Seq(Calls \union {Closer})
    BY <2>1, HeadTailProperties
  <2> QED
    BY <1>9, <2>2 DEF CloseRuns
<1>10. CASE Close
  <2>1. lane' \in Seq(Calls \union {Closer})
    BY <1>10, AppendProperties DEF Close, LaneWithClose
  <2> QED
    BY <1>10, <2>1 DEF Close
<1>11. CASE CloseReturns
  BY <1>11 DEF CloseReturns
<1>12. ASSUME NEW lot \in Lots, Expire(lot) PROVE StoreTypes'
  <2>1. lot \in SUBSET Events
    BY StoreAssumption
  <2>2. expired' \in Parts
    BY <1>12, <2>1 DEF Expire, Parts
  <2> QED
    BY <1>12, <2>2 DEF Expire
<1>13. CASE UNCHANGED storeVars
  BY <1>13 DEF storeVars, slotVars, dataVars
<1>14. ASSUME NEW q \in Queries, Fetch(q) PROVE StoreTypes'
  <2>1. found' \in [Calls -> Parts]
    <3>1. PICK page \in Pages(q) :
            found' = [found EXCEPT ![q] =
              [summary |-> page,
               detail  |-> IF q \in Privileged THEN page \intersect rows.detail ELSE {}]]
      BY <1>14 DEF Fetch
    <3>2. page \subseteq rows.summary
      BY DEF Pages, Limited, Matching
    <3>3. [summary |-> page,
           detail  |-> IF q \in Privileged THEN page \intersect rows.detail ELSE {}] \in Parts
      BY <3>2 DEF Parts
    <3> QED
      BY <3>1, <3>3
  <2> QED
    BY <1>14, <2>1 DEF Fetch
<1> QED
  BY <1>1, <1>2, <1>3, <1>4, <1>5, <1>6, <1>7, <1>8, <1>9, <1>10, <1>11, <1>12, <1>13, <1>14
  DEF StoreMoves

(* So does what the retention worker does to its own.                       *)
LEMMA NextType == IInv /\ [Next]_vars => TypeOK'
<1> SUFFICES ASSUME IInv, [Next]_vars PROVE TypeOK'
  OBVIOUS
<1>1. TypeOK /\ StoreMoves
  BY NextMoves DEF IInv
<1>2. StoreTypes'
  BY <1>1, StoreType
<1>3. KeeperTypes'
  <2>0. KeeperTypes
    BY <1>1, TypesSplit
  <2> USE <2>0 DEF KeeperTypes, keeperVars
  <2>1. CASE Start \/ CloseKeeper \/ KeeperStep
    BY <2>1 DEF Start, CloseKeeper, KeeperStep, GoOn, KeeperOver, CancelKeeper
  <2>2. CASE \E p \in Purges : Tick(p)
    BY <2>2 DEF Tick
  <2>3. CASE UNCHANGED keeperVars
    BY <2>3
  <2> QED
    BY <2>1, <2>2, <2>3 DEF Next, Ask, Abandon, vars
<1> QED
  BY <1>2, <1>3, TypesSplit

-----------------------------------------------------------------------------
(* Every step keeps the slot, the executor's queue and the callers in order *)

(* Ending an operation takes it from the executor, which leaves at most the *)
(* closing of the connection.                                               *)
LEMMA RunsLane ==
  ASSUME IInv, NEW o \in Calls, NEW result \in {"ok", "failed"}, Runs(o, result)
  PROVE  /\ LaneInv'
         /\ work[o] \in {"queued", "fetched"} /\ holder = {o} /\ closing \in {"no", "queued"}
         /\ work' = [work EXCEPT ![o] = result]
<1> USE DEF IInv
<1>0. /\ TypeOK /\ LaneInv /\ SlotInv
      /\ UNCHANGED <<holder, closing>> /\ work' = [work EXCEPT ![o] = result]
  BY DEF Runs
<1>1. o # Closer
  BY StoreAssumption
<1>2. \/ closing = "no" /\ \E x \in Queued : lane = <<x>>
      \/ closing = "queued" /\ \E x \in Queued : lane = <<x, Closer>>
  BY <1>0, <1>1 DEF LaneInv, Runs
<1>3. PICK x \in Queued : \/ closing = "no" /\ lane = <<x>>
                          \/ closing = "queued" /\ lane = <<x, Closer>>
  BY <1>2
<1>4. x = o
  BY <1>3 DEF Runs
<1>5. holder = {o} /\ work[o] \in {"queued", "fetched"} /\ Queued \subseteq {o}
  BY <1>0, <1>3, <1>4 DEF LaneInv, SlotInv, Queued
<1>6. Queued' = {}
  BY <1>0, <1>5 DEF Queued, TypeOK
<1>7. \/ closing' = "no" /\ lane' = <<>>
      \/ closing' = "queued" /\ lane' = <<Closer>>
  <2>1. Tail(<<x>>) = <<>> /\ Tail(<<x, Closer>>) = <<Closer>>
    OBVIOUS
  <2>2. lane' = Tail(lane) /\ closing' = closing
    BY DEF Runs
  <2> QED
    BY <1>3, <2>1, <2>2
<1>8. LaneInv'
  BY <1>6, <1>7 DEF LaneInv
<1> QED
  BY <1>0, <1>3, <1>5, <1>8

(* Every step keeps what callers were told.                                 *)
LEMMA NextCalls == IInv /\ StoreMoves => CallInv'
<1> SUFFICES ASSUME IInv, StoreMoves PROVE CallInv'
  OBVIOUS
<1> USE DEF IInv, TypeOK, CallInv, storeVars, slotVars, dataVars
<1>1. ASSUME NEW o \in Calls, Invoke(o) PROVE CallInv'
  BY <1>1 DEF Invoke, Submitted
<1>2. ASSUME NEW o \in Calls, Resume(o) PROVE CallInv'
  BY <1>2 DEF Resume, Submitted
<1>3. ASSUME NEW o \in Calls, Leave(o) PROVE CallInv'
  BY <1>3 DEF Leave
<1>4. ASSUME NEW o \in Calls, Completed(o) PROVE CallInv'
  BY <1>4 DEF Completed
<1>5. ASSUME NEW o \in Calls, Return(o) PROVE CallInv'
  BY <1>5 DEF Return
<1>6. ASSUME NEW w \in Writes, NEW result \in {"ok", "failed"}, WriteRuns(w, result)
      PROVE CallInv'
  <2>1. Runs(w, result) /\ w \in Calls
    BY <1>6 DEF WriteRuns, Calls
  <2>2. /\ work[w] \in {"queued", "fetched"} /\ work' = [work EXCEPT ![w] = result] /\ call' = call
    BY <2>1, RunsLane DEF Runs
  <2> QED
    BY <2>2
<1>7. ASSUME NEW p \in Purges, NEW result \in {"ok", "failed"}, PurgeRuns(p, result)
      PROVE CallInv'
  <2>1. Runs(p, result) /\ p \in Calls
    BY <1>7 DEF PurgeRuns, Calls
  <2>2. /\ work[p] \in {"queued", "fetched"} /\ work' = [work EXCEPT ![p] = result] /\ call' = call
    BY <2>1, RunsLane DEF Runs
  <2> QED
    BY <2>2
<1>8. ASSUME NEW q \in Queries, NEW result \in {"ok", "failed"}, QueryRuns(q, result)
      PROVE CallInv'
  <2>1. Runs(q, result) /\ q \in Calls
    BY <1>8 DEF QueryRuns, Calls
  <2>2. /\ work[q] \in {"queued", "fetched"} /\ work' = [work EXCEPT ![q] = result] /\ call' = call
    BY <2>1, RunsLane DEF Runs
  <2> QED
    BY <2>2
<1>9. CASE CloseRuns
  BY <1>9 DEF CloseRuns
<1>10. CASE Close
  BY <1>10 DEF Close
<1>11. CASE CloseReturns
  BY <1>11 DEF CloseReturns
<1>12. ASSUME NEW lot \in Lots, Expire(lot) PROVE CallInv'
  BY <1>12 DEF Expire
<1>13. CASE UNCHANGED storeVars
  BY <1>13 DEF storeVars, slotVars, dataVars
<1>14. ASSUME NEW q \in Queries, Fetch(q) PROVE CallInv'
  BY <1>14 DEF Fetch
<1> QED
  BY <1>1, <1>2, <1>3, <1>4, <1>5, <1>6, <1>7, <1>8, <1>9, <1>10, <1>11, <1>12, <1>13, <1>14
  DEF StoreMoves

(* Every step keeps what the executor has.                                  *)
LEMMA NextLane == IInv /\ StoreMoves => LaneInv'
<1> SUFFICES ASSUME IInv, StoreMoves PROVE LaneInv'
  OBVIOUS
<1> USE DEF IInv, TypeOK, LaneInv, storeVars, slotVars, dataVars
<1>1. ASSUME NEW o \in Calls, Invoke(o) PROVE LaneInv'
  <2>0. closing \in {"no", "queued", "ran", "closed"}
    OBVIOUS
  <2>1. CASE closing = "no" /\ holder = {}
    <3>1. Queued = {} /\ lane = <<>>
      BY <2>1
    <3>2. lane' = <<o>> /\ work' = [work EXCEPT ![o] = "queued"] /\ holder' = {o}
      BY <1>1, <2>1, <3>1 DEF Invoke, Submitted
    <3>3. Queued' = {o}
      BY <3>1, <3>2 DEF Queued
    <3> QED
      BY <1>1, <2>1, <3>2, <3>3 DEF Invoke
  <2>2. CASE ~(closing = "no" /\ holder = {})
    <3>1. UNCHANGED <<lane, work, holder>>
      BY <1>1, <2>2 DEF Invoke
    <3>2. Queued' = Queued
      BY <3>1 DEF Queued
    <3> QED
      BY <1>1, <3>1, <3>2 DEF Invoke
  <2> QED
    BY <2>1, <2>2
<1>2. ASSUME NEW o \in Calls, Resume(o) PROVE LaneInv'
  <2>1. work[o] = "none" /\ Queued = {}
    BY <1>2 DEF Resume, CallInv, SlotInv, Queued
  <2>2. CASE closing = "no"
    <3>1. lane' = <<o>> /\ work' = [work EXCEPT ![o] = "queued"] /\ holder' = holder
      BY <1>2, <2>1, <2>2 DEF Resume, Submitted
    <3>2. Queued' = {o}
      BY <2>1, <3>1 DEF Queued
    <3> QED
      BY <1>2, <2>2, <3>1, <3>2 DEF Resume
  <2>3. CASE closing # "no"
    <3>1. UNCHANGED <<lane, work>>
      BY <1>2, <2>3 DEF Resume
    <3>2. Queued' = Queued
      BY <3>1 DEF Queued
    <3> QED
      BY <1>2, <2>1, <3>1, <3>2 DEF Resume
  <2> QED
    BY <2>2, <2>3
<1>3. ASSUME NEW o \in Calls, Leave(o) PROVE LaneInv'
  <2>1. UNCHANGED <<lane, work, closing, open>>
    BY <1>3 DEF Leave
  <2>2. Queued' = Queued
    BY <2>1 DEF Queued
  <2>3. Queued \subseteq holder'
    <3>1. CASE holder' = holder
      BY <3>1
    <3>2. CASE o \in holder /\ call[o] = "waiting"
      BY <3>2 DEF SlotInv, CallInv, Queued
    <3> QED
      BY <1>3, <3>1, <3>2 DEF Leave, SlotAfterLeaving, LeavesLine
  <2> QED
    BY <2>1, <2>2, <2>3
<1>4. ASSUME NEW o \in Calls, Completed(o) PROVE LaneInv'
  <2>1. UNCHANGED <<lane, work, closing, open>>
    BY <1>4 DEF Completed
  <2>2. Queued' = Queued
    BY <2>1 DEF Queued
  <2>3. Queued = {}
    BY <1>4 DEF Completed, SlotInv, Queued
  <2> QED
    BY <2>1, <2>2, <2>3
<1>5. ASSUME NEW o \in Calls, Return(o) PROVE LaneInv'
  <2>1. UNCHANGED <<lane, work, closing, open, holder>> /\ Queued' = Queued
    BY <1>5 DEF Return, Queued
  <2> QED
    BY <2>1
<1>6. ASSUME NEW w \in Writes, NEW result \in {"ok", "failed"}, WriteRuns(w, result)
      PROVE LaneInv'
  BY <1>6, RunsLane DEF WriteRuns, Calls
<1>7. ASSUME NEW p \in Purges, NEW result \in {"ok", "failed"}, PurgeRuns(p, result)
      PROVE LaneInv'
  BY <1>7, RunsLane DEF PurgeRuns, Calls
<1>8. ASSUME NEW q \in Queries, NEW result \in {"ok", "failed"}, QueryRuns(q, result)
      PROVE LaneInv'
  BY <1>8, RunsLane DEF QueryRuns, Calls
<1>9. CASE CloseRuns
  <2>1. UNCHANGED <<work, holder>> /\ Queued' = Queued /\ closing' = "ran" /\ open' = FALSE
    BY <1>9 DEF CloseRuns, Queued
  <2>2. ASSUME NEW x \in Queued PROVE Head(<<x>>) # Closer /\ Head(<<x, Closer>>) # Closer
    BY StoreAssumption DEF Queued
  <2>3. Queued = {} /\ lane = <<Closer>>
    BY <1>9, <2>2 DEF CloseRuns
  <2>4. lane' = <<>>
    BY <1>9, <2>3 DEF CloseRuns
  <2> QED
    BY <2>1, <2>3, <2>4
<1>10. CASE Close
  <2>1. UNCHANGED <<work, open, holder>> /\ Queued' = Queued /\ closing' = "queued"
    BY <1>10 DEF Close, Queued
  <2>2. CASE Queued = {} /\ lane = <<>>
    <3>1. lane' = <<Closer>>
      BY <1>10, <2>2 DEF Close, LaneWithClose
    <3> QED
      BY <2>1, <2>2, <3>1
  <2>3. ASSUME NEW x \in Queued, lane = <<x>>
        PROVE  LaneInv'
    <3>0. Append(<<x>>, Closer) = <<x, Closer>>
      BY AppendTwo
    <3>1. lane' = <<x, Closer>>
      BY <1>10, <2>3, <3>0 DEF Close, LaneWithClose
    <3> QED
      BY <2>1, <2>3, <3>1
  <2> QED
    BY <1>10, <2>2, <2>3 DEF Close
<1>11. CASE CloseReturns
  <2>1. UNCHANGED <<lane, work, open, holder>> /\ Queued' = Queued
    BY <1>11 DEF CloseReturns, Queued
  <2> QED
    BY <1>11, <2>1 DEF CloseReturns
<1>12. ASSUME NEW lot \in Lots, Expire(lot) PROVE LaneInv'
  <2>1. UNCHANGED <<lane, work, open, holder, closing>> /\ Queued' = Queued
    BY <1>12 DEF Expire, Queued
  <2> QED
    BY <1>12, <2>1
<1>13. CASE UNCHANGED storeVars
  <2>1. UNCHANGED <<lane, work, open, holder, closing>> /\ Queued' = Queued
    BY <1>13 DEF Queued
  <2> QED
    BY <2>1
<1>14. ASSUME NEW q \in Queries, Fetch(q) PROVE LaneInv'
  <2>1. /\ UNCHANGED <<holder, lane, closing>> /\ q \in Queued
        /\ work' = [work EXCEPT ![q] = "fetched"]
    BY <1>14, KindsDiffer DEF Fetch, Queued
  <2>2. Queued' = Queued
    BY <2>1 DEF Queued
  <2> QED
    BY <2>1, <2>2
<1> QED
  BY <1>1, <1>2, <1>3, <1>4, <1>5, <1>6, <1>7, <1>8, <1>9, <1>10, <1>11, <1>12, <1>13, <1>14
  DEF StoreMoves

(* Nobody took the slot or gave it up.                                      *)
LEMMA SlotStays ==
  ASSUME SlotInv, UNCHANGED <<holder, waiters>>,
         \A i \in DOMAIN waiters : call'[waiters[i]] = "waiting",
         \A o \in holder : call'[o] = "waiting" \/ work'[o] # "none"
  PROVE  SlotInv'
  BY DEF SlotInv

(* The slot was passed on, by whoever had it.                               *)
LEMMA SlotPasses ==
  ASSUME TypeOK, SlotInv, PassSlot(waiters),
         \A i \in DOMAIN waiters : call'[waiters[i]] = "waiting"
  PROVE  SlotInv'
<1>1. CASE waiters = <<>>
  BY <1>1, PassSlotEffect DEF SlotInv
<1>2. CASE waiters # <<>>
  <2>1. /\ 1 \in DOMAIN waiters /\ holder' = {waiters[1]}
        /\ \A i \in DOMAIN waiters' : /\ i + 1 \in DOMAIN waiters /\ i \in Nat \ {0}
                                      /\ waiters'[i] = waiters[i + 1]
    BY <1>2, PassSlotEffect
  <2>2. \A i, j \in DOMAIN waiters' : waiters'[i] = waiters'[j] => i = j
    BY <2>1 DEF SlotInv
  <2>3. \A i \in DOMAIN waiters' : call'[waiters'[i]] = "waiting" /\ waiters'[i] \notin holder'
    <3> SUFFICES ASSUME NEW i \in DOMAIN waiters'
                 PROVE  call'[waiters'[i]] = "waiting" /\ waiters'[i] # waiters[1]
      BY <2>1
    <3>1. i + 1 # 1
      BY <2>1
    <3> QED
      BY <2>1, <3>1 DEF SlotInv
  <2>4. \A o \in holder' : call'[o] = "waiting"
    BY <2>1
  <2> QED
    BY <2>1, <2>2, <2>3, <2>4 DEF SlotInv
<1> QED
  BY <1>1, <1>2

(* A caller without the slot left the line.                                 *)
LEMMA SlotKept ==
  ASSUME TypeOK, SlotInv, NEW o, LeavesLine(o), o \notin holder,
         work' = work, \A x \in Calls : x # o => call'[x] = call[x]
  PROVE  SlotInv'
<1>1. PICK i \in DOMAIN waiters :
        /\ waiters[i] = o
        /\ \A j \in DOMAIN waiters' :
             /\ j \in Nat /\ i \in Nat
             /\ j < i => j \in DOMAIN waiters /\ waiters'[j] = waiters[j]
             /\ ~(j < i) => j + 1 \in DOMAIN waiters /\ waiters'[j] = waiters[j + 1]
  BY LeavesLineEffect
<1>2. holder' = holder /\ waiters # <<>> /\ waiters' \in Seq(Calls)
  BY LeavesLineEffect
<1>3. \A j \in DOMAIN waiters' : \E k \in DOMAIN waiters :
        k # i /\ waiters'[j] = waiters[k] /\ (k = j \/ k = j + 1)
  BY <1>1
<1>4. \A j \in DOMAIN waiters' : waiters'[j] \in Calls
  BY <1>2, ElementOfSeq, LenProperties
<1>5. \A j \in DOMAIN waiters' : call'[waiters'[j]] = "waiting" /\ waiters'[j] \notin holder'
  BY <1>1, <1>2, <1>3, <1>4 DEF SlotInv
<1>6. \A j, k \in DOMAIN waiters' : waiters'[j] = waiters'[k] => j = k
  <2> SUFFICES ASSUME NEW j \in DOMAIN waiters', NEW k \in DOMAIN waiters',
                      waiters'[j] = waiters'[k]
               PROVE  j = k
    OBVIOUS
  <2>1. j \in Nat /\ k \in Nat /\ i \in Nat
    BY <1>1
  <2>2. CASE j < i /\ k < i
    BY <1>1, <2>2 DEF SlotInv
  <2>3. CASE ~(j < i) /\ ~(k < i)
    <3>1. j + 1 = k + 1
      BY <1>1, <2>3 DEF SlotInv
    <3> QED
      BY <2>1, <3>1
  <2>4. CASE j < i /\ ~(k < i)
    <3>1. j = k + 1
      BY <1>1, <2>4 DEF SlotInv
    <3> QED
      BY <2>1, <2>4, <3>1
  <2>5. CASE ~(j < i) /\ k < i
    <3>1. k = j + 1
      BY <1>1, <2>5 DEF SlotInv
    <3> QED
      BY <2>1, <2>5, <3>1
  <2> QED
    BY <2>2, <2>3, <2>4, <2>5
<1>7. \A x \in holder' : call'[x] = "waiting" \/ work'[x] # "none"
  BY <1>2 DEF SlotInv, TypeOK
<1> QED
  BY <1>2, <1>5, <1>6, <1>7 DEF SlotInv

(* A caller joined the line.                                                *)
LEMMA SlotJoined ==
  ASSUME TypeOK, SlotInv, NEW o \in Calls, call[o] = "new", work[o] = "none",
         holder # {}, UNCHANGED <<holder, work>>, waiters' = Append(waiters, o),
         call' = [call EXCEPT ![o] = "waiting"]
  PROVE  SlotInv'
<1>1. /\ waiters' \in Seq(Calls)
      /\ \A i \in DOMAIN waiters' : \/ i \in DOMAIN waiters /\ waiters'[i] = waiters[i]
                                    \/ i = Len(waiters) + 1 /\ waiters'[i] = o
  BY JoinsLineEffect
<1>2. o \notin holder /\ \A i \in DOMAIN waiters : waiters[i] # o
  BY DEF SlotInv
<1>3. \A j \in DOMAIN waiters' : waiters'[j] \in Calls
  BY <1>1, ElementOfSeq, LenProperties
<1>4. \A j \in DOMAIN waiters' : call'[waiters'[j]] = "waiting" /\ waiters'[j] \notin holder'
  <2> SUFFICES ASSUME NEW j \in DOMAIN waiters'
               PROVE  call'[waiters'[j]] = "waiting" /\ waiters'[j] \notin holder
    OBVIOUS
  <2>1. CASE waiters'[j] = o
    BY <1>2, <2>1 DEF TypeOK
  <2>2. CASE waiters'[j] # o
    BY <1>1, <1>3, <2>2 DEF TypeOK, SlotInv
  <2> QED
    BY <2>1, <2>2
<1>5. \A j, k \in DOMAIN waiters' : waiters'[j] = waiters'[k] => j = k
  BY <1>1, <1>2 DEF SlotInv
<1>6. \A x \in holder' : call'[x] = "waiting" \/ work'[x] # "none"
  BY <1>2 DEF SlotInv, TypeOK
<1> QED
  BY <1>4, <1>5, <1>6 DEF SlotInv

(* Every step keeps the slot and its line.                                  *)
LEMMA NextSlot == IInv /\ StoreMoves => SlotInv'
<1> SUFFICES ASSUME IInv, StoreMoves PROVE SlotInv'
  OBVIOUS
<1>0. TypeOK /\ SlotInv /\ CallInv
  BY DEF IInv
<1>a. /\ \A i \in DOMAIN waiters : waiters[i] \in Calls /\ call[waiters[i]] = "waiting"
      /\ \A x \in holder : x \in Calls /\ (call[x] = "waiting" \/ work[x] # "none")
      /\ call \in [Calls -> {"new", "waiting", "awaiting", "left", "refused", "raised",
                             "returned"}]
      /\ work \in [Calls -> {"none", "queued", "fetched", "ok", "failed"}]
  BY <1>0, ElementOfSeq, LenProperties DEF TypeOK, SlotInv
<1>b. ASSUME UNCHANGED <<holder, waiters, call, work>> PROVE SlotInv'
  BY <1>0, <1>a, <1>b, SlotStays
<1>1. ASSUME NEW o \in Calls, Invoke(o) PROVE SlotInv'
  <2>1. call[o] = "new" /\ work[o] = "none" /\ o \notin holder
    BY <1>0, <1>1, <1>a DEF Invoke, CallInv
  <2>2. CASE closing # "no"
    <3>1. UNCHANGED <<holder, waiters, work>> /\ call' = [call EXCEPT ![o] = "refused"]
      BY <1>1, <2>2 DEF Invoke, slotVars
    <3>2. \A i \in DOMAIN waiters : call'[waiters[i]] = "waiting"
      BY <1>a, <2>1, <3>1
    <3>3. \A x \in holder : call'[x] = "waiting" \/ work'[x] # "none"
      BY <1>a, <2>1, <3>1
    <3> QED
      BY <1>0, <3>1, <3>2, <3>3, SlotStays
  <2>3. CASE closing = "no" /\ holder = {}
    <3>1. /\ holder' = {o} /\ waiters' = waiters /\ waiters = <<>>
          /\ work' = [work EXCEPT ![o] = "queued"]
      BY <1>0, <1>1, <2>3 DEF Invoke, Submitted, SlotInv
    <3>2. DOMAIN waiters' = {} /\ work'[o] # "none"
      BY <1>a, <3>1
    <3> QED
      BY <3>1, <3>2 DEF SlotInv
  <2>4. CASE closing = "no" /\ holder # {}
    <3>1. /\ holder' = holder /\ work' = work /\ waiters' = Append(waiters, o)
          /\ call' = [call EXCEPT ![o] = "waiting"]
      BY <1>1, <2>4 DEF Invoke
    <3> QED
      BY <1>0, <2>1, <2>4, <3>1, SlotJoined
  <2> QED
    BY <2>2, <2>3, <2>4
<1>2. ASSUME NEW o \in Calls, Resume(o) PROVE SlotInv'
  <2>1. o \in holder /\ \A i \in DOMAIN waiters : waiters[i] # o
    BY <1>0, <1>2 DEF Resume, SlotInv
  <2>2. CASE closing # "no"
    <3>1. PassSlot(waiters) /\ call' = [call EXCEPT ![o] = "refused"]
      BY <1>2, <2>2 DEF Resume
    <3>2. \A i \in DOMAIN waiters : call'[waiters[i]] = "waiting"
      BY <1>a, <2>1, <3>1
    <3> QED
      BY <1>0, <3>1, <3>2, SlotPasses
  <2>3. CASE closing = "no"
    <3>1. /\ UNCHANGED <<holder, waiters>> /\ call' = [call EXCEPT ![o] = "awaiting"]
          /\ work' = [work EXCEPT ![o] = "queued"]
      BY <1>2, <2>3 DEF Resume, Submitted
    <3>2. \A i \in DOMAIN waiters : call'[waiters[i]] = "waiting"
      BY <1>a, <2>1, <3>1
    <3>3. \A x \in holder : call'[x] = "waiting" \/ work'[x] # "none"
      BY <1>0, <1>a, <2>1, <3>1 DEF SlotInv
    <3> QED
      BY <1>0, <3>1, <3>2, <3>3, SlotStays
  <2> QED
    BY <2>2, <2>3
<1>3. ASSUME NEW o \in Calls, Leave(o) PROVE SlotInv'
  <2>1. /\ work' = work /\ call' = [call EXCEPT ![o] = "left"]
        /\ call[o] \in {"waiting", "awaiting"} /\ SlotAfterLeaving(o)
    BY <1>3 DEF Leave
  <2>2. CASE call[o] = "awaiting"
    <3>1. UNCHANGED <<holder, waiters>>
      BY <2>1, <2>2 DEF SlotAfterLeaving
    <3>2. \A i \in DOMAIN waiters : call'[waiters[i]] = "waiting"
      BY <1>a, <2>1, <2>2
    <3>3. \A x \in holder : call'[x] = "waiting" \/ work'[x] # "none"
      BY <1>0, <1>a, <2>1, <2>2 DEF CallInv
    <3> QED
      BY <1>0, <3>1, <3>2, <3>3, SlotStays
  <2>3. CASE call[o] # "awaiting" /\ o \in holder
    <3>1. PassSlot(waiters) /\ \A i \in DOMAIN waiters : waiters[i] # o
      BY <1>0, <2>1, <2>3 DEF SlotAfterLeaving, SlotInv
    <3>2. \A i \in DOMAIN waiters : call'[waiters[i]] = "waiting"
      BY <1>a, <2>1, <3>1
    <3> QED
      BY <1>0, <3>1, <3>2, SlotPasses
  <2>4. CASE call[o] # "awaiting" /\ o \notin holder
    <3>1. LeavesLine(o) /\ \A x \in Calls : x # o => call'[x] = call[x]
      BY <1>a, <2>1, <2>4 DEF SlotAfterLeaving
    <3> QED
      BY <1>0, <2>1, <2>4, <3>1, SlotKept
  <2> QED
    BY <2>2, <2>3, <2>4
<1>4. ASSUME NEW o \in Calls, Completed(o) PROVE SlotInv'
  BY <1>0, <1>4, <1>a, SlotPasses DEF Completed
<1>5. ASSUME NEW o \in Calls, Return(o) PROVE SlotInv'
  <2>1. /\ UNCHANGED <<holder, waiters, work>> /\ call[o] = "awaiting" /\ o \notin holder
        /\ \A x \in Calls : x # o => call'[x] = call[x]
    BY <1>5, <1>a DEF Return, slotVars
  <2>2. \A i \in DOMAIN waiters : call'[waiters[i]] = "waiting"
    BY <1>a, <2>1
  <2>3. \A x \in holder : call'[x] = "waiting" \/ work'[x] # "none"
    BY <1>a, <2>1
  <2> QED
    BY <1>0, <2>1, <2>2, <2>3, SlotStays
<1>6. ASSUME NEW o \in Calls, NEW result \in {"ok", "failed"}, Runs(o, result) PROVE SlotInv'
  <2>1. UNCHANGED <<holder, waiters, call>> /\ work' = [work EXCEPT ![o] = result]
    BY <1>6 DEF Runs
  <2>2. \A x \in holder : call'[x] = "waiting" \/ work'[x] # "none"
    BY <1>a, <2>1
  <2> QED
    BY <1>0, <1>a, <2>1, <2>2, SlotStays
<1>7. CASE CloseRuns \/ Close \/ CloseReturns \/ UNCHANGED storeVars
  BY <1>7, <1>b DEF CloseRuns, Close, CloseReturns, storeVars, slotVars
<1>8. ASSUME NEW lot \in Lots, Expire(lot) PROVE SlotInv'
  BY <1>8, <1>b DEF Expire, slotVars
<1>9. ASSUME NEW q \in Queries, Fetch(q) PROVE SlotInv'
  <2>1. UNCHANGED <<holder, waiters, call>> /\ work' = [work EXCEPT ![q] = "fetched"]
    BY <1>9 DEF Fetch, slotVars
  <2>2. \A x \in holder : call'[x] = "waiting" \/ work'[x] # "none"
    BY <1>a, <2>1
  <2> QED
    BY <1>0, <1>a, <2>1, <2>2, SlotStays
<1> QED
  BY <1>1, <1>2, <1>3, <1>4, <1>5, <1>6, <1>7, <1>8, <1>9
  DEF StoreMoves, WriteRuns, PurgeRuns, QueryRuns, Calls

-----------------------------------------------------------------------------
(* Every step keeps the table and the answers true                          *)

(* An event was written by a write that was carried out.                    *)
LEMMA InWritten ==
  /\ \A e : e \in Written <=> \E w \in Writes : work[w] = "ok" /\ e \in Batch[w]
  /\ \A e : e \in Written' <=> \E w \in Writes : work'[w] = "ok" /\ e \in Batch[w]
  BY DEF Written

(* Sets of events have a size.                                              *)
LEMMA EventsFinite ==
  ASSUME NEW S, S \subseteq Events
  PROVE  IsFiniteSet(S) /\ Cardinality(S) \in Nat
  BY StoreAssumption, FS_Subset, FS_CardinalityType

(* What the limit excluded it excludes for good: events that are not shown  *)
(* any more have expired.                                                   *)
LEMMA BeyondStays ==
  ASSUME NEW q, NEW e, BeyondLimit(q, e), asOf'[q] = asOf[q],
         Written \subseteq Written', expired.summary \subseteq expired'.summary,
         found[q].summary \ found'[q].summary
           \subseteq (Written \intersect Wanted[q] \intersect expired.summary)
                      \ asOf[q].expired.summary
  PROVE  BeyondLimit(q, e)'
  BY DEF BeyondLimit

(* An answer stays what it must be while others write and events expire.    *)
LEMMA ShownStays ==
  ASSUME NEW q, Shown(q), asOf'[q] = asOf[q], found'[q] = found[q],
         Written \subseteq Written', expired.summary \subseteq expired'.summary,
         expired.detail \subseteq expired'.detail
  PROVE  Shown(q)'
<1>1. \A e : BeyondLimit(q, e) => BeyondLimit(q, e)'
  BY BeyondStays
<1> QED
  BY <1>1 DEF Shown

(* No operation ended: what may have begun is a call of a purge or a query. *)
LEMMA DataStays ==
  ASSUME DataInv, UNCHANGED <<rows, found, expired>>,
         \A o \in Calls : \/ work'[o] = work[o]
                          \/ {work[o], work'[o]} \intersect {"fetched", "ok"} = {},
         \A o \in Calls : \/ asOf'[o] = asOf[o]
                          \/ /\ work[o] \notin {"fetched", "ok"} /\ asOf'[o].expired = expired
                             /\ asOf'[o].acknowledged \subseteq Written
  PROVE  DataInv'
<1>1. Written' = Written
  BY InWritten, KindsDiffer
<1>2. \A q \in Queries : work'[q] \in {"fetched", "ok"} => work'[q] = work[q] /\ asOf'[q] = asOf[q]
  BY KindsDiffer
<1>3. \A q \in Queries : work'[q] \in {"fetched", "ok"} => Shown(q)'
  BY <1>1, <1>2, ShownStays DEF DataInv
<1> QED
  BY <1>1, <1>2, <1>3 DEF DataInv

(* A write is carried out as a whole or not at all.                         *)
LEMMA WriteKeepsData ==
  ASSUME IInv, NEW w \in Writes, NEW result \in {"ok", "failed"}, WriteRuns(w, result)
  PROVE  DataInv'
<1>0. TypeOK /\ DataInv /\ CallInv
  BY DEF IInv
<1>1. Runs(w, result) /\ w \in Calls
  BY KindsDiffer DEF WriteRuns
<1>2. /\ work[w] = "queued" /\ work' = [work EXCEPT ![w] = result]
      /\ UNCHANGED <<expired, asOf, found>>
  BY <1>0, <1>1, RunsLane, KindsDiffer DEF Runs, WriteRuns, CallInv
<1>3. \A x \in Calls : x # w => work'[x] = work[x]
  BY <1>0, <1>2 DEF TypeOK
<1>4. work'[w] = result
  BY <1>0, <1>1, <1>2 DEF TypeOK
<1>5. CASE result = "failed"
  <2>1. rows' = rows
    BY <1>5 DEF WriteRuns
  <2>2. \A x \in Calls : work'[x] = work[x] \/ {work[x], work'[x]} \intersect {"fetched", "ok"} = {}
    BY <1>2, <1>3, <1>4, <1>5
  <2> QED
    BY <1>0, <1>2, <2>1, <2>2, DataStays
<1>6. CASE result = "ok"
  <2>1. rows' = With(rows, Batch[w] \ rows.summary)
    BY <1>6 DEF WriteRuns
  <2>2. /\ rows'.summary = rows.summary \union (Batch[w] \ rows.summary)
        /\ rows'.detail = rows.detail \union (Batch[w] \ rows.summary)
    BY <2>1 DEF With
  <2>3. Written' = Written \union Batch[w]
    BY <1>2, <1>3, <1>4, <1>6, InWritten, KindsDiffer
  <2>4. /\ rows'.detail \subseteq rows'.summary /\ rows'.summary \subseteq Written'
        /\ Written' \subseteq rows'.summary \union expired'.summary
        /\ Written' \subseteq rows'.detail \union expired'.detail
    BY <1>0, <1>2, <2>2, <2>3 DEF DataInv
  <2>5. \A q \in Queries : /\ work'[q] = work[q] /\ asOf'[q] = asOf[q] /\ found'[q] = found[q]
                           /\ work'[q] \in {"fetched", "ok"} => Shown(q)'
    <3> SUFFICES ASSUME NEW q \in Queries
                 PROVE  /\ work'[q] = work[q] /\ asOf'[q] = asOf[q] /\ found'[q] = found[q]
                        /\ work'[q] \in {"fetched", "ok"} => Shown(q)'
      OBVIOUS
    <3>1. work'[q] = work[q] /\ asOf'[q] = asOf[q] /\ found'[q] = found[q]
      BY <1>2, <1>3, KindsDiffer
    <3> QED
      BY <1>0, <1>2, <2>3, <3>1, ShownStays DEF DataInv
  <2> QED
    BY <1>0, <1>2, <2>3, <2>4, <2>5 DEF DataInv
<1> QED
  BY <1>5, <1>6

(* A purge takes only what had expired.                                     *)
LEMMA PurgeKeepsData ==
  ASSUME IInv, NEW p \in Purges, NEW result \in {"ok", "failed"}, PurgeRuns(p, result)
  PROVE  DataInv'
<1>0. TypeOK /\ DataInv
  BY DEF IInv
<1>1. Runs(p, result) /\ p \in Calls
  BY KindsDiffer DEF PurgeRuns
<1>2. work' = [work EXCEPT ![p] = result] /\ UNCHANGED <<expired, asOf>>
  BY <1>1, RunsLane DEF Runs
<1>3. \A x \in Calls : x # p => work'[x] = work[x]
  BY <1>0, <1>2 DEF TypeOK
<1>4. \A q \in Queries : work'[q] = work[q] /\ asOf'[q] = asOf[q] /\ found'[q] = found[q]
  BY <1>0, <1>2, <1>3, KindsDiffer DEF PurgeRuns, TypeOK
<1>5. Written' = Written
  BY <1>3, InWritten, KindsDiffer
<1>6. \A q \in Queries : work'[q] \in {"fetched", "ok"} => Shown(q)'
  BY <1>0, <1>2, <1>4, <1>5, ShownStays DEF DataInv
<1>7. /\ rows'.detail \subseteq rows'.summary /\ rows'.summary \subseteq rows.summary
      /\ rows.summary \subseteq rows'.summary \union expired.summary
      /\ rows.detail \subseteq rows'.detail \union expired.detail
  <2>1. CASE rows' = rows
    BY <1>0, <2>1 DEF DataInv
  <2>2. ASSUME NEW details \in Limited(rows.detail \intersect asOf[p].expired.detail, PurgeSize),
               NEW events \in Limited(rows.summary \intersect asOf[p].expired.summary, PurgeSize),
               rows' = Without(rows, [summary |-> events, detail |-> details])
        PROVE  /\ rows'.detail \subseteq rows'.summary /\ rows'.summary \subseteq rows.summary
               /\ rows.summary \subseteq rows'.summary \union expired.summary
               /\ rows.detail \subseteq rows'.detail \union expired.detail
    <3>1. /\ rows'.summary = rows.summary \ events
          /\ rows'.detail = rows.detail \ (events \union details)
      BY <2>2 DEF Without
    <3>2. events \subseteq expired.summary /\ details \subseteq expired.detail
      BY <1>0, <1>1 DEF Limited, DataInv
    <3>3. events \subseteq expired.detail
      BY <1>0, <3>2 DEF DataInv
    <3> QED
      BY <1>0, <3>1, <3>2, <3>3 DEF DataInv
  <2> QED
    BY <2>1, <2>2 DEF PurgeRuns
<1> QED
  BY <1>0, <1>2, <1>4, <1>5, <1>6, <1>7 DEF DataInv

(* A query fetches the oldest of what the table has of what it wants.       *)
LEMMA FetchKeepsData ==
  ASSUME IInv, NEW q \in Queries, Fetch(q)
  PROVE  DataInv'
<1>0. TypeOK /\ DataInv /\ q \in Calls
  BY KindsDiffer DEF IInv
<1>1. PICK page \in Pages(q) :
        found' = [found EXCEPT ![q] =
          [summary |-> page,
           detail  |-> IF q \in Privileged THEN page \intersect rows.detail ELSE {}]]
  BY DEF Fetch
<1>2. work' = [work EXCEPT ![q] = "fetched"] /\ UNCHANGED <<expired, asOf, rows>>
  BY DEF Fetch
<1>3. /\ \A x \in Calls : x # q => work'[x] = work[x] /\ found'[x] = found[x]
      /\ work'[q] = "fetched" /\ found'[q].summary = page
      /\ found'[q].detail = IF q \in Privileged THEN page \intersect rows.detail ELSE {}
  BY <1>0, <1>1, <1>2 DEF TypeOK
<1>4. Written' = Written
  BY <1>2, <1>3, InWritten, KindsDiffer
<1>5. /\ page \subseteq Matching(q) /\ Cardinality(page) <= Limit[q]
      /\ \A e \in Matching(q) \ page : /\ Cardinality(page) = Limit[q]
                                       /\ \A d \in page : Created[d] < Created[e]
  <2>1. Limit[q] \in Nat \ {0}
    BY StoreAssumption
  <2>2. page \subseteq Matching(q)
    BY DEF Pages, Limited
  <2>3. \/ Cardinality(page) = Limit[q]
        \/ Cardinality(page) < Limit[q] /\ page = Matching(q)
    BY DEF Pages, Limited
  <2>4. Cardinality(page) <= Limit[q]
    <3>1. CASE Cardinality(page) = Limit[q]
      BY <2>1, <3>1
    <3>2. CASE Cardinality(page) < Limit[q]
      <4>1. page \subseteq Events
        BY <1>0, <2>2 DEF Matching, TypeOK, Parts
      <4>2. Cardinality(page) \in Nat
        BY <4>1, EventsFinite
      <4> QED
        BY <2>1, <3>2, <4>2
    <3> QED
      BY <2>3, <3>1, <3>2
  <2> QED
    BY <2>2, <2>3, <2>4 DEF Pages
<1>6. Shown(q)'
  <2>1. /\ expired.summary \subseteq expired.detail
        /\ rows.summary \subseteq Written /\ asOf[q].acknowledged \subseteq Written
        /\ Written \subseteq rows.summary \union expired.summary
        /\ Written \subseteq rows.detail \union expired.detail
        /\ asOf[q].expired.summary \subseteq expired.summary
    BY <1>0 DEF DataInv
  <2>2. ASSUME NEW e \in (asOf[q].acknowledged \intersect Wanted[q]) \ expired.summary,
               e \notin page
        PROVE  BeyondLimit(q, e)'
    <3>1. e \in Matching(q) \ page
      BY <2>1, <2>2 DEF Matching
    <3> QED
      BY <1>3, <1>5, <3>1 DEF BeyondLimit
  <2>3. page \subseteq (Written \intersect Wanted[q]) \ asOf[q].expired.summary
    BY <1>5, <2>1 DEF Matching
  <2>4. q \in Privileged => page \ expired.detail \subseteq found'[q].detail
    BY <1>3, <2>1, <2>3
  <2> QED
    BY <1>2, <1>3, <1>4, <1>5, <2>2, <2>3, <2>4 DEF Shown
<1>7. \A x \in Queries : work'[x] \in {"fetched", "ok"} => Shown(x)'
  <2> SUFFICES ASSUME NEW x \in Queries, x # q, work'[x] \in {"fetched", "ok"} PROVE Shown(x)'
    BY <1>6
  <2>1. work[x] \in {"fetched", "ok"} /\ found'[x] = found[x] /\ asOf'[x] = asOf[x]
    BY <1>2, <1>3, KindsDiffer
  <2> QED
    BY <1>0, <1>2, <1>4, <2>1, ShownStays DEF DataInv
<1>8. \A x \in Queries : work'[x] = "ok" => found'[x].detail \intersect asOf'[x].expired.detail = {}
  BY <1>0, <1>2, <1>3, KindsDiffer DEF DataInv
<1> QED
  BY <1>0, <1>2, <1>4, <1>7, <1>8 DEF DataInv

(* A query shows of what it fetched what has not expired since.             *)
LEMMA QueryKeepsData ==
  ASSUME IInv, NEW q \in Queries, NEW result \in {"ok", "failed"}, QueryRuns(q, result)
  PROVE  DataInv'
<1>0. TypeOK /\ DataInv
  BY DEF IInv
<1>1. Runs(q, result) /\ q \in Calls
  BY KindsDiffer DEF QueryRuns
<1>2. work' = [work EXCEPT ![q] = result] /\ UNCHANGED <<expired, asOf, rows>>
  BY <1>1, RunsLane DEF Runs, QueryRuns
<1>3. \A x \in Calls : x # q => work'[x] = work[x] /\ found'[x] = found[x]
  BY <1>0, <1>2 DEF TypeOK, QueryRuns
<1>4. work'[q] = result
  BY <1>0, <1>1, <1>2 DEF TypeOK
<1>5. Written' = Written
  BY <1>3, InWritten, KindsDiffer
<1>6. ASSUME result = "ok"
      PROVE  Shown(q)' /\ found'[q].detail \intersect asOf[q].expired.detail = {}
  <2>1. /\ found'[q].summary = found[q].summary \ expired.summary
        /\ found'[q].detail = found[q].detail \ (expired.summary \union expired.detail)
    BY <1>0, <1>1, <1>6 DEF QueryRuns, TypeOK, Without
  <2>2. Shown(q) /\ expired.summary \subseteq expired.detail
        /\ asOf[q].expired.detail \subseteq expired.detail
    BY <1>0, <1>1, <1>6 DEF QueryRuns, DataInv
  <2>3. \A e : BeyondLimit(q, e) => BeyondLimit(q, e)'
    <3>1. found[q].summary \ found'[q].summary
            \subseteq (Written \intersect Wanted[q] \intersect expired.summary)
                      \ asOf[q].expired.summary
      BY <2>1, <2>2 DEF Shown
    <3> QED
      BY <1>2, <1>5, <3>1, BeyondStays
  <2>4. Cardinality(found'[q].summary) <= Limit[q]
    <3>1. found[q].summary \subseteq Events
      BY <2>2, WrittenType DEF Shown
    <3>2. /\ Cardinality(found[q].summary) \in Nat /\ Cardinality(found'[q].summary) \in Nat
          /\ Cardinality(found'[q].summary) <= Cardinality(found[q].summary)
      BY <2>1, <3>1, EventsFinite, FS_Subset
    <3> QED
      BY <2>2, <3>2, StoreAssumption DEF Shown
  <2> QED
    BY <1>2, <1>5, <2>1, <2>2, <2>3, <2>4 DEF Shown
<1>7. \A x \in Queries : work'[x] \in {"fetched", "ok"} => Shown(x)'
  <2> SUFFICES ASSUME NEW x \in Queries, work'[x] \in {"fetched", "ok"} PROVE Shown(x)'
    OBVIOUS
  <2>1. CASE x = q
    BY <1>4, <1>6, <2>1
  <2>2. CASE x # q
    <3>1. work[x] \in {"fetched", "ok"} /\ found'[x] = found[x] /\ asOf'[x] = asOf[x]
      BY <1>2, <1>3, <2>2, KindsDiffer
    <3> QED
      BY <1>0, <1>2, <1>5, <3>1, ShownStays DEF DataInv
  <2> QED
    BY <2>1, <2>2
<1>8. \A x \in Queries : work'[x] = "ok" => found'[x].detail \intersect asOf'[x].expired.detail = {}
  BY <1>0, <1>2, <1>3, <1>4, <1>6, KindsDiffer DEF DataInv
<1> QED
  BY <1>0, <1>2, <1>5, <1>7, <1>8 DEF DataInv

(* The clock takes nothing from what an answer must have shown.             *)
LEMMA ExpiryKeepsData ==
  ASSUME IInv, NEW lot \in Lots, Expire(lot)
  PROVE  DataInv'
<1>0. TypeOK /\ DataInv /\ expired \in Parts
  BY DEF IInv, TypeOK
<1>1. UNCHANGED <<work, rows, found, asOf>>
  BY DEF Expire, dataVars
<1>2. /\ expired'.summary \subseteq expired'.detail
      /\ expired.summary \subseteq expired'.summary
      /\ expired.detail \subseteq expired'.detail
  BY <1>0 DEF Expire, Parts, DataInv
<1>3. Written' = Written
  BY <1>1 DEF Written
<1>4. \A q \in Queries : work'[q] \in {"fetched", "ok"} => Shown(q)'
  BY <1>0, <1>1, <1>2, <1>3, ShownStays DEF DataInv
<1>5. \A o \in Calls : /\ asOf'[o].expired.summary \subseteq expired'.summary
                       /\ asOf'[o].expired.detail \subseteq expired'.detail
  BY <1>0, <1>1, <1>2 DEF DataInv
<1> QED
  BY <1>0, <1>1, <1>2, <1>3, <1>4, <1>5 DEF DataInv

(* Every step keeps the table and the answers true.                         *)
LEMMA NextData == IInv /\ StoreMoves => DataInv'
<1> SUFFICES ASSUME IInv, StoreMoves PROVE DataInv'
  OBVIOUS
<1>0. TypeOK /\ DataInv /\ CallInv
  BY DEF IInv
<1>a. ASSUME UNCHANGED <<rows, found, expired, asOf, work>> PROVE DataInv'
  BY <1>0, <1>a, DataStays
<1>1. ASSUME NEW o \in Calls, Invoke(o) PROVE DataInv'
  <2>1. UNCHANGED <<rows, found, expired>> /\ work[o] = "none"
    BY <1>0, <1>1 DEF Invoke, dataVars, CallInv
  <2>2. \A x \in Calls : work'[x] = work[x] \/ {work[x], work'[x]} \intersect {"fetched", "ok"} = {}
    BY <1>0, <1>1, <2>1 DEF Invoke, Submitted, TypeOK
  <2>3. \A x \in Calls : \/ asOf'[x] = asOf[x]
                         \/ /\ x = o /\ asOf'[x].expired = expired
                            /\ asOf'[x].acknowledged \subseteq Written
    BY <1>0, <1>1, AcknowledgedWritten DEF Invoke, TypeOK
  <2> QED
    BY <1>0, <2>1, <2>2, <2>3, DataStays
<1>2. ASSUME NEW o \in Calls, Resume(o) PROVE DataInv'
  <2>1. UNCHANGED <<rows, found, expired, asOf>> /\ work[o] = "none"
    BY <1>0, <1>2 DEF Resume, dataVars, CallInv
  <2>2. \A x \in Calls : work'[x] = work[x] \/ {work[x], work'[x]} \intersect {"fetched", "ok"} = {}
    BY <1>0, <1>2, <2>1 DEF Resume, Submitted, TypeOK
  <2> QED
    BY <1>0, <2>1, <2>2, DataStays
<1>3. ASSUME NEW o \in Calls, Leave(o) \/ Completed(o) \/ Return(o) PROVE DataInv'
  BY <1>3, <1>a DEF Leave, Completed, Return, dataVars
<1>4. CASE CloseRuns \/ Close \/ CloseReturns \/ UNCHANGED storeVars
  BY <1>4, <1>a DEF CloseRuns, Close, CloseReturns, storeVars, dataVars
<1> QED
  BY <1>1, <1>2, <1>3, <1>4, WriteKeepsData, PurgeKeepsData, FetchKeepsData, QueryKeepsData,
     ExpiryKeepsData
  DEF StoreMoves

-----------------------------------------------------------------------------
(* The invariant holds always                                               *)

(* In the beginning nothing was called.                                     *)
LEMMA InitInv == Init => IInv
<1> SUFFICES ASSUME Init PROVE IInv
  OBVIOUS
<1> USE DEF Init, StoreInit
<1>1. TypeOK
  <2>1. waiters \in Seq(Calls) /\ lane \in Seq(Calls \union {Closer})
    OBVIOUS
  <2>2. /\ rows \in Parts /\ expired \in Parts
        /\ asOf \in [Calls -> Views] /\ found \in [Calls -> Parts]
    BY PartsType DEF Views
  <2> QED
    BY <2>1, <2>2 DEF TypeOK
<1>2. SlotInv
  BY DEF SlotInv
<1>3. LaneInv
  BY DEF LaneInv, Queued
<1>4. CallInv
  BY DEF CallInv
<1>5. DataInv
  <2>1. \A o \in Calls : /\ work[o] = "none"
                         /\ asOf[o] = [acknowledged |-> {}, expired |-> Nothing]
    OBVIOUS
  <2>2. Written = {}
    BY <2>1, InWritten, KindsDiffer
  <2> QED
    BY <2>1, <2>2, KindsDiffer DEF DataInv, Nothing
<1> QED
  BY <1>1, <1>2, <1>3, <1>4, <1>5 DEF IInv

(* The invariant holds always.                                              *)
LEMMA Invariance == Spec => []IInv
<1>1. IInv /\ [Next]_vars => IInv'
  BY NextMoves, NextType, NextSlot, NextLane, NextCalls, NextData DEF IInv
<1> QED
  BY InitInv, <1>1, PTL DEF Spec

(* Every variable has its type, whatever the store and its users do.        *)
THEOREM TypeCorrect == Spec => []TypeOK
<1>1. IInv => TypeOK
  BY DEF IInv
<1> QED
  BY Invariance, <1>1, PTL

(* The one connection is used by one operation at a time, and not after     *)
(* close(): the slot of _run() is neither lost nor given away twice, for    *)
(* any number of callers, cancelled while they wait, while the slot is on   *)
(* its way to them, or while their operation runs.                          *)
THEOREM ConnectionExclusive == Spec => []ConnectionIsExclusive
<1>1. IInv => ConnectionIsExclusive
  <2> SUFFICES ASSUME IInv PROVE ConnectionIsExclusive
    OBVIOUS
  <2>0. SlotInv /\ LaneInv
    BY DEF IInv
  <2>1. Cardinality(holder) <= 1
    <3>1. CASE holder = {}
      BY <3>1, FS_EmptySet
    <3>2. ASSUME NEW o \in holder PROVE Cardinality(holder) <= 1
      <4>1. holder = {o}
        BY <2>0 DEF SlotInv
      <4>2. Cardinality({o}) = 1
        BY FS_Singleton
      <4> QED
        BY <4>1, <4>2
    <3> QED
      BY <3>1, <3>2
  <2>2. InLane \subseteq holder
    <3>1. ASSUME NEW x \in holder, lane = <<x>> \/ lane = <<x, Closer>>
          PROVE  InLane \subseteq holder
      BY <3>1 DEF InLane
    <3>2. CASE lane = <<>> \/ lane = <<Closer>>
      BY <3>2 DEF InLane
    <3> QED
      BY <2>0, <3>1, <3>2 DEF LaneInv
  <2>3. SlotNeverLost
    BY <2>0, <2>1, <2>2 DEF SlotNeverLost, SlotInv
  <2>4. NothingAfterClose
    BY <2>0 DEF NothingAfterClose, LaneInv
  <2> QED
    BY <2>3, <2>4 DEF ConnectionIsExclusive
<1> QED
  BY Invariance, <1>1, PTL

(* What the store tells is true: what it acknowledged is there until it     *)
(* expires, and a query shows what it wants of it, up to its limit in the   *)
(* order of created_at and event_id, and nothing else; what expired before   *)
(* the query takes up no room.  So it is for any limits and any events,      *)
(* however operations, purges and expiry interleave and whichever fail.      *)
THEOREM AnswersTrue == Spec => []AnswersAreTrue
<1>1. IInv => AnswersAreTrue
  <2> SUFFICES ASSUME IInv PROVE AnswersAreTrue
    OBVIOUS
  <2>1. DataInv /\ Acknowledged \subseteq Written
    BY AcknowledgedWritten DEF IInv
  <2>2. AcknowledgedStays
    BY <2>1 DEF AcknowledgedStays, DataInv
  <2>3. QueriesSeeAcknowledged
    BY <2>1 DEF QueriesSeeAcknowledged, DataInv, Shown
  <2> QED
    BY <2>2, <2>3 DEF AnswersAreTrue
<1> QED
  BY Invariance, <1>1, PTL

-----------------------------------------------------------------------------
(* The store keeps its contract                                             *)

(* What the contract calls the state of a caller.                           *)
Tale(c) == CASE c \in {"waiting", "awaiting"} -> "open"
             [] c = "returned" -> "acknowledged"
             [] OTHER -> c

Wrote == {w \in Writes : work[w] = "ok"}

(* What the contract is told of a write is told of its caller.              *)
LEMMA ToldIsTale ==
  /\ Told = [w \in Writes |-> Tale(call[w])] /\ Told' = [w \in Writes |-> Tale(call'[w])]
  /\ Tale("new") = "new" /\ Tale("waiting") = "open" /\ Tale("awaiting") = "open"
  /\ Tale("left") = "left" /\ Tale("refused") = "refused" /\ Tale("raised") = "raised"
  /\ Tale("returned") = "acknowledged"
  BY DEF Told, Tale

(* One caller's state changes, and what is told of it with it.              *)
LEMMA ToldMoves ==
  ASSUME TypeOK, NEW o \in Calls, NEW c, call' = [call EXCEPT ![o] = c]
  PROVE  /\ o \in Writes => Told' = [Told EXCEPT ![o] = Tale(c)] /\ Told[o] = Tale(call[o])
         /\ o \notin Writes => Told' = Told
         /\ Tale(c) = Tale(call[o]) => Told' = Told
<1>1. \A w \in Writes : w \in Calls /\ call'[w] = IF w = o THEN c ELSE call[w]
  BY KindsDiffer DEF TypeOK
<1>2. Told = [w \in Writes |-> Tale(call[w])] /\ Told' = [w \in Writes |-> Tale(call'[w])]
  BY ToldIsTale
<1> QED
  BY <1>1, <1>2

(* The writes that took effect are those whose operation ended well.        *)
LEMMA WroteStays ==
  ASSUME \A w \in Writes : work'[w] = "ok" <=> work[w] = "ok"
  PROVE  Wrote' = Wrote
  BY DEF Wrote

(* The steps of the contract, in terms of the store.                        *)
LEMMA ContractSteps ==
  /\ \A w \in Writes : \A how \in {"open", "refused"} :
       /\ Told[w] = "new" /\ Told' = [Told EXCEPT ![w] = how]
       /\ Wrote' = Wrote /\ (closing' \in {"ran", "closed"} <=> closing \in {"ran", "closed"})
       => Contract!Next
  /\ \A w \in Writes : \A how \in {"acknowledged", "refused", "raised", "left"} :
       /\ Told[w] = "open" /\ Told' = [Told EXCEPT ![w] = how]
       /\ how = "acknowledged" => w \in Wrote
       /\ how \in {"refused", "raised"} => w \notin Wrote
       /\ Wrote' = Wrote /\ (closing' \in {"ran", "closed"} <=> closing \in {"ran", "closed"})
       => Contract!Next
  /\ \A w \in Writes :
       /\ w \notin Wrote /\ Told[w] \in {"open", "left"} /\ Wrote' = Wrote \union {w}
       /\ Told' = Told /\ closing \notin {"ran", "closed"} /\ closing' = closing
       => Contract!Next
  /\ /\ closing \notin {"ran", "closed"} /\ closing' = "ran" /\ Wrote' = Wrote /\ Told' = Told
     => Contract!Next
  BY DEF Contract!Next, Contract!Begin, Contract!Tell, Contract!TakeEffect, Contract!Shut, Wrote

(* Every step of the store is a step of the contract, or none.              *)
LEMMA NextContract == IInv /\ StoreMoves => [Contract!Next]_(Contract!vars)
<1> SUFFICES ASSUME IInv, StoreMoves PROVE [Contract!Next]_(Contract!vars)
  OBVIOUS
<1>0. TypeOK /\ SlotInv /\ LaneInv /\ CallInv
  BY DEF IInv
<1>a. ASSUME Told' = Told, Wrote' = Wrote,
             closing' \in {"ran", "closed"} <=> closing \in {"ran", "closed"}
      PROVE  UNCHANGED Contract!vars
  BY <1>a DEF Contract!vars, Wrote
<1>b. ASSUME UNCHANGED <<call, work>>,
             closing' \in {"ran", "closed"} <=> closing \in {"ran", "closed"}
      PROVE  UNCHANGED Contract!vars
  BY <1>a, <1>b DEF Told, Wrote
<1>1. ASSUME NEW o \in Calls, Invoke(o) PROVE [Contract!Next]_(Contract!vars)
  <2>1. /\ closing' = closing /\ call[o] = "new" /\ work[o] = "none"
        /\ \E c \in {"refused", "waiting", "awaiting"} : call' = [call EXCEPT ![o] = c]
    BY <1>0, <1>1 DEF Invoke, Submitted, CallInv
  <2>2. PICK c \in {"refused", "waiting", "awaiting"} : call' = [call EXCEPT ![o] = c]
    BY <2>1
  <2>3. Wrote' = Wrote
    <3>1. \A x \in Calls : work'[x] = "ok" <=> work[x] = "ok"
      BY <1>0, <1>1, <2>1 DEF Invoke, Submitted, TypeOK
    <3> QED
      BY <3>1, KindsDiffer, WroteStays
  <2>4. Tale(c) \in {"open", "refused"}
    BY <2>2, ToldIsTale
  <2>5. CASE o \in Writes
    <3>1. Told[o] = "new" /\ Told' = [Told EXCEPT ![o] = Tale(c)]
      BY <1>0, <2>1, <2>2, <2>5, ToldMoves, ToldIsTale
    <3> QED
      BY <2>1, <2>3, <2>4, <2>5, <3>1, ContractSteps
  <2>6. CASE o \notin Writes
    BY <1>0, <1>a, <2>1, <2>2, <2>3, <2>6, ToldMoves
  <2> QED
    BY <2>5, <2>6
<1>2. ASSUME NEW o \in Calls, Resume(o) PROVE [Contract!Next]_(Contract!vars)
  <2>1. closing' = closing /\ call[o] = "waiting" /\ work[o] = "none"
    BY <1>0, <1>2 DEF Resume, CallInv
  <2>2. Wrote' = Wrote
    <3>1. \A x \in Calls : work'[x] = "ok" <=> work[x] = "ok"
      BY <1>0, <1>2, <2>1 DEF Resume, Submitted, TypeOK
    <3> QED
      BY <3>1, KindsDiffer, WroteStays
  <2>3. CASE closing # "no" /\ o \in Writes
    <3>1. call' = [call EXCEPT ![o] = "refused"]
      BY <1>2, <2>3 DEF Resume
    <3>2. Told[o] = "open" /\ Told' = [Told EXCEPT ![o] = "refused"] /\ o \notin Wrote
      <4>1. Tale("refused") = "refused" /\ Tale(call[o]) = "open"
        BY <2>1, ToldIsTale
      <4>2. Told[o] = Tale(call[o]) /\ Told' = [Told EXCEPT ![o] = "refused"]
        BY <1>0, <2>1, <2>3, <3>1, <4>1, ToldMoves
      <4>3. o \notin Wrote
        BY <1>0, <2>1, <2>3, <3>1 DEF Wrote
      <4> QED
        BY <4>1, <4>2, <4>3
    <3> QED
      BY <2>1, <2>2, <2>3, <3>2, ContractSteps
  <2>4. CASE closing # "no" /\ o \notin Writes
    <3>1. call' = [call EXCEPT ![o] = "refused"]
      BY <1>2, <2>4 DEF Resume
    <3> QED
      BY <1>0, <1>a, <2>1, <2>2, <2>4, <3>1, ToldMoves
  <2>5. CASE closing = "no"
    <3>1. call' = [call EXCEPT ![o] = "awaiting"]
      BY <1>2, <2>5 DEF Resume, Submitted
    <3>2. Told' = Told
      BY <1>0, <2>1, <3>1, ToldMoves, ToldIsTale
    <3> QED
      BY <1>a, <2>1, <2>2, <3>2
  <2> QED
    BY <2>3, <2>4, <2>5
<1>3. ASSUME NEW o \in Calls, Leave(o) PROVE [Contract!Next]_(Contract!vars)
  <2>1. /\ closing' = closing /\ work' = work /\ call[o] \in {"waiting", "awaiting"}
        /\ call' = [call EXCEPT ![o] = "left"]
    BY <1>3 DEF Leave
  <2>2. Wrote' = Wrote
    BY <2>1, WroteStays
  <2>3. CASE o \in Writes
    <3>1. Told[o] = "open" /\ Told' = [Told EXCEPT ![o] = "left"]
      <4>1. Tale("left") = "left" /\ Tale(call[o]) = "open"
        BY <2>1, ToldIsTale
      <4>2. Told[o] = Tale(call[o]) /\ Told' = [Told EXCEPT ![o] = "left"]
        BY <1>0, <2>1, <2>3, <4>1, ToldMoves
      <4> QED
        BY <4>1, <4>2
    <3> QED
      BY <2>1, <2>2, <2>3, <3>1, ContractSteps
  <2>4. CASE o \notin Writes
    BY <1>0, <1>a, <2>1, <2>2, <2>4, ToldMoves
  <2> QED
    BY <2>3, <2>4
<1>4. ASSUME NEW o \in Calls, Completed(o) PROVE [Contract!Next]_(Contract!vars)
  BY <1>4, <1>b DEF Completed
<1>5. ASSUME NEW o \in Calls, Return(o) PROVE [Contract!Next]_(Contract!vars)
  <2>1. /\ closing' = closing /\ work' = work /\ call[o] = "awaiting"
        /\ work[o] \in {"ok", "failed"}
        /\ call' = [call EXCEPT ![o] = IF work[o] = "ok" THEN "returned" ELSE "raised"]
    BY <1>5 DEF Return
  <2>2. Wrote' = Wrote
    BY <2>1, WroteStays
  <2>3. CASE o \in Writes /\ work[o] = "ok"
    <3>1. Told[o] = "open" /\ Told' = [Told EXCEPT ![o] = "acknowledged"] /\ o \in Wrote
      <4>1. Tale("returned") = "acknowledged" /\ Tale(call[o]) = "open"
        BY <2>1, ToldIsTale
      <4>2. Told[o] = Tale(call[o]) /\ Told' = [Told EXCEPT ![o] = "acknowledged"]
        BY <1>0, <2>1, <2>3, <4>1, ToldMoves
      <4>3. o \in Wrote
        BY <1>0, <2>1, <2>3 DEF Wrote
      <4> QED
        BY <4>1, <4>2, <4>3
    <3> QED
      BY <2>1, <2>2, <2>3, <3>1, ContractSteps
  <2>4. CASE o \in Writes /\ work[o] = "failed"
    <3>1. Told[o] = "open" /\ Told' = [Told EXCEPT ![o] = "raised"] /\ o \notin Wrote
      <4>1. Tale("raised") = "raised" /\ Tale(call[o]) = "open"
        BY <2>1, ToldIsTale
      <4>2. Told[o] = Tale(call[o]) /\ Told' = [Told EXCEPT ![o] = "raised"]
        BY <1>0, <2>1, <2>4, <4>1, ToldMoves
      <4>3. o \notin Wrote
        BY <1>0, <2>1, <2>4 DEF Wrote
      <4> QED
        BY <4>1, <4>2, <4>3
    <3> QED
      BY <2>1, <2>2, <2>4, <3>1, ContractSteps
  <2>5. CASE o \notin Writes
    BY <1>0, <1>a, <2>1, <2>2, <2>5, ToldMoves
  <2> QED
    BY <2>1, <2>3, <2>4, <2>5
<1>6. ASSUME NEW o \in Calls, NEW result \in {"ok", "failed"}, Runs(o, result)
      PROVE [Contract!Next]_(Contract!vars)
  <2>1. /\ closing' = closing /\ call' = call /\ work' = [work EXCEPT ![o] = result]
        /\ work[o] \in {"queued", "fetched"} /\ closing \in {"no", "queued"} /\ Told' = Told
    BY <1>6, RunsLane DEF Runs, Told
  <2>2. \A x \in Calls : work'[x] = IF x = o THEN result ELSE work[x]
    BY <1>0, <2>1 DEF TypeOK
  <2>3. CASE o \in Writes /\ result = "ok"
    <3>1. o \notin Wrote /\ Wrote' = Wrote \union {o}
      BY <2>1, <2>2, <2>3, KindsDiffer DEF Wrote
    <3>2. call[o] \in {"awaiting", "left"}
      BY <1>0, <2>1 DEF CallInv, TypeOK
    <3>3. Told[o] = Tale(call[o])
      BY <2>3, ToldIsTale
    <3>4. Told[o] \in {"open", "left"}
      BY <3>2, <3>3, ToldIsTale
    <3> QED
      BY <2>1, <2>3, <3>1, <3>4, ContractSteps
  <2>4. CASE o \notin Writes \/ result # "ok"
    <3>1. Wrote' = Wrote
      BY <2>1, <2>2, <2>4, KindsDiffer, WroteStays
    <3> QED
      BY <1>a, <2>1, <3>1
  <2> QED
    BY <2>3, <2>4
<1>7. CASE CloseRuns
  <2>1. closing' = "ran" /\ lane # <<>> /\ UNCHANGED <<call, work>>
    BY <1>7 DEF CloseRuns
  <2>2. closing \notin {"ran", "closed"}
    BY <1>0, <2>1 DEF LaneInv
  <2>3. Told' = Told /\ Wrote' = Wrote
    BY <2>1 DEF Told, Wrote
  <2> QED
    BY <2>1, <2>2, <2>3, ContractSteps
<1>8. CASE Close \/ CloseReturns \/ UNCHANGED storeVars
  BY <1>8, <1>b DEF Close, CloseReturns, storeVars
<1>9. ASSUME NEW lot \in Lots, Expire(lot) PROVE [Contract!Next]_(Contract!vars)
  BY <1>9, <1>b DEF Expire
<1>10. ASSUME NEW q \in Queries, Fetch(q) PROVE [Contract!Next]_(Contract!vars)
  <2>1. UNCHANGED <<call, closing>> /\ work' = [work EXCEPT ![q] = "fetched"]
    BY <1>10 DEF Fetch
  <2>2. Told' = Told
    BY <2>1 DEF Told
  <2>3. \A w \in Writes : work'[w] = work[w]
    BY <1>0, <2>1, KindsDiffer DEF TypeOK
  <2>4. Wrote' = Wrote
    BY <2>3, WroteStays
  <2> QED
    BY <1>a, <2>1, <2>2, <2>4
<1> QED
  BY <1>1, <1>2, <1>3, <1>4, <1>5, <1>6, <1>7, <1>8, <1>9, <1>10
  DEF StoreMoves, WriteRuns, PurgeRuns, QueryRuns, Calls

(* The store implements StoreContract: a write takes effect as a whole or   *)
(* never, before it is acknowledged, not after it raised, was refused or    *)
(* close_db() ran; write_batch() and its users in the executor and the loop *)
(* are a step of the contract or none, for any calls and any cancellations. *)
THEOREM ContractKept == Spec => KeepsContract
<1>1. Init => Contract!Init
  <2> SUFFICES ASSUME Init PROVE Contract!Init
    OBVIOUS
  <2>1. \A w \in Writes : w \in Calls /\ call[w] = "new" /\ work[w] = "none"
    BY KindsDiffer DEF Init, StoreInit
  <2>2. Told = [w \in Writes |-> "new"]
    BY <2>1, ToldIsTale
  <2>3. {w \in Writes : work[w] = "ok"} = {} /\ closing = "no"
    BY <2>1 DEF Init, StoreInit
  <2> QED
    BY <2>2, <2>3 DEF Contract!Init
<1>2. IInv /\ [Next]_vars => [Contract!Next]_(Contract!vars)
  BY NextMoves, NextContract DEF IInv
<1> QED
  BY Invariance, <1>1, <1>2, PTL DEF KeepsContract, Contract!Spec, Spec
=============================================================================
