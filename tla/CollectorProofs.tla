-------------------------- MODULE CollectorProofs --------------------------
(***************************************************************************)
(* Proofs about the collector (collection/collector.py), for any set of     *)
(* events, any limits and any store: every reservation is accounted for and *)
(* within the limits, and with a store that does not lie the outcome told of *)
(* every event is true, flush() settles what was submitted before it, and   *)
(* close() settles all.                                                     *)
(*                                                                         *)
(* The argument: an event is in one place at a time (PlaceInv); what the     *)
(* worker may still drop is not in the store, or is in doubt (FateInv); and  *)
(* the calls of flush() and close() wait for what was submitted before them  *)
(* (FlushInv, ClosingInv, DroppingInv).                                      *)
(***************************************************************************)
EXTENDS CollectorProps, FiniteSetTheorems, TLAPS

(* The attempts of a batch that waits for a retry are not used up.          *)
RetryLeft == worker = "retrying" => attempt < MaxAttempts

TypeInv == TypeOK /\ RetryLeft

-----------------------------------------------------------------------------
(* Facts about the operators of the model                                   *)

(* Additivity gives the weight of what is left, and of one event more.      *)
LEMMA WeightMinus ==
  ASSUME NEW S \in SUBSET Events, NEW T \in SUBSET S
  PROVE  /\ Weight[S \ T] = Weight[S] - Weight[T]
         /\ Weight[S] \in Nat /\ Weight[T] \in Nat /\ Weight[S \ T] \in Nat
<1>1. S \ T \in SUBSET Events /\ T \in SUBSET Events /\ (S \ T) \intersect T = {}
  OBVIOUS
<1>2. Weight[(S \ T) \union T] = Weight[S \ T] + Weight[T]
  BY <1>1, WeightAssumption
<1>3. (S \ T) \union T = S
  OBVIOUS
<1>4. Weight[S] \in Nat /\ Weight[T] \in Nat /\ Weight[S \ T] \in Nat
  BY <1>1, WeightAssumption
<1> QED
  BY <1>2, <1>3, <1>4

(* _finish keeps the types of what it changes.                              *)
LEMMA FinishType ==
  ASSUME TypeOK,
         NEW S \in SUBSET Events, NEW outcome \in [Events -> Outcomes],
         Finish(S, outcome)
  PROVE  /\ finished' \in SUBSET Events /\ pending' \in SUBSET Events
         /\ bytes' \in Int
         /\ fate' \in [Events -> Outcomes \union {NoFate}]
         /\ told' \in [Events -> Nat]
<1>1. Ending(S) \ Kept(S) \in SUBSET pending
  BY DEF Ending
<1>2. Weight[Ending(S) \ Kept(S)] \in Nat
  BY <1>1, WeightAssumption DEF TypeOK
<1>3. bytes' \in Int /\ pending' \in SUBSET Events
  BY <1>2 DEF TypeOK, Finish
<1>4. finished' \in SUBSET Events
  BY DEF TypeOK, Finish, Kept, Ending
<1>5. fate' \in [Events -> Outcomes \union {NoFate}]
  BY DEF TypeOK, Finish, Ending
<1>6. told' \in [Events -> Nat]
  BY DEF TypeOK, Finish, Ending
<1> QED
  BY <1>3, <1>4, <1>5, <1>6

(* An attempt at some events keeps the types of what it changes.            *)
LEMMA StartAttemptType ==
  ASSUME TypeOK,
         NEW B \in SUBSET Events, NEW n \in 1..MaxAttempts, NEW doubt \in SUBSET Events,
         StartAttempt(B, n, doubt), queue' \in Seq(Events)
  PROVE  TypeInv'
<1> DEFINE outcome == [e \in Events |-> IF e \in doubt THEN "ack_unknown" ELSE "dropped_expired"]
<1>1. outcome \in [Events -> Outcomes]
  BY DEF Outcomes, Dropped
<1>2. Finish(B \intersect expired, outcome)
  BY DEF StartAttempt
<1>3. B \intersect expired \in SUBSET Events
  OBVIOUS
<1> HIDE DEF outcome
<1>4. /\ finished' \in SUBSET Events /\ pending' \in SUBSET Events /\ bytes' \in Int
      /\ fate' \in [Events -> Outcomes \union {NoFate}] /\ told' \in [Events -> Nat]
  BY <1>1, <1>2, <1>3, FinishType
<1>5. known' \in BOOLEAN
  BY DEF StartAttempt, KnownAfter, TypeOK
<1>6. /\ worker' \in {"loop", "writing"} /\ batch' \in SUBSET Events
      /\ attempt' \in 1..MaxAttempts /\ uncertain' \in SUBSET Events
  BY LimitsAssumption DEF StartAttempt
<1>7. tasks' \in SUBSET Tasks
  <2>1. [ids |-> B \ expired, attempt |-> n, done |-> FALSE] \in Tasks
    BY DEF Tasks
  <2> QED
    BY <2>1 DEF StartAttempt, TypeOK
<1>8. /\ answer' \in SUBSET Answers(Events)
      /\ UNCHANGED <<submitted, expired, cancelled, closeVars, committed>>
  BY DEF StartAttempt
<1> QED
  BY <1>4, <1>5, <1>6, <1>7, <1>8 DEF TypeInv, TypeOK, RetryLeft, closeVars

(* The end of the worker keeps the types of what it changes.                *)
LEMMA EndWorkerType ==
  ASSUME TypeOK, NEW outcome \in [Events -> Outcomes],
         EndWorker(outcome), known' \in BOOLEAN
  PROVE  TypeInv'
<1>1. /\ finished' \in SUBSET Events /\ pending' \in SUBSET Events /\ bytes' \in Int
      /\ fate' \in [Events -> Outcomes \union {NoFate}] /\ told' \in [Events -> Nat]
  BY FinishType DEF EndWorker, TypeOK
<1>2. flushAt' \in [Callers -> {"no", "worker", "woken", "writes", "done"}]
  BY DEF EndWorker, TypeOK
<1>3. /\ queue' \in Seq(Events) /\ worker' = "idle" /\ batch' = {} /\ attempt' = 1
      /\ uncertain' = {} /\ answer' = {} /\ cancelled' = FALSE
  BY DEF EndWorker
<1>4. 1 \in 1..MaxAttempts
  BY LimitsAssumption
<1>5. UNCHANGED <<submitted, expired, tasks, closed, closing, flushed, awaited, committed>>
  BY DEF EndWorker
<1> QED
  BY <1>1, <1>2, <1>3, <1>4, <1>5 DEF TypeInv, TypeOK, RetryLeft

(* A flush() call keeps the types of what it changes.                       *)
LEMMA FlushType ==
  ASSUME TypeOK, NEW c \in Callers, StartFlush(c) \/ (AwaitWrites(c) /\ UNCHANGED flushed)
  PROVE  /\ flushAt' \in [Callers -> {"no", "worker", "woken", "writes", "done"}]
         /\ flushed' \in [Callers -> SUBSET Events]
         /\ awaited' \in [Callers -> SUBSET [ids : SUBSET Events, attempt : 1..MaxAttempts]]
<1>1. {[ids |-> t.ids, attempt |-> t.attempt] : t \in tasks}
        \in SUBSET [ids : SUBSET Events, attempt : 1..MaxAttempts]
  BY DEF TypeOK, Tasks
<1>2. AwaitWrites(c) =>
        /\ flushAt' \in [Callers -> {"no", "worker", "woken", "writes", "done"}]
        /\ awaited' \in [Callers -> SUBSET [ids : SUBSET Events, attempt : 1..MaxAttempts]]
  BY <1>1 DEF TypeOK, AwaitWrites
<1>3. StartFlush(c) => flushed' \in [Callers -> SUBSET Events]
  BY DEF TypeOK, StartFlush
<1> QED
  BY <1>2, <1>3 DEF TypeOK, StartFlush

-----------------------------------------------------------------------------
(* The type invariant *)

(* In the beginning every variable has its type.                            *)
LEMMA InitType == Init => TypeInv
<1> SUFFICES ASSUME Init PROVE TypeInv
  OBVIOUS
<1>1. 1 \in 1..MaxAttempts
  BY LimitsAssumption
<1>2. /\ fate \in [Events -> Outcomes \union {NoFate}] /\ told \in [Events -> Nat]
      /\ flushAt \in [Callers -> {"no", "worker", "woken", "writes", "done"}]
  BY DEF Init
<1>3. /\ flushed \in [Callers -> SUBSET Events]
      /\ awaited \in [Callers -> SUBSET [ids : SUBSET Events, attempt : 1..MaxAttempts]]
  BY DEF Init
<1>4. queue \in Seq(Events) /\ answer \in SUBSET Answers(Events) /\ tasks \in SUBSET Tasks
  BY DEF Init
<1>5. /\ submitted \in SUBSET Events /\ expired \in SUBSET Events /\ pending \in SUBSET Events
      /\ finished \in SUBSET Events /\ batch \in SUBSET Events /\ uncertain \in SUBSET Events
      /\ committed \in SUBSET Events /\ bytes \in Int /\ attempt \in 1..MaxAttempts
  BY <1>1 DEF Init
<1>6. /\ worker = "idle" /\ closing = "no" /\ known = TRUE
      /\ cancelled = FALSE /\ closed = FALSE
  BY DEF Init
<1> QED
  BY <1>2, <1>3, <1>4, <1>5, <1>6 DEF TypeInv, TypeOK, RetryLeft

(* Every step keeps the types.                                              *)
LEMMA NextType == TypeInv /\ [Next]_vars => TypeInv'
<1> SUFFICES ASSUME TypeInv, [Next]_vars PROVE TypeInv'
  OBVIOUS
<1> USE DEF TypeInv
<1>1. ASSUME NEW e \in Events, Submit(e) PROVE TypeInv'
  <2>1. Weight[{e}] \in Nat
    BY WeightAssumption
  <2> QED
    BY <1>1, <2>1 DEF Submit, WorkerAfterSubmit, TypeOK, RetryLeft, closeVars
<1>2. ASSUME NEW e \in Events, Expire(e) PROVE TypeInv'
  BY <1>2 DEF Expire, TypeOK, RetryLeft, submitVars, finishVars, workerVars, closeVars
<1>3. CASE TakeBatch
  <2> DEFINE n == IF Len(queue) < BatchSize THEN Len(queue) ELSE BatchSize
  <2>1. n \in Nat /\ n <= Len(queue)
    BY LimitsAssumption DEF TypeOK
  <2>2. {queue[i] : i \in 1..n} \in SUBSET Events
    BY <2>1 DEF TypeOK
  <2>3. queue' \in Seq(Events)
    BY <1>3, <2>1 DEF TakeBatch, TypeOK
  <2>4. StartAttempt({queue[i] : i \in 1..n}, 1, {})
    BY <1>3 DEF TakeBatch
  <2>5. 1 \in 1..MaxAttempts
    BY LimitsAssumption
  <2> HIDE DEF n
  <2> QED
    BY <2>2, <2>3, <2>4, <2>5, StartAttemptType
<1>4. CASE Retry
  <2>1. attempt + 1 \in 1..MaxAttempts
    BY <1>4, LimitsAssumption DEF Retry, RetryLeft, TypeOK
  <2>2. queue' \in Seq(Events) /\ StartAttempt(batch, attempt + 1, uncertain)
    BY <1>4 DEF Retry, TypeOK
  <2> QED
    BY <2>1, <2>2, StartAttemptType DEF TypeOK
<1>5. CASE WaitTimeout
  <2> DEFINE outcome == [e \in Events |-> "ack_unknown"]
  <2>1. outcome \in [Events -> Outcomes]
    BY DEF Outcomes
  <2>2. Finish(batch, outcome)
    BY <1>5 DEF WaitTimeout
  <2> HIDE DEF outcome
  <2>3. /\ finished' \in SUBSET Events /\ pending' \in SUBSET Events /\ bytes' \in Int
        /\ fate' \in [Events -> Outcomes \union {NoFate}] /\ told' \in [Events -> Nat]
    BY <2>1, <2>2, FinishType DEF TypeOK
  <2> QED
    BY <1>5, <2>3, LimitsAssumption
    DEF WaitTimeout, KnownAfter, TypeOK, RetryLeft, submitVars, closeVars
<1>6. ASSUME NEW a \in answer, HandleAnswer(a) PROVE TypeInv'
  <2> DEFINE stored  == batch \intersect Acknowledged(a)
             rest    == batch \ stored
             doubt   == uncertain \union InDoubt(a, rest)
             again   == rest # {} /\ MayRetry
             ending  == IF again THEN stored ELSE batch
             outcome == [e \in Events |-> IF e \in stored THEN "stored"
                                          ELSE IF e \in doubt THEN "ack_unknown"
                                          ELSE "dropped_retry_exhausted"]
  <2>1. outcome \in [Events -> Outcomes]
    BY DEF Outcomes, Dropped
  <2>2. ending \in SUBSET Events
    BY DEF TypeOK
  <2>3. Finish(ending, outcome)
    BY <1>6 DEF HandleAnswer
  <2>4. rest \in SUBSET Events /\ doubt \in SUBSET Events
    BY DEF TypeOK, InDoubt
  <2>5. /\ known' \in BOOLEAN
        /\ IF again
           THEN worker' = "retrying" /\ batch' = rest /\ uncertain' = doubt /\ attempt' = attempt
           ELSE worker' = "loop" /\ batch' = {} /\ attempt' = 1 /\ uncertain' = {}
        /\ answer' = {}
        /\ UNCHANGED <<submitVars, expired, tasks, cancelled, closeVars, committed>>
    BY <1>6 DEF HandleAnswer, KnownAfter, TypeOK
  <2> HIDE DEF outcome, ending
  <2>6. /\ finished' \in SUBSET Events /\ pending' \in SUBSET Events /\ bytes' \in Int
        /\ fate' \in [Events -> Outcomes \union {NoFate}] /\ told' \in [Events -> Nat]
    BY <2>1, <2>2, <2>3, FinishType
  <2>7. RetryLeft' /\ attempt' \in 1..MaxAttempts /\ worker' \in {"loop", "retrying"}
    BY <2>5, LimitsAssumption DEF RetryLeft, MayRetry, TypeOK
  <2>8. batch' \in SUBSET Events /\ uncertain' \in SUBSET Events
    BY <2>4, <2>5
  <2> HIDE DEF stored, rest, doubt, again
  <2> QED
    BY <2>5, <2>6, <2>7, <2>8 DEF TypeOK, submitVars, closeVars
<1>7. CASE QueueEmpty
  <2> DEFINE outcome == [e \in Events |-> "dropped_shutdown"]
  <2>1. outcome \in [Events -> Outcomes]
    BY DEF Outcomes, Dropped
  <2>2. EndWorker(outcome) /\ known' \in BOOLEAN
    BY <1>7 DEF QueueEmpty, KnownAfter, TypeOK
  <2> HIDE DEF outcome
  <2> QED
    BY <2>1, <2>2, EndWorkerType
<1>8. CASE WorkerCancelled
  <2> DEFINE outcome == [e \in Events |->
                           IF e \in batch /\ (worker = "writing" \/ e \in uncertain)
                           THEN "ack_unknown" ELSE "dropped_shutdown"]
  <2>1. outcome \in [Events -> Outcomes]
    BY DEF Outcomes, Dropped
  <2>2. EndWorker(outcome) /\ known' \in BOOLEAN
    BY <1>8 DEF WorkerCancelled
  <2> HIDE DEF outcome
  <2> QED
    BY <2>1, <2>2, EndWorkerType
<1>9. ASSUME NEW t \in tasks, NEW S \in SUBSET t.ids, StoreCommit(t, S) PROVE TypeInv'
  <2>1. S \in SUBSET Events
    BY DEF TypeOK, Tasks
  <2> QED
    BY <1>9, <2>1
    DEF StoreCommit, TypeOK, RetryLeft, submitVars, finishVars, workerVars, closeVars
<1>10. ASSUME NEW t \in tasks, NEW a \in Answers(t.ids), StoreAnswer(t, a) PROVE TypeInv'
  <2>1. a \in Answers(Events)
    BY DEF TypeOK, Tasks, Answers
  <2>2. [t EXCEPT !.done = TRUE] \in Tasks
    BY DEF TypeOK, Tasks
  <2>3. tasks' \in SUBSET Tasks /\ answer' \in SUBSET Answers(Events)
    BY <1>10, <2>1, <2>2 DEF StoreAnswer, TypeOK
  <2> QED
    BY <1>10, <2>3 DEF StoreAnswer, TypeOK, RetryLeft, submitVars, finishVars, closeVars
<1>11. ASSUME NEW t \in tasks, WriteDone(t) PROVE TypeInv'
  <2>1. Weight[Returned(t)] \in Nat
    <3>1. Returned(t) \in SUBSET Events
      BY DEF Returned, TypeOK
    <3> QED
      BY <3>1, WeightAssumption
  <2>2. /\ tasks' \in SUBSET Tasks /\ finished' \in SUBSET Events
        /\ pending' \in SUBSET Events /\ bytes' \in Int
    BY <1>11, <2>1 DEF WriteDone, TypeOK
  <2> QED
    BY <1>11, <2>2 DEF WriteDone, TypeOK, RetryLeft, submitVars, workerVars, closeVars
<1>12. ASSUME NEW c \in Callers, Flush(c) \/ FlushWoken(c) PROVE TypeInv'
  <2>1. /\ flushAt' \in [Callers -> {"no", "worker", "woken", "writes", "done"}]
        /\ flushed' \in [Callers -> SUBSET Events]
        /\ awaited' \in [Callers -> SUBSET [ids : SUBSET Events, attempt : 1..MaxAttempts]]
    BY <1>12, FlushType DEF Flush, FlushWoken
  <2> QED
    BY <1>12, <2>1
    DEF Flush, FlushWoken, TypeOK, RetryLeft, submitVars, finishVars, workerVars
<1>13. ASSUME NEW c \in Callers, FlushDone(c) PROVE TypeInv'
  BY <1>13 DEF FlushDone, TypeOK, RetryLeft, submitVars, finishVars, workerVars
<1>14. CASE Close
  <2>1. /\ flushAt' \in [Callers -> {"no", "worker", "woken", "writes", "done"}]
        /\ flushed' \in [Callers -> SUBSET Events]
        /\ awaited' \in [Callers -> SUBSET [ids : SUBSET Events, attempt : 1..MaxAttempts]]
    BY <1>14, FlushType, CallersAssumption DEF Close
  <2> QED
    BY <1>14, <2>1 DEF Close, TypeOK, RetryLeft, submitVars, finishVars, workerVars
<1>15. CASE CloseStep
  BY <1>15
  DEF CloseStep, CloseFlushed, CloseTimeout, CloseCancelled, TypeOK, RetryLeft,
      submitVars, finishVars, workerVars
<1>16. CASE UNCHANGED vars
  BY <1>16
  DEF vars, TypeOK, RetryLeft, submitVars, finishVars, workerVars, closeVars
<1> QED
  BY <1>1, <1>2, <1>3, <1>4, <1>5, <1>6, <1>7, <1>8, <1>9, <1>10, <1>11, <1>12,
     <1>13, <1>14, <1>15, <1>16
  DEF Next, WorkerStep, StoreStep

(* Every variable of the collector has its type in every reachable state,   *)
(* and a batch never starts more attempts than max_attempts.                *)
THEOREM TypeCorrect == Spec => []TypeOK
<1>1. Spec => []TypeInv
  BY InitType, NextType, PTL DEF Spec
<1>2. TypeInv => TypeOK
  BY DEF TypeInv
<1> QED
  BY <1>1, <1>2, PTL

-----------------------------------------------------------------------------
(* The inductive invariant behind the safety properties                     *)

(* An event is at most once in the queue, and in only one place.            *)
Placed ==
  /\ \A i, j \in DOMAIN queue : queue[i] = queue[j] => i = j
  /\ Queued \intersect batch = {}
  /\ Queued \intersect Writing = {}
  /\ pending \subseteq submitted

(* What the worker's program counter says about its batch and about the     *)
(* write tasks that carry events of it.                                     *)
WorkerShape ==
  /\ worker = "idle" => queue = <<>>
  /\ worker \in {"idle", "loop"} => batch = {}
  /\ worker = "writing" => batch # {}
  /\ answer # {} => worker = "writing"
  /\ \A t \in tasks : t.ids \intersect batch # {} => t.done \/ (Current(t) /\ answer = {})

PlaceInv == TypeInv /\ Placed /\ WorkerShape /\ ReservationsAccounted /\ NoOverlappingWrites

(* Writing, by its members.                                                 *)
LEMMA WritingMember == \A e : e \in Writing <=> \E t \in tasks : e \in t.ids
  BY DEF Writing

(* _finish of events that are queued or in the batch settles all of them.   *)
LEMMA FinishPlaces ==
  ASSUME PlaceInv, NEW S \in SUBSET (Queued \union batch), NEW outcome, Finish(S, outcome)
  PROVE  /\ Ending(S) = S
         /\ finished' = finished \union (S \intersect Writing)
         /\ pending' = pending \ (S \ Writing)
         /\ bytes' = bytes - Weight[S \ Writing]
<1>1. Ending(S) = S
  BY DEF Ending, PlaceInv, ReservationsAccounted
<1>2. Kept(S) = S \intersect Writing
  BY <1>1 DEF Kept
<1>3. S \ Kept(S) = S \ Writing
  BY <1>2
<1> QED
  BY <1>1, <1>2, <1>3 DEF Finish

(* What becomes of the queue when its first n events are taken.             *)
LEMMA QueueTaken ==
  ASSUME queue \in Seq(Events),
         \A i, j \in DOMAIN queue : queue[i] = queue[j] => i = j,
         NEW n \in Nat, n <= Len(queue),
         queue' = SubSeq(queue, n + 1, Len(queue))
  PROVE  LET B == {queue[i] : i \in 1..n}
         IN  /\ B \union Queued' = Queued /\ B \intersect Queued' = {}
             /\ \A i, j \in DOMAIN queue' : queue'[i] = queue'[j] => i = j
<1> DEFINE B == {queue[i] : i \in 1..n}
<1>1. /\ Len(queue') = Len(queue) - n /\ DOMAIN queue' = 1..(Len(queue) - n)
      /\ \A i \in 1..(Len(queue) - n) : queue'[i] = queue[n + i]
  OBVIOUS
<1>2. DOMAIN queue = 1..Len(queue) /\ Len(queue) \in Nat
  OBVIOUS
<1>3. Queued' = {queue[i] : i \in (n + 1)..Len(queue)}
  <2>1. ASSUME NEW i \in 1..(Len(queue) - n)
        PROVE  n + i \in (n + 1)..Len(queue) /\ queue'[i] = queue[n + i]
    <3>1. n + i \in (n + 1)..Len(queue)
      <4>1. Len(queue) \in Nat /\ n \in Nat /\ i \in Int /\ 1 <= i /\ i <= Len(queue) - n
        BY <1>2, <2>1
      <4>2. n + i \in Int /\ n + 1 <= n + i /\ n + i <= Len(queue)
        BY <4>1
      <4> QED
        BY <4>1, <4>2
    <3>2. queue'[i] = queue[n + i]
      BY <1>1, <2>1, Zenon
    <3> QED
      BY <3>1, <3>2
  <2>2. ASSUME NEW k \in (n + 1)..Len(queue)
        PROVE  k - n \in 1..(Len(queue) - n) /\ queue'[k - n] = queue[k]
    <3>1. k - n \in 1..(Len(queue) - n)
      BY <1>2
    <3>2. queue'[k - n] = queue[n + (k - n)]
      BY <1>1, <3>1
    <3>3. n + (k - n) = k
      BY <1>2
    <3> QED
      BY <3>1, <3>2, <3>3
  <2>3. Queued' = {queue'[i] : i \in 1..(Len(queue) - n)}
    BY <1>1 DEF Queued
  <2>4. {queue'[i] : i \in 1..(Len(queue) - n)} \subseteq {queue[i] : i \in (n + 1)..Len(queue)}
    BY <2>1
  <2>5. {queue[i] : i \in (n + 1)..Len(queue)} \subseteq {queue'[i] : i \in 1..(Len(queue) - n)}
    BY <2>2
  <2> QED
    BY <2>3, <2>4, <2>5
<1>4. \A k \in 1..Len(queue) : k \in 1..n \/ k \in (n + 1)..Len(queue)
  BY <1>2
<1>5. \A k \in 1..n : k \in 1..Len(queue) /\ k \notin (n + 1)..Len(queue)
  BY <1>2
<1>6. \A k \in (n + 1)..Len(queue) : k \in 1..Len(queue)
  BY <1>2
<1>7. B \union Queued' = Queued
  BY <1>2, <1>3, <1>4, <1>5, <1>6 DEF Queued
<1>8. B \intersect Queued' = {}
  BY <1>2, <1>3, <1>5, <1>6
<1>9. ASSUME NEW i \in DOMAIN queue', NEW j \in DOMAIN queue', queue'[i] = queue'[j]
      PROVE  i = j
  <2>1. i \in 1..(Len(queue) - n) /\ j \in 1..(Len(queue) - n)
    BY <1>1, Zenon
  <2>2. n + i \in DOMAIN queue /\ n + j \in DOMAIN queue
    BY <1>2, <2>1
  <2>3. queue'[i] = queue[n + i] /\ queue'[j] = queue[n + j]
    BY <1>1, <2>1
  <2>4. n + i = n + j
    BY <1>9, <2>2, <2>3
  <2> QED
    BY <1>2, <2>1, <2>4
<1> QED
  BY <1>7, <1>8, <1>9

(* What becomes of the queue when an event is appended.                     *)
LEMMA QueueAppended ==
  ASSUME queue \in Seq(Events), NEW e \in Events, e \notin Queued,
         \A i, j \in DOMAIN queue : queue[i] = queue[j] => i = j,
         queue' = Append(queue, e)
  PROVE  /\ Queued' = Queued \union {e}
         /\ \A i, j \in DOMAIN queue' : queue'[i] = queue'[j] => i = j
<1>1. /\ DOMAIN queue = 1..Len(queue) /\ Len(queue) \in Nat
      /\ DOMAIN queue' = 1..(Len(queue) + 1)
      /\ queue'[Len(queue) + 1] = e
      /\ \A i \in 1..Len(queue) : queue'[i] = queue[i]
  OBVIOUS
<1>2. \A i \in 1..(Len(queue) + 1) : i \in 1..Len(queue) \/ i = Len(queue) + 1
  BY <1>1
<1>3. \A i \in 1..Len(queue) : i \in 1..(Len(queue) + 1)
  BY <1>1
<1>4. Len(queue) + 1 \in 1..(Len(queue) + 1)
  BY <1>1
<1>5. Queued' = Queued \union {e}
  BY <1>1, <1>2, <1>3, <1>4 DEF Queued
<1>6. ASSUME NEW i \in DOMAIN queue', NEW j \in DOMAIN queue', queue'[i] = queue'[j]
      PROVE  i = j
  BY <1>1, <1>2, <1>6 DEF Queued
<1> QED
  BY <1>5, <1>6

(* An attempt at events no write task accounts for.                         *)
LEMMA StartAttemptPlaces ==
  ASSUME PlaceInv, TypeInv',
         NEW B \in SUBSET Events, NEW n, NEW doubt,
         B \intersect Writing = {},
         B \union Queued' = Queued \union batch, Queued' \subseteq Queued,
         B \intersect Queued' = {},
         \A i, j \in DOMAIN queue' : queue'[i] = queue'[j] => i = j,
         StartAttempt(B, n, doubt)
  PROVE  PlaceInv'
<1> DEFINE live == B \ expired
           gone == B \intersect expired
           new  == [ids |-> live, attempt |-> n, done |-> FALSE]
           outcome == [e \in Events |-> IF e \in doubt THEN "ack_unknown" ELSE "dropped_expired"]
<1>1. Finish(gone, outcome) /\ gone \subseteq Queued \union batch
  BY DEF StartAttempt
<1> HIDE DEF outcome
<1>2. /\ finished' = finished /\ pending' = pending \ gone
  <2>1. /\ gone \in SUBSET (Queued \union batch)
        /\ gone \intersect Writing = {} /\ gone \ Writing = gone
    BY <1>1
  <2>2. /\ finished' = finished \union (gone \intersect Writing)
        /\ pending' = pending \ (gone \ Writing)
    BY <1>1, <2>1, FinishPlaces
  <2> QED
    BY <2>1, <2>2
<1>3. /\ batch' = live /\ answer' = {} /\ submitted' = submitted
      /\ worker' = (IF live = {} THEN "loop" ELSE "writing")
      /\ tasks' = (IF live = {} THEN tasks ELSE tasks \union {new})
      /\ live # {} => attempt' = n
  BY DEF StartAttempt
<1>4. Writing' = Writing \union live
  <2>1. CASE live = {}
    BY <1>3, <2>1 DEF Writing
  <2>2. CASE live # {}
    <3>1. tasks' = tasks \union {new} /\ new.ids = live
      BY <1>3, <2>2
    <3> HIDE DEF new, live
    <3> QED
      BY <3>1 DEF Writing
  <2> QED
    BY <2>1, <2>2
<1>5. ReservationsAccounted'
  <2>1. pending = Queued' \union B \union finished
    BY DEF PlaceInv, ReservationsAccounted
  <2>2. finished \intersect (Queued' \union B) = {}
    BY DEF PlaceInv, ReservationsAccounted
  <2>3. pending' = Queued' \union batch' \union finished'
    BY <1>2, <1>3, <2>1, <2>2
  <2>4. finished' \intersect (Queued' \union batch') = {}
    BY <1>2, <1>3, <2>2
  <2>5. finished' \subseteq Writing' /\ Writing' \subseteq pending'
    BY <1>2, <1>3, <1>4, <2>1, <2>2 DEF PlaceInv, ReservationsAccounted
  <2> QED
    BY <2>3, <2>4, <2>5 DEF ReservationsAccounted
<1>6. Placed'
  <2>1. Queued' \intersect Writing' = {}
    BY <1>4 DEF PlaceInv, Placed
  <2> QED
    BY <1>2, <1>3, <2>1 DEF Placed, PlaceInv
<1>7. \A t \in tasks : t.ids \intersect live = {}
  BY WritingMember
<1>8. NoOverlappingWrites'
  <2>1. ASSUME NEW s \in tasks', NEW t \in tasks', s # t
        PROVE  s.ids \intersect t.ids = {}
    <3>1. new.ids = live
      OBVIOUS
    <3> HIDE DEF new, live
    <3>2. s \in tasks \/ s = new
      BY <1>3
    <3>3. t \in tasks \/ t = new
      BY <1>3
    <3> QED
      BY <1>7, <2>1, <3>1, <3>2, <3>3 DEF NoOverlappingWrites, PlaceInv
  <2> QED
    BY <2>1 DEF NoOverlappingWrites
<1>9. WorkerShape'
  <2>1. ASSUME NEW t \in tasks', t.ids \intersect batch' # {}
        PROVE  Current(t)' /\ answer' = {}
    BY <1>3, <1>7, <2>1 DEF Current
  <2> QED
    BY <1>3, <2>1 DEF WorkerShape
<1> QED
  BY <1>5, <1>6, <1>8, <1>9 DEF PlaceInv

(* _finish of some events that thereby leave the queue or the batch.        *)
LEMMA FinishedPlaces ==
  ASSUME PlaceInv, NEW S \in SUBSET (Queued \union batch), NEW outcome, Finish(S, outcome),
         Queued' \union batch' = (Queued \union batch) \ S,
         Queued' \intersect batch' = {}, Queued' \subseteq Queued,
         \A i, j \in DOMAIN queue' : queue'[i] = queue'[j] => i = j,
         tasks' = tasks, submitted' = submitted
  PROVE  Placed' /\ ReservationsAccounted' /\ NoOverlappingWrites'
<1>1. /\ finished' = finished \union (S \intersect Writing)
      /\ pending' = pending \ (S \ Writing)
  BY FinishPlaces
<1>2. Writing' = Writing
  BY DEF Writing
<1>3. Placed'
  BY <1>1, <1>2 DEF Placed, PlaceInv
<1>4. ReservationsAccounted'
  <2>1. pending = Queued' \union batch' \union S \union finished
    BY DEF PlaceInv, ReservationsAccounted
  <2>2. finished \intersect (Queued \union batch) = {}
    BY DEF PlaceInv, ReservationsAccounted
  <2>3. finished \subseteq Writing /\ Writing \subseteq pending
    BY DEF PlaceInv, ReservationsAccounted
  <2>4. pending' = Queued' \union batch' \union finished'
    BY <1>1, <2>1, <2>2
  <2>5. finished' \intersect (Queued' \union batch') = {}
    BY <1>1, <2>2
  <2>6. finished' \subseteq Writing' /\ Writing' \subseteq pending'
    BY <1>1, <1>2, <2>3
  <2> QED
    BY <2>4, <2>5, <2>6 DEF ReservationsAccounted
<1>5. NoOverlappingWrites'
  BY DEF NoOverlappingWrites, PlaceInv
<1> QED
  BY <1>3, <1>4, <1>5

(* The end of the worker settles what is queued or in the batch.            *)
LEMMA EndWorkerPlaces ==
  ASSUME PlaceInv, TypeInv', NEW outcome, EndWorker(outcome)
  PROVE  PlaceInv'
<1>1. Ending(pending) = Ending(Queued \union batch)
  BY DEF Ending, PlaceInv, ReservationsAccounted
<1>2. Kept(pending) = Kept(Queued \union batch)
  BY <1>1 DEF Kept
<1>3. Finish(Queued \union batch, outcome)
  BY <1>1, <1>2 DEF EndWorker, Finish
<1>4. /\ queue' = <<>> /\ batch' = {} /\ worker' = "idle" /\ answer' = {}
      /\ tasks' = tasks /\ submitted' = submitted
  BY DEF EndWorker
<1>5. Queued' = {} /\ DOMAIN queue' = {}
  BY <1>4 DEF Queued
<1>6. Placed' /\ ReservationsAccounted' /\ NoOverlappingWrites'
  BY <1>3, <1>4, <1>5, FinishedPlaces
<1>7. WorkerShape'
  BY <1>4 DEF WorkerShape
<1> QED
  BY <1>6, <1>7 DEF PlaceInv

(* Steps that touch neither the places of the events nor the worker.        *)
LEMMA SamePlaces ==
  ASSUME PlaceInv, TypeInv',
         UNCHANGED <<submitVars, pending, finished, tasks, workerVars>>
  PROVE  PlaceInv'
<1>1. Queued' = Queued /\ Writing' = Writing
  BY DEF Queued, Writing, submitVars
<1>2. \A t : Current(t)' = Current(t)
  BY DEF Current, workerVars
<1>3. Placed' /\ ReservationsAccounted' /\ NoOverlappingWrites'
  BY <1>1 DEF PlaceInv, Placed, ReservationsAccounted, NoOverlappingWrites,
              submitVars, workerVars
<1>4. WorkerShape'
  BY <1>2 DEF PlaceInv, WorkerShape, submitVars, workerVars
<1> QED
  BY <1>3, <1>4 DEF PlaceInv

(* In the beginning nothing is anywhere.                                    *)
LEMMA InitPlaces == Init => PlaceInv
<1> SUFFICES ASSUME Init PROVE PlaceInv
  OBVIOUS
<1>1. TypeInv
  BY InitType
<1>2. Queued = {} /\ Writing = {} /\ DOMAIN queue = {}
  BY DEF Init, Queued, Writing
<1>3. Placed /\ ReservationsAccounted /\ NoOverlappingWrites
  BY <1>2 DEF Init, Placed, ReservationsAccounted, NoOverlappingWrites
<1>4. WorkerShape
  BY DEF Init, WorkerShape
<1> QED
  BY <1>1, <1>3, <1>4 DEF PlaceInv

(* Every step keeps each event in one place.                                *)
LEMMA NextPlaces == PlaceInv /\ [Next]_vars => PlaceInv'
<1> SUFFICES ASSUME PlaceInv, [Next]_vars PROVE PlaceInv'
  OBVIOUS
<1>0. TypeInv' /\ TypeOK
  BY NextType DEF PlaceInv, TypeInv
<1>1. ASSUME NEW e \in Events, Submit(e) PROVE PlaceInv'
  <2>1. e \notin Queued \union batch \union finished \union Writing
    BY <1>1 DEF Submit, PlaceInv, ReservationsAccounted
  <2>2. /\ Queued' = Queued \union {e}
        /\ \A i, j \in DOMAIN queue' : queue'[i] = queue'[j] => i = j
    BY <1>0, <1>1, <2>1, QueueAppended DEF Submit, PlaceInv, Placed, TypeOK
  <2>3. /\ pending' = pending \union {e} /\ submitted' = submitted \union {e}
        /\ finished' = finished /\ batch' = batch /\ tasks' = tasks
        /\ answer' = answer /\ attempt' = attempt
        /\ worker' = IF worker = "idle" THEN "loop" ELSE worker
    BY <1>1 DEF Submit, WorkerAfterSubmit
  <2>4. Writing' = Writing
    BY <2>3 DEF Writing
  <2>5. Placed' /\ ReservationsAccounted' /\ NoOverlappingWrites'
    BY <2>1, <2>2, <2>3, <2>4
    DEF PlaceInv, Placed, ReservationsAccounted, NoOverlappingWrites
  <2>6. WorkerShape'
    BY <2>3 DEF PlaceInv, WorkerShape, Current
  <2> QED
    BY <1>0, <2>5, <2>6 DEF PlaceInv
<1>2. CASE TakeBatch
  <2> DEFINE n == IF Len(queue) < BatchSize THEN Len(queue) ELSE BatchSize
             B == {queue[i] : i \in 1..n}
  <2>1. n \in Nat /\ n <= Len(queue) /\ B \in SUBSET Events
    BY <1>0, LimitsAssumption DEF TypeOK
  <2>2. queue' = SubSeq(queue, n + 1, Len(queue)) /\ StartAttempt(B, 1, {}) /\ batch = {}
    BY <1>2 DEF TakeBatch, PlaceInv, WorkerShape
  <2> HIDE DEF n
  <2>3. /\ B \union Queued' = Queued /\ B \intersect Queued' = {}
        /\ \A i, j \in DOMAIN queue' : queue'[i] = queue'[j] => i = j
    BY <1>0, <2>1, <2>2, QueueTaken DEF PlaceInv, Placed, TypeOK
  <2>4. B \intersect Writing = {}
    BY <2>3 DEF PlaceInv, Placed
  <2> HIDE DEF B
  <2>5. B \union Queued' = Queued \union batch /\ Queued' \subseteq Queued
    BY <2>2, <2>3
  <2> QED
    BY <1>0, <2>1, <2>2, <2>3, <2>4, <2>5, StartAttemptPlaces
<1>3. CASE Retry
  <2>1. queue' = queue /\ StartAttempt(batch, attempt + 1, uncertain)
    BY <1>3 DEF Retry
  <2>2. Queued' = Queued
    BY <2>1 DEF Queued
  <2>3. batch \intersect Writing = {}
    BY <1>3, WritingMember DEF Retry, PlaceInv, WorkerShape, Current
  <2>4. batch \in SUBSET Events /\ batch \intersect Queued = {}
    BY <1>0 DEF TypeOK, PlaceInv, Placed
  <2>5. \A i, j \in DOMAIN queue' : queue'[i] = queue'[j] => i = j
    BY <2>1 DEF PlaceInv, Placed
  <2> QED
    BY <1>0, <2>1, <2>2, <2>3, <2>4, <2>5, StartAttemptPlaces
<1>4. CASE WaitTimeout
  <2> DEFINE outcome == [e \in Events |-> "ack_unknown"]
  <2>1. /\ Finish(batch, outcome)
        /\ worker' = "loop" /\ batch' = {} /\ answer' = {}
        /\ queue' = queue /\ submitted' = submitted /\ tasks' = tasks
    BY <1>4 DEF WaitTimeout, submitVars
  <2> HIDE DEF outcome
  <2>2. Queued' = Queued /\ Queued \intersect batch = {}
    BY <2>1 DEF Queued, PlaceInv, Placed
  <2>3. \A i, j \in DOMAIN queue' : queue'[i] = queue'[j] => i = j
    BY <2>1 DEF PlaceInv, Placed
  <2>4. /\ batch \in SUBSET (Queued \union batch)
        /\ Queued' \union batch' = (Queued \union batch) \ batch
        /\ Queued' \intersect batch' = {} /\ Queued' \subseteq Queued
    BY <2>1, <2>2
  <2>5. Placed' /\ ReservationsAccounted' /\ NoOverlappingWrites'
    BY <2>1, <2>3, <2>4, FinishedPlaces
  <2>6. WorkerShape'
    BY <2>1 DEF WorkerShape
  <2> QED
    BY <1>0, <2>5, <2>6 DEF PlaceInv
<1>5. ASSUME NEW a \in answer, HandleAnswer(a) PROVE PlaceInv'
  <2> DEFINE stored  == batch \intersect Acknowledged(a)
             rest    == batch \ stored
             doubt   == uncertain \union InDoubt(a, rest)
             again   == rest # {} /\ MayRetry
             ending  == IF again THEN stored ELSE batch
             outcome == [e \in Events |-> IF e \in stored THEN "stored"
                                          ELSE IF e \in doubt THEN "ack_unknown"
                                          ELSE "dropped_retry_exhausted"]
  <2>1. /\ Finish(ending, outcome)
        /\ worker = "writing" /\ answer' = {}
        /\ queue' = queue /\ submitted' = submitted /\ tasks' = tasks
        /\ IF again THEN worker' = "retrying" /\ batch' = rest
                    ELSE worker' = "loop" /\ batch' = {}
    BY <1>5 DEF HandleAnswer, submitVars
  <2>2. ending \in SUBSET batch /\ batch' = batch \ ending
    BY <2>1
  <2> HIDE DEF outcome, again, doubt, ending, stored
  <2>3. Queued' = Queued /\ Queued \intersect batch = {}
    BY <2>1 DEF Queued, PlaceInv, Placed
  <2>4. \A i, j \in DOMAIN queue' : queue'[i] = queue'[j] => i = j
    BY <2>1 DEF PlaceInv, Placed
  <2>5. /\ ending \in SUBSET (Queued \union batch)
        /\ Queued' \union batch' = (Queued \union batch) \ ending
        /\ Queued' \intersect batch' = {} /\ Queued' \subseteq Queued
    BY <2>2, <2>3
  <2>6. Placed' /\ ReservationsAccounted' /\ NoOverlappingWrites'
    BY <2>1, <2>4, <2>5, FinishedPlaces
  <2>7. \A t \in tasks : t.ids \intersect batch' # {} => t.done
    BY <1>5, <2>2 DEF PlaceInv, WorkerShape
  <2>8. worker' \in {"loop", "retrying"} /\ (worker' = "loop" => batch' = {})
    BY <2>1
  <2>9. WorkerShape'
    BY <2>1, <2>7, <2>8 DEF WorkerShape
  <2> QED
    BY <1>0, <2>6, <2>9 DEF PlaceInv
<1>6. CASE QueueEmpty
  BY <1>0, <1>6, EndWorkerPlaces DEF QueueEmpty
<1>7. CASE WorkerCancelled
  BY <1>0, <1>7, EndWorkerPlaces DEF WorkerCancelled
<1>8. ASSUME NEW t \in tasks, NEW a \in Answers(t.ids), StoreAnswer(t, a) PROVE PlaceInv'
  <2> DEFINE u == [t EXCEPT !.done = TRUE]
  <2>1. /\ u.ids = t.ids /\ u.attempt = t.attempt /\ u.done = TRUE
    BY <1>0 DEF TypeOK, Tasks
  <2>2. /\ tasks' = (tasks \ {t}) \union {u} /\ ~t.done
        /\ answer' = (IF Current(t) THEN {a} ELSE answer)
        /\ queue' = queue /\ submitted' = submitted /\ pending' = pending
        /\ finished' = finished /\ worker' = worker /\ batch' = batch /\ attempt' = attempt
    BY <1>8 DEF StoreAnswer, submitVars, finishVars
  <2> HIDE DEF u
  <2>3. Writing' = Writing
    BY <2>1, <2>2 DEF Writing
  <2>4. Queued' = Queued
    BY <2>2 DEF Queued
  <2>5. Placed' /\ ReservationsAccounted'
    BY <2>2, <2>3, <2>4 DEF PlaceInv, Placed, ReservationsAccounted
  <2>6. NoOverlappingWrites'
    BY <2>1, <2>2 DEF PlaceInv, NoOverlappingWrites
  <2>7. WorkerShape'
    <3>1. ASSUME NEW r \in tasks', r.ids \intersect batch' # {}
          PROVE  r.done \/ (Current(r)' /\ answer' = {})
      <4>1. CASE r = u
        BY <2>1, <4>1
      <4>2. CASE r # u
        <5>1. r \in tasks /\ r # t /\ r.ids \intersect batch # {}
          BY <2>2, <3>1, <4>2
        <5>2. r.done \/ (Current(r) /\ answer = {})
          BY <5>1 DEF PlaceInv, WorkerShape
        <5>3. Current(t) /\ Current(r) => FALSE
          BY <5>1 DEF Current, PlaceInv, NoOverlappingWrites
        <5> QED
          BY <2>2, <5>2, <5>3 DEF Current
      <4> QED
        BY <4>1, <4>2
    <3>2. answer' # {} => worker' = "writing"
      BY <2>2 DEF PlaceInv, WorkerShape, Current
    <3> QED
      BY <2>2, <3>1, <3>2 DEF PlaceInv, WorkerShape
  <2> QED
    BY <1>0, <2>5, <2>6, <2>7 DEF PlaceInv
<1>9. ASSUME NEW t \in tasks, WriteDone(t) PROVE PlaceInv'
  <2>1. /\ tasks' = tasks \ {t} /\ t.done
        /\ finished' = finished \ t.ids
        /\ pending' = pending \ (t.ids \intersect finished)
        /\ UNCHANGED <<submitVars, workerVars>>
    BY <1>9 DEF WriteDone, Returned
  <2>2. Writing' = Writing \ t.ids
    BY <2>1 DEF Writing, PlaceInv, NoOverlappingWrites
  <2>3. Queued' = Queued
    BY <2>1 DEF Queued, submitVars
  <2>4. Placed' /\ NoOverlappingWrites'
    BY <2>1, <2>2, <2>3
    DEF PlaceInv, Placed, NoOverlappingWrites, submitVars, workerVars
  <2>5. ReservationsAccounted'
    BY <2>1, <2>2, <2>3 DEF PlaceInv, ReservationsAccounted, workerVars
  <2>6. WorkerShape'
    BY <2>1 DEF PlaceInv, WorkerShape, Current, submitVars, workerVars
  <2> QED
    BY <1>0, <2>4, <2>5, <2>6 DEF PlaceInv
<1>10. ASSUME NEW e \in Events, Expire(e) PROVE PlaceInv'
  BY <1>0, <1>10, SamePlaces DEF Expire, finishVars
<1>11. ASSUME NEW t \in tasks, NEW S \in SUBSET t.ids, StoreCommit(t, S) PROVE PlaceInv'
  BY <1>0, <1>11, SamePlaces DEF StoreCommit, finishVars
<1>12. ASSUME NEW c \in Callers, Flush(c) \/ FlushWoken(c) \/ FlushDone(c) PROVE PlaceInv'
  BY <1>0, <1>12, SamePlaces DEF Flush, FlushWoken, FlushDone, finishVars
<1>13. CASE Close \/ CloseStep
  BY <1>0, <1>13, SamePlaces
  DEF Close, CloseStep, CloseFlushed, CloseTimeout, CloseCancelled, finishVars
<1>14. CASE UNCHANGED vars
  BY <1>0, <1>14, SamePlaces DEF vars, finishVars
<1> QED
  BY <1>1, <1>2, <1>3, <1>4, <1>5, <1>6, <1>7, <1>8, <1>9, <1>10, <1>11, <1>12,
     <1>13, <1>14
  DEF Next, WorkerStep, StoreStep

(* The places are right always.                                             *)
LEMMA PlacesAlways == Spec => []PlaceInv
  BY InitPlaces, NextPlaces, PTL DEF Spec

(* Every reservation is held by exactly one of: a queued event, an event of *)
(* the worker's batch, a settled event whose write task still runs; and     *)
(* every payload a write task carries is accounted for.                     *)
THEOREM ReservationsAreAccounted == Spec => []ReservationsAccounted
<1>1. PlaceInv => ReservationsAccounted
  BY DEF PlaceInv
<1> QED
  BY <1>1, PlacesAlways, PTL

(* No event is ever carried by two write tasks.                             *)
THEOREM WritesNeverOverlap == Spec => []NoOverlappingWrites
<1>1. PlaceInv => NoOverlappingWrites
  BY DEF PlaceInv
<1> QED
  BY <1>1, PlacesAlways, PTL

(* A queued event always has a live worker.                                 *)
THEOREM WorkerNeverMissed == Spec => []NoLostWakeup
<1>1. PlaceInv => NoLostWakeup
  BY DEF PlaceInv, WorkerShape, NoLostWakeup
<1> QED
  BY <1>1, PlacesAlways, PTL

-----------------------------------------------------------------------------
(* The limits                                                               *)

(* Giving back the reservations of some events that hold one.               *)
LEMMA LimitsShrink ==
  ASSUME TypeOK, WithinLimits, NEW T \in SUBSET pending,
         pending' = pending \ T, bytes' = bytes - Weight[T]
  PROVE  WithinLimits'
<1>1. pending \in SUBSET Events /\ IsFiniteSet(pending)
  BY EventsAssumption, FS_Subset DEF TypeOK
<1>2. /\ Weight[pending \ T] = Weight[pending] - Weight[T]
      /\ Weight[pending] \in Nat /\ Weight[T] \in Nat
  BY <1>1, WeightMinus
<1>3. bytes' = Weight[pending'] /\ bytes' <= MaxBytes
  BY <1>2, LimitsAssumption DEF WithinLimits
<1>4. /\ Cardinality(pending \ T) <= Cardinality(pending)
      /\ Cardinality(pending \ T) \in Nat /\ Cardinality(pending) \in Nat
  <2>1. pending \ T \in SUBSET pending
    OBVIOUS
  <2> QED
    BY <1>1, <2>1, FS_Subset, FS_CardinalityType
<1>5. Cardinality(pending') <= MaxEvents
  BY <1>4, LimitsAssumption DEF WithinLimits
<1> QED
  BY <1>3, <1>5 DEF WithinLimits

(* _finish gives back reservations that are held.                           *)
LEMMA LimitsFinish ==
  ASSUME TypeOK, WithinLimits, NEW S, NEW outcome, Finish(S, outcome)
  PROVE  WithinLimits'
<1>1. Ending(S) \ Kept(S) \in SUBSET pending
  BY DEF Ending
<1> QED
  BY <1>1, LimitsShrink DEF Finish

(* Every step keeps the buffer within its limits.                           *)
LEMMA NextLimits ==
  PlaceInv /\ WithinLimits /\ [Next]_vars => WithinLimits'
<1> SUFFICES ASSUME PlaceInv, WithinLimits, [Next]_vars PROVE WithinLimits'
  OBVIOUS
<1>0. TypeOK
  BY DEF PlaceInv, TypeInv
<1>1. ASSUME NEW e \in Events, Submit(e) PROVE WithinLimits'
  <2>1. /\ pending' = pending \union {e} /\ bytes' = bytes + Weight[{e}]
        /\ e \notin pending
        /\ Cardinality(pending) < MaxEvents /\ bytes + Weight[{e}] <= MaxBytes
    BY <1>1 DEF Submit, HasRoom
  <2>2. Weight[pending \union {e}] = Weight[pending] + Weight[{e}]
    <3>1. pending \in SUBSET Events /\ {e} \in SUBSET Events /\ pending \intersect {e} = {}
      BY <1>0, <2>1 DEF TypeOK
    <3> QED
      BY <3>1, WeightAssumption
  <2>3. IsFiniteSet(pending)
    BY <1>0, EventsAssumption, FS_Subset DEF TypeOK
  <2>4. Cardinality(pending \union {e}) = Cardinality(pending) + 1
    BY <2>1, <2>3, FS_AddElement
  <2>5. Cardinality(pending) \in Nat
    BY <2>3, FS_CardinalityType
  <2> QED
    BY <2>1, <2>2, <2>4, <2>5, LimitsAssumption DEF WithinLimits
<1>2. CASE TakeBatch \/ Retry
  BY <1>0, <1>2, LimitsFinish DEF TakeBatch, Retry, StartAttempt
<1>3. CASE WaitTimeout
  BY <1>0, <1>3, LimitsFinish DEF WaitTimeout
<1>4. ASSUME NEW a \in answer, HandleAnswer(a) PROVE WithinLimits'
  BY <1>0, <1>4, LimitsFinish DEF HandleAnswer
<1>5. CASE QueueEmpty \/ WorkerCancelled
  BY <1>0, <1>5, LimitsFinish DEF QueueEmpty, WorkerCancelled, EndWorker
<1>6. ASSUME NEW t \in tasks, WriteDone(t) PROVE WithinLimits'
  <2>1. Returned(t) \in SUBSET pending
    BY DEF Returned, PlaceInv, ReservationsAccounted
  <2> QED
    BY <1>0, <1>6, <2>1, LimitsShrink DEF WriteDone
<1>7. CASE UNCHANGED <<pending, bytes>>
  BY <1>7 DEF WithinLimits
<1>8. ASSUME NEW t \in tasks, StoreStep(t) PROVE UNCHANGED <<pending, bytes>>
  BY <1>8 DEF StoreStep, StoreCommit, StoreAnswer, finishVars
<1>9. ASSUME NEW c \in Callers, Flush(c) \/ FlushWoken(c) \/ FlushDone(c)
      PROVE  UNCHANGED <<pending, bytes>>
  BY <1>9 DEF Flush, FlushWoken, FlushDone, finishVars
<1>10. ASSUME Close \/ CloseStep \/ UNCHANGED vars PROVE UNCHANGED <<pending, bytes>>
  BY <1>10
  DEF Close, CloseStep, CloseFlushed, CloseTimeout, CloseCancelled, vars, finishVars
<1>11. ASSUME NEW e \in Events, Expire(e) PROVE UNCHANGED <<pending, bytes>>
  BY <1>11 DEF Expire, finishVars
<1> QED
  BY <1>1, <1>2, <1>3, <1>4, <1>5, <1>6, <1>7, <1>8, <1>9, <1>10, <1>11
  DEF Next, WorkerStep

(* The bytes held are those of the events that hold a reservation, and the  *)
(* collector never holds more events or more bytes than its limits allow.   *)
THEOREM LimitsHold == Spec => []WithinLimits
<1>1. Init => WithinLimits
  BY LimitsAssumption, WeightAssumption, FS_EmptySet DEF Init, WithinLimits
<1> QED
  BY <1>1, PlacesAlways, NextLimits, PTL DEF Spec

(* Every payload in memory is accounted for once, within the limits.        *)
THEOREM PayloadsAreAccounted == Spec => []PayloadsAccounted
<1>1. ReservationsAccounted /\ NoOverlappingWrites /\ WithinLimits => PayloadsAccounted
  BY DEF PayloadsAccounted
<1> QED
  BY <1>1, ReservationsAreAccounted, WritesNeverOverlap, LimitsHold, PTL

-----------------------------------------------------------------------------
(* What the worker knows of the events it may still drop: an event that is  *)
(* queued, or in the batch and not in doubt, is not in the store; and what  *)
(* the store said of the batch is still so.                                 *)
StoreKnown ==
  /\ committed \subseteq submitted
  /\ Queued \intersect committed = {}
  /\ worker = "retrying" => batch \intersect committed \subseteq uncertain
  /\ \A a \in answer : answer = {a} /\ Honest(a, batch)

FateInv == StoreKnown /\ ExactlyOneFate /\ FateIsTrue

-----------------------------------------------------------------------------
(* _finish of events that are queued or in the batch, by its effect.        *)
LEMMA FinishFates ==
  ASSUME PlaceInv, NEW S \in SUBSET (Queued \union batch), NEW outcome, Finish(S, outcome)
  PROVE  /\ fate' = [e \in Events |-> IF e \in S THEN outcome[e] ELSE fate[e]]
         /\ told' = [e \in Events |-> IF e \in S THEN told[e] + 1 ELSE told[e]]
<1>1. Ending(S) = S
  BY FinishPlaces
<1> QED
  BY <1>1 DEF Finish

(* Truthful outcomes for events that thereby leave the queue or the batch.  *)
LEMMA FinishedFates ==
  ASSUME PlaceInv, FateInv,
         NEW S \in SUBSET (Queued \union batch),
         NEW outcome \in [Events -> Outcomes], Finish(S, outcome),
         Queued' \union batch' = (Queued \union batch) \ S,
         submitted' = submitted, committed' = committed,
         \A t \in tasks' : t \in tasks \/ t.ids \subseteq (Queued \union batch) \ S,
         \A e \in S : outcome[e] = "stored" => e \in committed,
         \A e \in S : outcome[e] \in Dropped =>
                       e \notin committed /\ \A t \in tasks : e \in t.ids => t.done
  PROVE  ExactlyOneFate' /\ FateIsTrue'
<1>1. /\ fate' = [e \in Events |-> IF e \in S THEN outcome[e] ELSE fate[e]]
      /\ told' = [e \in Events |-> IF e \in S THEN told[e] + 1 ELSE told[e]]
  BY FinishFates
<1>2. \A e \in Events : /\ e \in submitted <=> fate[e] # NoFate \/ e \in Queued \union batch
                        /\ fate[e] # NoFate => e \notin Queued \union batch
  BY DEF FateInv, ExactlyOneFate
<1>3. NoFate \notin Outcomes
  BY DEF NoFate, Outcomes, Dropped
<1>4. ExactlyOneFate'
  <2> SUFFICES ASSUME NEW e \in Events
               PROVE  /\ told'[e] = IF fate'[e] = NoFate THEN 0 ELSE 1
                      /\ e \in submitted' <=> fate'[e] # NoFate \/ e \in (Queued \union batch)'
                      /\ fate'[e] # NoFate => e \notin (Queued \union batch)'
    BY DEF ExactlyOneFate
  <2>1. told[e] = IF fate[e] = NoFate THEN 0 ELSE 1
    BY DEF FateInv, ExactlyOneFate
  <2>2. CASE e \in S
    <3>0. e \in Queued \union batch /\ e \notin (Queued' \union batch')
      BY <2>2
    <3>1. /\ fate[e] = NoFate /\ told[e] = 0 /\ e \in submitted
          /\ e \notin (Queued' \union batch')
      BY <1>2, <2>1, <3>0
    <3>2. fate'[e] # NoFate /\ told'[e] = 1
      BY <1>1, <1>3, <2>2, <3>1
    <3> QED
      BY <3>1, <3>2
  <2>3. CASE e \notin S
    <3>1. fate'[e] = fate[e] /\ told'[e] = told[e]
      BY <1>1, <2>3
    <3>2. e \in (Queued' \union batch') <=> e \in Queued \union batch
      BY <2>3
    <3>3. /\ e \in submitted <=> fate[e] # NoFate \/ e \in Queued \union batch
          /\ fate[e] # NoFate => e \notin Queued \union batch
      BY <1>2
    <3> QED
      BY <2>1, <3>1, <3>2, <3>3
  <2> QED
    BY <2>2, <2>3
<1>5. FateIsTrue'
  <2> SUFFICES ASSUME NEW e \in Events
               PROVE  /\ fate'[e] = "stored" => e \in committed'
                      /\ fate'[e] \in Dropped =>
                           e \notin committed' /\ \A t \in tasks' : e \in t.ids => t.done
    BY DEF FateIsTrue
  <2>1. CASE e \in S
    BY <1>1, <2>1
  <2>2. CASE e \notin S
    <3>1. fate'[e] = fate[e]
      BY <1>1, <2>2
    <3>2. fate[e] \in Dropped => fate[e] # NoFate
      BY <1>3 DEF Outcomes
    <3>3. fate[e] \in Dropped => e \notin Queued \union batch
      BY <1>2, <3>2
    <3>4. /\ fate[e] = "stored" => e \in committed
          /\ fate[e] \in Dropped => e \notin committed /\ \A t \in tasks : e \in t.ids => t.done
      BY DEF FateInv, FateIsTrue
    <3>5. fate[e] \in Dropped => \A t \in tasks' : e \in t.ids => t.done
      BY <3>3, <3>4
    <3> QED
      BY <3>1, <3>4, <3>5
  <2> QED
    BY <2>1, <2>2
<1> QED
  BY <1>4, <1>5

(* An attempt at events no write task accounts for and the worker knows.    *)
LEMMA StartAttemptFates ==
  ASSUME PlaceInv, PlaceInv', FateInv,
         NEW B \in SUBSET (Queued \union batch), NEW n, NEW doubt,
         B \intersect Writing = {},
         B \intersect committed \subseteq doubt,
         B \union Queued' = Queued \union batch, Queued' \subseteq Queued,
         B \intersect Queued' = {},
         StartAttempt(B, n, doubt)
  PROVE  FateInv'
<1> DEFINE live == B \ expired
           gone == B \intersect expired
           outcome == [e \in Events |-> IF e \in doubt THEN "ack_unknown" ELSE "dropped_expired"]
<1>1. /\ Finish(gone, outcome) /\ batch' = live
      /\ answer' = {} /\ worker' \in {"loop", "writing"}
      /\ submitted' = submitted /\ committed' = committed
      /\ \A t \in tasks' : t \in tasks \/ t.ids = live
  BY DEF StartAttempt
<1>2. outcome \in [Events -> Outcomes]
  BY DEF Outcomes, Dropped
<1>3. /\ gone \in SUBSET (Queued \union batch) /\ live = B \ gone
      /\ Queued' \union batch' = (Queued \union batch) \ gone
  BY <1>1
<1>4. \A e \in gone : outcome[e] # "stored"
  BY DEF PlaceInv, TypeInv, TypeOK, ReservationsAccounted
<1>5. \A e \in gone : outcome[e] \in Dropped =>
                       e \notin committed /\ \A t \in tasks : e \in t.ids => t.done
  <2> SUFFICES ASSUME NEW e \in gone, outcome[e] \in Dropped
               PROVE  e \notin committed /\ \A t \in tasks : e \in t.ids => t.done
    OBVIOUS
  <2>1. e \in Events
    BY <1>3 DEF PlaceInv, TypeInv, TypeOK, ReservationsAccounted
  <2>2. e \notin doubt
    BY <2>1 DEF Dropped
  <2> QED
    BY <2>2, WritingMember
<1>6. \A t \in tasks' : t \in tasks \/ t.ids \subseteq (Queued \union batch) \ gone
  BY <1>1, <1>3
<1> HIDE DEF outcome
<1>7. ExactlyOneFate' /\ FateIsTrue'
  BY <1>1, <1>2, <1>3, <1>4, <1>5, <1>6, FinishedFates
<1>8. StoreKnown'
  BY <1>1 DEF StoreKnown, FateInv
<1> QED
  BY <1>7, <1>8 DEF FateInv

(* The end of the worker, with truthful outcomes.                           *)
LEMMA EndWorkerFates ==
  ASSUME PlaceInv, FateInv,
         NEW outcome \in [Events -> Outcomes], EndWorker(outcome),
         \A e \in Queued \union batch : outcome[e] = "stored" => e \in committed,
         \A e \in Queued \union batch : outcome[e] \in Dropped =>
            e \notin committed /\ \A t \in tasks : e \in t.ids => t.done
  PROVE  FateInv'
<1>1. Ending(pending) = Ending(Queued \union batch)
  BY DEF Ending, PlaceInv, ReservationsAccounted
<1>2. Kept(pending) = Kept(Queued \union batch)
  BY <1>1 DEF Kept
<1>3. Finish(Queued \union batch, outcome)
  BY <1>1, <1>2 DEF EndWorker, Finish
<1>4. /\ queue' = <<>> /\ batch' = {} /\ worker' = "idle" /\ answer' = {}
      /\ tasks' = tasks /\ submitted' = submitted /\ committed' = committed
  BY DEF EndWorker
<1>5. Queued' = {}
  BY <1>4 DEF Queued
<1>6. ExactlyOneFate' /\ FateIsTrue'
  BY <1>3, <1>4, <1>5, FinishedFates
<1>7. StoreKnown'
  BY <1>4, <1>5 DEF StoreKnown, FateInv
<1> QED
  BY <1>6, <1>7 DEF FateInv

(* Steps that settle nothing and leave the worker and the store alone.      *)
LEMMA SameFates ==
  ASSUME FateInv,
         UNCHANGED <<submitVars, fate, told, tasks, workerVars, committed>>
  PROVE  FateInv'
<1>1. Queued' = Queued
  BY DEF Queued, submitVars
<1>2. StoreKnown'
  BY <1>1 DEF FateInv, StoreKnown, Honest, submitVars, workerVars
<1>3. ExactlyOneFate' /\ FateIsTrue'
  BY <1>1 DEF FateInv, ExactlyOneFate, FateIsTrue, submitVars, workerVars
<1> QED
  BY <1>2, <1>3 DEF FateInv

(* In the beginning nothing has an outcome.                                 *)
LEMMA InitFates == Init => FateInv
<1> SUFFICES ASSUME Init PROVE FateInv
  OBVIOUS
<1>1. Queued = {}
  BY DEF Init, Queued
<1>2. \A e \in Events : fate[e] = NoFate /\ told[e] = 0
  BY DEF Init
<1>3. ExactlyOneFate /\ FateIsTrue
  BY <1>1, <1>2 DEF Init, ExactlyOneFate, FateIsTrue, NoFate, Dropped
<1>4. StoreKnown
  BY <1>1 DEF Init, StoreKnown
<1> QED
  BY <1>3, <1>4 DEF FateInv

(* Every step keeps the outcomes right.                                     *)
LEMMA NextFates == PlaceInv /\ FateInv /\ [Next]_vars => FateInv'
<1> SUFFICES ASSUME PlaceInv, FateInv, [Next]_vars PROVE FateInv'
  OBVIOUS
<1>0. PlaceInv' /\ TypeOK
  BY NextPlaces DEF PlaceInv, TypeInv
<1>1. ASSUME NEW e \in Events, Submit(e) PROVE FateInv'
  <2>1. e \notin submitted /\ e \notin Queued
    BY <1>1 DEF Submit, PlaceInv, Placed, ReservationsAccounted
  <2>2. Queued' = Queued \union {e}
    BY <1>0, <1>1, <2>1, QueueAppended DEF Submit, PlaceInv, Placed, TypeOK
  <2>3. /\ submitted' = submitted \union {e} /\ batch' = batch /\ tasks' = tasks
        /\ uncertain' = uncertain /\ answer' = answer /\ fate' = fate /\ told' = told
        /\ committed' = committed
        /\ worker' = IF worker = "idle" THEN "loop" ELSE worker
    BY <1>1 DEF Submit, WorkerAfterSubmit
  <2>4. fate[e] = NoFate
    BY <2>1 DEF FateInv, ExactlyOneFate
  <2>5. StoreKnown'
    BY <2>1, <2>2, <2>3 DEF FateInv, StoreKnown, Honest
  <2>6. ExactlyOneFate' /\ FateIsTrue'
    BY <2>1, <2>2, <2>3, <2>4 DEF FateInv, ExactlyOneFate, FateIsTrue
  <2> QED
    BY <2>5, <2>6 DEF FateInv
<1>2. CASE TakeBatch
  <2> DEFINE n == IF Len(queue) < BatchSize THEN Len(queue) ELSE BatchSize
             B == {queue[i] : i \in 1..n}
  <2>1. n \in Nat /\ n <= Len(queue) /\ B \in SUBSET Events
    BY <1>0, LimitsAssumption DEF TypeOK
  <2>2. queue' = SubSeq(queue, n + 1, Len(queue)) /\ StartAttempt(B, 1, {}) /\ batch = {}
    BY <1>2 DEF TakeBatch, PlaceInv, WorkerShape
  <2> HIDE DEF n
  <2>3. B \union Queued' = Queued /\ B \intersect Queued' = {}
    BY <1>0, <2>1, <2>2, QueueTaken DEF PlaceInv, Placed, TypeOK
  <2>4. B \intersect Writing = {} /\ B \intersect committed \subseteq {}
    BY <2>3 DEF PlaceInv, Placed, FateInv, StoreKnown
  <2> HIDE DEF B
  <2>5. /\ B \union Queued' = Queued \union batch /\ Queued' \subseteq Queued
        /\ B \in SUBSET (Queued \union batch)
    BY <2>2, <2>3
  <2> QED
    BY <1>0, <2>2, <2>3, <2>4, <2>5, StartAttemptFates
<1>3. CASE Retry
  <2>1. queue' = queue /\ StartAttempt(batch, attempt + 1, uncertain)
    BY <1>3 DEF Retry
  <2>2. Queued' = Queued
    BY <2>1 DEF Queued
  <2>3. batch \intersect Writing = {}
    BY <1>3, WritingMember DEF Retry, PlaceInv, WorkerShape, Current
  <2>4. batch \intersect committed \subseteq uncertain
    BY <1>3 DEF Retry, FateInv, StoreKnown
  <2>5. batch \intersect Queued' = {} /\ batch \in SUBSET (Queued \union batch)
    BY <2>2 DEF PlaceInv, Placed
  <2> QED
    BY <1>0, <2>1, <2>2, <2>3, <2>4, <2>5, StartAttemptFates
<1>4. CASE WaitTimeout
  <2> DEFINE outcome == [e \in Events |-> "ack_unknown"]
  <2>1. /\ Finish(batch, outcome) /\ batch' = {} /\ answer' = {} /\ worker' = "loop"
        /\ queue' = queue /\ submitted' = submitted /\ tasks' = tasks /\ committed' = committed
    BY <1>4 DEF WaitTimeout, submitVars
  <2>2. outcome \in [Events -> Outcomes]
    BY DEF Outcomes
  <2>3. \A e \in batch : outcome[e] # "stored" /\ outcome[e] \notin Dropped
    BY <1>0 DEF Dropped, TypeOK
  <2> HIDE DEF outcome
  <2>4. Queued' = Queued /\ Queued \intersect batch = {}
    BY <2>1 DEF Queued, PlaceInv, Placed
  <2>5. /\ batch \in SUBSET (Queued \union batch)
        /\ Queued' \union batch' = (Queued \union batch) \ batch
    BY <2>1, <2>4
  <2>6. ExactlyOneFate' /\ FateIsTrue'
    BY <2>1, <2>2, <2>3, <2>5, FinishedFates
  <2>7. StoreKnown'
    BY <2>1, <2>4 DEF FateInv, StoreKnown
  <2> QED
    BY <2>6, <2>7 DEF FateInv
<1>5. ASSUME NEW a \in answer, HandleAnswer(a) PROVE FateInv'
  <2> DEFINE stored  == batch \intersect Acknowledged(a)
             rest    == batch \ stored
             doubt   == uncertain \union InDoubt(a, rest)
             again   == rest # {} /\ MayRetry
             ending  == IF again THEN stored ELSE batch
             outcome == [e \in Events |-> IF e \in stored THEN "stored"
                                          ELSE IF e \in doubt THEN "ack_unknown"
                                          ELSE "dropped_retry_exhausted"]
  <2>1. /\ Finish(ending, outcome) /\ worker = "writing" /\ answer = {a} /\ answer' = {}
        /\ queue' = queue /\ submitted' = submitted /\ tasks' = tasks /\ committed' = committed
        /\ IF again THEN worker' = "retrying" /\ batch' = rest /\ uncertain' = doubt
                    ELSE worker' = "loop" /\ batch' = {}
    BY <1>5 DEF HandleAnswer, submitVars
  <2>2. outcome \in [Events -> Outcomes]
    BY DEF Outcomes, Dropped
  <2>3. Honest(a, batch)
    BY DEF FateInv, StoreKnown
  <2>4. stored \subseteq committed
    BY <2>3 DEF Honest, Acknowledged
  <2>5. rest \intersect committed \subseteq doubt
    BY <2>3 DEF Honest, InDoubt
  <2>6. \A t \in tasks : t.ids \intersect batch # {} => t.done
    BY <2>1 DEF PlaceInv, WorkerShape
  <2>7. \A e \in ending : outcome[e] = "stored" => e \in committed
    <3> SUFFICES ASSUME NEW e \in ending, outcome[e] = "stored" PROVE e \in committed
      OBVIOUS
    <3>1. e \in Events
      BY <1>0 DEF TypeOK
    <3>2. e \in stored
      BY <3>1
    <3> QED
      BY <2>4, <3>2
  <2>8. \A e \in ending : outcome[e] \in Dropped =>
                          e \notin committed /\ \A t \in tasks : e \in t.ids => t.done
    <3> SUFFICES ASSUME NEW e \in ending, outcome[e] \in Dropped
                 PROVE  e \notin committed /\ \A t \in tasks : e \in t.ids => t.done
      OBVIOUS
    <3>1. e \in Events /\ e \in batch
      BY <1>0 DEF TypeOK
    <3>2. e \in rest /\ e \notin doubt
      BY <3>1 DEF Dropped
    <3> HIDE DEF rest, doubt, stored, outcome, ending
    <3> QED
      BY <2>5, <2>6, <3>1, <3>2
  <2>9. ending \in SUBSET batch /\ batch' = batch \ ending
    BY <2>1
  <2>10. again => batch' \intersect committed \subseteq uncertain'
    BY <2>1, <2>5
  <2> HIDE DEF outcome, again, doubt, ending, rest, stored
  <2>11. Queued' = Queued /\ Queued \intersect batch = {}
    BY <2>1 DEF Queued, PlaceInv, Placed
  <2>12. /\ ending \in SUBSET (Queued \union batch)
         /\ Queued' \union batch' = (Queued \union batch) \ ending
    BY <2>9, <2>11
  <2>13. ExactlyOneFate' /\ FateIsTrue'
    BY <2>1, <2>2, <2>7, <2>8, <2>12, FinishedFates
  <2>14. StoreKnown'
    BY <2>1, <2>10, <2>11 DEF FateInv, StoreKnown
  <2> QED
    BY <2>13, <2>14 DEF FateInv
<1>6. CASE QueueEmpty
  <2>1. Queued = {} /\ batch = {}
    BY <1>6 DEF QueueEmpty, Queued, PlaceInv, WorkerShape
  <2> DEFINE outcome == [e \in Events |-> "dropped_shutdown"]
  <2>2. EndWorker(outcome) /\ outcome \in [Events -> Outcomes]
    BY <1>6 DEF QueueEmpty, Outcomes, Dropped
  <2> HIDE DEF outcome
  <2> QED
    BY <2>1, <2>2, EndWorkerFates
<1>7. CASE WorkerCancelled
  <2> DEFINE outcome == [e \in Events |->
                           IF e \in batch /\ (worker = "writing" \/ e \in uncertain)
                           THEN "ack_unknown" ELSE "dropped_shutdown"]
  <2>1. EndWorker(outcome) /\ outcome \in [Events -> Outcomes]
    BY <1>7 DEF WorkerCancelled, Outcomes, Dropped
  <2>2. worker = "writing" \/ worker = "retrying"
    BY <1>7 DEF WorkerCancelled
  <2>3. ASSUME NEW e \in Queued \union batch
        PROVE  /\ outcome[e] # "stored"
               /\ outcome[e] \in Dropped =>
                    e \notin committed /\ \A t \in tasks : e \in t.ids => t.done
    <3>1. e \in Events
      BY DEF PlaceInv, TypeInv, TypeOK, ReservationsAccounted
    <3>2. CASE e \in Queued
      <4>1. e \notin committed /\ e \notin Writing
        BY <3>2 DEF PlaceInv, Placed, FateInv, StoreKnown
      <4> QED
        BY <3>1, <4>1, WritingMember
    <3>3. CASE e \in batch /\ worker = "retrying" /\ e \notin uncertain
      <4>1. e \notin committed
        BY <3>3 DEF FateInv, StoreKnown
      <4>2. \A t \in tasks : e \in t.ids => t.done
        BY <3>3 DEF PlaceInv, WorkerShape, Current
      <4> QED
        BY <3>1, <4>1, <4>2
    <3>4. CASE e \in batch /\ (worker = "writing" \/ e \in uncertain)
      BY <3>1, <3>4 DEF Dropped
    <3> QED
      BY <2>2, <3>2, <3>3, <3>4
  <2> HIDE DEF outcome
  <2> QED
    BY <2>1, <2>3, EndWorkerFates
<1>8. ASSUME NEW t \in tasks, NEW S \in SUBSET t.ids, StoreCommit(t, S) PROVE FateInv'
  <2>1. /\ ~t.done /\ committed' = committed \union S /\ S \subseteq t.ids
        /\ UNCHANGED <<submitVars, fate, told, tasks, workerVars>>
    BY <1>8 DEF StoreCommit, finishVars
  <2>2. S \subseteq Writing /\ S \subseteq submitted /\ S \intersect Queued = {}
    BY <2>1, WritingMember DEF PlaceInv, Placed, ReservationsAccounted
  <2>3. worker = "retrying" \/ answer # {} => S \intersect batch = {}
    BY <2>1 DEF PlaceInv, WorkerShape, Current
  <2>4. Queued' = Queued
    BY <2>1 DEF Queued, submitVars
  <2>5. StoreKnown'
    BY <2>1, <2>2, <2>3, <2>4 DEF FateInv, StoreKnown, Honest, submitVars, workerVars
  <2>6. ExactlyOneFate' /\ FateIsTrue'
    BY <2>1, <2>4 DEF FateInv, ExactlyOneFate, FateIsTrue, submitVars, workerVars
  <2> QED
    BY <2>5, <2>6 DEF FateInv
<1>9. ASSUME NEW t \in tasks, NEW a \in Answers(t.ids), StoreAnswer(t, a) PROVE FateInv'
  <2> DEFINE u == [t EXCEPT !.done = TRUE]
  <2>1. u.ids = t.ids /\ u.done = TRUE
    BY <1>0 DEF TypeOK, Tasks
  <2>2. /\ tasks' = (tasks \ {t}) \union {u} /\ Honest(a, t.ids)
        /\ answer' = (IF Current(t) THEN {a} ELSE answer)
        /\ UNCHANGED <<submitVars, fate, told, worker, batch, uncertain, committed>>
    BY <1>9 DEF StoreAnswer, finishVars
  <2> HIDE DEF u
  <2>3. Queued' = Queued
    BY <2>2 DEF Queued, submitVars
  <2>4. ExactlyOneFate' /\ FateIsTrue'
    BY <2>1, <2>2, <2>3 DEF FateInv, ExactlyOneFate, FateIsTrue, submitVars
  <2>5. StoreKnown'
    BY <2>2, <2>3 DEF FateInv, StoreKnown, Honest, Current, submitVars
  <2> QED
    BY <2>4, <2>5 DEF FateInv
<1>10. ASSUME NEW t \in tasks, WriteDone(t) PROVE FateInv'
  <2>1. /\ tasks' = tasks \ {t}
        /\ UNCHANGED <<submitVars, fate, told, workerVars, committed>>
    BY <1>10 DEF WriteDone
  <2>2. Queued' = Queued
    BY <2>1 DEF Queued, submitVars
  <2>3. ExactlyOneFate' /\ FateIsTrue'
    BY <2>1, <2>2 DEF FateInv, ExactlyOneFate, FateIsTrue, submitVars, workerVars
  <2>4. StoreKnown'
    BY <2>1, <2>2 DEF FateInv, StoreKnown, Honest, submitVars, workerVars
  <2> QED
    BY <2>3, <2>4 DEF FateInv
<1>11. ASSUME NEW e \in Events, Expire(e) PROVE FateInv'
  BY <1>11, SameFates DEF Expire, finishVars
<1>12. ASSUME NEW c \in Callers, Flush(c) \/ FlushWoken(c) \/ FlushDone(c) PROVE FateInv'
  BY <1>12, SameFates DEF Flush, FlushWoken, FlushDone, finishVars
<1>13. CASE Close \/ CloseStep
  BY <1>13, SameFates
  DEF Close, CloseStep, CloseFlushed, CloseTimeout, CloseCancelled, finishVars
<1>14. CASE UNCHANGED vars
  BY <1>14, SameFates DEF vars, finishVars
<1> QED
  BY <1>1, <1>2, <1>3, <1>4, <1>5, <1>6, <1>7, <1>8, <1>9, <1>10, <1>11, <1>12,
     <1>13, <1>14
  DEF Next, WorkerStep, StoreStep

(* The places and the outcomes are right always.                            *)
LEMMA FatesAlways == Spec => [](PlaceInv /\ FateInv)
<1>1. Init => PlaceInv /\ FateInv
  BY InitPlaces, InitFates
<1>2. PlaceInv /\ FateInv /\ [Next]_vars => PlaceInv' /\ FateInv'
  BY NextPlaces, NextFates
<1> QED
  BY <1>1, <1>2, PTL DEF Spec

(* No accepted event is lost, and none is settled or told twice.            *)
THEOREM EveryEventHasOneFate == Spec => []ExactlyOneFate
<1>1. FateInv => ExactlyOneFate
  BY DEF FateInv
<1> QED
  BY <1>1, FatesAlways, PTL

(* "stored" is only said of events the store holds, and a dropped event is  *)
(* not in the store and cannot come to be: whatever the store does, as long *)
(* as a BatchResult that does not contradict itself is true.                *)
THEOREM FatesAreTrue == Spec => []FateIsTrue
<1>1. FateInv => FateIsTrue
  BY DEF FateInv
<1> QED
  BY <1>1, FatesAlways, PTL

-----------------------------------------------------------------------------
(* The collector implements EventFate                                       *)

(* Settling truthfully is a step of EventFate.                              *)
LEMMA SettleStep ==
  ASSUME PlaceInv, FateInv, FateInv',
         NEW S \in SUBSET (Queued \union batch),
         NEW outcome \in [Events -> Outcomes], Finish(S, outcome),
         submitted' = submitted, committed' = committed,
         known' \in {known, FALSE},
         (\E e \in S : outcome[e] = "ack_unknown") => ~known',
         \A e \in S : outcome[e] \in Dropped => e \notin committed
  PROVE  Promise!Next
<1>1. fate' = [e \in Events |-> IF e \in S THEN outcome[e] ELSE fate[e]]
  BY FinishFates
<1>2. S \in SUBSET Events
  BY DEF PlaceInv, TypeInv, TypeOK, ReservationsAccounted
<1>3. \A e \in S : fate[e] = NoFate /\ e \in submitted
  BY <1>2 DEF FateInv, ExactlyOneFate
<1>4. NoFate \notin Outcomes
  BY DEF NoFate, Outcomes, Dropped
<1> DEFINE given == [e \in S |-> outcome[e]]
<1>5. given \in [S -> Promise!Outcomes]
  BY <1>2 DEF Outcomes, Dropped, Promise!Outcomes, Promise!Dropped
<1>6. \A e \in S : /\ Life[e] = "open"
                   /\ given[e] = "stored" => e \in committed
                   /\ given[e] \in Promise!Dropped => e \notin committed
  <2>1. \A e \in S : Life[e] = "open"
    BY <1>2, <1>3 DEF Life
  <2>2. \A e \in S : given[e] = "stored" => e \in committed
    <3> SUFFICES ASSUME NEW e \in S, outcome[e] = "stored" PROVE e \in committed
      OBVIOUS
    <3>1. fate'[e] = "stored"
      BY <1>1, <1>2
    <3> QED
      BY <1>2, <3>1 DEF FateInv, FateIsTrue
  <2>3. \A e \in S : given[e] \in Promise!Dropped => e \notin committed
    BY DEF Dropped, Promise!Dropped
  <2> QED
    BY <2>1, <2>2, <2>3
<1>7. Life' = [e \in Events |-> IF e \in S THEN given[e] ELSE Life[e]]
  <2>1. ASSUME NEW e \in Events
        PROVE  (IF fate'[e] # NoFate THEN fate'[e] ELSE IF e \in submitted' THEN "open" ELSE "new")
                 = IF e \in S THEN given[e] ELSE Life[e]
    <3>1. CASE e \in S
      BY <1>1, <1>4, <3>1
    <3>2. CASE e \notin S
      BY <1>1, <3>2 DEF Life
    <3> QED
      BY <3>1, <3>2
  <2> QED
    BY <2>1 DEF Life
<1>8. (\E e \in S : given[e] = "ack_unknown") => ~known'
  OBVIOUS
<1>9. Promise!Settle(S, given)
  BY <1>6, <1>7, <1>8 DEF Promise!Settle
<1> HIDE DEF given
<1> QED
  BY <1>2, <1>5, <1>9 DEF Promise!Next

(* Steps that settle nothing.                                               *)
LEMMA StutterStep ==
  ASSUME UNCHANGED <<submitted, fate, committed, known>>
  PROVE  UNCHANGED Promise!vars
  BY DEF Promise!vars, Life

(* completeness_known once more events have their outcome.                  *)
LEMMA KnownStep ==
  ASSUME PlaceInv, NEW S \in SUBSET (Queued \union batch), NEW outcome,
         known' = KnownAfter(S, outcome)
  PROVE  /\ known' \in {known, FALSE}
         /\ (\E e \in S : outcome[e] = "ack_unknown") => ~known'
<1>1. Ending(S) = S
  BY DEF Ending, PlaceInv, ReservationsAccounted
<1>2. known \in BOOLEAN
  BY DEF PlaceInv, TypeInv, TypeOK
<1> QED
  BY <1>1, <1>2 DEF KnownAfter

(* In the beginning nothing was promised.                                   *)
LEMMA InitPromise == Init => Promise!Init
<1> SUFFICES ASSUME Init PROVE Promise!Init
  OBVIOUS
<1>1. Life = [e \in Events |-> "new"]
  BY DEF Init, Life
<1> QED
  BY <1>1 DEF Init, Promise!Init

(* Every step of the collector is a step of the promise, or none.           *)
LEMMA NextPromise ==
  PlaceInv /\ FateInv /\ [Next]_vars => [Promise!Next]_(Promise!vars)
<1> SUFFICES ASSUME PlaceInv, FateInv, [Next]_vars
             PROVE  Promise!Next \/ UNCHANGED Promise!vars
  OBVIOUS
<1>0. FateInv' /\ PlaceInv' /\ TypeOK
  BY NextFates, NextPlaces DEF PlaceInv, TypeInv
<1>1. ASSUME NEW e \in Events, Submit(e) PROVE Promise!Next
  <2>1. e \notin submitted /\ fate[e] = NoFate
    BY <1>1 DEF Submit, FateInv, ExactlyOneFate
  <2>2. submitted' = submitted \union {e} /\ fate' = fate /\ UNCHANGED <<committed, known>>
    BY <1>1 DEF Submit
  <2>3. Life[e] = "new"
    BY <2>1 DEF Life
  <2>4. Life' = [Life EXCEPT ![e] = "open"]
    BY <2>1, <2>2 DEF Life
  <2>5. Promise!Accept(e)
    BY <2>2, <2>3, <2>4 DEF Promise!Accept
  <2> QED
    BY <2>5 DEF Promise!Next
<1>2. ASSUME NEW B \in SUBSET (Queued \union batch), NEW n, NEW doubt,
             StartAttempt(B, n, doubt), B \intersect committed \subseteq doubt
      PROVE  Promise!Next
  <2> DEFINE S == B \intersect expired
             outcome == [e \in Events |-> IF e \in doubt THEN "ack_unknown" ELSE "dropped_expired"]
  <2>1. /\ Finish(S, outcome) /\ known' = KnownAfter(S, outcome)
        /\ submitted' = submitted /\ committed' = committed
    BY <1>2 DEF StartAttempt
  <2>2. S \in SUBSET (Queued \union batch) /\ outcome \in [Events -> Outcomes]
    BY DEF Outcomes, Dropped
  <2>3. \A e \in S : outcome[e] \in Dropped => e \notin committed
    <3> SUFFICES ASSUME NEW e \in S, outcome[e] \in Dropped PROVE e \notin committed
      OBVIOUS
    <3>1. e \in Events
      BY DEF PlaceInv, TypeInv, TypeOK, ReservationsAccounted
    <3>2. e \notin doubt
      BY <3>1 DEF Dropped
    <3> QED
      BY <1>2, <3>2
  <2> HIDE DEF S, outcome
  <2>4. known' \in {known, FALSE} /\ ((\E e \in S : outcome[e] = "ack_unknown") => ~known')
    BY <2>1, <2>2, KnownStep
  <2> QED
    BY <1>0, <2>1, <2>2, <2>3, <2>4, SettleStep
<1>3. CASE TakeBatch
  <2> DEFINE n == IF Len(queue) < BatchSize THEN Len(queue) ELSE BatchSize
             B == {queue[i] : i \in 1..n}
  <2>1. n \in Nat /\ n <= Len(queue)
    BY <1>0, LimitsAssumption DEF TypeOK
  <2>2. B \subseteq Queued
    BY <1>0, <2>1 DEF Queued, TypeOK
  <2>3. StartAttempt(B, 1, {})
    BY <1>3 DEF TakeBatch
  <2> HIDE DEF B
  <2>4. B \intersect committed \subseteq {} /\ B \in SUBSET (Queued \union batch)
    BY <2>2 DEF FateInv, StoreKnown
  <2> QED
    BY <1>2, <2>3, <2>4
<1>4. CASE Retry
  <2>1. /\ StartAttempt(batch, attempt + 1, uncertain)
        /\ batch \intersect committed \subseteq uncertain
    BY <1>4 DEF Retry, FateInv, StoreKnown
  <2> QED
    BY <1>2, <2>1
<1>5. CASE WaitTimeout
  <2> DEFINE outcome == [e \in Events |-> "ack_unknown"]
  <2>1. /\ Finish(batch, outcome) /\ known' = KnownAfter(batch, outcome)
        /\ submitted' = submitted /\ committed' = committed
    BY <1>5 DEF WaitTimeout, submitVars
  <2>2. batch \in SUBSET (Queued \union batch) /\ outcome \in [Events -> Outcomes]
    BY DEF Outcomes
  <2>3. \A e \in batch : outcome[e] \notin Dropped
    BY <1>0 DEF Dropped, TypeOK
  <2> HIDE DEF outcome
  <2>4. known' \in {known, FALSE} /\ ((\E e \in batch : outcome[e] = "ack_unknown") => ~known')
    BY <2>1, <2>2, KnownStep
  <2> QED
    BY <1>0, <2>1, <2>2, <2>3, <2>4, SettleStep
<1>6. ASSUME NEW a \in answer, HandleAnswer(a) PROVE Promise!Next
  <2> DEFINE stored  == batch \intersect Acknowledged(a)
             rest    == batch \ stored
             doubt   == uncertain \union InDoubt(a, rest)
             again   == rest # {} /\ MayRetry
             ending  == IF again THEN stored ELSE batch
             outcome == [e \in Events |-> IF e \in stored THEN "stored"
                                          ELSE IF e \in doubt THEN "ack_unknown"
                                          ELSE "dropped_retry_exhausted"]
  <2>1. /\ Finish(ending, outcome) /\ known' = KnownAfter(ending, outcome)
        /\ submitted' = submitted /\ committed' = committed
    BY <1>6 DEF HandleAnswer, submitVars
  <2>2. ending \in SUBSET (Queued \union batch) /\ outcome \in [Events -> Outcomes]
    BY DEF Outcomes, Dropped
  <2>3. rest \intersect committed \subseteq doubt
    BY DEF FateInv, StoreKnown, Honest, InDoubt
  <2>4. \A e \in ending : outcome[e] \in Dropped => e \notin committed
    <3> SUFFICES ASSUME NEW e \in ending, outcome[e] \in Dropped PROVE e \notin committed
      OBVIOUS
    <3>1. e \in Events /\ e \in batch
      BY <1>0 DEF TypeOK
    <3>2. e \in rest /\ e \notin doubt
      BY <3>1 DEF Dropped
    <3> QED
      BY <2>3, <3>2
  <2> HIDE DEF ending, outcome
  <2>5. known' \in {known, FALSE} /\ ((\E e \in ending : outcome[e] = "ack_unknown") => ~known')
    BY <2>1, <2>2, KnownStep
  <2> QED
    BY <1>0, <2>1, <2>2, <2>4, <2>5, SettleStep
<1>7. CASE QueueEmpty
  <2>1. batch = {} /\ Queued = {}
    BY <1>7 DEF QueueEmpty, Queued, PlaceInv, WorkerShape
  <2>2. Ending(pending) = {}
    BY <2>1 DEF Ending, PlaceInv, ReservationsAccounted
  <2>3. fate' = [e \in Events |-> fate[e]] /\ known' = known
    BY <1>0, <1>7, <2>2 DEF QueueEmpty, EndWorker, Finish, KnownAfter, TypeOK
  <2>4. fate' = fate
    BY <1>0, <2>3 DEF TypeOK
  <2> QED
    BY <1>7, <2>3, <2>4, StutterStep DEF QueueEmpty, EndWorker
<1>8. CASE WorkerCancelled
  <2> DEFINE S == Queued \union batch
             outcome == [e \in Events |->
                           IF e \in batch /\ (worker = "writing" \/ e \in uncertain)
                           THEN "ack_unknown" ELSE "dropped_shutdown"]
  <2>1. EndWorker(outcome) /\ outcome \in [Events -> Outcomes] /\ known' = FALSE
    BY <1>8 DEF WorkerCancelled, Outcomes, Dropped
  <2>2. Finish(S, outcome)
    <3>1. Ending(pending) = Ending(S)
      BY DEF Ending, PlaceInv, ReservationsAccounted
    <3>2. Kept(pending) = Kept(S)
      BY <3>1 DEF Kept
    <3> QED
      BY <2>1, <3>1, <3>2 DEF EndWorker, Finish
  <2>3. \A e \in S : outcome[e] \in Dropped => e \notin committed
    <3> SUFFICES ASSUME NEW e \in S, outcome[e] \in Dropped PROVE e \notin committed
      OBVIOUS
    <3>1. e \in Events
      BY DEF PlaceInv, TypeInv, TypeOK, ReservationsAccounted
    <3>2. ~(e \in batch /\ (worker = "writing" \/ e \in uncertain))
      BY <3>1 DEF Dropped
    <3> QED
      BY <1>8, <3>2 DEF WorkerCancelled, FateInv, StoreKnown
  <2>4. submitted' = submitted /\ committed' = committed
    BY <2>1 DEF EndWorker
  <2> HIDE DEF outcome
  <2> QED
    BY <1>0, <2>1, <2>2, <2>3, <2>4, SettleStep
<1>9. ASSUME NEW t \in tasks, NEW S \in SUBSET t.ids, StoreCommit(t, S) PROVE Promise!Next
  <2>1. /\ ~t.done /\ S \intersect committed = {} /\ committed' = committed \union S
        /\ UNCHANGED <<submitted, fate, known>>
    BY <1>9 DEF StoreCommit, submitVars, finishVars
  <2>2. S \in SUBSET Events /\ S \subseteq submitted
    BY <1>0, WritingMember DEF TypeOK, Tasks, PlaceInv, Placed, ReservationsAccounted
  <2>3. \A e \in S : fate[e] \in {NoFate, "ack_unknown"}
    <3> SUFFICES ASSUME NEW e \in S PROVE fate[e] \in {NoFate, "ack_unknown"}
      OBVIOUS
    <3>1. fate[e] \in Outcomes \union {NoFate}
      BY <1>0, <2>2 DEF TypeOK
    <3>2. fate[e] # "stored"
      BY <2>1, <2>2 DEF FateInv, FateIsTrue
    <3>3. fate[e] \notin Dropped
      BY <2>1, <2>2 DEF FateInv, FateIsTrue
    <3> QED
      BY <3>1, <3>2, <3>3 DEF Outcomes
  <2>4. \A e \in S : Life[e] \in {"open", "ack_unknown"}
    BY <2>2, <2>3 DEF Life
  <2>5. Life' = Life
    BY <2>1 DEF Life
  <2>6. Promise!Persist(S)
    BY <2>1, <2>4, <2>5 DEF Promise!Persist
  <2> QED
    BY <2>2, <2>6 DEF Promise!Next
<1>10. CASE CloseTimeout
  <2>1. known' = FALSE /\ UNCHANGED <<submitted, fate, committed>>
    BY <1>10 DEF CloseTimeout, submitVars, finishVars
  <2> DEFINE none == [e \in {} |-> "stored"]
  <2>2. none \in [{} -> Promise!Outcomes]
    OBVIOUS
  <2>3. Life' = Life /\ Life = [e \in Events |-> IF e \in {} THEN none[e] ELSE Life[e]]
    BY <2>1 DEF Life
  <2> HIDE DEF none
  <2>4. Promise!Settle({}, none)
    BY <2>1, <2>3 DEF Promise!Settle
  <2> QED
    BY <2>2, <2>4 DEF Promise!Next
<1>11. ASSUME \/ \E t \in tasks : (\E a \in Answers(t.ids) : StoreAnswer(t, a)) \/ WriteDone(t)
              \/ \E e \in Events : Expire(e)
              \/ \E c \in Callers : Flush(c) \/ FlushWoken(c) \/ FlushDone(c)
              \/ Close \/ CloseFlushed \/ CloseCancelled
       PROVE  UNCHANGED Promise!vars
  BY <1>11, StutterStep
  DEF StoreAnswer, WriteDone, Expire, Flush, FlushWoken, FlushDone, Close, CloseFlushed,
      CloseCancelled, submitVars, finishVars
<1>12. CASE UNCHANGED vars
  BY <1>12, StutterStep DEF vars, submitVars, finishVars
<1> QED
  BY <1>1, <1>3, <1>4, <1>5, <1>6, <1>7, <1>8, <1>9, <1>10, <1>11, <1>12
  DEF Next, WorkerStep, StoreStep, CloseStep

(* Every behaviour of the collector is a behaviour of EventFate, for every  *)
(* set of events, every limit and every store: each accepted event gets one *)
(* outcome and keeps it, "stored" and the drops are true for ever, and an   *)
(* unknown outcome is never hidden from completeness_known.                 *)
THEOREM CollectorKeepsPromise == Spec => KeepsPromise
<1>1. Init => Promise!Init
  BY InitPromise
<1>2. PlaceInv /\ FateInv /\ [Next]_vars => [Promise!Next]_(Promise!vars)
  BY NextPromise
<1> QED
  BY <1>1, <1>2, FatesAlways, PTL DEF Spec, KeepsPromise, Promise!Spec

-----------------------------------------------------------------------------
(* Neither flush() nor close() returns too early                            *)

(* What a flush() call waits a write task by.                               *)
Key(t) == [ids |-> t.ids, attempt |-> t.attempt]

(* When the worker of its time is over, the events of a flush() call are    *)
(* settled; what is left of them is in the writes it waits for.             *)
FlushedBy(c) ==
  /\ flushed[c] \subseteq submitted
  /\ flushAt[c] \in {"woken", "writes", "done"} => flushed[c] \intersect (Queued \union batch) = {}
  /\ flushAt[c] = "writes" =>
       \A t \in tasks : t.ids \intersect flushed[c] # {} => Key(t) \in awaited[c]
  /\ flushAt[c] = "done" => flushed[c] \intersect pending = {}

FlushInv == \A c \in Callers : FlushedBy(c)

(* The progress of close(): no worker starts any more, and it is only       *)
(* cancelled at one of its awaits.                                          *)
ClosingInv ==
  /\ closing # "no" => closed
  /\ cancelled => closing = "cancelling" /\ worker \in {"writing", "retrying"}
  /\ closing = "cancelling" => cancelled \/ worker = "idle"
  /\ closing \in {"true", "false"} => worker = "idle"
  /\ closing = "true" => tasks = {}
  /\ closing = "flushing" =>
       /\ flushAt[Closer] \in {"woken", "writes", "done"} => worker = "idle"
       /\ flushAt[Closer] = "writes" => \A t \in tasks : Key(t) \in awaited[Closer]
       /\ flushAt[Closer] = "done" => tasks = {}

(* Only a close() that ran out of time drops, and forgets completeness.     *)
DroppingInv ==
  /\ (\E e \in Events : fate[e] = "dropped_shutdown") => closing \in {"cancelling", "false"}
  /\ known => closing \notin {"cancelling", "false"}

(* What every step but submit() does to the events that are not settled.    *)
Moved ==
  /\ Queued' \union batch' \subseteq Queued \union batch
  /\ pending' \subseteq pending /\ submitted' = submitted
  /\ \A t \in tasks' : \/ t.ids \subseteq Queued \union batch /\ worker # "idle"
                       \/ \E s \in tasks : Key(s) = Key(t)
  /\ worker = "idle" => worker' = "idle"

(* An attempt only writes the events it is given.                           *)
LEMMA AttemptMoves ==
  ASSUME NEW B \in SUBSET (Queued \union batch), NEW n, NEW doubt, StartAttempt(B, n, doubt),
         Queued' \subseteq Queued, worker # "idle"
  PROVE  Moved
<1>1. pending' \subseteq pending /\ batch' \subseteq B /\ submitted' = submitted
  BY DEF StartAttempt, Finish
<1>2. tasks' \subseteq tasks \union {[ids |-> B \ expired, attempt |-> n, done |-> FALSE]}
  BY DEF StartAttempt
<1> QED
  BY <1>1, <1>2 DEF Moved, Key

(* The end of the worker leaves nothing that is not settled.                *)
LEMMA EndMoves == ASSUME NEW outcome, EndWorker(outcome) PROVE Moved
  BY DEF EndWorker, Finish, Queued, Moved, Key

(* Every step but a submission moves events between places only.            *)
LEMMA Moves == PlaceInv /\ Next => Moved \/ \E e \in Events : Submit(e)
<1> SUFFICES ASSUME PlaceInv, Next, \A e \in Events : ~Submit(e) PROVE Moved
  OBVIOUS
<1>1. CASE TakeBatch
  <2> DEFINE n == IF Len(queue) < BatchSize THEN Len(queue) ELSE BatchSize
             B == {queue[i] : i \in 1..n}
  <2>1. n \in Nat /\ n <= Len(queue) /\ queue \in Seq(Events)
    BY LimitsAssumption DEF PlaceInv, TypeInv, TypeOK
  <2>2. queue' = SubSeq(queue, n + 1, Len(queue)) /\ StartAttempt(B, 1, {}) /\ worker # "idle"
    BY <1>1 DEF TakeBatch
  <2> HIDE DEF n
  <2>3. B \union Queued' = Queued
    BY <2>1, <2>2, QueueTaken DEF PlaceInv, Placed
  <2> HIDE DEF B
  <2> QED
    BY <2>2, <2>3, AttemptMoves
<1>2. CASE Retry
  <2>1. Queued' = Queued /\ StartAttempt(batch, attempt + 1, uncertain) /\ worker # "idle"
    BY <1>2 DEF Retry, Queued
  <2> QED
    BY <2>1, AttemptMoves
<1>3. CASE WaitTimeout
  BY <1>3 DEF WaitTimeout, Finish, Moved, Key, Queued, submitVars
<1>4. ASSUME NEW a \in answer, HandleAnswer(a) PROVE Moved
  <2>1. /\ pending' \subseteq pending /\ batch' \subseteq batch /\ worker # "idle"
        /\ UNCHANGED <<submitted, queue, tasks>>
    BY <1>4 DEF HandleAnswer, Finish, submitVars
  <2> QED
    BY <2>1 DEF Moved, Key, Queued
<1>5. CASE QueueEmpty \/ WorkerCancelled
  BY <1>5, EndMoves DEF QueueEmpty, WorkerCancelled
<1>6. ASSUME NEW t \in tasks, NEW S \in SUBSET t.ids, StoreCommit(t, S) PROVE Moved
  BY <1>6 DEF StoreCommit, Moved, Key, Queued, submitVars, finishVars, workerVars
<1>7. ASSUME NEW t \in tasks, NEW a \in Answers(t.ids), StoreAnswer(t, a) PROVE Moved
  <2>1. UNCHANGED <<submitted, queue, batch, pending, worker>>
    BY <1>7 DEF StoreAnswer, submitVars, finishVars
  <2>2. t \in Tasks
    BY DEF PlaceInv, TypeInv, TypeOK
  <2>3. Key([t EXCEPT !.done = TRUE]) = Key(t)
    BY <2>2 DEF Key, Tasks
  <2>4. tasks' = (tasks \ {t}) \union {[t EXCEPT !.done = TRUE]}
    BY <1>7 DEF StoreAnswer
  <2>5. \A s \in tasks' : \E r \in tasks : Key(r) = Key(s)
    BY <2>3, <2>4
  <2> QED
    BY <2>1, <2>5 DEF Moved, Queued
<1>8. ASSUME NEW t \in tasks, WriteDone(t) PROVE Moved
  BY <1>8 DEF WriteDone, Moved, Key, Queued, submitVars, workerVars
<1>9. ASSUME NEW e \in Events, Expire(e) PROVE Moved
  BY <1>9 DEF Expire, Moved, Key, Queued, submitVars, finishVars, workerVars
<1>10. ASSUME NEW c \in Callers, Flush(c) \/ FlushWoken(c) \/ FlushDone(c) PROVE Moved
  BY <1>10
  DEF Flush, FlushWoken, FlushDone, Moved, Key, Queued, submitVars, finishVars, workerVars
<1>11. CASE Close \/ CloseStep
  BY <1>11
  DEF Close, CloseStep, CloseFlushed, CloseTimeout, CloseCancelled, Moved, Key, Queued,
              submitVars, finishVars, workerVars
<1> QED
  BY <1>1, <1>2, <1>3, <1>4, <1>5, <1>6, <1>7, <1>8, <1>9, <1>10, <1>11
  DEF Next, WorkerStep, StoreStep

-----------------------------------------------------------------------------
(* A flush() call that stays where it is.                                   *)
LEMMA FlushStays ==
  ASSUME NEW c \in Callers, FlushedBy(c), Moved,
         flushAt'[c] = flushAt[c], flushed'[c] = flushed[c], awaited'[c] = awaited[c]
  PROVE  FlushedBy(c)'
<1>1. ASSUME flushAt[c] = "writes", NEW t \in tasks', t.ids \intersect flushed[c] # {}
      PROVE  Key(t) \in awaited[c]
  <2>1. ~(t.ids \subseteq Queued \union batch)
    BY <1>1 DEF FlushedBy
  <2>2. PICK s \in tasks : Key(s) = Key(t)
    BY <2>1 DEF Moved
  <2>3. s.ids = t.ids
    BY <2>2 DEF Key
  <2> QED
    BY <1>1, <2>2, <2>3 DEF FlushedBy
<1>2. flushed[c] \subseteq submitted'
  BY DEF FlushedBy, Moved
<1>3. flushAt[c] \in {"woken", "writes", "done"} =>
        flushed[c] \intersect (Queued' \union batch') = {}
  BY DEF FlushedBy, Moved
<1>4. flushAt[c] = "done" => flushed[c] \intersect pending' = {}
  BY DEF FlushedBy, Moved
<1> QED
  BY <1>1, <1>2, <1>3, <1>4 DEF FlushedBy, Key

(* The second half of flush(), when nothing of its is queued any more.      *)
LEMMA AwaitsWrites ==
  ASSUME PlaceInv, NEW c \in Callers, AwaitWrites(c),
         flushAt \in [Callers -> {"no", "worker", "woken", "writes", "done"}],
         awaited \in [Callers -> SUBSET [ids : SUBSET Events, attempt : 1..MaxAttempts]],
         NEW S, flushed'[c] = S, S \subseteq submitted, S \intersect (Queued \union batch) = {},
         UNCHANGED <<submitted, queue, pending, batch, tasks>>
  PROVE  FlushedBy(c)'
<1>1. /\ flushAt'[c] = (IF tasks = {} THEN "done" ELSE "writes")
      /\ awaited'[c] = {Key(t) : t \in tasks}
  BY DEF AwaitWrites, Key
<1>2. tasks = {} => pending \subseteq Queued \union batch
  BY DEF PlaceInv, ReservationsAccounted, Writing
<1>3. Queued' = Queued
  BY DEF Queued
<1> QED
  BY <1>1, <1>2, <1>3 DEF FlushedBy, Key

(* Every step keeps what the calls of flush() wait for.                     *)
LEMMA NextFlush == PlaceInv /\ FlushInv /\ [Next]_vars => FlushInv'
<1> SUFFICES ASSUME PlaceInv, FlushInv, [Next]_vars, NEW d \in Callers PROVE FlushedBy(d)'
  BY DEF FlushInv
<1> USE DEF FlushInv
<1>0. /\ flushAt \in [Callers -> {"no", "worker", "woken", "writes", "done"}]
      /\ flushed \in [Callers -> SUBSET Events]
      /\ awaited \in [Callers -> SUBSET [ids : SUBSET Events, attempt : 1..MaxAttempts]]
      /\ pending \subseteq submitted /\ (worker = "idle" => Queued \union batch = {})
  BY DEF PlaceInv, TypeInv, TypeOK, Placed, WorkerShape, Queued
<1>1. CASE \E e \in Events : Submit(e)
  <2>1. PICK e \in Events : Submit(e)
    BY <1>1
  <2>2. e \notin submitted /\ e \notin Queued
    BY <2>1 DEF Submit, PlaceInv, ReservationsAccounted
  <2>3. Queued' = Queued \union {e}
    BY <2>1, <2>2, QueueAppended DEF Submit, PlaceInv, Placed, TypeInv, TypeOK
  <2>4. /\ submitted' = submitted \union {e} /\ pending' = pending \union {e}
        /\ UNCHANGED <<batch, tasks, flushAt, flushed, awaited>>
    BY <2>1 DEF Submit, closeVars
  <2> QED
    BY <2>2, <2>3, <2>4 DEF FlushedBy
<1>2. CASE Moved /\ UNCHANGED <<flushAt, flushed, awaited>>
  BY <1>2, FlushStays
<1>3. ASSUME NEW outcome, EndWorker(outcome) PROVE FlushedBy(d)'
  <2>0. Moved /\ batch' = {} /\ flushed' = flushed /\ awaited' = awaited /\ queue' = <<>>
    BY <1>3, EndMoves DEF EndWorker
  <2>1. Moved /\ Queued' = {} /\ batch' = {} /\ flushed' = flushed /\ awaited' = awaited
    BY <2>0 DEF Queued
  <2>2. CASE flushAt[d] = "worker"
    <3>1. flushAt'[d] = "woken"
      BY <1>3, <2>2 DEF EndWorker
    <3> QED
      BY <2>1, <3>1 DEF FlushedBy, Moved
  <2>3. CASE flushAt[d] # "worker"
    <3>1. flushAt'[d] = flushAt[d]
      BY <1>3, <2>3 DEF EndWorker
    <3> QED
      BY <2>1, <3>1, FlushStays
  <2> QED
    BY <2>2, <2>3
<1>4. ASSUME NEW c \in Callers, StartFlush(c), Moved,
             UNCHANGED <<submitted, queue, pending, batch, tasks>>
      PROVE  FlushedBy(d)'
  <2>1. flushed' = [flushed EXCEPT ![c] = pending]
    BY <1>4 DEF StartFlush
  <2>2. CASE d # c
    BY <1>0, <1>4, <2>1, <2>2, FlushStays DEF StartFlush, AwaitWrites
  <2>3. CASE d = c /\ worker = "idle"
    <3>1. pending \subseteq submitted /\ pending \intersect (Queued \union batch) = {}
      BY <1>0, <2>3
    <3>2. flushed'[c] = pending /\ AwaitWrites(c)
      BY <1>0, <1>4, <2>1, <2>3 DEF StartFlush
    <3> QED
      BY <1>0, <1>4, <2>3, <3>1, <3>2, AwaitsWrites
  <2>4. CASE d = c /\ worker # "idle"
    <3>1. flushAt'[d] = "worker" /\ flushed'[d] = pending
      BY <1>0, <1>4, <2>1, <2>4 DEF StartFlush
    <3> QED
      BY <1>0, <1>4, <3>1 DEF FlushedBy
  <2> QED
    BY <2>2, <2>3, <2>4
<1>5. ASSUME NEW c \in Callers, FlushWoken(c), Moved PROVE FlushedBy(d)'
  <2>1. UNCHANGED <<submitted, queue, pending, batch, tasks, flushed>>
    BY <1>5 DEF FlushWoken, submitVars, finishVars, workerVars
  <2>2. CASE d # c
    BY <1>0, <1>5, <2>1, <2>2, FlushStays DEF FlushWoken, AwaitWrites
  <2>3. CASE d = c
    <3>1. flushed[c] \subseteq submitted /\ flushed[c] \intersect (Queued \union batch) = {}
      BY <1>5 DEF FlushWoken, FlushedBy
    <3>2. flushed'[c] = flushed[c] /\ AwaitWrites(c)
      BY <1>5, <2>1 DEF FlushWoken
    <3> QED
      BY <1>0, <2>1, <2>3, <3>1, <3>2, AwaitsWrites
  <2> QED
    BY <2>2, <2>3
<1>6. ASSUME NEW c \in Callers, FlushDone(c), Moved PROVE FlushedBy(d)'
  <2>1. UNCHANGED <<submitted, queue, pending, batch, tasks, flushed, awaited>>
    BY <1>6 DEF FlushDone, submitVars, finishVars, workerVars
  <2>2. CASE d # c
    BY <1>0, <1>6, <2>1, <2>2, FlushStays DEF FlushDone
  <2>3. CASE d = c
    <3>1. flushed[c] \intersect Writing = {}
      BY <1>6, WritingMember DEF FlushDone, FlushedBy, Key
    <3>2. flushed[c] \intersect pending = {}
      BY <1>6, <3>1 DEF FlushDone, FlushedBy, PlaceInv, ReservationsAccounted
    <3>3. flushAt'[c] = "done" /\ Queued' = Queued
      BY <1>0, <1>6, <2>1 DEF FlushDone, Queued
    <3> QED
      BY <1>6, <2>1, <2>3, <3>2, <3>3 DEF FlushDone, FlushedBy
  <2> QED
    BY <2>2, <2>3
<1>7. CASE CloseTimeout /\ Moved
  <2>1. UNCHANGED <<flushed, awaited>> /\ flushAt' = [flushAt EXCEPT ![Closer] = "no"]
    BY <1>7 DEF CloseTimeout
  <2>2. CASE d # Closer
    BY <1>0, <1>7, <2>1, <2>2, FlushStays
  <2>3. CASE d = Closer
    <3>1. flushAt'[d] = "no"
      BY <1>0, <2>1, <2>3
    <3> QED
      BY <1>7, <2>1, <3>1 DEF FlushedBy, Moved
  <2> QED
    BY <2>2, <2>3
<1>8. ASSUME Next, Moved PROVE FlushedBy(d)'
  <2>1. CASE TakeBatch \/ Retry
    BY <1>2, <1>8, <2>1 DEF TakeBatch, Retry, StartAttempt, closeVars
  <2>2. CASE WaitTimeout
    BY <1>2, <1>8, <2>2 DEF WaitTimeout, closeVars
  <2>3. ASSUME NEW a \in answer, HandleAnswer(a) PROVE FlushedBy(d)'
    BY <1>2, <1>8, <2>3 DEF HandleAnswer, closeVars
  <2>4. CASE QueueEmpty \/ WorkerCancelled
    BY <1>3, <2>4 DEF QueueEmpty, WorkerCancelled
  <2>5. ASSUME NEW t \in tasks, StoreStep(t) \/ WriteDone(t) PROVE FlushedBy(d)'
    BY <1>2, <1>8, <2>5 DEF StoreStep, StoreCommit, StoreAnswer, WriteDone, closeVars
  <2>6. ASSUME NEW e \in Events, Expire(e) PROVE FlushedBy(d)'
    BY <1>2, <1>8, <2>6 DEF Expire, closeVars
  <2>7. ASSUME NEW c \in Callers, Flush(c) PROVE FlushedBy(d)'
    BY <1>4, <1>8, <2>7 DEF Flush, submitVars, finishVars, workerVars
  <2>8. CASE Close
    BY <1>4, <1>8, <2>8, CallersAssumption DEF Close, submitVars, finishVars, workerVars
  <2>9. CASE CloseFlushed \/ CloseCancelled
    BY <1>2, <1>8, <2>9 DEF CloseFlushed, CloseCancelled
  <2>10. ASSUME NEW e \in Events, Submit(e) PROVE FlushedBy(d)'
    BY <1>1, <2>10
  <2> QED
    BY <1>5, <1>6, <1>7, <1>8, <2>1, <2>2, <2>3, <2>4, <2>5, <2>6, <2>7, <2>8, <2>9, <2>10
    DEF Next, WorkerStep, CloseStep
<1>9. CASE UNCHANGED vars
  <2>1. Moved /\ UNCHANGED <<flushAt, flushed, awaited>>
    BY <1>9 DEF vars, submitVars, finishVars, workerVars, closeVars, Moved, Key, Queued
  <2> QED
    BY <1>2, <2>1
<1> QED
  BY <1>1, <1>8, <1>9, Moves

-----------------------------------------------------------------------------
(* close() and what it drops                                                *)

(* A step that leaves the stages of close() alone.                          *)
LEMMA ClosingStays ==
  ASSUME ClosingInv, Moved, UNCHANGED <<closed, closing, cancelled, flushAt, awaited>>,
         cancelled => worker' = worker
  PROVE  ClosingInv'
<1>1. worker = "idle" => worker' = "idle" /\ \A t \in tasks' : \E s \in tasks : Key(s) = Key(t)
  BY DEF Moved
<1>2. worker = "idle" /\ tasks = {} => tasks' = {}
  BY <1>1
<1>3. closing \in {"true", "flushing"} =>
        \/ ~(flushAt[Closer] \in {"woken", "writes", "done"}) /\ closing = "flushing"
        \/ worker = "idle"
  BY DEF ClosingInv
<1>4. closing = "flushing" /\ flushAt[Closer] = "writes" =>
        \A t \in tasks' : Key(t) \in awaited[Closer]
  BY <1>1, <1>3 DEF ClosingInv
<1> QED
  BY <1>1, <1>2, <1>3, <1>4 DEF ClosingInv, Key

(* Every step keeps what close() has reached.                               *)
LEMMA NextClosing == PlaceInv /\ ClosingInv /\ [Next]_vars => ClosingInv'
<1> SUFFICES ASSUME PlaceInv, ClosingInv, [Next]_vars PROVE ClosingInv'
  OBVIOUS
<1>0. /\ flushAt \in [Callers -> {"no", "worker", "woken", "writes", "done"}]
      /\ awaited \in [Callers -> SUBSET [ids : SUBSET Events, attempt : 1..MaxAttempts]]
      /\ Closer \in Callers
  BY CallersAssumption DEF PlaceInv, TypeInv, TypeOK
<1>1. ASSUME NEW e \in Events, Submit(e) PROVE ClosingInv'
  BY <1>1 DEF Submit, WorkerAfterSubmit, closeVars, ClosingInv, Key
<1>2. CASE Moved /\ TakeBatch
  BY <1>2, ClosingStays DEF TakeBatch, StartAttempt, closeVars, ClosingInv
<1>3. CASE Moved /\ Retry
  BY <1>3, ClosingStays DEF Retry, StartAttempt, closeVars
<1>4. CASE Moved /\ WaitTimeout
  BY <1>4, ClosingStays DEF WaitTimeout, closeVars
<1>5. ASSUME Moved, NEW a \in answer, HandleAnswer(a) PROVE ClosingInv'
  BY <1>5, ClosingStays DEF HandleAnswer, closeVars
<1>6. ASSUME NEW outcome, EndWorker(outcome), worker # "idle" PROVE ClosingInv'
  <2>1. /\ worker' = "idle" /\ ~cancelled' /\ UNCHANGED <<closed, closing, tasks, awaited>>
        /\ flushAt'[Closer] = IF flushAt[Closer] = "worker" THEN "woken" ELSE flushAt[Closer]
    BY <1>0, <1>6 DEF EndWorker
  <2> QED
    BY <1>6, <2>1 DEF ClosingInv, Key
<1>7. ASSUME Moved, NEW t \in tasks, StoreStep(t) \/ WriteDone(t) PROVE ClosingInv'
  BY <1>7, ClosingStays
  DEF StoreStep, StoreCommit, StoreAnswer, WriteDone, closeVars, workerVars
<1>8. ASSUME Moved, NEW e \in Events, Expire(e) PROVE ClosingInv'
  BY <1>8, ClosingStays DEF Expire, closeVars, workerVars
<1>9. ASSUME NEW c \in Callers, Flush(c) PROVE ClosingInv'
  <2>1. flushAt'[Closer] = flushAt[Closer] /\ awaited'[Closer] = awaited[Closer]
    BY <1>0, <1>9 DEF Flush, StartFlush, AwaitWrites
  <2> QED
    BY <1>9, <2>1 DEF Flush, submitVars, workerVars, ClosingInv, Key
<1>10. ASSUME NEW c \in Callers, FlushWoken(c) PROVE ClosingInv'
  <2>1. UNCHANGED <<worker, cancelled, closed, closing, tasks>> /\ AwaitWrites(c)
    BY <1>10 DEF FlushWoken, workerVars
  <2>2. CASE c # Closer
    <3>1. flushAt'[Closer] = flushAt[Closer] /\ awaited'[Closer] = awaited[Closer]
      BY <1>0, <2>1, <2>2 DEF AwaitWrites
    <3> QED
      BY <2>1, <3>1 DEF ClosingInv, Key
  <2>3. CASE c = Closer
    <3>1. /\ flushAt[Closer] = "woken" /\ flushAt'[Closer] \in {"writes", "done"}
          /\ flushAt'[Closer] = "done" => tasks = {}
          /\ awaited'[Closer] = {Key(t) : t \in tasks}
      BY <1>0, <1>10, <2>1, <2>3 DEF FlushWoken, AwaitWrites, Key
    <3> QED
      BY <2>1, <3>1 DEF ClosingInv, Key
  <2> QED
    BY <2>2, <2>3
<1>11. ASSUME NEW c \in Callers, FlushDone(c) PROVE ClosingInv'
  <2>1. UNCHANGED <<worker, cancelled, closed, closing, tasks, awaited>>
    BY <1>11 DEF FlushDone, workerVars
  <2>2. CASE c # Closer
    <3>1. flushAt'[Closer] = flushAt[Closer]
      BY <1>0, <1>11, <2>2 DEF FlushDone
    <3> QED
      BY <2>1, <3>1 DEF ClosingInv, Key
  <2>3. CASE c = Closer
    <3>1. flushAt[Closer] = "writes" /\ flushAt'[Closer] = "done"
      BY <1>0, <1>11, <2>3 DEF FlushDone
    <3>2. closing = "flushing" => tasks = {}
      BY <1>11, <2>3, <3>1 DEF FlushDone, ClosingInv, Key
    <3> QED
      BY <2>1, <3>1, <3>2 DEF ClosingInv, Key
  <2> QED
    BY <2>2, <2>3
<1>12. CASE Close
  <2>1. closing' = "flushing" /\ closed' /\ UNCHANGED <<worker, cancelled, tasks>> /\ ~cancelled
    BY <1>12 DEF Close, ClosingInv, workerVars
  <2>2. /\ worker # "idle" => flushAt'[Closer] = "worker"
        /\ worker = "idle" => /\ flushAt'[Closer] \in {"writes", "done"}
                              /\ flushAt'[Closer] = "done" => tasks = {}
                              /\ awaited'[Closer] = {Key(t) : t \in tasks}
    BY <1>0, <1>12 DEF Close, StartFlush, AwaitWrites, Key
  <2> QED
    BY <2>1, <2>2 DEF ClosingInv, Key
<1>13. CASE CloseFlushed
  BY <1>13 DEF CloseFlushed, ClosingInv, workerVars
<1>14. CASE CloseTimeout
  <2>1. worker \in {"idle", "writing", "retrying"}
    BY <1>14 DEF CloseTimeout, PlaceInv, TypeInv, TypeOK
  <2> QED
    BY <1>14, <2>1 DEF CloseTimeout, TimerRuns, ClosingInv, workerVars
<1>15. CASE CloseCancelled
  BY <1>15 DEF CloseCancelled, ClosingInv, workerVars
<1>16. CASE UNCHANGED vars
  BY <1>16 DEF vars, workerVars, closeVars, ClosingInv, Key
<1>17. Next => Moved \/ \E e \in Events : Submit(e)
  BY Moves
<1>18. QueueEmpty \/ WorkerCancelled => ClosingInv'
  BY <1>6 DEF QueueEmpty, WorkerCancelled
<1> QED
  BY <1>1, <1>2, <1>3, <1>4, <1>5, <1>7, <1>8, <1>9, <1>10, <1>11, <1>12, <1>13,
     <1>14, <1>15, <1>16, <1>17, <1>18
  DEF Next, WorkerStep, CloseStep

(* The outcomes a step gives, and what it does to the stages of close().    *)
LEMMA DroppingStays ==
  ASSUME DroppingInv, closing' = closing \/ (closing = "cancelling" /\ closing' = "false"),
         known' => known,
         \A e \in Events : fate'[e] = "dropped_shutdown" => fate[e] = "dropped_shutdown"
  PROVE  DroppingInv'
  BY DEF DroppingInv

(* Every step keeps what a close() out of time gives up.                    *)
LEMMA NextDropping == PlaceInv /\ ClosingInv /\ DroppingInv /\ [Next]_vars => DroppingInv'
<1> SUFFICES ASSUME PlaceInv, ClosingInv, DroppingInv, [Next]_vars PROVE DroppingInv'
  OBVIOUS
<1>0. known \in BOOLEAN
  BY DEF PlaceInv, TypeInv, TypeOK
<1>1. ASSUME NEW B, NEW n, NEW doubt, StartAttempt(B, n, doubt) PROVE DroppingInv'
  <2>1. closing' = closing /\ (known' => known)
    BY <1>1 DEF StartAttempt, KnownAfter, closeVars
  <2>2. \A e \in Events : fate'[e] = "dropped_shutdown" => fate[e] = "dropped_shutdown"
    BY <1>1 DEF StartAttempt, Finish
  <2> QED
    BY <2>1, <2>2, DroppingStays
<1>2. CASE WaitTimeout
  <2>1. closing' = closing /\ (known' => known)
    BY <1>2 DEF WaitTimeout, KnownAfter, closeVars
  <2>2. \A e \in Events : fate'[e] = "dropped_shutdown" => fate[e] = "dropped_shutdown"
    BY <1>2 DEF WaitTimeout, Finish
  <2> QED
    BY <2>1, <2>2, DroppingStays
<1>3. ASSUME NEW a \in answer, HandleAnswer(a) PROVE DroppingInv'
  <2>1. closing' = closing /\ (known' => known)
    BY <1>3 DEF HandleAnswer, KnownAfter, closeVars
  <2>2. \A e \in Events : fate'[e] = "dropped_shutdown" => fate[e] = "dropped_shutdown"
    BY <1>3 DEF HandleAnswer, Finish
  <2> QED
    BY <2>1, <2>2, DroppingStays
<1>4. CASE QueueEmpty
  <2>1. Ending(pending) = {}
    BY <1>4 DEF QueueEmpty, Ending, PlaceInv, WorkerShape, ReservationsAccounted, Queued
  <2>2. closing' = closing /\ (known' => known)
    BY <1>4 DEF QueueEmpty, EndWorker, KnownAfter
  <2>3. \A e \in Events : fate'[e] = fate[e]
    BY <1>4, <2>1 DEF QueueEmpty, EndWorker, Finish
  <2> QED
    BY <2>2, <2>3, DroppingStays
<1>5. CASE WorkerCancelled
  BY <1>5 DEF WorkerCancelled, EndWorker, ClosingInv, DroppingInv
<1>6. CASE UNCHANGED <<closing, known, fate>>
  BY <1>6 DEF DroppingInv
<1>7. ASSUME NEW e \in Events, Submit(e) \/ Expire(e)
      PROVE UNCHANGED <<closing, known, fate>>
  BY <1>7 DEF Submit, Expire, closeVars, finishVars
<1>8. ASSUME NEW t \in tasks, StoreStep(t) \/ WriteDone(t)
      PROVE UNCHANGED <<closing, known, fate>>
  BY <1>8 DEF StoreStep, StoreCommit, StoreAnswer, WriteDone, closeVars, finishVars
<1>9. ASSUME NEW c \in Callers, Flush(c) \/ FlushWoken(c) \/ FlushDone(c)
      PROVE  UNCHANGED <<closing, known, fate>>
  BY <1>9 DEF Flush, FlushWoken, FlushDone, finishVars
<1>10. CASE Close \/ CloseFlushed
  <2>1. /\ known' = known /\ fate' = fate
        /\ closing \in {"no", "flushing"} /\ closing' \in {"flushing", "true"}
    BY <1>10 DEF Close, CloseFlushed, finishVars
  <2> QED
    BY <2>1 DEF DroppingInv
<1>11. CASE CloseTimeout
  BY <1>11 DEF CloseTimeout, finishVars, DroppingInv
<1>12. CASE CloseCancelled
  BY <1>12, DroppingStays DEF CloseCancelled, finishVars
<1>13. CASE UNCHANGED vars
  BY <1>6, <1>13 DEF vars, finishVars, closeVars
<1>14. TakeBatch \/ Retry => DroppingInv'
  BY <1>1 DEF TakeBatch, Retry
<1> QED
  BY <1>2, <1>3, <1>4, <1>5, <1>6, <1>7, <1>8, <1>9, <1>10, <1>11, <1>12, <1>13, <1>14
  DEF Next, WorkerStep, CloseStep

(* What flush() and close() rely on holds always.                           *)
LEMMA SettlingAlways == Spec => [](FlushInv /\ ClosingInv /\ DroppingInv)
<1>1. Init => FlushInv /\ ClosingInv /\ DroppingInv
  BY CallersAssumption
  DEF Init, FlushInv, FlushedBy, ClosingInv, DroppingInv, Queued, NoFate
<1> QED
  BY <1>1, PlacesAlways, NextFlush, NextClosing, NextDropping, PTL DEF Spec

(* When flush() returns, all that was accepted before it was called has its *)
(* outcome and its reservation back, however many workers come and go.      *)
THEOREM FlushIsComplete == Spec => []FlushSettlesEarlier
<1>1. FlushInv => FlushSettlesEarlier
  BY DEF FlushInv, FlushedBy, FlushSettlesEarlier
<1> QED
  BY <1>1, SettlingAlways, PTL

(* When close() returns, every accepted event has its outcome; it returned  *)
(* True only if nothing is left, and nothing is dropped for it in time.     *)
THEOREM CloseIsComplete == Spec => []CloseSettlesAll
<1>1. PlaceInv /\ FateInv /\ ClosingInv /\ DroppingInv => CloseSettlesAll
  <2> SUFFICES ASSUME PlaceInv, FateInv, ClosingInv, DroppingInv PROVE CloseSettlesAll
    OBVIOUS
  <2>1. worker = "idle" => Queued = {} /\ batch = {}
    BY DEF PlaceInv, WorkerShape, Queued
  <2>2. worker = "idle" => \A e \in submitted : fate[e] # NoFate
    BY <2>1 DEF FateInv, ExactlyOneFate, PlaceInv, TypeInv, TypeOK
  <2>3. tasks = {} => finished = {}
    BY DEF PlaceInv, ReservationsAccounted, Writing
  <2>4. closing = "true" => pending = {}
    BY <2>1, <2>3 DEF ClosingInv, PlaceInv, ReservationsAccounted
  <2> QED
    BY <2>2, <2>4 DEF ClosingInv, DroppingInv, CloseSettlesAll
<1> QED
  BY <1>1, FatesAlways, SettlingAlways, PTL
=============================================================================
