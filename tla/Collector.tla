----------------------------- MODULE Collector -----------------------------
(***************************************************************************)
(* BoundedCollector (collection/collector.py): the bounded queue, the one   *)
(* asyncio worker that writes it to the event store in batches, the retries *)
(* of a batch, the write tasks that outlive the worker's patience, flush    *)
(* and close.                                                               *)
(*                                                                         *)
(* asyncio runs one task at a time, from await to await, so a Python        *)
(* function between two awaits is one action.  The worker's code between    *)
(* two of its awaits is cut at the head of its loop (`while self._queue`,   *)
(* program counter "loop"), where this model also lets other tasks run.     *)
(*                                                                         *)
(* Time is abstracted to the set of events that have outlived               *)
(* max_age_seconds; timers may fire at any moment.  The counters are left   *)
(* out, except the outcome of every event and how many times it was told    *)
(* to on_outcome.                                                           *)
(*                                                                         *)
(* An operator whose name has a suffix after "_" is a plausible bug: it is  *)
(* used by no definition, and stands for the operator it precedes when the  *)
(* properties are tested against it.                                        *)
(***************************************************************************)
EXTENDS Integers, Sequences, FiniteSets

CONSTANTS
  Events,        \* ids of the comparison events that may be submitted
  MaxEvents,     \* CollectionLimits.max_events
  MaxBytes,      \* CollectionLimits.max_bytes
  BatchSize,     \* CollectionLimits.batch_size
  MaxAttempts,   \* CollectionLimits.max_attempts
  Weight,        \* Weight[S]: the bytes of the payloads of the events in S
  Callers        \* callers of flush(); the caller Closer is the flush inside close()

Closer == "close"

(* CollectionLimits.__post_init__ refuses counts that are not positive.     *)
ASSUME LimitsAssumption ==
  /\ MaxEvents   \in Nat \ {0}
  /\ MaxBytes    \in Nat \ {0}
  /\ BatchSize   \in Nat \ {0}
  /\ MaxAttempts \in Nat \ {0}

ASSUME EventsAssumption == IsFiniteSet(Events)

(* The payload size of a set of events is the sum of their sizes.           *)
ASSUME WeightAssumption ==
  /\ Weight \in [SUBSET Events -> Nat]
  /\ Weight[{}] = 0
  /\ \A S, T \in SUBSET Events :
       S \intersect T = {} => Weight[S \union T] = Weight[S] + Weight[T]

ASSUME CallersAssumption == Closer \in Callers

Dropped  == {"dropped_expired", "dropped_retry_exhausted", "dropped_shutdown"}
Outcomes == {"stored", "ack_unknown"} \union Dropped
NoFate   == "none"

(* A write task: the events of its batch, the attempt that made it, and     *)
(* whether write_batch has returned or raised (its done callback still to   *)
(* run).                                                                    *)
Tasks == [ids : SUBSET Events, attempt : 1..MaxAttempts, done : BOOLEAN]

(* What a write_batch call for the events ids may say: the three sets of a  *)
(* BatchResult.  A call that raises is the answer the worker substitutes    *)
(* for it: all unknown.                                                     *)
Answers(ids) == [acknowledged : SUBSET ids, failed : SUBSET ids, unknown : SUBSET ids]

VARIABLES
  submitted,   \* events whose _delivery.submitted is set
  expired,     \* events older than max_age_seconds
  queue,       \* _queue
  pending,     \* keys of _pending: the events that hold a reservation
  bytes,       \* _bytes
  finished,    \* _finished: events with an outcome whose write still runs
  tasks,       \* the write tasks still in _writes
  fate,        \* outcome given to each event by _finish
  told,        \* how many times on_outcome was called for each event
  known,       \* completeness_known
  worker,      \* "idle" (none, or done), "loop", "writing", "retrying"
  cancelled,   \* worker.cancel() was called and has not yet been delivered
  batch,       \* _write: batch
  attempt,     \* _write: attempt, from 1
  uncertain,   \* _write: uncertain
  answer,      \* {}, or what the worker's own write task said, once it is done
  closed,      \* _closed
  closing,     \* the close() call: "no", "flushing", "cancelling", "true", "false"
  flushAt,     \* where each flush() call is: "no", "worker", "woken", "writes", "done"
  flushed,     \* the events that held a reservation when the flush() call began
  awaited,     \* the write tasks each flush() call waits for
  committed    \* external: the events the store holds

submitVars == <<submitted, queue>>
finishVars == <<pending, bytes, finished, fate, told>>
workerVars == <<worker, batch, attempt, uncertain, answer>>
closeVars  == <<closed, closing, flushAt, flushed, awaited>>
vars == <<submitVars, expired, finishVars, known, tasks, workerVars, cancelled,
          closeVars, committed>>

-----------------------------------------------------------------------------
Queued == {queue[i] : i \in DOMAIN queue}

(* Keys of _writes: the events some write task still accounts for.          *)
Writing == UNION {t.ids : t \in tasks}

(* The write task of the worker's current attempt.                          *)
Current(t) == worker = "writing" /\ t.ids = batch /\ t.attempt = attempt

Init ==
  /\ submitted = {} /\ expired = {} /\ queue = <<>>
  /\ pending = {} /\ bytes = 0 /\ finished = {}
  /\ fate = [e \in Events |-> NoFate] /\ told = [e \in Events |-> 0]
  /\ known = TRUE /\ tasks = {}
  /\ worker = "idle" /\ cancelled = FALSE
  /\ batch = {} /\ attempt = 1 /\ uncertain = {} /\ answer = {}
  /\ closed = FALSE /\ closing = "no"
  /\ flushAt = [c \in Callers |-> "no"]
  /\ flushed = [c \in Callers |-> {}]
  /\ awaited = [c \in Callers |-> {}]
  /\ committed = {}

-----------------------------------------------------------------------------
(* submit() and the settling of events                                      *)

HasRoom(e) ==
  /\ Cardinality(pending) < MaxEvents
  /\ bytes + Weight[{e}] <= MaxBytes

(* submit() makes a worker unless one is alive.                             *)
WorkerAfterSubmit_OnlyFirst ==
  IF worker = "idle" /\ submitted = {} THEN "loop" ELSE worker

WorkerAfterSubmit == IF worker = "idle" THEN "loop" ELSE worker

(* submit() returning TRUE.  Its refusals change nothing but counters.      *)
Submit(e) ==
  /\ e \notin submitted /\ e \notin pending
  /\ ~closed
  /\ HasRoom(e)
  /\ e \notin expired
  /\ submitted' = submitted \union {e}
  /\ queue' = Append(queue, e)
  /\ pending' = pending \union {e}
  /\ bytes' = bytes + Weight[{e}]
  /\ worker' = WorkerAfterSubmit
  /\ UNCHANGED <<expired, finished, fate, told, known, tasks, cancelled, batch,
                 attempt, uncertain, answer, closeVars, committed>>

(* The events of S that _finish settles: those it has not settled before.   *)
Ending_Again(S) == S \intersect pending

Ending(S) == {e \in S : e \in pending /\ e \notin finished}

(* Of those, the ones whose reservation outlives their outcome, because a   *)
(* write task still accounts for them.                                      *)
Kept(S) == Ending(S) \intersect Writing

(* _finish for every event of S: the outcome is final at once.              *)
Finish(S, outcome) ==
  LET ending == Ending(S)
      gone   == ending \ Kept(S)
  IN  /\ finished' = finished \union Kept(S)
      /\ pending' = pending \ gone
      /\ bytes' = bytes - Weight[gone]
      /\ fate' = [e \in Events |-> IF e \in ending THEN outcome[e] ELSE fate[e]]
      /\ told' = [e \in Events |-> IF e \in ending THEN told[e] + 1 ELSE told[e]]

(* completeness_known after those outcomes: an unknown one clears it.       *)
KnownAfter(S, outcome) == known /\ \A e \in Ending(S) : outcome[e] # "ack_unknown"

(* max_age_seconds pass since the event was created.  Nobody reads the age  *)
(* of an event that has its outcome.                                        *)
Expire(e) ==
  /\ e \notin expired /\ fate[e] = NoFate
  /\ expired' = expired \union {e}
  /\ UNCHANGED <<submitVars, finishVars, known, tasks, workerVars, cancelled,
                 closeVars, committed>>

-----------------------------------------------------------------------------
(* The worker: _run and _write                                              *)

(* The head of an attempt at the events of B: those that expired are        *)
(* settled, and a write task is made for the others, if any.                *)
StartAttempt(B, n, doubt) ==
  LET live    == B \ expired
      outcome == [e \in Events |-> IF e \in doubt THEN "ack_unknown" ELSE "dropped_expired"]
  IN  /\ Finish(B \intersect expired, outcome)
      /\ known' = KnownAfter(B \intersect expired, outcome)
      /\ IF live = {}
         THEN /\ worker' = "loop" /\ batch' = {} /\ attempt' = 1 /\ uncertain' = {}
              /\ UNCHANGED tasks
         ELSE /\ worker' = "writing" /\ batch' = live /\ attempt' = n
              /\ uncertain' = doubt
              /\ tasks' = tasks \union {[ids |-> live, attempt |-> n, done |-> FALSE]}
      /\ answer' = {}
      /\ UNCHANGED <<submitted, expired, cancelled, closeVars, committed>>

(* _run takes the first events of the queue and calls _write with them.     *)
TakeBatch ==
  LET n == IF Len(queue) < BatchSize THEN Len(queue) ELSE BatchSize
  IN  /\ worker = "loop" /\ queue # <<>>
      /\ queue' = SubSeq(queue, n + 1, Len(queue))
      /\ StartAttempt({queue[i] : i \in 1..n}, 1, {})

(* The retry delay is over.  The done callback of the previous write was    *)
(* scheduled before the delay began, so it has run.                         *)
Retry ==
  /\ worker = "retrying" /\ ~cancelled
  /\ \A t \in tasks : t.ids \intersect batch # {} => ~t.done
  /\ UNCHANGED queue
  /\ StartAttempt(batch, attempt + 1, uncertain)

(* The wait is over before the write is: the whole batch is in doubt, and   *)
(* the write task is left running.                                          *)
WaitTimeout_TriesAgain ==
  /\ worker = "writing" /\ ~cancelled
  /\ answer = {}
  /\ attempt < MaxAttempts
  /\ worker' = "retrying" /\ uncertain' = batch
  /\ UNCHANGED <<submitVars, expired, finishVars, known, tasks, batch, attempt, answer,
                 cancelled, closeVars, committed>>

WaitTimeout ==
  LET outcome == [e \in Events |-> "ack_unknown"]
  IN  /\ worker = "writing" /\ ~cancelled
      /\ answer = {}
      /\ Finish(batch, outcome)
      /\ known' = KnownAfter(batch, outcome)
      /\ worker' = "loop" /\ batch' = {} /\ attempt' = 1 /\ uncertain' = {}
      /\ UNCHANGED <<submitVars, expired, tasks, answer, cancelled, closeVars, committed>>

(* The events a BatchResult says are stored, and says it without            *)
(* contradicting itself.                                                    *)
Acknowledged(a) == (a.acknowledged \ a.failed) \ a.unknown

(* The events of a batch that a BatchResult leaves in doubt.                *)
InDoubt_SilenceIsFailure(a, rest) == rest \intersect a.unknown

InDoubt(a, rest) ==
  {e \in rest : e \notin a.failed \/ e \in a.unknown \/ e \in a.acknowledged}

(* Another attempt follows this one.                                        *)
MayRetry == attempt < MaxAttempts

(* The write is over: acknowledged events are stored, the others are tried  *)
(* again or, after the last attempt, given up.                              *)
HandleAnswer(a) ==
  LET stored     == batch \intersect Acknowledged(a)
      rest       == batch \ stored
      doubt      == uncertain \union InDoubt(a, rest)
      again      == rest # {} /\ MayRetry
      ending     == IF again THEN stored ELSE batch
      outcome    == [e \in Events |-> IF e \in stored THEN "stored"
                                     ELSE IF e \in doubt THEN "ack_unknown"
                                     ELSE "dropped_retry_exhausted"]
  IN  /\ worker = "writing" /\ ~cancelled
      /\ answer = {a}
      /\ Finish(ending, outcome)
      /\ known' = KnownAfter(ending, outcome)
      /\ IF again
         THEN /\ worker' = "retrying" /\ batch' = rest /\ uncertain' = doubt
              /\ UNCHANGED attempt
         ELSE worker' = "loop" /\ batch' = {} /\ attempt' = 1 /\ uncertain' = {}
      /\ answer' = {}
      /\ UNCHANGED <<submitVars, expired, tasks, cancelled, closeVars, committed>>

(* The worker is done: the finally block of _run settles whatever still     *)
(* holds a reservation, and flush() calls waiting for it wake up.           *)
EndWorker(outcome) ==
  /\ Finish(pending, outcome)
  /\ queue' = <<>>
  /\ worker' = "idle" /\ batch' = {} /\ attempt' = 1 /\ uncertain' = {}
  /\ answer' = {} /\ cancelled' = FALSE
  /\ flushAt' = [c \in Callers |-> IF flushAt[c] = "worker" THEN "woken" ELSE flushAt[c]]
  /\ UNCHANGED <<submitted, expired, tasks, closed, closing, flushed, awaited, committed>>

QueueEmpty ==
  LET outcome == [e \in Events |-> "dropped_shutdown"]
  IN  /\ worker = "loop" /\ queue = <<>>
      /\ known' = KnownAfter(pending, outcome)
      /\ EndWorker(outcome)

(* CancelledError reaches the worker at one of its awaits.                  *)
WorkerCancelled ==
  LET outcome == [e \in Events |->
                    IF e \in batch /\ (worker = "writing" \/ e \in uncertain)
                    THEN "ack_unknown" ELSE "dropped_shutdown"]
  IN  /\ cancelled
      /\ worker \in {"writing", "retrying"}
      /\ known' = FALSE
      /\ EndWorker(outcome)

-----------------------------------------------------------------------------
(* The write tasks, run by an external EventStore                           *)

(* The store makes some events of a running write durable.                  *)
StoreCommit(t, S) ==
  /\ ~t.done /\ S # {} /\ S \subseteq t.ids \ committed
  /\ committed' = committed \union S
  /\ UNCHANGED <<submitVars, expired, finishVars, known, tasks, workerVars, cancelled,
                 closeVars>>

(* What a store may say of a write that made only the events of committed   *)
(* durable: an event it reports in one set only is what it says it is.      *)
Honest(a, ids) ==
  \A e \in ids \ a.unknown :
    /\ e \in a.acknowledged \ a.failed => e \in committed
    /\ e \in a.failed \ a.acknowledged => e \notin committed

(* write_batch returns a BatchResult, or raises.                            *)
StoreAnswer(t, a) ==
  /\ ~t.done
  /\ Honest(a, t.ids)
  /\ tasks' = (tasks \ {t}) \union {[t EXCEPT !.done = TRUE]}
  /\ answer' = IF Current(t) THEN {a} ELSE answer
  /\ UNCHANGED <<submitVars, expired, finishVars, known, worker, batch, attempt,
                 uncertain, cancelled, closeVars, committed>>

(* The reservations returned when the write task t is over.                 *)
Returned(t) == t.ids \intersect finished

(* _write_done: the reservations of the settled events of the batch go.     *)
WriteDone(t) ==
  /\ t.done
  /\ tasks' = tasks \ {t}
  /\ finished' = finished \ Returned(t)
  /\ pending' = pending \ Returned(t)
  /\ bytes' = bytes - Weight[Returned(t)]
  /\ UNCHANGED <<submitVars, expired, fate, told, known, workerVars, cancelled,
                 closeVars, committed>>

-----------------------------------------------------------------------------
(* flush() and close()                                                      *)

(* The second half of flush(): wait for the writes that are running now.    *)
AwaitWrites_Not(c) ==
  flushAt' = [flushAt EXCEPT ![c] = "done"] /\ UNCHANGED awaited

AwaitWrites(c) ==
  /\ flushAt' = [flushAt EXCEPT ![c] = IF tasks = {} THEN "done" ELSE "writes"]
  /\ awaited' = [awaited EXCEPT ![c] = {[ids |-> t.ids, attempt |-> t.attempt] : t \in tasks}]

StartFlush(c) ==
  /\ flushed' = [flushed EXCEPT ![c] = pending]
  /\ IF worker = "idle"
     THEN AwaitWrites(c)
     ELSE flushAt' = [flushAt EXCEPT ![c] = "worker"] /\ UNCHANGED awaited

Flush(c) ==
  /\ c # Closer /\ flushAt[c] = "no"
  /\ StartFlush(c)
  /\ UNCHANGED <<submitVars, expired, finishVars, known, tasks, workerVars, cancelled,
                 closed, closing, committed>>

FlushWoken(c) ==
  /\ flushAt[c] = "woken"
  /\ AwaitWrites(c)
  /\ UNCHANGED <<submitVars, expired, finishVars, known, tasks, workerVars, cancelled,
                 closed, closing, flushed, committed>>

(* The done callback of an awaited write runs before the flush() wakes.     *)
FlushDone(c) ==
  /\ flushAt[c] = "writes"
  /\ \A t \in tasks : [ids |-> t.ids, attempt |-> t.attempt] \notin awaited[c]
  /\ flushAt' = [flushAt EXCEPT ![c] = "done"]
  /\ UNCHANGED <<submitVars, expired, finishVars, known, tasks, workerVars, cancelled,
                 closed, closing, flushed, awaited, committed>>

Close_KeepsAccepting ==
  /\ closing = "no"
  /\ closing' = "flushing"
  /\ StartFlush(Closer)
  /\ UNCHANGED <<submitVars, expired, finishVars, known, tasks, workerVars, cancelled,
                 closed, committed>>

Close ==
  /\ closing = "no"
  /\ closed' = TRUE
  /\ closing' = "flushing"
  /\ StartFlush(Closer)
  /\ UNCHANGED <<submitVars, expired, finishVars, known, tasks, workerVars, cancelled,
                 committed>>

CloseFlushed ==
  /\ closing = "flushing" /\ flushAt[Closer] = "done"
  /\ closing' = "true"
  /\ UNCHANGED <<submitVars, expired, finishVars, known, tasks, workerVars, cancelled,
                 closed, flushAt, flushed, awaited, committed>>

(* The timer of wait_for runs over the whole of flush().                    *)
TimerRuns == closing = "flushing"

(* The worker's first step was scheduled before the timer of close(), so    *)
(* the cancellation always finds the worker at an await.                    *)
CloseTimeout ==
  /\ TimerRuns /\ worker # "loop"
  /\ closing' = "cancelling"
  /\ known' = FALSE
  /\ cancelled' = (worker # "idle")
  /\ flushAt' = [flushAt EXCEPT ![Closer] = "no"]
  /\ UNCHANGED <<submitVars, expired, finishVars, tasks, workerVars, closed, flushed,
                 awaited, committed>>

CloseCancelled ==
  /\ closing = "cancelling" /\ worker = "idle"
  /\ closing' = "false"
  /\ UNCHANGED <<submitVars, expired, finishVars, known, tasks, workerVars, cancelled,
                 closed, flushAt, flushed, awaited, committed>>

-----------------------------------------------------------------------------
WorkerStep == \/ TakeBatch \/ Retry \/ WaitTimeout
              \/ \E a \in answer : HandleAnswer(a)
              \/ QueueEmpty \/ WorkerCancelled
StoreStep(t) == \/ \E S \in SUBSET t.ids : StoreCommit(t, S)
                \/ \E a \in Answers(t.ids) : StoreAnswer(t, a)
CloseStep == CloseFlushed \/ CloseTimeout \/ CloseCancelled

Next ==
  \/ \E e \in Events : Submit(e) \/ Expire(e)
  \/ WorkerStep
  \/ \E t \in tasks : StoreStep(t) \/ WriteDone(t)
  \/ \E c \in Callers : Flush(c) \/ FlushWoken(c) \/ FlushDone(c)
  \/ Close \/ CloseStep

(* The event loop runs every callback and task that is ready, and every     *)
(* timer fires.  Nothing is assumed of the callers or of the store.         *)
LoopFairness ==
  /\ WF_vars(WorkerStep)
  /\ WF_vars(\E t \in tasks : WriteDone(t))
  /\ WF_vars(\E c \in Callers : FlushWoken(c) \/ FlushDone(c))
  /\ WF_vars(CloseStep)

(* A store that finishes every write it is given.                           *)
StoreFairness == WF_vars(\E t \in tasks : \E a \in Answers(t.ids) : StoreAnswer(t, a))

Spec     == Init /\ [][Next]_vars
FairSpec == Spec /\ LoopFairness
=============================================================================
