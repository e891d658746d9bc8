------------------------------ MODULE Pipeline ------------------------------
(***************************************************************************)
(* ComparisonPipeline (proxy/pipeline.py): the bounded queue of response     *)
(* pairs to compare, the asyncio workers that take them, the thread each     *)
(* comparison and each detail masking runs in, the timeout a thread outlives,*)
(* the delivery to the collector, flush and close.                           *)
(*                                                                         *)
(* A worker's code between two of its awaits is one action.  Threads run     *)
(* beside the event loop and cannot be stopped: one ends when its future is  *)
(* done in the event loop, and may never end.  A timer may fire at any       *)
(* moment, and so may a job prove too old when it leaves the queue.          *)
(*                                                                         *)
(* An operator whose name has a suffix after "_" is a plausible bug, used by *)
(* no definition: it stands for the operator it precedes when the properties *)
(* are tested against it.                                                    *)
(***************************************************************************)
EXTENDS Integers, Sequences, FiniteSets

CONSTANTS
  Jobs,        \* the response pairs that may be submitted, numbered in that order
  Workers,     \* one per compare_workers, each with one thread of the pool
  MaxJobs,     \* WorkLimits.compare_max_jobs
  MaxBytes,    \* WorkLimits.compare_max_bytes
  Weight,      \* Weight[S]: the sizes of the jobs in S, added up
  Callers      \* callers of flush()

(* WorkLimits.__post_init__ refuses budgets that are not positive.          *)
ASSUME WorkLimitsAssumption ==
  /\ MaxJobs  \in Nat \ {0}
  /\ MaxBytes \in Nat \ {0}
  /\ IsFiniteSet(Workers) /\ Workers # {}
  /\ IsFiniteSet(Jobs) /\ Jobs \subseteq Nat

ASSUME SizesAssumption ==
  /\ Weight \in [SUBSET Jobs -> Nat]
  /\ Weight[{}] = 0
  /\ \A S, T \in SUBSET Jobs :
       S \intersect T = {} => Weight[S \union T] = Weight[S] + Weight[T]

(* What becomes of a job: handed to the collector, or dropped and counted by*)
(* collection_dropped_total, where only the reason "shutdown" is told apart.*)
Fates  == {"collected", "dropped", "shutdown"}
NoFate == "none"

VARIABLES
  opened,      \* _open
  queue,       \* _queue
  at,          \* where each worker is: see Places
  holds,       \* the job each worker works on: {} or a singleton
  thread,      \* the last computation made for each job: see ThreadStates
  cancelled,   \* workers whose cancellation has not yet been delivered
  jobs,        \* _jobs
  bytes,       \* _job_bytes
  unfinished,  \* the queue's count of jobs without task_done
  accepted,    \* jobs that were given a slot
  fate,        \* what became of each job
  told,        \* how many outcomes were counted for each job
  closing,     \* close(): "no", "joining", "stopping" or, out of time, "late", and
               \* "closed" or, after "late", "closedLate"
  flushAt,     \* each flush() call: "no", "waiting", "done"
  flushed      \* the jobs that held a slot when the flush() call began

slotVars  == <<jobs, bytes, unfinished>>
fateVars  == <<fate, told>>
flushVars == <<flushAt, flushed>>
vars == <<opened, queue, at, holds, thread, cancelled, slotVars, accepted, fateVars,
          closing, flushVars>>

(* "new": no task yet; "idle": at queue.get; "compare", "detail": waiting   *)
(* for that computation; "late", "tail": the same after its timeout;        *)
(* "dying": cancelled, waiting for the thread; "gone": the task is done.    *)
Places == {"new", "idle", "compare", "late", "detail", "tail", "dying", "gone"}

(* "queued" in the pool, then "running" until it is "over", with a result or*)
(* an error; the pool may have "dropped" it before it ran.                  *)
ThreadStates == {"none", "queued", "running", "over", "dropped"}

-----------------------------------------------------------------------------
Queued  == {queue[i] : i \in DOMAIN queue}
Working == UNION {holds[w] : w \in Workers}
Held    == Queued \union Working

Closed == closing \in {"closed", "closedLate"}

Computing(j) == thread[j] \in {"queued", "running"}

Init ==
  /\ opened = FALSE /\ queue = <<>>
  /\ at = [w \in Workers |-> "new"] /\ holds = [w \in Workers |-> {}]
  /\ thread = [j \in Jobs |-> "none"] /\ cancelled = {}
  /\ jobs = 0 /\ bytes = 0 /\ unfinished = 0
  /\ accepted = {}
  /\ fate = [j \in Jobs |-> NoFate] /\ told = [j \in Jobs |-> 0]
  /\ closing = "no"
  /\ flushAt = [c \in Callers |-> "no"] /\ flushed = [c \in Callers |-> {}]

Start ==
  /\ ~opened /\ closing = "no"
  /\ opened' = TRUE
  /\ at' = [w \in Workers |-> "idle"]
  /\ UNCHANGED <<queue, holds, thread, cancelled, slotVars, accepted, fateVars, closing,
                 flushVars>>

-----------------------------------------------------------------------------
(* Outcomes and slots                                                       *)

(* The jobs of S get the outcome f.                                         *)
Settle(S, f) ==
  /\ fate' = [j \in Jobs |-> IF j \in S THEN f ELSE fate[j]]
  /\ told' = [j \in Jobs |-> IF j \in S THEN told[j] + 1 ELSE told[j]]

(* join() returns in every flush() when the count of open jobs reaches 0.   *)
WakeJoins_OneLeft(n) ==
  flushAt' = [c \in Callers |-> IF n <= 1 /\ flushAt[c] = "waiting" THEN "done" ELSE flushAt[c]]

WakeJoins(n) ==
  flushAt' = [c \in Callers |-> IF n = 0 /\ flushAt[c] = "waiting" THEN "done" ELSE flushAt[c]]

(* The jobs whose bytes are given back with the slots of S.                 *)
Freed(S) == S

(* The slots of the jobs of S are given back: the finally block of a worker,*)
(* and the last loop of close().                                            *)
Release(S) ==
  /\ jobs' = jobs - Cardinality(S)
  /\ bytes' = bytes - Weight[Freed(S)]
  /\ unfinished' = unfinished - Cardinality(S)
  /\ IF S = {} THEN UNCHANGED flushAt ELSE WakeJoins(unfinished')
  /\ UNCHANGED flushed

(* Worker w ends its job and goes to the place p.                           *)
Leave(w, p) ==
  /\ Release(holds[w])
  /\ holds' = [holds EXCEPT ![w] = {}]
  /\ at' = [at EXCEPT ![w] = p]

(* Worker w keeps its job and goes to the place p.                          *)
Stay(w, p) ==
  /\ at' = [at EXCEPT ![w] = p]
  /\ UNCHANGED <<holds, slotVars, flushVars>>

-----------------------------------------------------------------------------
HasRoom(j) == jobs < MaxJobs /\ bytes + Weight[{j}] <= MaxBytes

Submitted(j) == j \in accepted \/ fate[j] # NoFate
IsNext(j)    == ~Submitted(j) /\ \A i \in Jobs : i < j => Submitted(i)

(* submit() refuses a job, and counts why,                                  *)
Refuse(j) ==
  /\ IsNext(j)
  /\ ~opened \/ ~HasRoom(j)
  /\ Settle({j}, IF opened THEN "dropped" ELSE "shutdown")
  /\ UNCHANGED <<opened, queue, at, holds, thread, cancelled, slotVars, accepted, closing,
                 flushVars>>

(* or gives it a slot.                                                      *)
Accept(j) ==
  /\ IsNext(j)
  /\ opened /\ HasRoom(j)
  /\ jobs' = jobs + 1
  /\ bytes' = bytes + Weight[{j}]
  /\ unfinished' = unfinished + 1
  /\ accepted' = accepted \union {j}
  /\ queue' = Append(queue, j)
  /\ UNCHANGED <<opened, at, holds, thread, cancelled, fateVars, closing, flushVars>>

-----------------------------------------------------------------------------
(* The workers                                                              *)

(* queue.get returns a job that waited too long.                            *)
TakeExpired(w) ==
  /\ at[w] = "idle" /\ w \notin cancelled
  /\ queue # <<>>
  /\ queue' = Tail(queue)
  /\ Settle({Head(queue)}, "dropped")
  /\ Release({Head(queue)})
  /\ UNCHANGED <<opened, at, holds, thread, cancelled, accepted, closing>>

Take(w) ==
  /\ at[w] = "idle" /\ w \notin cancelled
  /\ queue # <<>>
  /\ queue' = Tail(queue)
  /\ holds' = [holds EXCEPT ![w] = {Head(queue)}]
  /\ at' = [at EXCEPT ![w] = "compare"]
  /\ thread' = [thread EXCEPT ![Head(queue)] = "queued"]
  /\ UNCHANGED <<opened, cancelled, slotVars, accepted, fateVars, closing, flushVars>>

(* What collector.submit makes of the event.  The runtime closes the        *)
(* collector only when the pipeline's close() has returned.                 *)
Replies == IF Closed THEN {"shutdown"} ELSE {"collected", "dropped"}

(* The timer fires before the comparison is done.                           *)
CompareTimeout(w, j) ==
  /\ at[w] = "compare" /\ w \notin cancelled
  /\ Computing(j)
  /\ Settle({j}, "dropped")
  /\ Stay(w, "late")
  /\ UNCHANGED <<opened, queue, thread, cancelled, accepted, closing>>

(* The comparison, or the making of its summary event, raises; the worker   *)
(* takes its next job.                                                      *)
AfterFailure == "idle"

CompareFails(w, j) ==
  /\ at[w] = "compare" /\ w \notin cancelled
  /\ thread[j] = "over"
  /\ Settle({j}, "dropped")
  /\ Leave(w, AfterFailure)
  /\ UNCHANGED <<opened, queue, thread, cancelled, accepted, closing>>

(* The result is delivered without details,                                 *)
CompareDone(w, j) ==
  /\ at[w] = "compare" /\ w \notin cancelled
  /\ thread[j] = "over"
  /\ \E r \in Replies : Settle({j}, r)
  /\ Leave(w, "idle")
  /\ UNCHANGED <<opened, queue, thread, cancelled, accepted, closing>>

(* or was selected for details, which are made by another computation.      *)
StartDetail(w, j) ==
  /\ at[w] = "compare" /\ w \notin cancelled
  /\ thread[j] = "over"
  /\ thread' = [thread EXCEPT ![j] = "queued"]
  /\ Stay(w, "detail")
  /\ UNCHANGED <<opened, queue, cancelled, accepted, fateVars, closing>>

(* The details are merged, or their failure leaves the summary alone.       *)
DetailDone(w, j) ==
  /\ at[w] = "detail" /\ w \notin cancelled
  /\ ~Computing(j)
  /\ \E r \in Replies : Settle({j}, r)
  /\ Leave(w, "idle")
  /\ UNCHANGED <<opened, queue, thread, cancelled, accepted, closing>>

(* The summary is delivered without the details that are late.              *)
DetailTimeout(w, j) ==
  /\ at[w] = "detail" /\ w \notin cancelled
  /\ Computing(j)
  /\ \E r \in Replies : Settle({j}, r)
  /\ Stay(w, "tail")
  /\ UNCHANGED <<opened, queue, thread, cancelled, accepted, closing>>

(* The worker goes on when the thread of a job that has its outcome is over.*)
LateEnds(w, j) ==
  /\ at[w] \in {"late", "tail"} /\ w \notin cancelled
  /\ ~Computing(j)
  /\ Leave(w, "idle")
  /\ UNCHANGED <<opened, queue, thread, cancelled, accepted, fateVars, closing>>

(* The jobs of worker w that have no outcome yet (settled is FALSE).        *)
Unsettled_All(w) == holds[w]

Unsettled(w) == IF at[w] \in {"late", "tail"} THEN {} ELSE holds[w]

(* A cancelled worker leaves no thread of its own running.                  *)
MayLeave_AtOnce(w) == TRUE

MayLeave(w) == \A j \in holds[w] : ~Computing(j)

(* CancelledError reaches worker w at one of its awaits: its task ends.     *)
Cancelled(w) ==
  /\ w \in cancelled
  /\ cancelled' = cancelled \ {w}
  /\ Settle(Unsettled(w), "shutdown")
  /\ IF MayLeave(w) THEN Leave(w, "gone") ELSE Stay(w, "dying")
  /\ UNCHANGED <<opened, queue, thread, accepted, closing>>

Dies(w) ==
  /\ at[w] = "dying" /\ MayLeave(w)
  /\ Leave(w, "gone")
  /\ UNCHANGED <<opened, queue, thread, cancelled, accepted, fateVars, closing>>

-----------------------------------------------------------------------------
(* The threads of the pool: one per worker                                  *)
ThreadBegins(j) ==
  /\ thread[j] = "queued"
  /\ Cardinality({i \in Jobs : thread[i] = "running"}) < Cardinality(Workers)
  /\ thread' = [thread EXCEPT ![j] = "running"]
  /\ UNCHANGED <<opened, queue, at, holds, cancelled, slotVars, accepted, fateVars, closing,
                 flushVars>>

ThreadEnds(j) ==
  /\ thread[j] = "running"
  /\ thread' = [thread EXCEPT ![j] = "over"]
  /\ UNCHANGED <<opened, queue, at, holds, cancelled, slotVars, accepted, fateVars, closing,
                 flushVars>>

-----------------------------------------------------------------------------
Flush(c) ==
  /\ flushAt[c] = "no"
  /\ flushAt' = [flushAt EXCEPT ![c] = IF unfinished > 0 THEN "waiting" ELSE "done"]
  /\ flushed' = [flushed EXCEPT ![c] = Held]
  /\ UNCHANGED <<opened, queue, at, holds, thread, cancelled, slotVars, accepted, fateVars,
                 closing>>

Close ==
  /\ closing = "no"
  /\ opened' = FALSE
  /\ closing' = "joining"
  /\ UNCHANGED <<queue, at, holds, thread, cancelled, slotVars, accepted, fateVars,
                 flushVars>>

(* join() has returned, or the deadline has passed.                         *)
MayStop_NoDeadline == closing = "joining" /\ unfinished = 0

MayStop == closing = "joining"

StopWorkers ==
  /\ MayStop
  /\ closing' = IF unfinished = 0 THEN "stopping" ELSE "late"
  /\ cancelled' = {w \in Workers : at[w] \notin {"new", "gone"}}
  /\ UNCHANGED <<opened, queue, at, holds, thread, slotVars, accepted, fateVars, flushVars>>

(* The jobs close() settles: those left in the queue.                       *)
Drained == Queued

(* The workers are done, or the deadline has passed; their cancellations,   *)
(* scheduled before that timer, have been delivered.  The queue is emptied, *)
(* and the pool drops the computations no thread has begun.                 *)
CloseEnds ==
  /\ closing \in {"stopping", "late"}
  /\ cancelled = {}
  /\ Settle(Drained, "shutdown")
  /\ Release(Drained)
  /\ queue' = <<>>
  /\ thread' = [j \in Jobs |-> IF thread[j] = "queued" THEN "dropped" ELSE thread[j]]
  /\ closing' = IF closing = "late" THEN "closedLate" ELSE "closed"
  /\ UNCHANGED <<opened, at, holds, cancelled, accepted>>

-----------------------------------------------------------------------------
WorkerStep(w) ==
  \/ TakeExpired(w) \/ Take(w) \/ Cancelled(w) \/ Dies(w)
  \/ \E j \in holds[w] : \/ CompareTimeout(w, j) \/ CompareFails(w, j) \/ CompareDone(w, j)
                         \/ StartDetail(w, j) \/ DetailDone(w, j) \/ DetailTimeout(w, j)
                         \/ LateEnds(w, j)
CloseStep == StopWorkers \/ CloseEnds

Next ==
  \/ Start
  \/ \E j \in Jobs : Refuse(j) \/ Accept(j) \/ ThreadBegins(j) \/ ThreadEnds(j)
  \/ \E w \in Workers : WorkerStep(w)
  \/ \E c \in Callers : Flush(c)
  \/ Close \/ CloseStep

(* The event loop runs every task that is ready, and every timer fires.     *)
LoopFairness == (\A w \in Workers : WF_vars(WorkerStep(w))) /\ WF_vars(CloseStep)

(* A computation the pool has a thread for is begun, and ends.              *)
ThreadFairness == \A j \in Jobs : WF_vars(ThreadBegins(j) \/ ThreadEnds(j))

Spec     == Init /\ [][Next]_vars
FairSpec == Spec /\ LoopFairness
=============================================================================
