--------------------------- MODULE PipelineProps ---------------------------
(***************************************************************************)
(* What must be true of the comparison pipeline (proxy/pipeline.py).        *)
(***************************************************************************)
EXTENDS Pipeline

(* Every variable has its type. *)
TypeOK ==
  /\ opened \in BOOLEAN
  /\ queue \in Seq(Jobs)
  /\ at \in [Workers -> Places] /\ holds \in [Workers -> SUBSET Jobs]
  /\ thread \in [Jobs -> ThreadStates] /\ cancelled \in SUBSET Workers
  /\ jobs \in Int /\ bytes \in Int /\ unfinished \in Int
  /\ accepted \in SUBSET Jobs
  /\ fate \in [Jobs -> Fates \union {NoFate}] /\ told \in [Jobs -> Nat]
  /\ closing \in {"no", "joining", "stopping", "late", "closed", "closedLate"}
  /\ flushAt \in [Callers -> {"no", "waiting", "done"}]
  /\ flushed \in [Callers -> SUBSET Jobs]

(* A job is counted once, as collected or as dropped for one reason, and an *)
(* accepted job that is not counted yet is still in the queue or with a     *)
(* worker: timeouts, late threads and cancellation lose and repeat nothing. *)
ExactlyOneFate ==
  \A j \in Jobs :
    /\ told[j] = IF fate[j] = NoFate THEN 0 ELSE 1
    /\ j \in accepted /\ fate[j] = NoFate => j \in Held
    /\ j \in Queued => fate[j] = NoFate

(* The three counters agree with the jobs that are queued or worked on, and *)
(* stay within the limits of WorkLimits.                                    *)
SlotsAccounted ==
  /\ jobs = Len(queue) + Cardinality({w \in Workers : holds[w] # {}})
  /\ unfinished = jobs
  /\ bytes = Weight[Held]
  /\ jobs <= MaxJobs /\ bytes <= MaxBytes

(* A thread that still computes, or waits to, belongs to a job that holds   *)
(* its slot: not even a timeout or a shutdown frees the memory a thread     *)
(* still uses.  And no more of them are open than the pool has threads, so  *)
(* none waits behind another while its own timeout runs.                    *)
ThreadsHoldSlots ==
  /\ \A j \in Jobs : Computing(j) => j \in Working
  /\ Cardinality({j \in Jobs : Computing(j)}) <= Cardinality(Workers)

(* Neither the counters nor the threads outgrow what the jobs account for.  *)
ResourcesAccounted == SlotsAccounted /\ ThreadsHoldSlots

(* When close() has returned, every accepted job has its outcome, nothing   *)
(* is queued, and the workers that are left only wait for their thread; and *)
(* only a close() that ran out of time drops an accepted job as "shutdown". *)
CloseSettlesAll ==
  /\ (\E j \in accepted : fate[j] = "shutdown") => closing \in {"late", "closedLate"}
  /\ Closed => /\ \A j \in accepted : fate[j] # NoFate
               /\ queue = <<>>
               /\ \A w \in Workers : at[w] \in {"new", "dying", "gone"}

(* When flush() returns, every job accepted before it was called has its    *)
(* outcome and has given back its slot.                                     *)
FlushSettlesEarlier ==
  \A c \in Callers : flushAt[c] = "done" =>
    /\ flushed[c] \intersect Held = {}
    /\ \A j \in flushed[c] : fate[j] # NoFate

(* Neither close() nor flush() returns before what it stands for is settled.*)
SettlesAll == CloseSettlesAll /\ FlushSettlesEarlier

-----------------------------------------------------------------------------
(* close() returns, even if no thread ever ends.                            *)
CloseReturns == closing = "joining" ~> Closed

(* If threads end, every job gives back its slot, even after close().       *)
SlotsReturn == ThreadFairness => \A j \in Jobs : j \in Held ~> j \notin Held

(* Nothing waits for ever: close() returns although threads hang, and slots *)
(* come back if they do not.                                                *)
Progress == CloseReturns /\ SlotsReturn
=============================================================================
