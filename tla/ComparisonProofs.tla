-------------------------- MODULE ComparisonProofs --------------------------
(***************************************************************************)
(* Proofs about comparisons.  First the pipeline (proxy/pipeline.py), for    *)
(* any number of jobs of any sizes, any limits, workers and callers of       *)
(* flush(); then compare() itself (comparison/engine.py), for all JSON       *)
(* values, policies and limits.                                             *)
(*                                                                         *)
(* compare() walks through two values with a stack, and its report must be   *)
(* that of all differences, by definition.  So the proof relates the stack   *)
(* to the order of a document: what is in it, or below it, is still to be    *)
(* compared, and follows all that has been (Stacked).  Reporting a           *)
(* difference that follows the others is one add() (TallyAdd), and reporting *)
(* those beyond the limit is none (TallyFirst).  A difference that is gone   *)
(* is below a field that was mapped, or was walked past under a rule.       *)
(***************************************************************************)
EXTENDS PipelineProps, ComparisonProps, FiniteSetTheorems, SequenceTheorems, WellFoundedInduction,
        TLAPS

-----------------------------------------------------------------------------
(* The pipeline: its inductive invariant                                    *)

Busy == {"compare", "late", "detail", "tail", "dying"}

(* A job that has its slot is in one place: once in the queue, or with one  *)
(* worker, which works on one job at a time.                                *)
PlaceInv ==
  /\ \A i, k \in DOMAIN queue : queue[i] = queue[k] => i = k
  /\ \A w \in Workers : /\ holds[w] = {} \/ \E j \in Jobs : holds[w] = {j}
                        /\ holds[w] # {} <=> at[w] \in Busy
  /\ \A v, w \in Workers : v # w => holds[v] \intersect holds[w] = {}
  /\ Queued \intersect Working = {}
  /\ Held \subseteq accepted

(* A computation belongs to the job of a worker.                            *)
ThreadInv == \A j \in Jobs : Computing(j) => j \in Working

(* A worker's place says whether its job has its outcome.                   *)
FateInv ==
  /\ ExactlyOneFate
  /\ \A w \in Workers : \A j \in holds[w] :
       IF at[w] \in {"compare", "detail"} THEN fate[j] = NoFate ELSE fate[j] # NoFate

(* The counters follow the set of the jobs that have a slot.                *)
SlotInv ==
  /\ jobs = Cardinality(Held) /\ unfinished = jobs /\ bytes = Weight[Held]
  /\ jobs <= MaxJobs /\ bytes <= MaxBytes

(* The progress of close().  A worker that is cancelled has its last step;  *)
(* when join() had returned, no job is left that it could drop.             *)
CloseInv ==
  /\ closing # "no" => ~opened
  /\ closing = "no" /\ ~opened => \A w \in Workers : at[w] = "new"
  /\ closing \in {"no", "joining"} => \A w \in Workers : at[w] \notin {"dying", "gone"}
  /\ \A w \in cancelled : at[w] \notin {"new", "dying", "gone"}
  /\ cancelled # {} => closing \in {"stopping", "late"}
  /\ closing \in {"stopping", "late"} =>
       \A w \in Workers : at[w] \in {"new", "dying", "gone"} \/ w \in cancelled
  /\ closing \in {"stopping", "closed"} => Held = {}
  /\ Closed => queue = <<>> /\ \A w \in Workers : at[w] \in {"new", "dying", "gone"}
  /\ (\E j \in accepted : fate[j] = "shutdown") => closing \in {"late", "closedLate"}

(* join() returns when no job has a slot; who comes later is another job.   *)
FlushInv ==
  \A c \in Callers :
    /\ flushed[c] \subseteq accepted
    /\ flushAt[c] = "done" => flushed[c] \intersect Held = {}

IInv == TypeOK /\ PlaceInv /\ ThreadInv /\ FateInv /\ SlotInv /\ CloseInv /\ FlushInv

-----------------------------------------------------------------------------
(* Settling, releasing and moving, by what they do to the types.            *)
LEMMA SettleType ==
  ASSUME TypeOK, NEW S, NEW f \in Fates, Settle(S, f)
  PROVE  fate' \in [Jobs -> Fates \union {NoFate}] /\ told' \in [Jobs -> Nat]
  BY DEF TypeOK, Settle

(* Giving resources back keeps the types.                                   *)
LEMMA ReleaseType ==
  ASSUME TypeOK, NEW S \in SUBSET Jobs, Release(S)
  PROVE  /\ jobs' \in Int /\ bytes' \in Int /\ unfinished' \in Int
         /\ flushAt' \in [Callers -> {"no", "waiting", "done"}]
         /\ flushed' \in [Callers -> SUBSET Jobs]
<1>1. Cardinality(S) \in Nat /\ Weight[S] \in Nat
  BY WorkLimitsAssumption, SizesAssumption, FS_Subset, FS_CardinalityType
<1> QED
  BY <1>1 DEF TypeOK, Release, WakeJoins, Freed

(* So does a worker that leaves its job,                                    *)
LEMMA LeaveType ==
  ASSUME TypeOK, NEW w \in Workers, NEW p \in Places, Leave(w, p)
  PROVE  /\ jobs' \in Int /\ bytes' \in Int /\ unfinished' \in Int
         /\ flushAt' \in [Callers -> {"no", "waiting", "done"}]
         /\ flushed' \in [Callers -> SUBSET Jobs]
         /\ at' \in [Workers -> Places] /\ holds' \in [Workers -> SUBSET Jobs]
<1>1. holds[w] \in SUBSET Jobs /\ Release(holds[w])
  BY DEF TypeOK, Leave
<1> QED
  BY <1>1, ReleaseType DEF TypeOK, Leave

(* and one that takes a job from the queue.                                 *)
LEMMA QueueType ==
  ASSUME TypeOK, queue # <<>>
  PROVE  Head(queue) \in Jobs /\ Tail(queue) \in Seq(Jobs)
  BY HeadTailProperties DEF TypeOK

(* Every step keeps the types.                                             *)
LEMMA NextType == TypeOK /\ [Next]_vars => TypeOK'
<1> SUFFICES ASSUME TypeOK, [Next]_vars PROVE TypeOK'
  OBVIOUS
<1>1. CASE Start
  BY <1>1 DEF Start, TypeOK, Places, slotVars, fateVars, flushVars
<1>2. ASSUME NEW j \in Jobs, Refuse(j) PROVE TypeOK'
  <2>1. fate' \in [Jobs -> Fates \union {NoFate}] /\ told' \in [Jobs -> Nat]
    BY <1>2, SettleType DEF Refuse, Fates
  <2> QED
    BY <1>2, <2>1 DEF Refuse, TypeOK, slotVars, fateVars, flushVars
<1>3. ASSUME NEW j \in Jobs, Accept(j) PROVE TypeOK'
  <2>1. Weight[{j}] \in Nat
    BY SizesAssumption
  <2> QED
    BY <1>3, <2>1 DEF Accept, TypeOK, slotVars, fateVars, flushVars
<1>4. ASSUME NEW j \in Jobs, ThreadBegins(j) PROVE TypeOK'
  BY <1>4 DEF ThreadBegins, TypeOK, ThreadStates, slotVars, fateVars, flushVars
<1>5. ASSUME NEW j \in Jobs, ThreadEnds(j) PROVE TypeOK'
  BY <1>5 DEF ThreadEnds, TypeOK, ThreadStates, slotVars, fateVars, flushVars
<1>6. ASSUME NEW w \in Workers, TakeExpired(w) PROVE TypeOK'
  <2>0. Head(queue) \in Jobs /\ Tail(queue) \in Seq(Jobs)
    BY <1>6, QueueType DEF TakeExpired
  <2>1. fate' \in [Jobs -> Fates \union {NoFate}] /\ told' \in [Jobs -> Nat]
    BY <1>6, SettleType DEF TakeExpired, Fates
  <2>2. /\ jobs' \in Int /\ bytes' \in Int /\ unfinished' \in Int
        /\ flushAt' \in [Callers -> {"no", "waiting", "done"}]
        /\ flushed' \in [Callers -> SUBSET Jobs]
    BY <1>6, <2>0, ReleaseType DEF TakeExpired
  <2> QED
    BY <1>6, <2>0, <2>1, <2>2 DEF TakeExpired, TypeOK, slotVars, fateVars, flushVars
<1>7. ASSUME NEW w \in Workers, Take(w) PROVE TypeOK'
  <2>1. Head(queue) \in Jobs /\ Tail(queue) \in Seq(Jobs)
    BY <1>7, QueueType DEF Take
  <2> QED
    BY <1>7, <2>1 DEF Take, TypeOK, Places, ThreadStates, slotVars, fateVars, flushVars
<1>8. ASSUME NEW w \in Workers, Cancelled(w) PROVE TypeOK'
  <2>1. fate' \in [Jobs -> Fates \union {NoFate}] /\ told' \in [Jobs -> Nat]
    BY <1>8, SettleType DEF Cancelled, Fates
  <2>2. CASE Leave(w, "gone")
    <3>1. /\ jobs' \in Int /\ bytes' \in Int /\ unfinished' \in Int
          /\ flushAt' \in [Callers -> {"no", "waiting", "done"}]
          /\ flushed' \in [Callers -> SUBSET Jobs]
          /\ at' \in [Workers -> Places] /\ holds' \in [Workers -> SUBSET Jobs]
      BY <2>2, LeaveType DEF Places
    <3> QED
      BY <1>8, <2>1, <3>1 DEF Cancelled, TypeOK, slotVars, fateVars, flushVars
  <2>3. CASE Stay(w, "dying")
    BY <1>8, <2>1, <2>3 DEF Cancelled, Stay, TypeOK, Places, slotVars, fateVars, flushVars
  <2> QED
    BY <1>8, <2>2, <2>3 DEF Cancelled
<1>9. ASSUME NEW w \in Workers, Dies(w) PROVE TypeOK'
  <2>2. /\ jobs' \in Int /\ bytes' \in Int /\ unfinished' \in Int
        /\ flushAt' \in [Callers -> {"no", "waiting", "done"}]
        /\ flushed' \in [Callers -> SUBSET Jobs]
        /\ at' \in [Workers -> Places] /\ holds' \in [Workers -> SUBSET Jobs]
    BY <1>9, LeaveType DEF Dies, Places, AfterFailure
  <2> QED
    BY <1>9, <2>2 DEF Dies, TypeOK, slotVars, fateVars, flushVars
<1>10. ASSUME NEW w \in Workers, NEW j \in holds[w], CompareTimeout(w, j) PROVE TypeOK'
  <2>1. fate' \in [Jobs -> Fates \union {NoFate}] /\ told' \in [Jobs -> Nat]
    BY <1>10, SettleType DEF CompareTimeout, Fates
  <2> QED
    BY <1>10, <2>1
    DEF CompareTimeout, Stay, TypeOK, Places, ThreadStates, slotVars, fateVars, flushVars
<1>11. ASSUME NEW w \in Workers, NEW j \in holds[w], CompareFails(w, j) PROVE TypeOK'
  <2>1. fate' \in [Jobs -> Fates \union {NoFate}] /\ told' \in [Jobs -> Nat]
    BY <1>11, SettleType DEF CompareFails, Fates
  <2>2. /\ jobs' \in Int /\ bytes' \in Int /\ unfinished' \in Int
        /\ flushAt' \in [Callers -> {"no", "waiting", "done"}]
        /\ flushed' \in [Callers -> SUBSET Jobs]
        /\ at' \in [Workers -> Places] /\ holds' \in [Workers -> SUBSET Jobs]
    BY <1>11, LeaveType DEF CompareFails, Places, AfterFailure
  <2> QED
    BY <1>11, <2>1, <2>2 DEF CompareFails, TypeOK, slotVars, fateVars, flushVars
<1>12. ASSUME NEW w \in Workers, NEW j \in holds[w], CompareDone(w, j) PROVE TypeOK'
  <2>1. fate' \in [Jobs -> Fates \union {NoFate}] /\ told' \in [Jobs -> Nat]
    BY <1>12, SettleType DEF CompareDone, Fates, Replies
  <2>2. /\ jobs' \in Int /\ bytes' \in Int /\ unfinished' \in Int
        /\ flushAt' \in [Callers -> {"no", "waiting", "done"}]
        /\ flushed' \in [Callers -> SUBSET Jobs]
        /\ at' \in [Workers -> Places] /\ holds' \in [Workers -> SUBSET Jobs]
    BY <1>12, LeaveType DEF CompareDone, Places, AfterFailure
  <2> QED
    BY <1>12, <2>1, <2>2 DEF CompareDone, TypeOK, slotVars, fateVars, flushVars
<1>13. ASSUME NEW w \in Workers, NEW j \in holds[w], StartDetail(w, j) PROVE TypeOK'
  BY <1>13
  DEF StartDetail, Stay, TypeOK, Places, ThreadStates, slotVars, fateVars, flushVars
<1>14. ASSUME NEW w \in Workers, NEW j \in holds[w], DetailDone(w, j) PROVE TypeOK'
  <2>1. fate' \in [Jobs -> Fates \union {NoFate}] /\ told' \in [Jobs -> Nat]
    BY <1>14, SettleType DEF DetailDone, Fates, Replies
  <2>2. /\ jobs' \in Int /\ bytes' \in Int /\ unfinished' \in Int
        /\ flushAt' \in [Callers -> {"no", "waiting", "done"}]
        /\ flushed' \in [Callers -> SUBSET Jobs]
        /\ at' \in [Workers -> Places] /\ holds' \in [Workers -> SUBSET Jobs]
    BY <1>14, LeaveType DEF DetailDone, Places, AfterFailure
  <2> QED
    BY <1>14, <2>1, <2>2 DEF DetailDone, TypeOK, slotVars, fateVars, flushVars
<1>15. ASSUME NEW w \in Workers, NEW j \in holds[w], DetailTimeout(w, j) PROVE TypeOK'
  <2>1. fate' \in [Jobs -> Fates \union {NoFate}] /\ told' \in [Jobs -> Nat]
    BY <1>15, SettleType DEF DetailTimeout, Fates, Replies
  <2> QED
    BY <1>15, <2>1
    DEF DetailTimeout, Stay, TypeOK, Places, ThreadStates, slotVars, fateVars, flushVars
<1>16. ASSUME NEW w \in Workers, NEW j \in holds[w], LateEnds(w, j) PROVE TypeOK'
  <2>2. /\ jobs' \in Int /\ bytes' \in Int /\ unfinished' \in Int
        /\ flushAt' \in [Callers -> {"no", "waiting", "done"}]
        /\ flushed' \in [Callers -> SUBSET Jobs]
        /\ at' \in [Workers -> Places] /\ holds' \in [Workers -> SUBSET Jobs]
    BY <1>16, LeaveType DEF LateEnds, Places, AfterFailure
  <2> QED
    BY <1>16, <2>2 DEF LateEnds, TypeOK, slotVars, fateVars, flushVars
<1>17. ASSUME NEW c \in Callers, Flush(c) PROVE TypeOK'
  <2>1. Held \in SUBSET Jobs
    BY DEF TypeOK, Held, Queued, Working
  <2> QED
    BY <1>17, <2>1 DEF Flush, TypeOK, slotVars, fateVars, flushVars
<1>18. CASE Close
  BY <1>18 DEF Close, TypeOK, slotVars, fateVars, flushVars
<1>19. CASE StopWorkers
  BY <1>19 DEF StopWorkers, TypeOK, slotVars, fateVars, flushVars
<1>20. CASE CloseEnds
  <2>1. fate' \in [Jobs -> Fates \union {NoFate}] /\ told' \in [Jobs -> Nat]
    BY <1>20, SettleType DEF CloseEnds, Fates
  <2>2. Drained \in SUBSET Jobs
    BY DEF TypeOK, Drained, Queued
  <2>3. /\ jobs' \in Int /\ bytes' \in Int /\ unfinished' \in Int
        /\ flushAt' \in [Callers -> {"no", "waiting", "done"}]
        /\ flushed' \in [Callers -> SUBSET Jobs]
    BY <1>20, <2>2, ReleaseType DEF CloseEnds
  <2>4. queue' = <<>> /\ thread' \in [Jobs -> ThreadStates]
    BY <1>20 DEF CloseEnds, TypeOK, ThreadStates
  <2> QED
    BY <1>20, <2>1, <2>3, <2>4 DEF CloseEnds, TypeOK, slotVars, fateVars, flushVars
<1>21. CASE UNCHANGED vars
  BY <1>21 DEF vars, TypeOK, slotVars, fateVars, flushVars
<1> QED
  BY <1>1, <1>2, <1>3, <1>4, <1>5, <1>6, <1>7, <1>8, <1>9, <1>10, <1>11, <1>12, <1>13,
     <1>14, <1>15, <1>16, <1>17, <1>18, <1>19, <1>20, <1>21
  DEF Next, WorkerStep, CloseStep

(* Where the jobs are after each kind of move.                              *)
LEMMA SamePlaces ==
  ASSUME queue' = queue, holds' = holds
  PROVE  Queued' = Queued /\ Working' = Working /\ Held' = Held
  BY DEF Queued, Working, Held

(* A worker that leaves takes no other job with it.                         *)
LEMMA LeavePlaces ==
  ASSUME TypeOK, PlaceInv, NEW w \in Workers, NEW p \in {"idle", "gone"},
         Leave(w, p), queue' = queue, accepted' = accepted
  PROVE  /\ PlaceInv' /\ holds[w] \subseteq Working
         /\ Queued' = Queued /\ Working' = Working \ holds[w] /\ Held' = Held \ holds[w]
<1>1. /\ holds' = [holds EXCEPT ![w] = {}] /\ at' = [at EXCEPT ![w] = p]
      /\ holds \in [Workers -> SUBSET Jobs] /\ at \in [Workers -> Places]
  BY DEF Leave, TypeOK
<1>2. Queued' = Queued /\ holds[w] \subseteq Working
  BY DEF Queued, Working
<1>3. Working' = Working \ holds[w]
  BY <1>1 DEF Working, PlaceInv
<1>4. Held' = Held \ holds[w]
  BY <1>2, <1>3 DEF Held, PlaceInv
<1> QED
  BY <1>1, <1>2, <1>3, <1>4 DEF PlaceInv, Busy

(* A worker that goes on with its job moves no job.                         *)
LEMMA StayPlaces ==
  ASSUME TypeOK, PlaceInv, NEW w \in Workers, NEW p \in Busy, holds[w] # {},
         Stay(w, p), queue' = queue, accepted' = accepted
  PROVE  PlaceInv' /\ Queued' = Queued /\ Working' = Working /\ Held' = Held
<1>1. Queued' = Queued /\ Working' = Working /\ Held' = Held
  BY SamePlaces DEF Stay
<1> QED
  BY <1>1 DEF PlaceInv, Stay, TypeOK

(* queue.get takes the first job, which is nowhere else.                    *)
LEMMA GetPlaces ==
  ASSUME TypeOK, PlaceInv, queue # <<>>, queue' = Tail(queue)
  PROVE  /\ Head(queue) \in Queued /\ Queued' = Queued \ {Head(queue)}
         /\ \A i, k \in DOMAIN queue' : queue'[i] = queue'[k] => i = k
<1>1. /\ Len(queue) \in Nat /\ DOMAIN queue = 1..Len(queue) /\ Len(queue) > 0
      /\ Head(queue) = queue[1]
      /\ Tail(queue) \in Seq(Jobs) /\ Len(Tail(queue)) = Len(queue) - 1
      /\ DOMAIN Tail(queue) = 1..(Len(queue) - 1)
      /\ \A i \in 1..(Len(queue) - 1) : Tail(queue)[i] = queue[i + 1]
  BY HeadTailProperties, EmptySeq, LenProperties DEF TypeOK
<1>2. Queued = {queue[i] : i \in 1..Len(queue)}
  BY <1>1 DEF Queued
<1>3. Queued' = {queue[i + 1] : i \in 1..(Len(queue) - 1)}
  BY <1>1 DEF Queued
<1>4. \A i, k \in 1..Len(queue) : queue[i] = queue[k] => i = k
  BY <1>1 DEF PlaceInv
<1>5. Queued' \subseteq Queued \ {Head(queue)}
  BY <1>1, <1>2, <1>3, <1>4
<1>6. ASSUME NEW x \in Queued, x # Head(queue) PROVE x \in Queued'
  <2>1. PICK i \in 1..Len(queue) : x = queue[i]
    BY <1>2
  <2>2. i # 1 /\ i - 1 \in 1..(Len(queue) - 1) /\ queue[(i - 1) + 1] = x
    BY <1>1, <1>6, <2>1
  <2> QED
    BY <1>3, <2>2
<1> QED
  BY <1>1, <1>2, <1>4, <1>5, <1>6

(* The queue gets a new job at its end.                                     *)
LEMMA PutPlaces ==
  ASSUME TypeOK, PlaceInv, NEW j \in Jobs, j \notin Held, queue' = Append(queue, j)
  PROVE  /\ Queued' = Queued \union {j}
         /\ \A i, k \in DOMAIN queue' : queue'[i] = queue'[k] => i = k
<1>1. /\ Len(queue) \in Nat /\ DOMAIN queue = 1..Len(queue)
      /\ DOMAIN queue' = 1..(Len(queue) + 1)
      /\ \A i \in 1..Len(queue) : queue'[i] = queue[i]
      /\ queue'[Len(queue) + 1] = j
  BY AppendProperties, LenProperties DEF TypeOK
<1>2. Queued = {queue[i] : i \in 1..Len(queue)}
  BY <1>1 DEF Queued
<1>3. Queued' = {queue'[i] : i \in 1..(Len(queue) + 1)}
  BY <1>1 DEF Queued
<1>4. \A i, k \in 1..Len(queue) : queue[i] = queue[k] => i = k
  BY <1>1 DEF PlaceInv
<1>5. \A i \in 1..Len(queue) : queue'[i] # j
  BY <1>1, <1>2 DEF Held
<1>6. Queued \union {j} \subseteq Queued'
  <2>1. j \in Queued'
    BY <1>1, <1>3
  <2> QED
    BY <1>1, <1>2, <1>3, <2>1
<1>7. Queued' \subseteq Queued \union {j}
  <2> SUFFICES ASSUME NEW i \in 1..(Len(queue) + 1) PROVE queue'[i] \in Queued \union {j}
    BY <1>3
  <2>1. CASE i = Len(queue) + 1
    BY <1>1, <2>1
  <2>2. CASE i \in 1..Len(queue)
    BY <1>1, <1>2, <2>2
  <2> QED
    BY <1>1, <2>1, <2>2
<1>8. \A i, k \in DOMAIN queue' : queue'[i] = queue'[k] => i = k
  BY <1>1, <1>4, <1>5
<1> QED
  BY <1>6, <1>7, <1>8

(* What submit() knows of a job it has not seen.                            *)
LEMMA NewJob ==
  ASSUME PlaceInv, NEW j \in Jobs, IsNext(j)
  PROVE  j \notin accepted /\ j \notin Held /\ fate[j] = NoFate
  BY DEF PlaceInv, IsNext, Submitted

(* No step loses a job, or puts it in a second place.                       *)
LEMMA NextPlaces == TypeOK /\ PlaceInv /\ CloseInv /\ [Next]_vars => PlaceInv'
<1> SUFFICES ASSUME TypeOK /\ PlaceInv /\ CloseInv, [Next]_vars PROVE PlaceInv'
  OBVIOUS
<1>1. CASE Start
  <2>1. queue' = queue /\ holds' = holds /\ accepted' = accepted
    BY <1>1 DEF Start
  <2>2. \A v \in Workers : at[v] = "new" /\ at'[v] = "idle"
    BY <1>1 DEF Start, CloseInv
  <2> QED
    BY <2>1, <2>2, SamePlaces DEF PlaceInv, Busy
<1>2. ASSUME NEW j \in Jobs, Refuse(j) PROVE PlaceInv'
  <2>1. /\ queue' = queue /\ holds' = holds /\ at' = at /\ accepted' = accepted
    BY <1>2 DEF Refuse
  <2> QED
    BY <2>1, SamePlaces DEF PlaceInv
<1>3. ASSUME NEW j \in Jobs, Accept(j) PROVE PlaceInv'
  <2>1. j \notin accepted /\ j \notin Held
    BY <1>3, NewJob DEF Accept
  <2>2. /\ Queued' = Queued \union {j}
        /\ \A i, k \in DOMAIN queue' : queue'[i] = queue'[k] => i = k
    BY <1>3, <2>1, PutPlaces DEF Accept
  <2>3. holds' = holds /\ at' = at /\ accepted' = accepted \union {j} /\ Working' = Working
    BY <1>3 DEF Accept, Working
  <2> QED
    BY <2>1, <2>2, <2>3 DEF PlaceInv, Held
<1>4. ASSUME NEW j \in Jobs, ThreadBegins(j) PROVE PlaceInv'
  <2>1. /\ queue' = queue /\ holds' = holds /\ at' = at /\ accepted' = accepted
    BY <1>4 DEF ThreadBegins
  <2> QED
    BY <2>1, SamePlaces DEF PlaceInv
<1>5. ASSUME NEW j \in Jobs, ThreadEnds(j) PROVE PlaceInv'
  <2>1. /\ queue' = queue /\ holds' = holds /\ at' = at /\ accepted' = accepted
    BY <1>5 DEF ThreadEnds
  <2> QED
    BY <2>1, SamePlaces DEF PlaceInv
<1>6. ASSUME NEW w \in Workers, TakeExpired(w) PROVE PlaceInv'
  <2>1. /\ Head(queue) \in Queued /\ Queued' = Queued \ {Head(queue)}
        /\ \A i, k \in DOMAIN queue' : queue'[i] = queue'[k] => i = k
    BY <1>6, GetPlaces DEF TakeExpired
  <2>2. holds' = holds /\ at' = at /\ accepted' = accepted /\ Working' = Working
    BY <1>6 DEF TakeExpired, Working
  <2> QED
    BY <2>1, <2>2 DEF PlaceInv, Held
<1>7. ASSUME NEW w \in Workers, Take(w) PROVE PlaceInv'
  <2>1. /\ Head(queue) \in Queued /\ Queued' = Queued \ {Head(queue)}
        /\ \A i, k \in DOMAIN queue' : queue'[i] = queue'[k] => i = k
    BY <1>7, GetPlaces DEF Take
  <2>2. /\ holds' = [holds EXCEPT ![w] = {Head(queue)}] /\ at' = [at EXCEPT ![w] = "compare"]
        /\ accepted' = accepted /\ Head(queue) \in Jobs
    BY <1>7, QueueType DEF Take
  <2>3. holds[w] = {}
    BY <1>7 DEF Take, PlaceInv, Busy
  <2>4. Working' = Working \union {Head(queue)}
    BY <2>2, <2>3 DEF TypeOK, Working
  <2>5. Head(queue) \notin Working
    BY <2>1 DEF PlaceInv
  <2>6. \A v \in Workers : /\ holds'[v] = {} \/ \E j \in Jobs : holds'[v] = {j}
                          /\ holds'[v] # {} <=> at'[v] \in Busy
    <3>1. \A v \in Workers \ {w} : holds'[v] = holds[v] /\ at'[v] = at[v]
      BY <2>2
    <3>2. holds'[w] = {Head(queue)} /\ at'[w] = "compare"
      BY <2>2 DEF TypeOK
    <3> QED
      BY <2>2, <3>1, <3>2 DEF PlaceInv, Busy
  <2>7. \A u, v \in Workers : u # v => holds'[u] \intersect holds'[v] = {}
    BY <2>2, <2>5 DEF TypeOK, PlaceInv, Working
  <2> QED
    BY <2>1, <2>2, <2>4, <2>5, <2>6, <2>7 DEF PlaceInv, Held
<1>8. ASSUME NEW w \in Workers, Cancelled(w) PROVE PlaceInv'
  <2>1. CASE Leave(w, "gone")
    BY <1>8, <2>1, LeavePlaces DEF Cancelled
  <2>2. CASE ~MayLeave(w) /\ Stay(w, "dying")
    <3>1. holds[w] # {}
      BY <2>2 DEF MayLeave
    <3> QED
      BY <1>8, <2>2, <3>1, StayPlaces DEF Cancelled, Busy
  <2> QED
    BY <1>8, <2>1, <2>2 DEF Cancelled
<1>9. ASSUME NEW w \in Workers, Dies(w) PROVE PlaceInv'
  BY <1>9, LeavePlaces DEF Dies, AfterFailure
<1>10. ASSUME NEW w \in Workers, NEW j \in holds[w], CompareTimeout(w, j) PROVE PlaceInv'
  <2>1. holds[w] # {} /\ PlaceInv
    OBVIOUS
  <2> QED
    BY <1>10, <2>1, StayPlaces DEF CompareTimeout, Busy
<1>11. ASSUME NEW w \in Workers, NEW j \in holds[w], CompareFails(w, j) PROVE PlaceInv'
  BY <1>11, LeavePlaces DEF CompareFails, AfterFailure
<1>12. ASSUME NEW w \in Workers, NEW j \in holds[w], CompareDone(w, j) PROVE PlaceInv'
  BY <1>12, LeavePlaces DEF CompareDone, AfterFailure
<1>13. ASSUME NEW w \in Workers, NEW j \in holds[w], StartDetail(w, j) PROVE PlaceInv'
  <2>1. holds[w] # {} /\ PlaceInv
    OBVIOUS
  <2> QED
    BY <1>13, <2>1, StayPlaces DEF StartDetail, Busy
<1>14. ASSUME NEW w \in Workers, NEW j \in holds[w], DetailDone(w, j) PROVE PlaceInv'
  BY <1>14, LeavePlaces DEF DetailDone, AfterFailure
<1>15. ASSUME NEW w \in Workers, NEW j \in holds[w], DetailTimeout(w, j) PROVE PlaceInv'
  <2>1. holds[w] # {} /\ PlaceInv
    OBVIOUS
  <2> QED
    BY <1>15, <2>1, StayPlaces DEF DetailTimeout, Busy
<1>16. ASSUME NEW w \in Workers, NEW j \in holds[w], LateEnds(w, j) PROVE PlaceInv'
  BY <1>16, LeavePlaces DEF LateEnds, AfterFailure
<1>17. ASSUME NEW c \in Callers, Flush(c) PROVE PlaceInv'
  <2>1. /\ queue' = queue /\ holds' = holds /\ at' = at /\ accepted' = accepted
    BY <1>17 DEF Flush
  <2> QED
    BY <2>1, SamePlaces DEF PlaceInv
<1>18. CASE Close
  <2>1. /\ queue' = queue /\ holds' = holds /\ at' = at /\ accepted' = accepted
    BY <1>18 DEF Close
  <2> QED
    BY <2>1, SamePlaces DEF PlaceInv
<1>19. CASE StopWorkers
  <2>1. /\ queue' = queue /\ holds' = holds /\ at' = at /\ accepted' = accepted
    BY <1>19 DEF StopWorkers
  <2> QED
    BY <2>1, SamePlaces DEF PlaceInv
<1>20. CASE CloseEnds
  <2>1. queue' = <<>> /\ holds' = holds /\ at' = at /\ accepted' = accepted
    BY <1>20 DEF CloseEnds
  <2>2. Queued' = {} /\ Working' = Working /\ DOMAIN queue' = {}
    BY <2>1 DEF Queued, Working
  <2> QED
    BY <2>1, <2>2 DEF PlaceInv, Held
<1>21. CASE UNCHANGED vars
  BY SamePlaces, <1>21 DEF vars, PlaceInv
<1> QED
  BY <1>1, <1>2, <1>3, <1>4, <1>5, <1>6, <1>7, <1>8, <1>9, <1>10, <1>11, <1>12, <1>13,
     <1>14, <1>15, <1>16, <1>17, <1>18, <1>19, <1>20, <1>21
  DEF Next, WorkerStep, CloseStep

(* The counters, and the flush() calls that wait, when slots are given back.*)
LEMMA HeldFinite == ASSUME TypeOK PROVE Held \in SUBSET Jobs /\ IsFiniteSet(Held)
<1>1. Held \in SUBSET Jobs
  BY DEF TypeOK, Held, Queued, Working
<1> QED
  BY <1>1, WorkLimitsAssumption, FS_Subset

(* Weights of disjoint sets of jobs add up.                                 *)
LEMMA WeightAdds ==
  ASSUME NEW S \in SUBSET Jobs, NEW T \in SUBSET Jobs, S \intersect T = {}
  PROVE  /\ Weight[S \union T] = Weight[S] + Weight[T]
         /\ Weight[S] \in Nat /\ Weight[T] \in Nat
  BY SizesAssumption

(* What is released is no longer counted, and wakes who waits for it.       *)
LEMMA SlotsReleased ==
  ASSUME TypeOK, SlotInv, FlushInv, NEW S \in SUBSET Held, Release(S),
         Held' = Held \ S, accepted' = accepted
  PROVE  SlotInv' /\ FlushInv'
<1>1. S \in SUBSET Jobs /\ Held \ S \in SUBSET Jobs /\ IsFiniteSet(Held \ S)
  BY HeldFinite, FS_Subset
<1>2. /\ Cardinality(Held \ S) = Cardinality(Held) - Cardinality(S)
      /\ Cardinality(Held) \in Nat /\ Cardinality(S) \in Nat /\ Cardinality(Held \ S) \in Nat
  <2>1. Held \intersect S = S /\ IsFiniteSet(S)
    BY HeldFinite, FS_Subset
  <2> QED
    BY <1>1, <2>1, HeldFinite, FS_Difference, FS_CardinalityType
<1>3. /\ Weight[Held \ S] = Weight[Held] - Weight[S]
      /\ Weight[Held] \in Nat /\ Weight[S] \in Nat /\ Weight[Held \ S] \in Nat
  <2>1. (Held \ S) \union S = Held /\ (Held \ S) \intersect S = {}
    OBVIOUS
  <2> QED
    BY <1>1, <2>1, HeldFinite, SizesAssumption, WeightAdds
<1>4. SlotInv'
  <2>1. /\ jobs' = jobs - Cardinality(S) /\ unfinished' = unfinished - Cardinality(S)
        /\ bytes' = bytes - Weight[S]
    BY DEF Release, Freed
  <2> QED
    BY <1>2, <1>3, <2>1, WorkLimitsAssumption DEF SlotInv
<1>5. unfinished' = 0 => Held' = {}
  BY <1>1, <1>4, FS_EmptySet DEF SlotInv
<1>6. FlushInv'
  BY <1>5 DEF Release, WakeJoins, FlushInv, TypeOK
<1> QED
  BY <1>4, <1>6

(* Nothing was accepted or released.                                        *)
LEMMA SameSlots ==
  ASSUME SlotInv, FlushInv, Held' = Held, accepted' = accepted,
         UNCHANGED <<slotVars, flushVars>>
  PROVE  SlotInv' /\ FlushInv'
  BY DEF SlotInv, FlushInv, slotVars, flushVars

(* What becomes of the jobs when those of S get their outcome.              *)
LEMMA SettledOnce ==
  ASSUME TypeOK, ExactlyOneFate, NEW S \in SUBSET Jobs, NEW f \in Fates, Settle(S, f),
         \A j \in S : fate[j] = NoFate,
         accepted' = accepted, Queued' \subseteq Queued \ S,
         \A j \in Held \ S : fate[j] = NoFate => j \in Held'
  PROVE  /\ ExactlyOneFate'
         /\ \A j \in Jobs : fate'[j] = IF j \in S THEN f ELSE fate[j]
         /\ f # NoFate
<1>1. f # NoFate
  BY DEF Fates, NoFate
<1>2. \A j \in Jobs : /\ fate'[j] = IF j \in S THEN f ELSE fate[j]
                      /\ told'[j] = IF j \in S THEN told[j] + 1 ELSE told[j]
  BY DEF Settle
<1> QED
  BY <1>1, <1>2 DEF ExactlyOneFate, TypeOK

(* No job got an outcome.                                                   *)
LEMMA NoneSettled ==
  ASSUME ExactlyOneFate, fate' = fate, told' = told, accepted' = accepted,
         Queued' \subseteq Queued, \A j \in Held : fate[j] = NoFate => j \in Held'
  PROVE  ExactlyOneFate'
  BY DEF ExactlyOneFate

(* No thread outlives the slot of its job.                                  *)
LEMMA NextThreads == TypeOK /\ PlaceInv /\ ThreadInv /\ [Next]_vars => ThreadInv'
<1> SUFFICES ASSUME TypeOK /\ PlaceInv /\ ThreadInv, [Next]_vars PROVE ThreadInv'
  OBVIOUS
<1>1. CASE Start
  BY <1>1, SamePlaces DEF Start, ThreadInv, Computing
<1>2. ASSUME NEW j \in Jobs, Refuse(j) PROVE ThreadInv'
  BY <1>2, SamePlaces DEF Refuse, ThreadInv, Computing
<1>3. ASSUME NEW j \in Jobs, Accept(j) PROVE ThreadInv'
  BY <1>3 DEF Accept, ThreadInv, Computing, Working
<1>4. ASSUME NEW j \in Jobs, ThreadBegins(j) PROVE ThreadInv'
  BY <1>4, SamePlaces DEF ThreadBegins, ThreadInv, Computing
<1>5. ASSUME NEW j \in Jobs, ThreadEnds(j) PROVE ThreadInv'
  BY <1>5, SamePlaces DEF ThreadEnds, ThreadInv, Computing
<1>6. ASSUME NEW w \in Workers, TakeExpired(w) PROVE ThreadInv'
  BY <1>6 DEF TakeExpired, ThreadInv, Computing, Working
<1>7. ASSUME NEW w \in Workers, Take(w) PROVE ThreadInv'
  <2>1. holds[w] = {}
    BY <1>7 DEF Take, PlaceInv, Busy
  <2>2. Working' = Working \union {Head(queue)}
    BY <1>7, <2>1 DEF Take, TypeOK, Working
  <2>3. thread' = [thread EXCEPT ![Head(queue)] = "queued"]
    BY <1>7 DEF Take
  <2> QED
    BY <2>2, <2>3 DEF ThreadInv, Computing, TypeOK
<1>8. ASSUME NEW w \in Workers, Cancelled(w) PROVE ThreadInv'
  <2>1. thread' = thread
    BY <1>8 DEF Cancelled
  <2>2. CASE MayLeave(w) /\ Leave(w, "gone")
    <3>1. Working' = Working \ holds[w]
      BY <1>8, <2>2, LeavePlaces DEF Cancelled
    <3> QED
      BY <2>1, <2>2, <3>1 DEF ThreadInv, Computing, MayLeave
  <2>3. CASE Stay(w, "dying")
    BY <1>8, <2>1, <2>3, SamePlaces DEF Cancelled, Stay, ThreadInv, Computing
  <2> QED
    BY <1>8, <2>2, <2>3 DEF Cancelled
<1>9. ASSUME NEW w \in Workers, Dies(w) PROVE ThreadInv'
  <2>1. Working' = Working \ holds[w] /\ thread' = thread
    BY <1>9, LeavePlaces DEF Dies, AfterFailure
  <2>2. \A i \in holds[w] : ~Computing(i)
    BY <1>9 DEF Dies, MayLeave
  <2> QED
    BY <2>1, <2>2 DEF ThreadInv, Computing
<1>10. ASSUME NEW w \in Workers, NEW j \in holds[w], CompareTimeout(w, j) PROVE ThreadInv'
  BY <1>10, SamePlaces DEF CompareTimeout, Stay, ThreadInv, Computing
<1>11. ASSUME NEW w \in Workers, NEW j \in holds[w], CompareFails(w, j) PROVE ThreadInv'
  <2>1. Working' = Working \ holds[w] /\ thread' = thread
    BY <1>11, LeavePlaces DEF CompareFails, AfterFailure
  <2>2. \A i \in holds[w] : ~Computing(i)
    BY <1>11 DEF CompareFails, PlaceInv, Computing
  <2> QED
    BY <2>1, <2>2 DEF ThreadInv, Computing
<1>12. ASSUME NEW w \in Workers, NEW j \in holds[w], CompareDone(w, j) PROVE ThreadInv'
  <2>1. Working' = Working \ holds[w] /\ thread' = thread
    BY <1>12, LeavePlaces DEF CompareDone, AfterFailure
  <2>2. \A i \in holds[w] : ~Computing(i)
    BY <1>12 DEF CompareDone, PlaceInv, Computing
  <2> QED
    BY <2>1, <2>2 DEF ThreadInv, Computing
<1>13. ASSUME NEW w \in Workers, NEW j \in holds[w], StartDetail(w, j) PROVE ThreadInv'
  <2>1. Working' = Working /\ thread' = [thread EXCEPT ![j] = "queued"] /\ j \in Working
    BY <1>13, SamePlaces DEF StartDetail, Stay, Working
  <2> QED
    BY <2>1 DEF ThreadInv, Computing, TypeOK
<1>14. ASSUME NEW w \in Workers, NEW j \in holds[w], DetailDone(w, j) PROVE ThreadInv'
  <2>1. Working' = Working \ holds[w] /\ thread' = thread
    BY <1>14, LeavePlaces DEF DetailDone, AfterFailure
  <2>2. \A i \in holds[w] : ~Computing(i)
    BY <1>14 DEF DetailDone, PlaceInv, Computing
  <2> QED
    BY <2>1, <2>2 DEF ThreadInv, Computing
<1>15. ASSUME NEW w \in Workers, NEW j \in holds[w], DetailTimeout(w, j) PROVE ThreadInv'
  BY <1>15, SamePlaces DEF DetailTimeout, Stay, ThreadInv, Computing
<1>16. ASSUME NEW w \in Workers, NEW j \in holds[w], LateEnds(w, j) PROVE ThreadInv'
  <2>1. Working' = Working \ holds[w] /\ thread' = thread
    BY <1>16, LeavePlaces DEF LateEnds, AfterFailure
  <2>2. \A i \in holds[w] : ~Computing(i)
    BY <1>16 DEF LateEnds, PlaceInv, Computing
  <2> QED
    BY <2>1, <2>2 DEF ThreadInv, Computing
<1>17. ASSUME NEW c \in Callers, Flush(c) PROVE ThreadInv'
  BY <1>17, SamePlaces DEF Flush, ThreadInv, Computing
<1>18. CASE Close
  BY <1>18, SamePlaces DEF Close, ThreadInv, Computing
<1>19. CASE StopWorkers
  BY <1>19, SamePlaces DEF StopWorkers, ThreadInv, Computing
<1>20. CASE CloseEnds
  <2>1. Working' = Working /\ \A j \in Jobs : Computing(j)' => Computing(j)
    BY <1>20 DEF CloseEnds, Working, Computing
  <2> QED
    BY <2>1 DEF ThreadInv
<1>21. CASE UNCHANGED vars
  BY SamePlaces, <1>21 DEF vars, ThreadInv, Computing
<1> QED
  BY <1>1, <1>2, <1>3, <1>4, <1>5, <1>6, <1>7, <1>8, <1>9, <1>10, <1>11, <1>12, <1>13,
     <1>14, <1>15, <1>16, <1>17, <1>18, <1>19, <1>20, <1>21
  DEF Next, WorkerStep, CloseStep

(* The counters follow, and join() returns in time.                         *)
LEMMA NextSlots == TypeOK /\ PlaceInv /\ SlotInv /\ FlushInv /\ [Next]_vars
                  => (SlotInv /\ FlushInv)'
<1> SUFFICES ASSUME TypeOK /\ PlaceInv /\ SlotInv /\ FlushInv, [Next]_vars
             PROVE  (SlotInv /\ FlushInv)'
  OBVIOUS
<1>1. CASE Start
  BY <1>1, SamePlaces, SameSlots DEF Start, flushVars
<1>2. ASSUME NEW j \in Jobs, Refuse(j) PROVE (SlotInv /\ FlushInv)'
  BY <1>2, SamePlaces, SameSlots DEF Refuse, flushVars
<1>3. ASSUME NEW j \in Jobs, Accept(j) PROVE (SlotInv /\ FlushInv)'
  <2>1. j \notin accepted /\ j \notin Held
    BY <1>3, NewJob DEF Accept
  <2>2. Held' = Held \union {j}
    <3>1. Working' = Working
      BY <1>3 DEF Accept, Working
    <3> QED
      BY <1>3, <2>1, <3>1, PutPlaces DEF Accept, Held
  <2>3. Cardinality(Held') = Cardinality(Held) + 1 /\ Cardinality(Held) \in Nat
    BY <2>1, <2>2, HeldFinite, FS_AddElement, FS_CardinalityType
  <2>4. Weight[Held'] = Weight[Held] + Weight[{j}]
    <3>1. Held \in SUBSET Jobs /\ {j} \in SUBSET Jobs /\ Held \intersect {j} = {}
      BY <2>1, HeldFinite
    <3> QED
      BY <2>2, <3>1, WeightAdds
  <2>5. SlotInv'
    BY <1>3, <2>3, <2>4, WorkLimitsAssumption DEF Accept, SlotInv, HasRoom, TypeOK
  <2>6. FlushInv'
    BY <1>3, <2>1, <2>2 DEF Accept, FlushInv, flushVars
  <2> QED
    BY <2>5, <2>6
<1>4. ASSUME NEW j \in Jobs, ThreadBegins(j) PROVE (SlotInv /\ FlushInv)'
  BY <1>4, SamePlaces, SameSlots DEF ThreadBegins, flushVars
<1>5. ASSUME NEW j \in Jobs, ThreadEnds(j) PROVE (SlotInv /\ FlushInv)'
  BY <1>5, SamePlaces, SameSlots DEF ThreadEnds, flushVars
<1>6. ASSUME NEW w \in Workers, TakeExpired(w) PROVE (SlotInv /\ FlushInv)'
  <2>1. Held' = Held \ {Head(queue)} /\ {Head(queue)} \in SUBSET Held
    <3>1. Working' = Working
      BY <1>6 DEF TakeExpired, Working
    <3> QED
      BY <1>6, <3>1, GetPlaces DEF TakeExpired, Held, PlaceInv
  <2> QED
    BY <1>6, <2>1, SlotsReleased DEF TakeExpired
<1>7. ASSUME NEW w \in Workers, Take(w) PROVE (SlotInv /\ FlushInv)'
  <2>1. holds[w] = {}
    BY <1>7 DEF Take, PlaceInv, Busy
  <2>2. Working' = Working \union {Head(queue)}
    BY <1>7, <2>1 DEF Take, TypeOK, Working
  <2>3. Held' = Held
    BY <1>7, <2>2, GetPlaces DEF Take, Held
  <2> QED
    BY <1>7, <2>3, SameSlots DEF Take
<1>8. ASSUME NEW w \in Workers, Cancelled(w) PROVE (SlotInv /\ FlushInv)'
  <2>1. accepted' = accepted
    BY <1>8 DEF Cancelled
  <2>2. CASE Leave(w, "gone")
    <3>1. Held' = Held \ holds[w] /\ holds[w] \in SUBSET Held
      BY <1>8, <2>2, LeavePlaces DEF Cancelled, Held
    <3> QED
      BY <2>1, <2>2, <3>1, SlotsReleased DEF Leave
  <2>3. CASE Stay(w, "dying")
    BY <1>8, <2>3, SamePlaces, SameSlots DEF Cancelled, Stay
  <2> QED
    BY <1>8, <2>2, <2>3 DEF Cancelled
<1>9. ASSUME NEW w \in Workers, Dies(w) PROVE (SlotInv /\ FlushInv)'
  <2>1. Release(holds[w]) /\ accepted' = accepted
    BY <1>9 DEF Dies, Leave
  <2>2. Held' = Held \ holds[w] /\ holds[w] \in SUBSET Held
    BY <1>9, LeavePlaces DEF Dies, AfterFailure, Held
  <2> QED
    BY <2>1, <2>2, SlotsReleased
<1>10. ASSUME NEW w \in Workers, NEW j \in holds[w], CompareTimeout(w, j)
       PROVE (SlotInv /\ FlushInv)'
  BY <1>10, SamePlaces, SameSlots DEF CompareTimeout, Stay
<1>11. ASSUME NEW w \in Workers, NEW j \in holds[w], CompareFails(w, j)
       PROVE (SlotInv /\ FlushInv)'
  <2>1. Release(holds[w]) /\ accepted' = accepted
    BY <1>11 DEF CompareFails, Leave
  <2>2. Held' = Held \ holds[w] /\ holds[w] \in SUBSET Held
    BY <1>11, LeavePlaces DEF CompareFails, AfterFailure, Held
  <2> QED
    BY <2>1, <2>2, SlotsReleased
<1>12. ASSUME NEW w \in Workers, NEW j \in holds[w], CompareDone(w, j)
       PROVE (SlotInv /\ FlushInv)'
  <2>1. Release(holds[w]) /\ accepted' = accepted
    BY <1>12 DEF CompareDone, Leave
  <2>2. Held' = Held \ holds[w] /\ holds[w] \in SUBSET Held
    BY <1>12, LeavePlaces DEF CompareDone, AfterFailure, Held
  <2> QED
    BY <2>1, <2>2, SlotsReleased
<1>13. ASSUME NEW w \in Workers, NEW j \in holds[w], StartDetail(w, j)
       PROVE (SlotInv /\ FlushInv)'
  BY <1>13, SamePlaces, SameSlots DEF StartDetail, Stay
<1>14. ASSUME NEW w \in Workers, NEW j \in holds[w], DetailDone(w, j)
       PROVE (SlotInv /\ FlushInv)'
  <2>1. Release(holds[w]) /\ accepted' = accepted
    BY <1>14 DEF DetailDone, Leave
  <2>2. Held' = Held \ holds[w] /\ holds[w] \in SUBSET Held
    BY <1>14, LeavePlaces DEF DetailDone, AfterFailure, Held
  <2> QED
    BY <2>1, <2>2, SlotsReleased
<1>15. ASSUME NEW w \in Workers, NEW j \in holds[w], DetailTimeout(w, j)
       PROVE (SlotInv /\ FlushInv)'
  BY <1>15, SamePlaces, SameSlots DEF DetailTimeout, Stay
<1>16. ASSUME NEW w \in Workers, NEW j \in holds[w], LateEnds(w, j)
       PROVE (SlotInv /\ FlushInv)'
  <2>1. Release(holds[w]) /\ accepted' = accepted
    BY <1>16 DEF LateEnds, Leave
  <2>2. Held' = Held \ holds[w] /\ holds[w] \in SUBSET Held
    BY <1>16, LeavePlaces DEF LateEnds, AfterFailure, Held
  <2> QED
    BY <2>1, <2>2, SlotsReleased
<1>17. ASSUME NEW c \in Callers, Flush(c) PROVE (SlotInv /\ FlushInv)'
  <2>1. Held' = Held
    BY <1>17, SamePlaces DEF Flush
  <2>2. unfinished = 0 => Held = {}
    BY HeldFinite, FS_EmptySet DEF SlotInv
  <2>3. SlotInv'
    BY <1>17, <2>1 DEF Flush, SlotInv, slotVars
  <2>4. unfinished \in Nat
    BY HeldFinite, FS_CardinalityType DEF SlotInv
  <2> QED
    BY <1>17, <2>1, <2>2, <2>3, <2>4 DEF Flush, FlushInv, TypeOK, PlaceInv
<1>18. CASE Close
  BY <1>18, SamePlaces, SameSlots DEF Close, flushVars
<1>19. CASE StopWorkers
  BY <1>19, SamePlaces, SameSlots DEF StopWorkers, flushVars
<1>20. CASE CloseEnds
  <2>1. Queued' = {} /\ Working' = Working
    BY <1>20 DEF CloseEnds, Queued, Working
  <2>2. Held' = Held \ Drained /\ Drained \in SUBSET Held
    BY <2>1 DEF Held, Drained, PlaceInv
  <2> QED
    BY <1>20, <2>2, SlotsReleased DEF CloseEnds
<1>21. CASE UNCHANGED vars
  BY SamePlaces, SameSlots, <1>21 DEF vars
<1> QED
  BY <1>1, <1>2, <1>3, <1>4, <1>5, <1>6, <1>7, <1>8, <1>9, <1>10, <1>11, <1>12, <1>13,
     <1>14, <1>15, <1>16, <1>17, <1>18, <1>19, <1>20, <1>21
  DEF Next, WorkerStep, CloseStep

(* A worker has one job at a time.                                          *)
LEMMA HoldsOne ==
  ASSUME TypeOK, PlaceInv, NEW w \in Workers, NEW j \in holds[w]
  PROVE  j \in Jobs /\ holds[w] = {j}
<1>1. PICK i \in Jobs : holds[w] = {i}
  BY DEF PlaceInv
<1> QED
  BY <1>1

(* Outcomes are given once, and by whoever has the job.                     *)
LEMMA NextFates == TypeOK /\ PlaceInv /\ CloseInv /\ FateInv /\ [Next]_vars => FateInv'
<1> SUFFICES ASSUME TypeOK /\ PlaceInv /\ CloseInv /\ FateInv, [Next]_vars PROVE FateInv'
  OBVIOUS
<1>1. CASE Start
  <2>1. UNCHANGED <<Queued, Held, accepted, fate, told, holds>>
    BY <1>1, SamePlaces DEF Start, fateVars
  <2>2. \A v \in Workers : holds[v] = {}
    BY <1>1 DEF Start, CloseInv, PlaceInv, Busy
  <2> QED
    BY <2>1, <2>2, NoneSettled DEF FateInv
<1>2. ASSUME NEW j \in Jobs, Refuse(j) PROVE FateInv'
  <2>1. j \notin Held /\ fate[j] = NoFate
    BY <1>2, NewJob DEF Refuse
  <2>2. PICK f \in Fates : Settle({j}, f)
    BY <1>2 DEF Refuse, Fates
  <2>3. UNCHANGED <<Queued, Held, accepted, holds, at>>
    BY <1>2, SamePlaces DEF Refuse
  <2>4. /\ ExactlyOneFate' /\ f # NoFate
        /\ \A i \in Jobs : fate'[i] = IF i \in {j} THEN f ELSE fate[i]
    BY <2>1, <2>2, <2>3, SettledOnce DEF FateInv, Held
  <2>5. \A v \in Workers : j \notin holds[v]
    BY <2>1 DEF Held, Working
  <2> QED
    BY <2>3, <2>4, <2>5 DEF FateInv, TypeOK
<1>3. ASSUME NEW j \in Jobs, Accept(j) PROVE FateInv'
  <2>1. j \notin Held /\ fate[j] = NoFate
    BY <1>3, NewJob DEF Accept
  <2>2. Queued' = Queued \union {j} /\ Held' = Held \union {j}
    <3>1. Working' = Working
      BY <1>3 DEF Accept, Working
    <3> QED
      BY <1>3, <2>1, <3>1, PutPlaces DEF Accept, Held
  <2>3. accepted' = accepted \union {j} /\ UNCHANGED <<fate, told, holds, at>>
    BY <1>3 DEF Accept, fateVars
  <2> QED
    BY <2>1, <2>2, <2>3 DEF FateInv, ExactlyOneFate
<1>4. ASSUME NEW j \in Jobs, ThreadBegins(j) PROVE FateInv'
  <2>1. UNCHANGED <<Queued, Held, accepted, fate, told, holds, at>>
    BY <1>4, SamePlaces DEF ThreadBegins, fateVars
  <2> QED
    BY <2>1, NoneSettled DEF FateInv
<1>5. ASSUME NEW j \in Jobs, ThreadEnds(j) PROVE FateInv'
  <2>1. UNCHANGED <<Queued, Held, accepted, fate, told, holds, at>>
    BY <1>5, SamePlaces DEF ThreadEnds, fateVars
  <2> QED
    BY <2>1, NoneSettled DEF FateInv
<1>6. ASSUME NEW w \in Workers, TakeExpired(w) PROVE FateInv'
  <2>1. /\ Head(queue) \in Queued /\ Queued' = Queued \ {Head(queue)}
        /\ Head(queue) \in Jobs
    BY <1>6, GetPlaces, QueueType DEF TakeExpired
  <2>2. Working' = Working /\ UNCHANGED <<accepted, holds, at>>
    BY <1>6 DEF TakeExpired, Working
  <2>3. fate[Head(queue)] = NoFate
    BY <2>1 DEF FateInv, ExactlyOneFate
  <2>4. Settle({Head(queue)}, "dropped") /\ "dropped" \in Fates
    BY <1>6 DEF TakeExpired, Fates
  <2>5. /\ ExactlyOneFate'
        /\ \A i \in Jobs : fate'[i] = IF i \in {Head(queue)} THEN "dropped" ELSE fate[i]
    BY <2>1, <2>2, <2>3, <2>4, SettledOnce DEF FateInv, Held
  <2>6. \A v \in Workers : Head(queue) \notin holds[v]
    BY <2>1 DEF PlaceInv, Working
  <2> QED
    BY <2>2, <2>5, <2>6 DEF FateInv, TypeOK
<1>7. ASSUME NEW w \in Workers, Take(w) PROVE FateInv'
  <2>1. /\ Head(queue) \in Queued /\ Queued' = Queued \ {Head(queue)}
        /\ Head(queue) \in Jobs
    BY <1>7, GetPlaces, QueueType DEF Take
  <2>2. /\ UNCHANGED <<accepted, fate, told>>
        /\ holds' = [holds EXCEPT ![w] = {Head(queue)}] /\ at' = [at EXCEPT ![w] = "compare"]
    BY <1>7 DEF Take, fateVars
  <2>3. Held' = Held
    <3>1. holds[w] = {}
      BY <1>7 DEF Take, PlaceInv, Busy
    <3>2. Working' = Working \union {Head(queue)}
      BY <2>2, <3>1 DEF TypeOK, Working
    <3> QED
      BY <2>1, <3>2 DEF Held
  <2>4. ExactlyOneFate'
    BY <2>1, <2>2, <2>3, NoneSettled DEF FateInv
  <2>5. fate[Head(queue)] = NoFate
    BY <2>1 DEF FateInv, ExactlyOneFate
  <2> QED
    BY <2>2, <2>4, <2>5 DEF FateInv, TypeOK
<1>8. ASSUME NEW w \in Workers, Cancelled(w) PROVE FateInv'
  <2>1. at[w] \notin {"new", "dying", "gone"}
    BY <1>8 DEF Cancelled, CloseInv
  <2>2. /\ Unsettled(w) \in SUBSET Jobs /\ Unsettled(w) \in SUBSET holds[w]
        /\ \A i \in Unsettled(w) : fate[i] = NoFate
        /\ \A i \in holds[w] \ Unsettled(w) : fate[i] # NoFate
    BY <2>1 DEF Unsettled, FateInv, TypeOK, PlaceInv, Busy
  <2>3. Settle(Unsettled(w), "shutdown") /\ "shutdown" \in Fates /\ accepted' = accepted
    BY <1>8 DEF Cancelled, Fates
  <2>4. Queued' = Queued /\ Queued \intersect holds[w] = {}
    BY <1>8 DEF Cancelled, Queued, PlaceInv, Working
  <2>5. CASE Leave(w, "gone")
    <3>1. Held' = Held \ holds[w]
      BY <1>8, <2>5, LeavePlaces DEF Cancelled
    <3>2. /\ ExactlyOneFate'
          /\ \A i \in Jobs : fate'[i] = IF i \in Unsettled(w) THEN "shutdown" ELSE fate[i]
      BY <2>2, <2>3, <2>4, <3>1, SettledOnce DEF FateInv
    <3>3. /\ holds' = [holds EXCEPT ![w] = {}] /\ \A v \in Workers \ {w} : at'[v] = at[v]
      BY <2>5 DEF Leave, TypeOK
    <3>4. \A v \in Workers \ {w} : holds[v] \intersect Unsettled(w) = {}
      BY <2>2 DEF PlaceInv
    <3> QED
      BY <3>2, <3>3, <3>4 DEF FateInv, TypeOK
  <2>6. CASE Stay(w, "dying")
    <3>1. Held' = Held
      BY <1>8, <2>6, SamePlaces DEF Cancelled, Stay
    <3>2. /\ ExactlyOneFate' /\ "shutdown" # NoFate
          /\ \A i \in Jobs : fate'[i] = IF i \in Unsettled(w) THEN "shutdown" ELSE fate[i]
      BY <2>2, <2>3, <2>4, <3>1, SettledOnce DEF FateInv
    <3>3. /\ holds' = holds /\ at' = [at EXCEPT ![w] = "dying"]
      BY <2>6 DEF Stay
    <3>4. \A v \in Workers \ {w} : holds[v] \intersect Unsettled(w) = {}
      BY <2>2 DEF PlaceInv
    <3> QED
      BY <2>2, <3>2, <3>3, <3>4 DEF FateInv, TypeOK
  <2> QED
    BY <1>8, <2>5, <2>6 DEF Cancelled
<1>9. ASSUME NEW w \in Workers, Dies(w) PROVE FateInv'
  <2>1. Queued' = Queued /\ Held' = Held \ holds[w]
    BY <1>9, LeavePlaces DEF Dies
  <2>2. \A i \in holds[w] : fate[i] # NoFate
    BY <1>9 DEF Dies, FateInv, PlaceInv, TypeOK
  <2>3. ExactlyOneFate'
    BY <1>9, <2>1, <2>2, NoneSettled DEF Dies, fateVars, FateInv
  <2>4. /\ fate' = fate /\ holds' = [holds EXCEPT ![w] = {}]
        /\ \A v \in Workers \ {w} : at'[v] = at[v]
    BY <1>9 DEF Dies, Leave, fateVars, TypeOK
  <2> QED
    BY <2>3, <2>4 DEF FateInv, TypeOK
<1>10. ASSUME NEW w \in Workers, NEW j \in holds[w], CompareTimeout(w, j) PROVE FateInv'
  <2>0. j \in Jobs /\ holds[w] = {j}
    BY HoldsOne
  <2>1. fate[j] = NoFate
    BY <1>10 DEF CompareTimeout, FateInv
  <2>2. PICK f \in Fates : Settle({j}, f)
    BY <1>10 DEF CompareTimeout, Replies, Fates
  <2>3. Queued' = Queued /\ Working' = Working /\ Held' = Held
    BY <1>10, SamePlaces DEF CompareTimeout, Stay
  <2>4. j \notin Queued /\ accepted' = accepted
    BY <1>10, <2>0 DEF CompareTimeout, PlaceInv, Working
  <2>5. /\ ExactlyOneFate' /\ f # NoFate
        /\ \A i \in Jobs : fate'[i] = IF i \in {j} THEN f ELSE fate[i]
    BY <2>0, <2>1, <2>2, <2>3, <2>4, SettledOnce DEF FateInv
  <2>6. /\ holds' = holds /\ at'[w] = "late"
        /\ \A v \in Workers \ {w} : at'[v] = at[v]
    BY <1>10 DEF CompareTimeout, Stay, TypeOK
  <2> QED
    BY <2>0, <2>5, <2>6 DEF FateInv, PlaceInv, TypeOK
<1>11. ASSUME NEW w \in Workers, NEW j \in holds[w], CompareFails(w, j) PROVE FateInv'
  <2>0. j \in Jobs /\ holds[w] = {j}
    BY HoldsOne
  <2>1. fate[j] = NoFate
    BY <1>11 DEF CompareFails, FateInv
  <2>2. PICK f \in Fates : Settle({j}, f)
    BY <1>11 DEF CompareFails, Replies, Fates
  <2>3. Queued' = Queued /\ Working' = Working \ holds[w] /\ Held' = Held \ holds[w]
    BY <1>11, LeavePlaces DEF CompareFails, AfterFailure
  <2>4. j \notin Queued /\ accepted' = accepted
    BY <1>11, <2>0 DEF CompareFails, PlaceInv, Working
  <2>5. /\ ExactlyOneFate' /\ f # NoFate
        /\ \A i \in Jobs : fate'[i] = IF i \in {j} THEN f ELSE fate[i]
    BY <2>0, <2>1, <2>2, <2>3, <2>4, SettledOnce DEF FateInv
  <2>6. /\ holds' = [holds EXCEPT ![w] = {}]
        /\ \A v \in Workers \ {w} : at'[v] = at[v]
    BY <1>11 DEF CompareFails, Leave, TypeOK
  <2> QED
    BY <2>0, <2>5, <2>6 DEF FateInv, PlaceInv, TypeOK
<1>12. ASSUME NEW w \in Workers, NEW j \in holds[w], CompareDone(w, j) PROVE FateInv'
  <2>0. j \in Jobs /\ holds[w] = {j}
    BY HoldsOne
  <2>1. fate[j] = NoFate
    BY <1>12 DEF CompareDone, FateInv
  <2>2. PICK f \in Fates : Settle({j}, f)
    BY <1>12 DEF CompareDone, Replies, Fates
  <2>3. Queued' = Queued /\ Working' = Working \ holds[w] /\ Held' = Held \ holds[w]
    BY <1>12, LeavePlaces DEF CompareDone, AfterFailure
  <2>4. j \notin Queued /\ accepted' = accepted
    BY <1>12, <2>0 DEF CompareDone, PlaceInv, Working
  <2>5. /\ ExactlyOneFate' /\ f # NoFate
        /\ \A i \in Jobs : fate'[i] = IF i \in {j} THEN f ELSE fate[i]
    BY <2>0, <2>1, <2>2, <2>3, <2>4, SettledOnce DEF FateInv
  <2>6. /\ holds' = [holds EXCEPT ![w] = {}]
        /\ \A v \in Workers \ {w} : at'[v] = at[v]
    BY <1>12 DEF CompareDone, Leave, TypeOK
  <2> QED
    BY <2>0, <2>5, <2>6 DEF FateInv, PlaceInv, TypeOK
<1>13. ASSUME NEW w \in Workers, NEW j \in holds[w], StartDetail(w, j) PROVE FateInv'
  <2>1. Queued' = Queued /\ Held' = Held
    BY <1>13, SamePlaces DEF StartDetail, Stay
  <2>2. ExactlyOneFate'
    BY <1>13, <2>1, NoneSettled DEF StartDetail, fateVars, FateInv
  <2>3. /\ fate' = fate /\ holds' = holds /\ at' = [at EXCEPT ![w] = "detail"]
        /\ at[w] = "compare"
    BY <1>13 DEF StartDetail, Stay, fateVars
  <2> QED
    BY <2>2, <2>3 DEF FateInv, TypeOK
<1>14. ASSUME NEW w \in Workers, NEW j \in holds[w], DetailDone(w, j) PROVE FateInv'
  <2>0. j \in Jobs /\ holds[w] = {j}
    BY HoldsOne
  <2>1. fate[j] = NoFate
    BY <1>14 DEF DetailDone, FateInv
  <2>2. PICK f \in Fates : Settle({j}, f)
    BY <1>14 DEF DetailDone, Replies, Fates
  <2>3. Queued' = Queued /\ Working' = Working \ holds[w] /\ Held' = Held \ holds[w]
    BY <1>14, LeavePlaces DEF DetailDone, AfterFailure
  <2>4. j \notin Queued /\ accepted' = accepted
    BY <1>14, <2>0 DEF DetailDone, PlaceInv, Working
  <2>5. /\ ExactlyOneFate' /\ f # NoFate
        /\ \A i \in Jobs : fate'[i] = IF i \in {j} THEN f ELSE fate[i]
    BY <2>0, <2>1, <2>2, <2>3, <2>4, SettledOnce DEF FateInv
  <2>6. /\ holds' = [holds EXCEPT ![w] = {}]
        /\ \A v \in Workers \ {w} : at'[v] = at[v]
    BY <1>14 DEF DetailDone, Leave, TypeOK
  <2> QED
    BY <2>0, <2>5, <2>6 DEF FateInv, PlaceInv, TypeOK
<1>15. ASSUME NEW w \in Workers, NEW j \in holds[w], DetailTimeout(w, j) PROVE FateInv'
  <2>0. j \in Jobs /\ holds[w] = {j}
    BY HoldsOne
  <2>1. fate[j] = NoFate
    BY <1>15 DEF DetailTimeout, FateInv
  <2>2. PICK f \in Fates : Settle({j}, f)
    BY <1>15 DEF DetailTimeout, Replies, Fates
  <2>3. Queued' = Queued /\ Working' = Working /\ Held' = Held
    BY <1>15, SamePlaces DEF DetailTimeout, Stay
  <2>4. j \notin Queued /\ accepted' = accepted
    BY <1>15, <2>0 DEF DetailTimeout, PlaceInv, Working
  <2>5. /\ ExactlyOneFate' /\ f # NoFate
        /\ \A i \in Jobs : fate'[i] = IF i \in {j} THEN f ELSE fate[i]
    BY <2>0, <2>1, <2>2, <2>3, <2>4, SettledOnce DEF FateInv
  <2>6. /\ holds' = holds /\ at'[w] = "tail"
        /\ \A v \in Workers \ {w} : at'[v] = at[v]
    BY <1>15 DEF DetailTimeout, Stay, TypeOK
  <2> QED
    BY <2>0, <2>5, <2>6 DEF FateInv, PlaceInv, TypeOK
<1>16. ASSUME NEW w \in Workers, NEW j \in holds[w], LateEnds(w, j) PROVE FateInv'
  <2>1. Queued' = Queued /\ Held' = Held \ holds[w]
    BY <1>16, LeavePlaces DEF LateEnds
  <2>2. \A i \in holds[w] : fate[i] # NoFate
    BY <1>16 DEF LateEnds, FateInv, PlaceInv, TypeOK
  <2>3. ExactlyOneFate'
    BY <1>16, <2>1, <2>2, NoneSettled DEF LateEnds, fateVars, FateInv
  <2>4. /\ fate' = fate /\ holds' = [holds EXCEPT ![w] = {}]
        /\ \A v \in Workers \ {w} : at'[v] = at[v]
    BY <1>16 DEF LateEnds, Leave, fateVars, TypeOK
  <2> QED
    BY <2>3, <2>4 DEF FateInv, TypeOK
<1>17. ASSUME NEW c \in Callers, Flush(c) PROVE FateInv'
  <2>1. UNCHANGED <<Queued, Held, accepted, fate, told, holds, at>>
    BY <1>17, SamePlaces DEF Flush, fateVars
  <2> QED
    BY <2>1, NoneSettled DEF FateInv
<1>18. CASE Close
  <2>1. UNCHANGED <<Queued, Held, accepted, fate, told, holds, at>>
    BY <1>18, SamePlaces DEF Close, fateVars
  <2> QED
    BY <2>1, NoneSettled DEF FateInv
<1>19. CASE StopWorkers
  <2>1. UNCHANGED <<Queued, Held, accepted, fate, told, holds, at>>
    BY <1>19, SamePlaces DEF StopWorkers, fateVars
  <2> QED
    BY <2>1, NoneSettled DEF FateInv
<1>20. CASE CloseEnds
  <2>1. Queued' = {} /\ Working' = Working /\ UNCHANGED <<accepted, holds, at>>
    BY <1>20 DEF CloseEnds, Queued, Working
  <2>2. /\ Drained \in SUBSET Jobs /\ \A j \in Drained : fate[j] = NoFate
        /\ Drained = Queued
    BY DEF Drained, Queued, FateInv, ExactlyOneFate, TypeOK
  <2>3. Settle(Drained, "shutdown") /\ "shutdown" \in Fates
    BY <1>20 DEF CloseEnds, Fates
  <2>4. /\ ExactlyOneFate'
        /\ \A j \in Jobs : fate'[j] = IF j \in Drained THEN "shutdown" ELSE fate[j]
    BY <2>1, <2>2, <2>3, SettledOnce DEF FateInv, Held
  <2>5. \A v \in Workers : holds[v] \intersect Drained = {}
    BY <2>2 DEF PlaceInv, Working
  <2> QED
    BY <2>1, <2>4, <2>5 DEF FateInv, TypeOK
<1>21. CASE UNCHANGED vars
  BY SamePlaces, NoneSettled, <1>21 DEF vars, fateVars, FateInv
<1> QED
  BY <1>1, <1>2, <1>3, <1>4, <1>5, <1>6, <1>7, <1>8, <1>9, <1>10, <1>11, <1>12, <1>13,
     <1>14, <1>15, <1>16, <1>17, <1>18, <1>19, <1>20, <1>21
  DEF Next, WorkerStep, CloseStep

(* close() goes through its stages.                                         *)
LEMMA NextClose == TypeOK /\ PlaceInv /\ SlotInv /\ CloseInv /\ [Next]_vars => CloseInv'
<1> SUFFICES ASSUME TypeOK /\ PlaceInv /\ SlotInv /\ CloseInv, [Next]_vars PROVE CloseInv'
  OBVIOUS
<1>1. CASE Start
  BY <1>1, SamePlaces DEF Start, CloseInv, Closed, fateVars, TypeOK
<1>2. ASSUME NEW j \in Jobs, Refuse(j) PROVE CloseInv'
  <2>1. j \notin accepted
    BY <1>2, NewJob DEF Refuse
  <2>2. \A i \in Jobs \ {j} : fate'[i] = fate[i]
    BY <1>2 DEF Refuse, Settle
  <2>3. UNCHANGED <<opened, cancelled, accepted, closing, at, queue, Held>>
    BY <1>2, SamePlaces DEF Refuse
  <2> QED
    BY <2>1, <2>2, <2>3 DEF CloseInv, Closed, TypeOK
<1>3. ASSUME NEW j \in Jobs, Accept(j) PROVE CloseInv'
  <2>1. fate[j] # "shutdown" /\ opened /\ closing = "no"
    BY <1>3, NewJob DEF Accept, NoFate, CloseInv
  <2>2. /\ UNCHANGED <<opened, cancelled, closing, at, fate>>
        /\ accepted' = accepted \union {j}
    BY <1>3 DEF Accept, fateVars
  <2> QED
    BY <2>1, <2>2 DEF CloseInv, Closed
<1>4. ASSUME NEW j \in Jobs, ThreadBegins(j) PROVE CloseInv'
  BY <1>4, SamePlaces DEF ThreadBegins, CloseInv, Closed, fateVars, TypeOK
<1>5. ASSUME NEW j \in Jobs, ThreadEnds(j) PROVE CloseInv'
  BY <1>5, SamePlaces DEF ThreadEnds, CloseInv, Closed, fateVars, TypeOK
<1>6. ASSUME NEW w \in Workers, TakeExpired(w) PROVE CloseInv'
  <2>1. closing \notin {"stopping", "late", "closed", "closedLate"}
    BY <1>6 DEF TakeExpired, CloseInv, Closed
  <2>2. \A i \in Jobs : fate'[i] = "shutdown" => fate[i] = "shutdown"
    BY <1>6 DEF TakeExpired, Settle
  <2>3. UNCHANGED <<opened, cancelled, accepted, closing, at>> /\ accepted \in SUBSET Jobs
    BY <1>6 DEF TakeExpired, TypeOK
  <2> QED
    BY <2>1, <2>2, <2>3 DEF CloseInv, Closed
<1>7. ASSUME NEW w \in Workers, Take(w) PROVE CloseInv'
  <2>1. opened' = opened /\ closing \notin {"stopping", "late", "closed", "closedLate"}
    BY <1>7 DEF Take, CloseInv, Closed
  <2>2. /\ UNCHANGED <<cancelled, accepted, closing, fate>>
        /\ at' = [at EXCEPT ![w] = "compare"] /\ at[w] = "idle" /\ w \notin cancelled
    BY <1>7 DEF Take, fateVars
  <2> QED
    BY <2>1, <2>2 DEF CloseInv, Closed, TypeOK
<1>8. ASSUME NEW w \in Workers, Cancelled(w) PROVE CloseInv'
  <2>1. closing \in {"stopping", "late"} /\ (closing = "stopping" => Held = {})
    BY <1>8 DEF Cancelled, CloseInv
  <2>2. Unsettled(w) \subseteq Held /\ holds[w] \subseteq Held
    BY DEF Unsettled, Held, Working
  <2>3. closing = "stopping" => fate' = fate
    BY <1>8, <2>1, <2>2 DEF Cancelled, Settle, TypeOK
  <2>4. Held' \subseteq Held
    <3>1. CASE Leave(w, "gone")
      BY <1>8, <3>1, LeavePlaces DEF Cancelled
    <3>2. CASE Stay(w, "dying")
      BY <1>8, <3>2, SamePlaces DEF Cancelled, Stay
    <3> QED
      BY <1>8, <3>1, <3>2 DEF Cancelled
  <2>5. /\ UNCHANGED <<opened, accepted, closing, queue>> /\ cancelled' = cancelled \ {w}
        /\ \A v \in Workers \ {w} : at'[v] = at[v]
        /\ at'[w] \in {"dying", "gone"}
    BY <1>8 DEF Cancelled, Leave, Stay, TypeOK
  <2> QED
    BY <2>1, <2>3, <2>4, <2>5 DEF CloseInv, Closed, TypeOK
<1>9. ASSUME NEW w \in Workers, Dies(w) PROVE CloseInv'
  <2>1. Held' = Held \ holds[w]
    BY <1>9, LeavePlaces DEF Dies
  <2>2. /\ UNCHANGED <<opened, cancelled, accepted, closing, queue, fate>>
        /\ at' = [at EXCEPT ![w] = "gone"] /\ at[w] = "dying"
    BY <1>9 DEF Dies, Leave, fateVars
  <2> QED
    BY <2>1, <2>2 DEF CloseInv, Closed, TypeOK
<1>10. ASSUME NEW w \in Workers, NEW j \in holds[w], CompareTimeout(w, j) PROVE CloseInv'
  <2>1. Held' = Held
    BY <1>10, SamePlaces DEF CompareTimeout, Stay
  <2>2. closing \notin {"stopping", "late", "closed", "closedLate"}
    BY <1>10 DEF CompareTimeout, CloseInv, Closed
  <2>3. \A i \in Jobs : fate'[i] = "shutdown" => fate[i] = "shutdown"
    BY <1>10, <2>2 DEF CompareTimeout, Settle, Replies, Closed, fateVars
  <2>4. /\ UNCHANGED <<opened, cancelled, accepted, closing>>
        /\ \A v \in Workers \ {w} : at'[v] = at[v]
        /\ at[w] \notin {"new", "dying", "gone"} /\ at'[w] \notin {"new", "dying", "gone"}
    BY <1>10 DEF CompareTimeout, Stay, AfterFailure, TypeOK
  <2>5. accepted \in SUBSET Jobs /\ w \notin cancelled
    BY <1>10 DEF CompareTimeout, TypeOK
  <2> QED
    BY <2>1, <2>2, <2>3, <2>4, <2>5 DEF CloseInv, Closed, TypeOK
<1>11. ASSUME NEW w \in Workers, NEW j \in holds[w], CompareFails(w, j) PROVE CloseInv'
  <2>1. Held' = Held \ holds[w]
    BY <1>11, LeavePlaces DEF CompareFails, AfterFailure
  <2>2. closing \notin {"stopping", "late", "closed", "closedLate"}
    BY <1>11 DEF CompareFails, CloseInv, Closed
  <2>3. \A i \in Jobs : fate'[i] = "shutdown" => fate[i] = "shutdown"
    BY <1>11, <2>2 DEF CompareFails, Settle, Replies, Closed, fateVars
  <2>4. /\ UNCHANGED <<opened, cancelled, accepted, closing>>
        /\ \A v \in Workers \ {w} : at'[v] = at[v]
        /\ at[w] \notin {"new", "dying", "gone"} /\ at'[w] \notin {"new", "dying", "gone"}
    BY <1>11 DEF CompareFails, Leave, AfterFailure, TypeOK
  <2>5. accepted \in SUBSET Jobs /\ w \notin cancelled
    BY <1>11 DEF CompareFails, TypeOK
  <2> QED
    BY <2>1, <2>2, <2>3, <2>4, <2>5 DEF CloseInv, Closed, TypeOK
<1>12. ASSUME NEW w \in Workers, NEW j \in holds[w], CompareDone(w, j) PROVE CloseInv'
  <2>1. Held' = Held \ holds[w]
    BY <1>12, LeavePlaces DEF CompareDone, AfterFailure
  <2>2. closing \notin {"stopping", "late", "closed", "closedLate"}
    BY <1>12 DEF CompareDone, CloseInv, Closed
  <2>3. \A i \in Jobs : fate'[i] = "shutdown" => fate[i] = "shutdown"
    BY <1>12, <2>2 DEF CompareDone, Settle, Replies, Closed, fateVars
  <2>4. /\ UNCHANGED <<opened, cancelled, accepted, closing>>
        /\ \A v \in Workers \ {w} : at'[v] = at[v]
        /\ at[w] \notin {"new", "dying", "gone"} /\ at'[w] \notin {"new", "dying", "gone"}
    BY <1>12 DEF CompareDone, Leave, AfterFailure, TypeOK
  <2>5. accepted \in SUBSET Jobs /\ w \notin cancelled
    BY <1>12 DEF CompareDone, TypeOK
  <2> QED
    BY <2>1, <2>2, <2>3, <2>4, <2>5 DEF CloseInv, Closed, TypeOK
<1>13. ASSUME NEW w \in Workers, NEW j \in holds[w], StartDetail(w, j) PROVE CloseInv'
  <2>1. Held' = Held
    BY <1>13, SamePlaces DEF StartDetail, Stay
  <2>2. closing \notin {"stopping", "late", "closed", "closedLate"}
    BY <1>13 DEF StartDetail, CloseInv, Closed
  <2>3. \A i \in Jobs : fate'[i] = "shutdown" => fate[i] = "shutdown"
    BY <1>13, <2>2 DEF StartDetail, Settle, Replies, Closed, fateVars
  <2>4. /\ UNCHANGED <<opened, cancelled, accepted, closing>>
        /\ \A v \in Workers \ {w} : at'[v] = at[v]
        /\ at[w] \notin {"new", "dying", "gone"} /\ at'[w] \notin {"new", "dying", "gone"}
    BY <1>13 DEF StartDetail, Stay, AfterFailure, TypeOK
  <2>5. accepted \in SUBSET Jobs /\ w \notin cancelled
    BY <1>13 DEF StartDetail, TypeOK
  <2> QED
    BY <2>1, <2>2, <2>3, <2>4, <2>5 DEF CloseInv, Closed, TypeOK
<1>14. ASSUME NEW w \in Workers, NEW j \in holds[w], DetailDone(w, j) PROVE CloseInv'
  <2>1. Held' = Held \ holds[w]
    BY <1>14, LeavePlaces DEF DetailDone, AfterFailure
  <2>2. closing \notin {"stopping", "late", "closed", "closedLate"}
    BY <1>14 DEF DetailDone, CloseInv, Closed
  <2>3. \A i \in Jobs : fate'[i] = "shutdown" => fate[i] = "shutdown"
    BY <1>14, <2>2 DEF DetailDone, Settle, Replies, Closed, fateVars
  <2>4. /\ UNCHANGED <<opened, cancelled, accepted, closing>>
        /\ \A v \in Workers \ {w} : at'[v] = at[v]
        /\ at[w] \notin {"new", "dying", "gone"} /\ at'[w] \notin {"new", "dying", "gone"}
    BY <1>14 DEF DetailDone, Leave, AfterFailure, TypeOK
  <2>5. accepted \in SUBSET Jobs /\ w \notin cancelled
    BY <1>14 DEF DetailDone, TypeOK
  <2> QED
    BY <2>1, <2>2, <2>3, <2>4, <2>5 DEF CloseInv, Closed, TypeOK
<1>15. ASSUME NEW w \in Workers, NEW j \in holds[w], DetailTimeout(w, j) PROVE CloseInv'
  <2>1. Held' = Held
    BY <1>15, SamePlaces DEF DetailTimeout, Stay
  <2>2. closing \notin {"stopping", "late", "closed", "closedLate"}
    BY <1>15 DEF DetailTimeout, CloseInv, Closed
  <2>3. \A i \in Jobs : fate'[i] = "shutdown" => fate[i] = "shutdown"
    BY <1>15, <2>2 DEF DetailTimeout, Settle, Replies, Closed, fateVars
  <2>4. /\ UNCHANGED <<opened, cancelled, accepted, closing>>
        /\ \A v \in Workers \ {w} : at'[v] = at[v]
        /\ at[w] \notin {"new", "dying", "gone"} /\ at'[w] \notin {"new", "dying", "gone"}
    BY <1>15 DEF DetailTimeout, Stay, AfterFailure, TypeOK
  <2>5. accepted \in SUBSET Jobs /\ w \notin cancelled
    BY <1>15 DEF DetailTimeout, TypeOK
  <2> QED
    BY <2>1, <2>2, <2>3, <2>4, <2>5 DEF CloseInv, Closed, TypeOK
<1>16. ASSUME NEW w \in Workers, NEW j \in holds[w], LateEnds(w, j) PROVE CloseInv'
  <2>1. Held' = Held \ holds[w]
    BY <1>16, LeavePlaces DEF LateEnds, AfterFailure
  <2>2. closing \notin {"stopping", "late", "closed", "closedLate"}
    BY <1>16 DEF LateEnds, CloseInv, Closed
  <2>3. \A i \in Jobs : fate'[i] = "shutdown" => fate[i] = "shutdown"
    BY <1>16, <2>2 DEF LateEnds, Settle, Replies, Closed, fateVars
  <2>4. /\ UNCHANGED <<opened, cancelled, accepted, closing>>
        /\ \A v \in Workers \ {w} : at'[v] = at[v]
        /\ at[w] \notin {"new", "dying", "gone"} /\ at'[w] \notin {"new", "dying", "gone"}
    BY <1>16 DEF LateEnds, Leave, AfterFailure, TypeOK
  <2>5. accepted \in SUBSET Jobs /\ w \notin cancelled
    BY <1>16 DEF LateEnds, TypeOK
  <2> QED
    BY <2>1, <2>2, <2>3, <2>4, <2>5 DEF CloseInv, Closed, TypeOK
<1>17. ASSUME NEW c \in Callers, Flush(c) PROVE CloseInv'
  BY <1>17, SamePlaces DEF Flush, CloseInv, Closed, fateVars, TypeOK
<1>18. CASE Close
  <2>1. UNCHANGED <<Held, queue, at, cancelled, accepted, fate>>
    BY <1>18, SamePlaces DEF Close, fateVars
  <2>2. cancelled = {}
    BY <1>18 DEF Close, CloseInv
  <2> QED
    BY <1>18, <2>1, <2>2 DEF Close, CloseInv, Closed
<1>19. CASE StopWorkers
  <2>1. UNCHANGED <<Held, queue, at, accepted, fate, opened>>
    BY <1>19, SamePlaces DEF StopWorkers, fateVars
  <2>2. unfinished = 0 => Held = {}
    BY HeldFinite, FS_EmptySet DEF SlotInv
  <2> QED
    BY <1>19, <2>1, <2>2 DEF StopWorkers, MayStop, CloseInv, Closed
<1>20. CASE CloseEnds
  <2>1. queue' = <<>> /\ Held' \subseteq Held
    BY <1>20 DEF CloseEnds, Held, Queued, Working
  <2>2. closing = "stopping" => fate' = fate
    BY <1>20 DEF CloseEnds, CloseInv, Drained, Held, Settle, TypeOK
  <2>3. /\ UNCHANGED <<opened, at, accepted>> /\ cancelled = {} /\ cancelled' = {}
        /\ closing \in {"stopping", "late"}
        /\ closing' = IF closing = "late" THEN "closedLate" ELSE "closed"
    BY <1>20 DEF CloseEnds
  <2> QED
    BY <2>1, <2>2, <2>3 DEF CloseInv, Closed
<1>21. CASE UNCHANGED vars
  BY SamePlaces, <1>21 DEF vars, fateVars, CloseInv, Closed
<1> QED
  BY <1>1, <1>2, <1>3, <1>4, <1>5, <1>6, <1>7, <1>8, <1>9, <1>10, <1>11, <1>12, <1>13,
     <1>14, <1>15, <1>16, <1>17, <1>18, <1>19, <1>20, <1>21
  DEF Next, WorkerStep, CloseStep

-----------------------------------------------------------------------------
(* It holds at first, when there are no jobs,                               *)
LEMMA InitInv == Init => IInv
<1> SUFFICES ASSUME Init PROVE IInv
  OBVIOUS
<1>1. queue = <<>> /\ Queued = {} /\ Working = {} /\ Held = {} /\ DOMAIN queue = {}
  BY DEF Init, Queued, Working, Held
<1>2. TypeOK
  <2>0. queue \in Seq(Jobs)
    BY <1>1, EmptySeq
  <2>1. cancelled \in SUBSET Workers /\ accepted \in SUBSET Jobs
    BY DEF Init
  <2>2. /\ jobs \in Int /\ bytes \in Int /\ unfinished \in Int
        /\ closing \in {"no", "joining", "stopping", "late", "closed", "closedLate"}
    BY DEF Init
  <2>3. opened \in BOOLEAN
    BY DEF Init
  <2>4. /\ at \in [Workers -> Places] /\ holds \in [Workers -> SUBSET Jobs]
        /\ thread \in [Jobs -> ThreadStates] /\ told \in [Jobs -> Nat]
        /\ fate \in [Jobs -> Fates \union {NoFate}]
    BY DEF Init, Places, ThreadStates
  <2>5. /\ flushAt \in [Callers -> {"no", "waiting", "done"}]
        /\ flushed \in [Callers -> SUBSET Jobs]
    BY DEF Init
  <2> QED
    BY <2>0, <2>1, <2>2, <2>3, <2>4, <2>5 DEF TypeOK
<1>3. PlaceInv /\ ThreadInv /\ CloseInv /\ FlushInv
  BY <1>1 DEF Init, PlaceInv, Busy, ThreadInv, Computing, CloseInv, Closed, FlushInv, NoFate
<1>4. FateInv
  BY <1>1 DEF Init, FateInv, ExactlyOneFate, NoFate
<1>5. SlotInv
  BY <1>1, WorkLimitsAssumption, SizesAssumption, FS_EmptySet DEF Init, SlotInv
<1> QED
  BY <1>2, <1>3, <1>4, <1>5 DEF IInv

(* and for ever.                                                            *)
LEMMA Invariance == Spec => []IInv
<1>1. IInv /\ [Next]_vars => IInv'
  BY NextType, NextPlaces, NextThreads, NextFates, NextSlots, NextClose DEF IInv
<1> QED
  BY <1>1, InitInv, PTL DEF Spec

(* Every variable keeps its type.                                           *)
THEOREM TypeCorrect == Spec => []TypeOK
<1>1. IInv => TypeOK
  BY DEF IInv
<1> QED
  BY <1>1, Invariance, PTL

(* Every job that is submitted gets one outcome, which is counted once, or  *)
(* is still in the pipeline: whatever times out, fails or is cancelled.     *)
THEOREM JobsHaveOneFate == Spec => []ExactlyOneFate
<1>1. IInv => ExactlyOneFate
  BY DEF IInv, FateInv
<1> QED
  BY <1>1, Invariance, PTL

-----------------------------------------------------------------------------
(* What the counters and the threads are bounded by                         *)

(* The queue is as long as it has jobs.                                     *)
LEMMA QueueCounted ==
  ASSUME TypeOK, PlaceInv
  PROVE  Cardinality(Queued) = Len(queue) /\ IsFiniteSet(Queued)
<1>1. Len(queue) \in Nat /\ DOMAIN queue = 1..Len(queue) /\ queue \in [1..Len(queue) -> Jobs]
  BY LenProperties DEF TypeOK
<1>2. Queued = {queue[i] : i \in 1..Len(queue)}
  BY <1>1 DEF Queued
<1>3. queue \in Bijection(1..Len(queue), Queued)
  BY <1>1, <1>2 DEF PlaceInv, Bijection, Injection, Surjection, IsInjective
<1>4. ExistsBijection(1..Len(queue), Queued)
  BY <1>3 DEF ExistsBijection
<1>5. IsFiniteSet(Queued)
  BY HeldFinite, FS_Subset DEF Held
<1> QED
  BY <1>1, <1>4, <1>5, FS_CountingElements

(* There are as many jobs with the workers as workers that have one.        *)
LEMMA WorkersCounted ==
  ASSUME TypeOK, PlaceInv
  PROVE  /\ Cardinality(Working) = Cardinality({w \in Workers : holds[w] # {}})
         /\ IsFiniteSet(Working) /\ Cardinality(Working) <= Cardinality(Workers)
<1> DEFINE B == {w \in Workers : holds[w] # {}}
           f == [w \in B |-> CHOOSE j \in Jobs : holds[w] = {j}]
<1>1. ASSUME NEW w \in B PROVE f[w] \in Jobs /\ holds[w] = {f[w]}
  <2>1. \E j \in Jobs : holds[w] = {j}
    BY DEF PlaceInv
  <2> QED
    BY <2>1
<1> HIDE DEF f
<1>2. \A j : j \in Working <=> \E w \in B : j = f[w]
  BY <1>1 DEF Working
<1>3. \A v, w \in B : f[v] = f[w] => v = w
  BY <1>1 DEF PlaceInv
<1>4. f \in Bijection(B, Working)
  <2>1. f \in [B -> Working]
    BY <1>2 DEF f
  <2> QED
    BY <1>2, <1>3, <2>1 DEF Bijection, Injection, Surjection, IsInjective
<1>5. ExistsBijection(B, Working)
  BY <1>4 DEF ExistsBijection
<1>6. IsFiniteSet(B) /\ Cardinality(B) <= Cardinality(Workers)
  BY WorkLimitsAssumption, FS_Subset
<1> HIDE DEF B
<1>7. IsFiniteSet(Working) /\ Cardinality(Working) = Cardinality(B)
  BY <1>5, <1>6, FS_Bijection
<1> QED
  BY <1>6, <1>7 DEF B

(* The slots and the bytes that are taken are those of the jobs in the      *)
(* pipeline, within WorkLimits, and a thread that computes or waits to has  *)
(* the slot of its job: no more of them than the pool has threads.          *)
THEOREM ResourcesAreAccounted == Spec => []ResourcesAccounted
<1>1. IInv => SlotsAccounted
  <2> SUFFICES ASSUME IInv PROVE SlotsAccounted
    OBVIOUS
  <2>1. Cardinality(Held) = Len(queue) + Cardinality({w \in Workers : holds[w] # {}})
    <3>1. Queued \intersect Working = {} /\ Held = Queued \union Working
      BY DEF IInv, PlaceInv, Held
    <3>2. Cardinality(Held) = Cardinality(Queued) + Cardinality(Working) - Cardinality({})
      BY <3>1, QueueCounted, WorkersCounted, FS_Union DEF IInv
    <3> QED
      BY <3>2, QueueCounted, WorkersCounted, FS_EmptySet, FS_CardinalityType DEF IInv
  <2> QED
    BY <2>1 DEF IInv, SlotInv, SlotsAccounted
<1>2. IInv => ThreadsHoldSlots
  <2> SUFFICES ASSUME IInv PROVE ThreadsHoldSlots
    OBVIOUS
  <2>1. {j \in Jobs : Computing(j)} \subseteq Working
    BY DEF IInv, ThreadInv
  <2>2. IsFiniteSet(Working) /\ Cardinality(Working) <= Cardinality(Workers)
    BY WorkersCounted DEF IInv
  <2>3. Cardinality({j \in Jobs : Computing(j)}) <= Cardinality(Working)
    BY <2>1, <2>2, FS_Subset
  <2>4. /\ Cardinality({j \in Jobs : Computing(j)}) \in Nat /\ Cardinality(Working) \in Nat
        /\ Cardinality(Workers) \in Nat
    BY <2>1, <2>2, WorkLimitsAssumption, FS_Subset, FS_CardinalityType
  <2> QED
    BY <2>2, <2>3, <2>4 DEF IInv, ThreadInv, ThreadsHoldSlots
<1> QED
  BY <1>1, <1>2, Invariance, PTL DEF ResourcesAccounted

(* close() settles every job it finds, and drops none when it is in time;   *)
(* flush() waits for every job that was there.                              *)
THEOREM EverythingIsSettled == Spec => []SettlesAll
<1>1. IInv => CloseSettlesAll
  <2> SUFFICES ASSUME IInv PROVE CloseSettlesAll
    OBVIOUS
  <2>1. ASSUME Closed, NEW j \in accepted, fate[j] = NoFate PROVE FALSE
    <3>1. j \in Held /\ Queued = {}
      BY <2>1 DEF IInv, FateInv, ExactlyOneFate, CloseInv, TypeOK, Queued
    <3>2. PICK w \in Workers : j \in holds[w]
      BY <3>1 DEF Held, Working
    <3> QED
      BY <2>1, <3>2 DEF IInv, FateInv, CloseInv
  <2> QED
    BY <2>1 DEF IInv, CloseInv, CloseSettlesAll
<1>2. IInv => FlushSettlesEarlier
  BY DEF IInv, FlushInv, FateInv, ExactlyOneFate, TypeOK, FlushSettlesEarlier
<1> QED
  BY <1>1, <1>2, Invariance, PTL DEF SettlesAll

-----------------------------------------------------------------------------
(* Paths                                                                    *)

(* The first names of a path.                                               *)
LEMMA UptoFacts ==
  ASSUME NEW p \in Paths, NEW k \in 0..Len(p)
  PROVE  /\ Upto(p, k) \in Paths /\ Len(Upto(p, k)) = k
         /\ \A i \in 1..k : Upto(p, k)[i] = p[i]
BY DEF Paths, Upto

(* Paths of the same names are the same.                                    *)
LEMMA SamePaths ==
  ASSUME NEW p \in Paths, NEW q \in Paths, Len(p) = Len(q), \A i \in 1..Len(p) : p[i] = q[i]
  PROVE  p = q
BY DEF Paths

(* A path is a prefix of those that begin with its names.                   *)
LEMMA PrefixNames ==
  ASSUME NEW p \in Paths, NEW q \in Paths
  PROVE  /\ IsPrefix(p, q) <=> Len(p) <= Len(q) /\ \A i \in 1..Len(p) : p[i] = q[i]
         /\ IsPrefix(p, q) <=> Len(p) <= Len(q) /\ p = Upto(q, Len(p))
<1>1. Len(p) \in Nat /\ Len(q) \in Nat /\ p = Upto(p, Len(p))
  BY UptoFacts, SamePaths DEF Paths
<1>2. IsPrefix(p, q) <=> Len(p) <= Len(q) /\ p = Upto(q, Len(p))
  BY <1>1 DEF IsPrefix, Upto
<1>3. ASSUME Len(p) <= Len(q) PROVE p = Upto(q, Len(p)) <=> \A i \in 1..Len(p) : p[i] = q[i]
  <2>1. Len(p) \in 0..Len(q) BY <1>1, <1>3
  <2>2. Upto(q, Len(p)) \in Paths /\ Len(Upto(q, Len(p))) = Len(p)
        /\ \A i \in 1..Len(p) : Upto(q, Len(p))[i] = q[i]
    BY <2>1, UptoFacts
  <2> QED BY <2>2, SamePaths
<1> QED BY <1>2, <1>3

(* The prefixes of a path.                                                  *)
LEMMA UptoPrefix ==
  ASSUME NEW p \in Paths, NEW k \in 0..Len(p)
  PROVE  /\ IsPrefix(Upto(p, k), p)
         /\ \A j \in 0..k : Upto(Upto(p, k), j) = Upto(p, j)
<1>1. Upto(p, k) \in Paths /\ Len(Upto(p, k)) = k /\ \A i \in 1..k : Upto(p, k)[i] = p[i]
  BY UptoFacts
<1>2. Len(p) \in Nat BY DEF Paths
<1>3. IsPrefix(Upto(p, k), p) BY <1>1, <1>2, PrefixNames
<1>4. ASSUME NEW j \in 0..k PROVE Upto(Upto(p, k), j) = Upto(p, j)
  <2>1. j \in 0..Len(p) /\ j \in 0..Len(Upto(p, k)) BY <1>1, <1>2
  <2>2. /\ Upto(p, j) \in Paths /\ Len(Upto(p, j)) = j /\ \A i \in 1..j : Upto(p, j)[i] = p[i]
        /\ Upto(Upto(p, k), j) \in Paths /\ Len(Upto(Upto(p, k), j)) = j
        /\ \A i \in 1..j : Upto(Upto(p, k), j)[i] = Upto(p, k)[i]
    BY <2>1, <1>1, UptoFacts
  <2> QED BY <2>2, <1>1, SamePaths
<1> QED BY <1>3, <1>4

(* Prefixes form an order, a chain below each path.                         *)
LEMMA PrefixOrder ==
  ASSUME NEW p \in Paths, NEW q \in Paths, NEW r \in Paths
  PROVE  /\ IsPrefix(p, p)
         /\ IsPrefix(p, q) /\ IsPrefix(q, p) => p = q
         /\ IsPrefix(p, q) /\ IsPrefix(q, r) => IsPrefix(p, r)
         /\ IsPrefix(p, r) /\ IsPrefix(q, r) /\ Len(p) <= Len(q) => IsPrefix(p, q)
<1>1. Len(p) \in Nat /\ Len(q) \in Nat /\ Len(r) \in Nat BY DEF Paths
<1>2. IsPrefix(p, p) BY <1>1, PrefixNames
<1>3. IsPrefix(p, q) /\ IsPrefix(q, p) => p = q BY <1>1, PrefixNames, SamePaths
<1>4. IsPrefix(p, q) /\ IsPrefix(q, r) => IsPrefix(p, r)
  <2>1. SUFFICES ASSUME IsPrefix(p, q), IsPrefix(q, r) PROVE IsPrefix(p, r) OBVIOUS
  <2>2. Len(p) <= Len(q) /\ \A i \in 1..Len(p) : p[i] = q[i] BY <2>1, PrefixNames
  <2>3. Len(q) <= Len(r) /\ \A i \in 1..Len(q) : q[i] = r[i] BY <2>1, PrefixNames
  <2>4. Len(p) <= Len(r) /\ \A i \in 1..Len(p) : p[i] = r[i] BY <1>1, <2>2, <2>3
  <2> QED BY <2>4, PrefixNames
<1>5. IsPrefix(p, r) /\ IsPrefix(q, r) /\ Len(p) <= Len(q) => IsPrefix(p, q)
  <2>1. SUFFICES ASSUME IsPrefix(p, r), IsPrefix(q, r), Len(p) <= Len(q) PROVE IsPrefix(p, q)
    OBVIOUS
  <2>2. \A i \in 1..Len(p) : p[i] = r[i] BY <2>1, PrefixNames
  <2>3. \A i \in 1..Len(q) : q[i] = r[i] BY <2>1, PrefixNames
  <2>4. \A i \in 1..Len(p) : p[i] = q[i] BY <1>1, <2>1, <2>2, <2>3
  <2> QED BY <2>1, <2>4, PrefixNames
<1> QED BY <1>2, <1>3, <1>4, <1>5

(* A child has one name more than its parent.                               *)
LEMMA ChildPath ==
  ASSUME NEW q \in Paths, q # <<>>
  PROVE  /\ Len(q) \in Nat \ {0} /\ Front(q) \in Paths
         /\ Front(q) = Upto(q, Len(q) - 1) /\ Len(Front(q)) = Len(q) - 1
         /\ IsPrefix(Front(q), q)
<1>1. Len(q) \in Nat \ {0} BY DEF Paths
<1>2. Front(q) = Upto(q, Len(q) - 1) BY DEF Front, Upto
<1>3. Len(q) - 1 \in 0..Len(q) BY <1>1
<1> QED BY <1>1, <1>2, <1>3, UptoFacts, UptoPrefix

-----------------------------------------------------------------------------
(* The order of a document                                                  *)

(* What a JSON value stays while its fields are mapped.                     *)
IsTree(t) ==
  /\ IsFiniteSet(DOMAIN t) /\ DOMAIN t \subseteq Paths /\ <<>> \in DOMAIN t
  /\ \A p \in DOMAIN t : t[p] \in [kind : Kinds, leaf : Int, place : Nat]

(* The paths to compare at are those of the values, a finite set.           *)
LEMMA ReachedFinite ==
  ASSUME NEW t, IsTree(t), IsTree(left), NEW ruled
  PROVE  /\ IsFiniteSet(Reached(t, ruled)) /\ Reached(t, ruled) \subseteq Paths
         /\ Reached(t, ruled) \subseteq DOMAIN left \union DOMAIN t
         /\ <<>> \in Reached(t, ruled)
<1>1. IsFiniteSet(DOMAIN left \union DOMAIN t) BY FS_Union DEF IsTree
<1>2. Reached(t, ruled) \subseteq DOMAIN left \union DOMAIN t BY DEF Reached
<1>3. IsFiniteSet(Reached(t, ruled)) BY <1>1, <1>2, FS_Subset
<1>4. <<>> \in DOMAIN t BY DEF IsTree
<1>5. 0..(Len(<<>>) - 1) = {} OBVIOUS
<1>6. <<>> \in Reached(t, ruled) BY <1>4, <1>5 DEF Reached
<1> QED BY <1>2, <1>3, <1>6 DEF IsTree

(* The children of a path are one name longer.                              *)
LEMMA KidsFacts ==
  ASSUME NEW t, IsTree(t), IsTree(left), NEW p, NEW q \in Kids(t, p)
  PROVE  /\ q \in DOMAIN left \union DOMAIN t /\ q \in Paths /\ p \in Paths
         /\ Len(p) \in Nat /\ Len(q) = Len(p) + 1 /\ p = Upto(q, Len(p)) /\ IsPrefix(p, q)
<1>1. q \in DOMAIN left \union DOMAIN t /\ q # <<>> /\ Front(q) = p BY DEF Kids, Children
<1>2. q \in Paths BY <1>1 DEF IsTree
<1>3. Len(q) \in Nat \ {0} /\ p \in Paths /\ p = Upto(q, Len(q) - 1) /\ Len(p) = Len(q) - 1
      /\ IsPrefix(p, q)
  BY <1>1, <1>2, ChildPath
<1> QED BY <1>1, <1>2, <1>3

(* With a path, all paths above it are reached.                             *)
LEMMA ReachedAbove ==
  ASSUME NEW t, IsTree(t), IsTree(left), NEW ruled, NEW p \in Reached(t, ruled), NEW k \in 0..Len(p)
  PROVE  /\ Upto(p, k) \in Reached(t, ruled) /\ p \in Paths /\ Len(p) \in Nat
         /\ k < Len(p) => /\ Nested(t, Upto(p, k)) /\ ~Ignored(ruled, Upto(p, k))
                          /\ Upto(p, k + 1) \in Kids(t, Upto(p, k))
<1>1. p \in Paths /\ Len(p) \in Nat BY ReachedFinite DEF Paths
<1>2. \A j \in 0..(Len(p) - 1) : /\ Nested(t, Upto(p, j)) /\ ~Ignored(ruled, Upto(p, j))
                                 /\ Upto(p, j + 1) \in Kids(t, Upto(p, j))
  BY DEF Reached
<1>3. Len(Upto(p, k)) = k /\ \A j \in 0..k : Upto(Upto(p, k), j) = Upto(p, j)
  BY <1>1, UptoFacts, UptoPrefix
<1>4. Upto(p, k) \in DOMAIN left \union DOMAIN t
  <2>1. CASE k = 0
    <3>1. Upto(p, k) = <<>> BY <1>1, <2>1 DEF Upto
    <3> QED BY <3>1 DEF IsTree
  <2>2. CASE k # 0
    <3>1. k - 1 \in 0..(Len(p) - 1) /\ (k - 1) + 1 = k BY <1>1, <2>2
    <3>2. Upto(p, k) \in Kids(t, Upto(p, k - 1)) BY <3>1, <1>2
    <3> QED BY <3>2, KidsFacts
  <2> QED BY <2>1, <2>2
<1>5. \A j \in 0..(k - 1) : /\ Nested(t, Upto(Upto(p, k), j))
                            /\ ~Ignored(ruled, Upto(Upto(p, k), j))
                            /\ Upto(Upto(p, k), j + 1) \in Kids(t, Upto(Upto(p, k), j))
  <2>1. TAKE j \in 0..(k - 1)
  <2>2. j \in 0..k /\ j + 1 \in 0..k /\ j \in 0..(Len(p) - 1) BY <1>1
  <2> QED BY <2>2, <1>2, <1>3
<1>6. Upto(p, k) \in Reached(t, ruled) BY <1>3, <1>4, <1>5 DEF Reached
<1>7. k < Len(p) => k \in 0..(Len(p) - 1) BY <1>1
<1> QED BY <1>1, <1>2, <1>6, <1>7

(* The children of a container that is reached are reached.                 *)
LEMMA ReachedBelow ==
  ASSUME NEW t, IsTree(t), IsTree(left), NEW ruled, NEW p \in Reached(t, ruled),
         Nested(t, p), ~Ignored(ruled, p), NEW q \in Kids(t, p)
  PROVE  q \in Reached(t, ruled)
<1>1. /\ q \in DOMAIN left \union DOMAIN t /\ q \in Paths /\ p \in Paths
      /\ Len(p) \in Nat /\ Len(q) = Len(p) + 1 /\ p = Upto(q, Len(p)) /\ IsPrefix(p, q)
  BY KidsFacts
<1>2. ASSUME NEW k \in 0..(Len(q) - 1)
      PROVE  /\ Nested(t, Upto(q, k)) /\ ~Ignored(ruled, Upto(q, k))
             /\ Upto(q, k + 1) \in Kids(t, Upto(q, k))
  <2>1. CASE k = Len(p)
    <3>1. Upto(q, k + 1) = q
      <4>1. Len(q) \in 0..Len(q) /\ k + 1 = Len(q) BY <1>1, <2>1
      <4>2. Len(Upto(q, Len(q))) = Len(q) /\ Upto(q, Len(q)) \in Paths
            /\ \A i \in 1..Len(q) : Upto(q, Len(q))[i] = q[i]
        BY <4>1, <1>1, UptoFacts
      <4> QED BY <4>1, <4>2, <1>1, SamePaths
    <3> QED BY <3>1, <2>1, <1>1
  <2>2. CASE k # Len(p)
    <3>1. k \in 0..Len(p) /\ k < Len(p) /\ k + 1 \in 0..Len(p) /\ Len(p) \in 0..Len(q)
      BY <1>1, <2>2
    <3>2. Upto(p, k) = Upto(q, k) /\ Upto(p, k + 1) = Upto(q, k + 1)
      BY <3>1, <1>1, UptoPrefix
    <3> QED BY <3>1, <3>2, ReachedAbove
  <2> QED BY <2>1, <2>2
<1> QED BY <1>1, <1>2 DEF Reached

(* No path precedes another and is preceded by it.                          *)
LEMMA PrecedesOnce ==
  ASSUME NEW t, IsTree(t), IsTree(left),
         NEW p \in DOMAIN left \union DOMAIN t, NEW q \in DOMAIN left \union DOMAIN t,
         Precedes(t, p, q)
  PROVE  ~Precedes(t, q, p)
<1>1. \A r \in DOMAIN left : left[r].place \in Nat BY DEF IsTree
<1>2. \A r \in DOMAIN t : t[r].place \in Nat BY DEF IsTree
<1>3. CASE p \in DOMAIN left /\ q \in DOMAIN left BY <1>1, <1>3 DEF Precedes
<1>4. CASE ~(p \in DOMAIN left /\ q \in DOMAIN left) BY <1>2, <1>4 DEF Precedes
<1> QED BY <1>3, <1>4

(* Two paths part at one name.                                              *)
LEMMA PartOnce ==
  ASSUME NEW p \in Paths, NEW q \in Paths, NEW j \in Nat, NEW k \in Nat,
         1 <= j, 1 <= k, j <= Len(p), k <= Len(p), j <= Len(q), k <= Len(q),
         Upto(p, j - 1) = Upto(q, j - 1), p[j] # q[j], Upto(p, k - 1) = Upto(q, k - 1), p[k] # q[k]
  PROVE  j = k
<1>1. ASSUME NEW m \in Nat, NEW n \in Nat, 1 <= m, m < n, n <= Len(p), n <= Len(q),
             Upto(p, n - 1) = Upto(q, n - 1)
      PROVE  p[m] = q[m]
  <2>1. n - 1 \in 0..Len(p) /\ n - 1 \in 0..Len(q) /\ m \in 1..(n - 1) BY <1>1 DEF Paths
  <2>2. Upto(p, n - 1)[m] = p[m] BY <2>1, UptoFacts
  <2>3. Upto(q, n - 1)[m] = q[m] BY <2>1, UptoFacts
  <2> QED BY <1>1, <2>2, <2>3
<1>2. ~(j < k) BY <1>1
<1>3. ~(k < j) BY <1>1
<1> QED BY <1>2, <1>3

(* Paths that part are no prefixes of each other.                           *)
LEMMA PartApart ==
  ASSUME NEW p \in Paths, NEW q \in Paths, NEW k \in 1..Len(p), k <= Len(q), p[k] # q[k]
  PROVE  ~IsPrefix(p, q) /\ ~IsPrefix(q, p) /\ p # q
<1>1. k \in 1..Len(q) BY DEF Paths
<1> QED BY <1>1, PrefixNames

(* The order of a document is one.                                          *)
LEMMA EarlierOnce ==
  ASSUME NEW t, IsTree(t), IsTree(left), NEW ruled,
         NEW p \in Reached(t, ruled), NEW q \in Reached(t, ruled)
  PROVE  /\ ~Earlier(t, p, p)
         /\ Earlier(t, p, q) => ~Earlier(t, q, p)
<1>1. p \in Paths /\ q \in Paths /\ Len(p) \in Nat /\ Len(q) \in Nat
  BY ReachedFinite DEF Paths
<1>2. ~Earlier(t, p, p) BY DEF Earlier
<1>3. ASSUME Earlier(t, p, q), Earlier(t, q, p) PROVE FALSE
  <2>1. CASE p # q /\ IsPrefix(p, q)
    <3>1. ~(IsPrefix(q, p)) BY <1>1, <2>1, PrefixOrder
    <3>2. PICK k \in 1..Len(q) : k <= Len(p) /\ q[k] # p[k] BY <1>3, <3>1 DEF Earlier
    <3> QED BY <3>2, <2>1, <1>1, PartApart
  <2>2. CASE ~(p # q /\ IsPrefix(p, q))
    <3>1. PICK k \in 1..Len(p) : /\ k <= Len(q) /\ Upto(p, k - 1) = Upto(q, k - 1) /\ p[k] # q[k]
                                 /\ Precedes(t, Upto(p, k), Upto(q, k))
      BY <1>3, <2>2 DEF Earlier
    <3>2. ~IsPrefix(q, p) BY <3>1, <1>1, PartApart
    <3>3. PICK j \in 1..Len(q) : /\ j <= Len(p) /\ Upto(q, j - 1) = Upto(p, j - 1) /\ q[j] # p[j]
                                 /\ Precedes(t, Upto(q, j), Upto(p, j))
      BY <1>3, <3>2 DEF Earlier
    <3>4. j = k BY <3>1, <3>3, <1>1, PartOnce
    <3>5. Upto(p, k) \in DOMAIN left \union DOMAIN t BY <3>1, <1>1, ReachedAbove, ReachedFinite
    <3>6. Upto(q, k) \in DOMAIN left \union DOMAIN t
      <4>1. k \in 0..Len(q) BY <3>1, <1>1
      <4> QED BY <4>1, ReachedAbove, ReachedFinite
    <3> QED BY <3>1, <3>3, <3>4, <3>5, <3>6, PrecedesOnce
  <2> QED BY <2>1, <2>2
<1> QED BY <1>2, <1>3

(* The names of a path are those of the paths below it.                     *)
LEMMA AlongPath ==
  ASSUME NEW p \in Paths, NEW q \in Paths, IsPrefix(p, q), NEW k \in 1..Len(p)
  PROVE  /\ k \in 1..Len(q) /\ p[k] = q[k]
         /\ Upto(p, k) = Upto(q, k) /\ Upto(p, k - 1) = Upto(q, k - 1)
<1>1. Len(p) \in Nat /\ Len(q) \in Nat /\ Len(p) <= Len(q) /\ p = Upto(q, Len(p))
      /\ \A i \in 1..Len(p) : p[i] = q[i]
  BY PrefixNames DEF Paths
<1>2. Len(p) \in 0..Len(q) /\ k \in 0..Len(p) /\ k - 1 \in 0..Len(p) BY <1>1
<1>3. Upto(Upto(q, Len(p)), k) = Upto(q, k) /\ Upto(Upto(q, Len(p)), k - 1) = Upto(q, k - 1)
  BY <1>2, UptoPrefix
<1> QED BY <1>1, <1>3

(* What is before a value and not in it is before all that is in it.        *)
LEMMA EarlierBelow ==
  ASSUME NEW t, NEW p \in Paths, NEW s \in Paths, NEW q \in Paths,
         Earlier(t, p, s), IsPrefix(s, q), ~IsPrefix(s, p)
  PROVE  Earlier(t, p, q)
<1>1. CASE p # s /\ IsPrefix(p, s)
  <2>1. IsPrefix(p, q) BY <1>1, PrefixOrder
  <2> QED BY <2>1 DEF Earlier
<1>2. CASE ~(p # s /\ IsPrefix(p, s))
  <2>1. PICK k \in 1..Len(p) : /\ k <= Len(s) /\ Upto(p, k - 1) = Upto(s, k - 1) /\ p[k] # s[k]
                               /\ Precedes(t, Upto(p, k), Upto(s, k))
    BY <1>2 DEF Earlier
  <2>2. k \in 1..Len(s) BY <2>1 DEF Paths
  <2>3. k \in 1..Len(q) /\ s[k] = q[k] /\ Upto(s, k) = Upto(q, k) /\ Upto(s, k - 1) = Upto(q, k - 1)
    BY <2>2, AlongPath
  <2>4. k <= Len(q) BY <2>3
  <2> QED BY <2>1, <2>3, <2>4 DEF Earlier
<1> QED BY <1>1, <1>2

(* All that is in a value is before what follows the value.                 *)
LEMMA BelowEarlier ==
  ASSUME NEW t, NEW p \in Paths, NEW s \in Paths, NEW q \in Paths,
         Earlier(t, s, p), ~IsPrefix(s, p), IsPrefix(s, q)
  PROVE  Earlier(t, q, p) /\ ~IsPrefix(q, p)
<1>1. PICK k \in 1..Len(s) : /\ k <= Len(p) /\ Upto(s, k - 1) = Upto(p, k - 1) /\ s[k] # p[k]
                             /\ Precedes(t, Upto(s, k), Upto(p, k))
  BY DEF Earlier
<1>2. k \in 1..Len(q) /\ s[k] = q[k] /\ Upto(s, k) = Upto(q, k) /\ Upto(s, k - 1) = Upto(q, k - 1)
  BY AlongPath
<1>3. Earlier(t, q, p) BY <1>1, <1>2 DEF Earlier
<1>4. ~IsPrefix(q, p) BY PrefixOrder
<1> QED BY <1>3, <1>4

(* A child is before those that follow it.                                  *)
LEMMA ChildrenInOrder ==
  ASSUME NEW t, IsTree(t), IsTree(left), NEW p, NEW q \in Kids(t, p), NEW r \in Kids(t, p),
         Precedes(t, q, r)
  PROVE  Earlier(t, q, r) /\ ~IsPrefix(q, r)
<1>1. /\ q \in DOMAIN left \union DOMAIN t /\ q \in Paths
      /\ Len(p) \in Nat /\ Len(q) = Len(p) + 1 /\ p = Upto(q, Len(p))
  BY KidsFacts
<1>2. /\ r \in DOMAIN left \union DOMAIN t /\ r \in Paths
      /\ Len(r) = Len(p) + 1 /\ p = Upto(r, Len(p))
  BY KidsFacts
<1>3. q # r BY <1>1, PrecedesOnce
<1>4. IsPrefix(q, q) /\ IsPrefix(r, r) BY <1>1, <1>2, PrefixOrder
<1>5. q = Upto(q, Len(q)) /\ r = Upto(r, Len(r)) BY <1>1, <1>2, <1>4, PrefixNames
<1>6. ~IsPrefix(q, r) BY <1>1, <1>2, <1>3, <1>5, PrefixNames
<1>7. q[Len(p) + 1] # r[Len(p) + 1]
  <2>1. SUFFICES ASSUME q[Len(p) + 1] = r[Len(p) + 1] PROVE FALSE OBVIOUS
  <2>2. Len(p) \in 0..Len(q) /\ Len(p) \in 0..Len(r) BY <1>1, <1>2
  <2>3. \A i \in 1..Len(p) : Upto(q, Len(p))[i] = q[i] BY <2>2, <1>1, UptoFacts
  <2>4. \A i \in 1..Len(p) : Upto(r, Len(p))[i] = r[i] BY <2>2, <1>2, UptoFacts
  <2>5. \A i \in 1..Len(p) : q[i] = r[i] BY <1>1, <1>2, <2>3, <2>4
  <2>6. \A i \in 1..Len(q) : q[i] = r[i] BY <1>1, <2>1, <2>5
  <2> QED BY <1>1, <1>2, <1>3, <2>6, SamePaths
<1>8. Len(p) + 1 \in 1..Len(q) /\ Len(p) + 1 <= Len(r) /\ (Len(p) + 1) - 1 = Len(p) BY <1>1, <1>2
<1>9. Upto(q, (Len(p) + 1) - 1) = Upto(r, (Len(p) + 1) - 1) BY <1>1, <1>2, <1>8
<1>10. Precedes(t, Upto(q, Len(p) + 1), Upto(r, Len(p) + 1)) BY <1>1, <1>2, <1>5
<1>11. Earlier(t, q, r) BY <1>7, <1>8, <1>9, <1>10 DEF Earlier
<1> QED BY <1>6, <1>11

-----------------------------------------------------------------------------
(* The stack of the walk                                                    *)

(* The paths that are neither in the stack nor below one that is.           *)
Seen(t, ruled, stack) ==
  {p \in Reached(t, ruled) : \A i \in DOMAIN stack : ~IsPrefix(stack[i], p)}

(* The stack has what is still to be compared, the first of it on top, and   *)
(* all that has been compared comes before it.                              *)
Stacked(t, ruled, stack) ==
  /\ stack \in Seq(Paths)
  /\ \A i \in DOMAIN stack : stack[i] \in Reached(t, ruled)
  /\ \A i, j \in DOMAIN stack :
       i < j => Earlier(t, stack[j], stack[i]) /\ ~IsPrefix(stack[j], stack[i])
  /\ \A p \in Seen(t, ruled, stack) : \A i \in DOMAIN stack : Earlier(t, p, stack[i])

(* A stack is its top on the rest.                                          *)
LEMMA TopOfStack ==
  ASSUME NEW stack \in Seq(Paths), stack # <<>>
  PROVE  /\ Len(stack) \in Nat \ {0} /\ DOMAIN stack = 1..Len(stack)
         /\ Front(stack) \in Seq(Paths) /\ Len(Front(stack)) = Len(stack) - 1
         /\ DOMAIN Front(stack) = 1..(Len(stack) - 1)
         /\ \A i \in 1..(Len(stack) - 1) : Front(stack)[i] = stack[i]
         /\ Last(stack) = stack[Len(stack)]
<1>1. Len(stack) \in Nat \ {0} /\ DOMAIN stack = 1..Len(stack) OBVIOUS
<1> QED BY <1>1 DEF Front, Last

(* What the top of the stack stands for.                                    *)
LEMMA TopFacts ==
  ASSUME NEW t, IsTree(t), IsTree(left), NEW ruled,
         NEW stack, Stacked(t, ruled, stack), stack # <<>>
  PROVE  /\ Last(stack) \in Reached(t, ruled) /\ Last(stack) \in Paths
         /\ Last(stack) \notin Seen(t, ruled, stack)
         /\ \A p \in Seen(t, ruled, stack) : Earlier(t, p, Last(stack))
         /\ \A i \in 1..(Len(stack) - 1) : /\ Earlier(t, Last(stack), stack[i])
                                           /\ ~IsPrefix(Last(stack), stack[i])
                                           /\ ~IsPrefix(stack[i], Last(stack))
<1>1. /\ Len(stack) \in Nat \ {0} /\ DOMAIN stack = 1..Len(stack)
      /\ Last(stack) = stack[Len(stack)]
  BY TopOfStack DEF Stacked
<1>2. Len(stack) \in DOMAIN stack BY <1>1
<1>3. Last(stack) \in Reached(t, ruled) /\ Last(stack) \in Paths
  BY <1>1, <1>2, ReachedFinite DEF Stacked
<1>4. Last(stack) \notin Seen(t, ruled, stack)
  BY <1>1, <1>2, <1>3, PrefixOrder DEF Seen
<1>5. \A p \in Seen(t, ruled, stack) : Earlier(t, p, Last(stack)) BY <1>1, <1>2 DEF Stacked
<1>6. ASSUME NEW i \in 1..(Len(stack) - 1)
      PROVE  /\ Earlier(t, Last(stack), stack[i]) /\ ~IsPrefix(Last(stack), stack[i])
             /\ ~IsPrefix(stack[i], Last(stack))
  <2>1. i \in DOMAIN stack /\ i < Len(stack) BY <1>1
  <2>2. Earlier(t, Last(stack), stack[i]) /\ ~IsPrefix(Last(stack), stack[i])
    BY <1>1, <1>2, <2>1 DEF Stacked
  <2>3. stack[i] \in Reached(t, ruled) /\ stack[i] \in Paths
    BY <2>1, ReachedFinite DEF Stacked
  <2>4. ~Earlier(t, stack[i], Last(stack)) BY <2>2, <2>3, <1>3, EarlierOnce
  <2>5. stack[i] # Last(stack) BY <2>2, <2>3, PrefixOrder
  <2>6. ~IsPrefix(stack[i], Last(stack)) BY <2>4, <2>5 DEF Earlier
  <2> QED BY <2>2, <2>6
<1> QED BY <1>3, <1>4, <1>5, <1>6

(* Taking the top off a stack, if nothing below it is to be compared.       *)
LEMMA TopIsTaken ==
  ASSUME NEW t, IsTree(t), IsTree(left), NEW ruled,
         NEW stack, Stacked(t, ruled, stack), stack # <<>>,
         ~Nested(t, Last(stack)) \/ Ignored(ruled, Last(stack))
  PROVE  /\ Seen(t, ruled, Front(stack)) = Seen(t, ruled, stack) \union {Last(stack)}
         /\ Stacked(t, ruled, Front(stack))
<1> DEFINE s == Last(stack)
           rest == Front(stack)
<1>1. /\ Len(stack) \in Nat \ {0} /\ DOMAIN stack = 1..Len(stack)
      /\ rest \in Seq(Paths) /\ Len(rest) = Len(stack) - 1 /\ DOMAIN rest = 1..(Len(stack) - 1)
      /\ \A i \in 1..(Len(stack) - 1) : rest[i] = stack[i]
      /\ s = stack[Len(stack)]
  BY TopOfStack DEF Stacked
<1>2. /\ s \in Reached(t, ruled) /\ s \in Paths
      /\ \A i \in 1..(Len(stack) - 1) : /\ Earlier(t, s, stack[i]) /\ ~IsPrefix(s, stack[i])
                                        /\ ~IsPrefix(stack[i], s)
  BY TopFacts
<1>3. DOMAIN stack = (1..(Len(stack) - 1)) \union {Len(stack)} BY <1>1
<1>4. ASSUME NEW p \in Seen(t, ruled, rest) PROVE p \in Seen(t, ruled, stack) \union {s}
  <2>1. p \in Reached(t, ruled) /\ \A i \in 1..(Len(stack) - 1) : ~IsPrefix(stack[i], p)
    BY <1>1 DEF Seen
  <2>2. CASE ~IsPrefix(s, p) BY <2>1, <2>2, <1>1, <1>3 DEF Seen
  <2>3. CASE IsPrefix(s, p)
    <3>1. p \in Paths /\ Len(p) \in Nat /\ Len(s) \in Nat
      BY <2>1, ReachedFinite, <1>2 DEF Paths
    <3>2. Len(s) <= Len(p) /\ s = Upto(p, Len(s)) BY <2>3, <3>1, <1>2, PrefixNames
    <3>3. ~(Len(s) < Len(p))
      <4>1. SUFFICES ASSUME Len(s) < Len(p) PROVE FALSE OBVIOUS
      <4>2. Len(s) \in 0..Len(p) BY <3>1, <3>2
      <4> QED BY <2>1, <3>2, <4>1, <4>2, ReachedAbove
    <3>4. Len(s) = Len(p) BY <3>1, <3>2, <3>3
    <3>5. IsPrefix(p, p) BY <3>1, PrefixOrder
    <3>6. p = Upto(p, Len(p)) BY <3>1, <3>5, PrefixNames
    <3> QED BY <3>2, <3>4, <3>6
  <2> QED BY <2>2, <2>3
<1>5. ASSUME NEW p \in Seen(t, ruled, stack) \union {s} PROVE p \in Seen(t, ruled, rest)
  BY <1>1, <1>2, <1>3 DEF Seen
<1>6. Seen(t, ruled, rest) = Seen(t, ruled, stack) \union {s} BY <1>4, <1>5
<1>7. \A i \in DOMAIN rest : rest[i] \in Reached(t, ruled) BY <1>1, <1>3 DEF Stacked
<1>8. ASSUME NEW i \in DOMAIN rest, NEW j \in DOMAIN rest, i < j
      PROVE  Earlier(t, rest[j], rest[i]) /\ ~IsPrefix(rest[j], rest[i])
  BY <1>1, <1>3, <1>8 DEF Stacked
<1>9. ASSUME NEW p \in Seen(t, ruled, rest), NEW i \in DOMAIN rest PROVE Earlier(t, p, rest[i])
  <2>1. i \in DOMAIN stack /\ rest[i] = stack[i] BY <1>1, <1>3
  <2>2. CASE p = s BY <2>1, <2>2, <1>1, <1>2
  <2>3. CASE p # s BY <2>1, <2>3, <1>6 DEF Stacked
  <2> QED BY <2>2, <2>3
<1> QED BY <1>1, <1>6, <1>7, <1>8, <1>9 DEF Stacked

(* The children of a path, in their order, are all of them.                 *)
LEMMA AllChildren ==
  ASSUME NEW t, IsTree(t), IsTree(left), NEW p, NEW order \in Orders(t, Kids(t, p))
  PROVE  /\ Cardinality(Kids(t, p)) \in Nat
         /\ order \in [1..Cardinality(Kids(t, p)) -> Kids(t, p)]
         /\ \A i, j \in 1..Cardinality(Kids(t, p)) : i < j => Precedes(t, order[i], order[j])
         /\ \A q \in Kids(t, p) : \E i \in 1..Cardinality(Kids(t, p)) : order[i] = q
<1> DEFINE kids == Kids(t, p)
           n == Cardinality(kids)
<1>1. kids \subseteq DOMAIN left \union DOMAIN t BY DEF Kids, Children
<1>2. IsFiniteSet(DOMAIN left \union DOMAIN t) BY FS_Union DEF IsTree
<1>3. IsFiniteSet(kids) BY <1>1, <1>2, FS_Subset
<1>4. n \in Nat BY <1>3, FS_CardinalityType
<1>5. order \in [1..n -> kids] /\ \A i, j \in 1..n : i < j => Precedes(t, order[i], order[j])
  BY DEF Orders
<1>6. ASSUME NEW i \in 1..n, NEW j \in 1..n, i < j PROVE order[i] # order[j]
  <2>1. Precedes(t, order[i], order[j]) BY <1>5, <1>6
  <2>2. order[i] \in DOMAIN left \union DOMAIN t BY <1>1, <1>5
  <2> QED BY <2>1, <2>2, PrecedesOnce
<1>7. \A i, j \in 1..n : order[i] = order[j] => i = j BY <1>4, <1>6
<1>8. order \in Injection(1..n, kids) BY <1>5, <1>7 DEF Injection, IsInjective
<1>9. IsFiniteSet(1..n) /\ Cardinality(1..n) = n BY <1>4, FS_Interval
<1>10. order \in Surjection(1..n, kids) BY <1>3, <1>8, <1>9, FS_Injection
<1>11. \A q \in kids : \E i \in 1..n : order[i] = q BY <1>10 DEF Surjection
<1> QED BY <1>4, <1>5, <1>11

(* Two sequences, one after the other.                                      *)
LEMMA Joined ==
  ASSUME NEW S, NEW a \in Seq(S), NEW b \in Seq(S)
  PROVE  /\ a \o b \in Seq(S) /\ Len(a \o b) = Len(a) + Len(b)
         /\ \A i \in 1..Len(a) : (a \o b)[i] = a[i]
         /\ \A i \in 1..Len(b) : (a \o b)[Len(a) + i] = b[i]
<1>1. Len(a) \in Nat /\ Len(b) \in Nat OBVIOUS
<1>2. a \o b \in Seq(S) /\ Len(a \o b) = Len(a) + Len(b) OBVIOUS
<1>3. \A i \in 1..Len(a) : (a \o b)[i] = a[i] BY <1>1
<1>4. ASSUME NEW i \in 1..Len(b) PROVE (a \o b)[Len(a) + i] = b[i]
  <2>1. Len(a) + i \in 1..(Len(a) + Len(b)) /\ ~(Len(a) + i <= Len(a)) /\ (Len(a) + i) - Len(a) = i
    BY <1>1
  <2> QED BY <1>1, <2>1
<1> QED BY <1>2, <1>3, <1>4

(* Putting the children of the top in its place.                            *)
LEMMA TopIsOpened ==
  ASSUME NEW t, IsTree(t), IsTree(left), NEW ruled,
         NEW stack, Stacked(t, ruled, stack), stack # <<>>,
         Nested(t, Last(stack)), ~Ignored(ruled, Last(stack)),
         NEW order \in Orders(t, Kids(t, Last(stack)))
  PROVE  /\ Seen(t, ruled, Front(stack) \o Reverse(order))
            = Seen(t, ruled, stack) \union {Last(stack)}
         /\ Stacked(t, ruled, Front(stack) \o Reverse(order))
<1> DEFINE s == Last(stack)
           kids == Kids(t, s)
           n == Cardinality(kids)
           m == Len(stack) - 1
           new == Front(stack) \o Reverse(order)
<1>1. /\ Len(stack) \in Nat \ {0} /\ DOMAIN stack = 1..Len(stack)
      /\ Front(stack) \in Seq(Paths) /\ Len(Front(stack)) = m /\ DOMAIN Front(stack) = 1..m
      /\ \A i \in 1..m : Front(stack)[i] = stack[i]
      /\ s = stack[Len(stack)]
  BY TopOfStack DEF Stacked
<1>2. /\ s \in Reached(t, ruled) /\ s \in Paths
      /\ \A p \in Seen(t, ruled, stack) : Earlier(t, p, s)
      /\ \A i \in 1..m : Earlier(t, s, stack[i]) /\ ~IsPrefix(s, stack[i]) /\ ~IsPrefix(stack[i], s)
  BY TopFacts
<1>3. /\ n \in Nat /\ order \in [1..n -> kids]
      /\ \A i, j \in 1..n : i < j => Precedes(t, order[i], order[j])
      /\ \A q \in kids : \E i \in 1..n : order[i] = q
  BY AllChildren
<1>4. m \in Nat /\ \A i \in 1..m : i \in DOMAIN stack /\ i # Len(stack) /\ i < Len(stack)
  <2>1. Len(stack) \in Nat \ {0} /\ DOMAIN stack = 1..Len(stack) BY <1>1
  <2>2. m \in Nat BY <2>1
  <2>3. Len(stack) \in Nat /\ m = Len(stack) - 1 BY <2>1 DEF m
  <2> HIDE DEF m
  <2>4. \A i \in 1..m : i \in 1..Len(stack) /\ i # Len(stack) /\ i < Len(stack) BY <2>2, <2>3
  <2> QED BY <2>1, <2>2, <2>4
<1>5. \A q \in kids : /\ q \in Reached(t, ruled) /\ q \in Paths /\ IsPrefix(s, q)
                      /\ Len(q) = Len(s) + 1 /\ s = Upto(q, Len(s)) /\ Len(s) \in Nat
  BY <1>2, ReachedBelow, KidsFacts
<1>6. kids \subseteq Paths BY <1>5
<1>7. order \in Seq(Paths) /\ Len(order) = n BY <1>3, <1>6
<1>8. /\ Reverse(order) \in Seq(Paths) /\ Len(Reverse(order)) = n
      /\ \A i \in 1..n : Reverse(order)[i] = order[(n - i) + 1]
  <2>1. Reverse(order) = [i \in 1..n |-> order[(n - i) + 1]] BY <1>7 DEF Reverse
  <2>2. \A i \in 1..n : (n - i) + 1 \in 1..n BY <1>3
  <2>3. \A i \in 1..n : order[(n - i) + 1] \in Paths BY <1>3, <1>6, <2>2
  <2>4. Reverse(order) \in [1..n -> Paths] BY <2>1, <2>3
  <2> QED BY <1>3, <2>1, <2>4
<1> HIDE DEF kids, n, m
<1>9. /\ new \in Seq(Paths) /\ DOMAIN new = 1..(m + n)
      /\ \A i \in 1..m : new[i] = stack[i]
      /\ \A i \in 1..n : new[m + i] = order[(n - i) + 1]
  <2>1. /\ new \in Seq(Paths) /\ Len(new) = m + n
        /\ \A i \in 1..m : new[i] = Front(stack)[i]
        /\ \A i \in 1..n : new[m + i] = Reverse(order)[i]
    <3>1. Front(stack) \in Seq(Paths) /\ Reverse(order) \in Seq(Paths) BY <1>1, <1>8
    <3>2. Len(Front(stack)) = m /\ Len(Reverse(order)) = n BY <1>1, <1>8 DEF m
    <3>3. /\ new \in Seq(Paths) /\ Len(new) = Len(Front(stack)) + Len(Reverse(order))
          /\ \A i \in 1..Len(Front(stack)) : new[i] = Front(stack)[i]
          /\ \A i \in 1..Len(Reverse(order)) : new[Len(Front(stack)) + i] = Reverse(order)[i]
      BY <3>1, Joined
    <3> QED BY <3>2, <3>3
  <2>2. DOMAIN new = 1..(m + n) BY <2>1
  <2>3. \A i \in 1..m : new[i] = stack[i] BY <1>1, <2>1
  <2>4. \A i \in 1..n : new[m + i] = order[(n - i) + 1] BY <1>8, <2>1
  <2> QED BY <2>1, <2>2, <2>3, <2>4
<1> HIDE DEF new
(* Each entry is old or a child, and each child is an entry.                *)
<1>10. ASSUME NEW i \in DOMAIN new
       PROVE  \/ i \in 1..m /\ new[i] = stack[i]
              \/ /\ i > m /\ (n - (i - m)) + 1 \in 1..n /\ new[i] = order[(n - (i - m)) + 1]
                 /\ new[i] \in kids
  <2>1. CASE i <= m BY <2>1, <1>4, <1>9
  <2>2. CASE i > m
    <3>1. i - m \in 1..n /\ m + (i - m) = i /\ (n - (i - m)) + 1 \in 1..n BY <1>3, <1>4, <1>9, <2>2
    <3>2. new[m + (i - m)] = order[(n - (i - m)) + 1] BY <1>9, <3>1
    <3> QED BY <2>2, <3>1, <3>2, <1>3
  <2> QED BY <2>1, <2>2, <1>9, <1>4
<1>11. ASSUME NEW q \in kids PROVE \E i \in DOMAIN new : new[i] = q
  <2>1. PICK j \in 1..n : order[j] = q BY <1>3
  <2>2. (n - j) + 1 \in 1..n /\ (n - ((n - j) + 1)) + 1 = j BY <1>3
  <2>3. new[m + ((n - j) + 1)] = order[j] BY <1>9, <2>2
  <2>4. m + ((n - j) + 1) \in DOMAIN new BY <1>3, <1>4, <1>9, <2>2
  <2> QED BY <2>1, <2>3, <2>4
<1>12. ASSUME NEW i \in 1..m PROVE i \in DOMAIN new /\ new[i] = stack[i]
  BY <1>3, <1>4, <1>9
<1>13. DOMAIN stack = (1..m) \union {Len(stack)} BY <1>1 DEF m
<1>14. ASSUME NEW p \in Seen(t, ruled, new) PROVE p \in Seen(t, ruled, stack) \union {s}
  <2>1. p \in Reached(t, ruled) /\ \A i \in 1..m : ~IsPrefix(stack[i], p) BY <1>12 DEF Seen
  <2>2. \A q \in kids : ~IsPrefix(q, p) BY <1>11 DEF Seen
  <2>3. CASE ~IsPrefix(s, p) BY <2>1, <2>3, <1>1, <1>13 DEF Seen
  <2>4. CASE IsPrefix(s, p)
    <3>1. p \in Paths /\ Len(p) \in Nat /\ Len(s) \in Nat
      BY <2>1, ReachedFinite, <1>2 DEF Paths
    <3>2. Len(s) <= Len(p) /\ s = Upto(p, Len(s)) BY <2>4, <3>1, <1>2, PrefixNames
    <3>3. ~(Len(s) < Len(p))
      <4>1. SUFFICES ASSUME Len(s) < Len(p) PROVE FALSE OBVIOUS
      <4>2. Len(s) \in 0..Len(p) /\ Len(s) + 1 \in 0..Len(p) BY <3>1, <3>2, <4>1
      <4>3. Upto(p, Len(s) + 1) \in Kids(t, Upto(p, Len(s))) BY <2>1, <4>1, <4>2, ReachedAbove
      <4>4. Upto(p, Len(s) + 1) \in kids BY <3>2, <4>3 DEF kids
      <4>5. IsPrefix(Upto(p, Len(s) + 1), p) BY <3>1, <4>2, UptoPrefix
      <4> QED BY <2>2, <4>4, <4>5
    <3>4. Len(s) = Len(p) BY <3>1, <3>2, <3>3
    <3>5. IsPrefix(p, p) BY <3>1, PrefixOrder
    <3>6. p = Upto(p, Len(p)) BY <3>1, <3>5, PrefixNames
    <3> QED BY <3>2, <3>4, <3>6
  <2> QED BY <2>3, <2>4
<1>15. ASSUME NEW p \in Seen(t, ruled, stack) \union {s} PROVE p \in Seen(t, ruled, new)
  <2>1. p \in Reached(t, ruled) /\ p \in Paths BY <1>2, ReachedFinite DEF Seen
  <2>2. \A i \in 1..m : ~IsPrefix(stack[i], p) BY <1>2, <1>13 DEF Seen
  <2>3. ASSUME NEW q \in kids PROVE ~IsPrefix(q, p)
    <3>1. CASE p = s
      <4>1. Len(q) = Len(s) + 1 /\ Len(s) \in Nat /\ q \in Paths BY <1>5
      <4> QED BY <4>1, <3>1, <2>1, PrefixNames
    <3>2. CASE p # s
      <4>1. p \in Seen(t, ruled, stack) /\ Len(stack) \in DOMAIN stack BY <3>2, <1>1
      <4>2. ~IsPrefix(s, p) BY <4>1, <1>1 DEF Seen
      <4> QED BY <4>2, <2>1, <1>2, <1>5, PrefixOrder
    <3> QED BY <3>1, <3>2
  <2>4. \A i \in DOMAIN new : ~IsPrefix(new[i], p) BY <2>2, <2>3, <1>10
  <2> QED BY <2>1, <2>4 DEF Seen
<1>16. Seen(t, ruled, new) = Seen(t, ruled, stack) \union {s} BY <1>14, <1>15
<1>17. \A i \in DOMAIN new : new[i] \in Reached(t, ruled) /\ new[i] \in Paths
  <2>1. \A i \in 1..m : stack[i] \in Reached(t, ruled) BY <1>4 DEF Stacked
  <2> QED BY <2>1, <1>5, <1>10, ReachedFinite
<1>18. ASSUME NEW i \in DOMAIN new, NEW j \in DOMAIN new, i < j
       PROVE  Earlier(t, new[j], new[i]) /\ ~IsPrefix(new[j], new[i])
  <2>1. CASE j <= m
    <3>1. i \in 1..m /\ j \in 1..m BY <2>1, <1>4, <1>9, <1>18
    <3>2. Earlier(t, stack[j], stack[i]) /\ ~IsPrefix(stack[j], stack[i])
      BY <3>1, <1>4, <1>18 DEF Stacked
    <3> QED BY <3>1, <3>2, <1>12
  <2>2. CASE i <= m /\ j > m
    <3>1. i \in 1..m /\ new[i] = stack[i] /\ new[j] \in kids
      BY <2>2, <1>4, <1>9, <1>10, <1>12
    <3>2. Earlier(t, s, new[i]) /\ ~IsPrefix(s, new[i]) BY <3>1, <1>2
    <3>3. new[j] \in Paths /\ IsPrefix(s, new[j]) BY <3>1, <1>5
    <3> QED BY <3>2, <3>3, <1>2, <1>17, BelowEarlier
  <2>3. CASE i > m /\ j > m
    <3>1. /\ (n - (i - m)) + 1 \in 1..n /\ new[i] = order[(n - (i - m)) + 1] /\ new[i] \in kids
          /\ (n - (j - m)) + 1 \in 1..n /\ new[j] = order[(n - (j - m)) + 1] /\ new[j] \in kids
      BY <2>3, <1>10, <1>18, <1>4, <1>9
    <3>2. (n - (j - m)) + 1 < (n - (i - m)) + 1 BY <1>3, <1>4, <1>9, <1>18
    <3>3. Precedes(t, new[j], new[i]) BY <3>1, <3>2, <1>3
    <3> QED BY <3>1, <3>3, ChildrenInOrder DEF kids
  <2> QED BY <2>1, <2>2, <2>3, <1>4, <1>9, <1>18
<1>19. ASSUME NEW p \in Seen(t, ruled, new), NEW i \in DOMAIN new PROVE Earlier(t, p, new[i])
  <2>1. p \in Reached(t, ruled) /\ p \in Paths BY ReachedFinite DEF Seen
  <2>2. CASE i \in 1..m
    <3>1. CASE p = s BY <3>1, <2>2, <1>2, <1>12
    <3>2. CASE p # s BY <3>2, <2>2, <1>4, <1>12, <1>16 DEF Stacked
    <3> QED BY <3>1, <3>2
  <2>3. CASE i \notin 1..m
    <3>1. new[i] \in kids
      <4>1. i \in DOMAIN new BY <1>19
      <4> QED BY <4>1, <2>3, <1>10
    <3>2. /\ new[i] \in Paths /\ IsPrefix(s, new[i]) /\ Len(new[i]) = Len(s) + 1 /\ Len(s) \in Nat
      BY <3>1, <1>5
    <3>3. CASE p = s
      <4>1. p # new[i] BY <3>2, <3>3
      <4> QED BY <4>1, <3>2, <3>3 DEF Earlier
    <3>4. CASE p # s
      <4>1. p \in Seen(t, ruled, stack) /\ Len(stack) \in DOMAIN stack BY <3>4, <1>1, <1>16
      <4>2. ~IsPrefix(s, p) /\ Earlier(t, p, s) BY <4>1, <1>1, <1>2 DEF Seen
      <4> QED BY <4>2, <3>2, <2>1, <1>2, EarlierBelow
    <3> QED BY <3>3, <3>4
  <2> QED BY <2>2, <2>3
<1>20. Stacked(t, ruled, new) BY <1>9, <1>17, <1>18, <1>19 DEF Stacked
<1> QED BY <1>16, <1>20 DEF new

-----------------------------------------------------------------------------
(* Ranks in a set of paths                                                  *)

(* Each path of a set has fewer before it than there are.                   *)
LEMMA RankBelow ==
  ASSUME NEW t, NEW S, IsFiniteSet(S), NEW p
  PROVE  /\ Rank(t, S, p) \in Nat /\ Cardinality(S) \in Nat /\ Rank(t, S, p) <= Cardinality(S)
         /\ p \in S /\ ~Earlier(t, p, p) => Rank(t, S, p) < Cardinality(S)
<1> DEFINE B == {q \in S : Earlier(t, q, p)}
<1>1. B \subseteq S OBVIOUS
<1>2. Rank(t, S, p) = Cardinality(B) BY DEF Rank
<1> HIDE DEF B
<1>3. /\ IsFiniteSet(B) /\ Cardinality(B) <= Cardinality(S)
      /\ Cardinality(S) = Cardinality(B) => S = B
  BY <1>1, FS_Subset
<1>4. Cardinality(B) \in Nat /\ Cardinality(S) \in Nat BY <1>3, FS_CardinalityType
<1>5. p \in S /\ ~Earlier(t, p, p) => S # B BY DEF B
<1> QED BY <1>2, <1>3, <1>4, <1>5

(* V is what comes first in D.                                              *)
First(t, V, D) ==
  /\ IsFiniteSet(D) /\ V \subseteq D /\ IsFiniteSet(V)
  /\ \A p \in V : ~Earlier(t, p, p)
  /\ \A p \in V : \A q \in D \ V : Earlier(t, p, q) /\ ~Earlier(t, q, p)

(* What follows a set changes no rank in it.                                *)
LEMMA RankFirst ==
  ASSUME NEW t, NEW V, NEW D, First(t, V, D)
  PROVE  /\ \A p \in V : Rank(t, D, p) = Rank(t, V, p)
         /\ \A q \in D \ V : Rank(t, D, q) \in Nat /\ Rank(t, D, q) >= Cardinality(V)
         /\ Cardinality(V) \in Nat
<1>1. ASSUME NEW p \in V PROVE Rank(t, D, p) = Rank(t, V, p)
  <2>1. {q \in D : Earlier(t, q, p)} = {q \in V : Earlier(t, q, p)} BY DEF First
  <2> QED BY <2>1 DEF Rank
<1>2. ASSUME NEW q \in D \ V PROVE Rank(t, D, q) \in Nat /\ Rank(t, D, q) >= Cardinality(V)
  <2> DEFINE B == {p \in D : Earlier(t, p, q)}
  <2>1. V \subseteq B /\ B \subseteq D BY DEF First
  <2>2. Rank(t, D, q) = Cardinality(B) BY DEF Rank
  <2> HIDE DEF B
  <2>3. IsFiniteSet(B) BY <2>1, FS_Subset DEF First
  <2>4. Cardinality(V) <= Cardinality(B) BY <2>1, <2>3, FS_Subset
  <2>5. Cardinality(V) \in Nat /\ Cardinality(B) \in Nat BY <2>3, FS_CardinalityType DEF First
  <2> QED BY <2>2, <2>4, <2>5
<1>3. Cardinality(V) \in Nat BY FS_CardinalityType DEF First
<1> QED BY <1>1, <1>2, <1>3

(* Nor does it change which path of the set has a rank.                     *)
LEMMA NthFirst ==
  ASSUME NEW t, NEW V, NEW D, First(t, V, D), NEW k \in Nat, k < Cardinality(V)
  PROVE  Nth(t, D, k) = Nth(t, V, k)
<1>1. /\ \A p \in V : Rank(t, D, p) = Rank(t, V, p)
      /\ \A q \in D \ V : Rank(t, D, q) \in Nat /\ Rank(t, D, q) >= Cardinality(V)
      /\ Cardinality(V) \in Nat
  BY RankFirst
<1>2. \A q \in D \ V : Rank(t, D, q) # k BY <1>1
<1>3. V \subseteq D BY DEF First
<1>4. {p \in D : Rank(t, D, p) = k} = {p \in V : Rank(t, V, p) = k} BY <1>1, <1>2, <1>3
<1> QED BY <1>4 DEF Nth

(* s comes after all of V.                                                  *)
Follows(t, V, s) ==
  /\ s \notin V /\ IsFiniteSet(V) /\ ~Earlier(t, s, s)
  /\ \A p \in V : Earlier(t, p, s) /\ ~Earlier(t, s, p) /\ ~Earlier(t, p, p)

(* A path after all of a set is the last when it joins.                     *)
LEMMA RankOfLast ==
  ASSUME NEW t, NEW V, NEW s, Follows(t, V, s)
  PROVE  /\ First(t, V, V \union {s})
         /\ Cardinality(V) \in Nat /\ Cardinality(V \union {s}) = Cardinality(V) + 1
         /\ Rank(t, V \union {s}, s) = Cardinality(V)
         /\ \A p \in V : Rank(t, V, p) \in Nat /\ Rank(t, V, p) < Cardinality(V)
         /\ Nth(t, V \union {s}, Cardinality(V)) = s
<1>1. IsFiniteSet(V \union {s}) /\ Cardinality(V \union {s}) = Cardinality(V) + 1
  BY FS_AddElement DEF Follows
<1>2. First(t, V, V \union {s}) BY <1>1 DEF First, Follows
<1>3. {q \in V \union {s} : Earlier(t, q, s)} = V BY DEF Follows
<1>4. Rank(t, V \union {s}, s) = Cardinality(V) BY <1>3 DEF Rank
<1>5. \A p \in V : Rank(t, V, p) \in Nat /\ Rank(t, V, p) < Cardinality(V) BY RankBelow DEF Follows
<1>6. Cardinality(V) \in Nat BY FS_CardinalityType DEF Follows
<1>7. \A p \in V : Rank(t, V \union {s}, p) = Rank(t, V, p) BY <1>2, RankFirst
<1>8. \A p \in V : Rank(t, V \union {s}, p) # Cardinality(V) BY <1>5, <1>6, <1>7
<1>9. {p \in V \union {s} : Rank(t, V \union {s}, p) = Cardinality(V)} = {s} BY <1>4, <1>8
<1>10. Member({s}) = s BY DEF Member
<1>11. Nth(t, V \union {s}, Cardinality(V)) = s BY <1>9, <1>10 DEF Nth
<1> QED BY <1>1, <1>2, <1>4, <1>5, <1>6, <1>11

-----------------------------------------------------------------------------
(* What is reported                                                         *)

(* The limits of the policy.                                                *)
Limits == policy.maxDifferences \in Nat \ {0} /\ policy.maxPaths \in Nat \ {0}

(* Naming one more allowed path, if there is room.                          *)
LEMMA NamedMore ==
  ASSUME NEW t, NEW A, NEW s, Follows(t, A, s), Limits
  PROVE  /\ Len(Named(t, A)) < policy.maxPaths <=> Cardinality(A) < policy.maxPaths
         /\ Named(t, A \union {s}) = IF Cardinality(A) < policy.maxPaths
                                     THEN Append(Named(t, A), s) ELSE Named(t, A)
<1>0. /\ First(t, A, A \union {s}) /\ Cardinality(A) \in Nat
      /\ Cardinality(A \union {s}) = Cardinality(A) + 1 /\ Nth(t, A \union {s}, Cardinality(A)) = s
  BY RankOfLast
<1> DEFINE n == Cardinality(A)
           max == policy.maxPaths
<1>1. /\ First(t, A, A \union {s}) /\ n \in Nat /\ Cardinality(A \union {s}) = n + 1
      /\ Nth(t, A \union {s}, n) = s
  BY <1>0
<1>2. \A k \in 0..(n - 1) : Nth(t, A \union {s}, k) = Nth(t, A, k)
  <2>1. TAKE k \in 0..(n - 1)
  <2>2. k \in Nat /\ k < n BY <1>1
  <2> QED BY <1>1, <2>2, NthFirst
<1>3. max \in Nat \ {0} BY DEF Limits
<1>4. /\ Named(t, A) = [k \in 1..Least(n, max) |-> Nth(t, A, k - 1)]
      /\ Named(t, A \union {s}) = [k \in 1..Least(n + 1, max) |-> Nth(t, A \union {s}, k - 1)]
  BY <1>1 DEF Named
<1> HIDE DEF n, max
<1>5. Least(n, max) \in Nat /\ Least(n, max) <= n /\ (n < max => Least(n, max) = n)
      /\ (~(n < max) => Least(n, max) = max)
  BY <1>1, <1>3 DEF Least
<1>6. Len(Named(t, A)) = Least(n, max) BY <1>4, <1>5
<1>7. \A k \in 1..Least(n, max) : Nth(t, A \union {s}, k - 1) = Nth(t, A, k - 1)
  <2>1. \A k \in 1..Least(n, max) : k - 1 \in 0..(n - 1) BY <1>1, <1>5
  <2> QED BY <1>2, <2>1
<1>8. CASE n < max
  <2>1. Least(n, max) = n /\ Least(n + 1, max) = n + 1 BY <1>1, <1>3, <1>8 DEF Least
  <2>2. Append(Named(t, A), s) = [k \in 1..(n + 1) |-> IF k = n + 1 THEN s ELSE Named(t, A)[k]]
    <3> DEFINE T == {Named(t, A)[k] : k \in 1..n} \union {s}
    <3>1. Named(t, A) = [k \in 1..n |-> Named(t, A)[k]] BY <1>4, <2>1
    <3>2. \A k \in 1..n : Named(t, A)[k] \in T OBVIOUS
    <3>3. s \in T OBVIOUS
    <3> HIDE DEF T
    <3>4. Named(t, A) \in Seq(T) BY <1>1, <3>1, <3>2
    <3>5. /\ Append(Named(t, A), s) \in Seq(T) /\ Len(Append(Named(t, A), s)) = n + 1
          /\ \A k \in 1..n : Append(Named(t, A), s)[k] = Named(t, A)[k]
          /\ Append(Named(t, A), s)[n + 1] = s
      BY <3>3, <3>4, <1>6, <2>1, AppendProperties
    <3>6. Append(Named(t, A), s) \in [1..(n + 1) -> T]
      <4>1. \A e \in Seq(T) : e \in [1..Len(e) -> T] OBVIOUS
      <4> QED BY <3>5, <4>1
    <3>7. \A k \in 1..(n + 1) : k = n + 1 \/ k \in 1..n BY <1>1
    <3> QED BY <3>5, <3>6, <3>7, <1>1
  <2>3. \A k \in 1..(n + 1) : Nth(t, A \union {s}, k - 1) = IF k = n + 1 THEN s ELSE Named(t, A)[k]
    <3>1. TAKE k \in 1..(n + 1)
    <3>2. CASE k = n + 1 BY <1>1, <3>2
    <3>3. CASE k # n + 1
      <4>1. k \in 1..n BY <1>1, <3>3
      <4> QED BY <1>4, <1>7, <2>1, <3>3, <4>1
    <3> QED BY <3>2, <3>3
  <2>4. Named(t, A \union {s}) = Append(Named(t, A), s) BY <1>4, <2>1, <2>2, <2>3
  <2> QED BY <1>6, <1>8, <2>1, <2>4 DEF n, max
<1>9. CASE ~(n < max)
  <2>1. Least(n, max) = max /\ Least(n + 1, max) = max BY <1>1, <1>3, <1>9 DEF Least
  <2>2. Named(t, A \union {s}) = Named(t, A) BY <1>4, <1>7, <2>1
  <2>3. ~(Len(Named(t, A)) < max) BY <1>3, <1>6, <2>1
  <2> QED BY <1>9, <2>2, <2>3 DEF n, max
<1> QED BY <1>8, <1>9

(* What stays out of a set of differences leaves its counted paths alone.   *)
LEMMA CountedFirst ==
  ASSUME NEW t, NEW V, NEW D, First(t, V, D), NEW m, m.count \in Nat, Limits,
         m.count + Cardinality(V) >= policy.maxDifferences
  PROVE  Counted(t, D, m) = Counted(t, V, m)
<1>1. /\ \A p \in V : Rank(t, D, p) = Rank(t, V, p)
      /\ \A q \in D \ V : Rank(t, D, q) \in Nat /\ Rank(t, D, q) >= Cardinality(V)
      /\ Cardinality(V) \in Nat
  BY RankFirst
<1>2. policy.maxDifferences \in Nat BY DEF Limits
<1>3. \A q \in D \ V : ~(m.count + Rank(t, D, q) < policy.maxDifferences) BY <1>1, <1>2
<1>4. V \subseteq D BY DEF First
<1> QED BY <1>1, <1>3, <1>4 DEF Counted

(* Within the limit, all differences are counted.                           *)
LEMMA CountedAll ==
  ASSUME NEW t, NEW V, IsFiniteSet(V), \A p \in V : ~Earlier(t, p, p),
         NEW m, m.count \in Nat, Limits,
         m.count + Cardinality(V) <= policy.maxDifferences
  PROVE  Counted(t, V, m) = V
<1>1. \A p \in V : /\ Rank(t, V, p) \in Nat /\ Cardinality(V) \in Nat
                   /\ Rank(t, V, p) < Cardinality(V)
  BY RankBelow
<1>2. policy.maxDifferences \in Nat BY DEF Limits
<1>3. \A p \in V : m.count + Rank(t, V, p) < policy.maxDifferences BY <1>1, <1>2
<1> QED BY <1>3 DEF Counted

(* The first reason is that of the set, whatever follows.                   *)
LEMMA ReasonFirst ==
  ASSUME NEW t, NEW V, NEW D, First(t, V, D), V # {}, NEW m
  PROVE  Tally(t, D, m).reason = Tally(t, V, m).reason
<1>1. V \subseteq D /\ D # {} /\ IsFiniteSet(V) BY DEF First
<1>2. Cardinality(V) \in Nat /\ Cardinality(V) # 0 BY <1>1, FS_CardinalityType, FS_EmptySet
<1>3. 0 \in Nat /\ 0 < Cardinality(V) BY <1>2
<1>4. Nth(t, D, 0) = Nth(t, V, 0) BY <1>3, NthFirst
<1>5. Tally(t, D, m).reason = IF m.count > 0 \/ D = {} THEN m.reason ELSE Mismatch(t, Nth(t, D, 0))
  BY DEF Tally
<1>6. Tally(t, V, m).reason = IF m.count > 0 \/ V = {} THEN m.reason ELSE Mismatch(t, Nth(t, V, 0))
  BY DEF Tally
<1> QED BY <1>1, <1>4, <1>5, <1>6

(* Once the limit is passed, the differences that follow are not reported.  *)
LEMMA TallyFirst ==
  ASSUME NEW t, NEW V, NEW D, First(t, V, D), NEW m, m.count \in Nat, Limits,
         m.count + Cardinality(V) > policy.maxDifferences
  PROVE  Tally(t, D, m) = Tally(t, V, m)
<1>1. IsFiniteSet(V) /\ IsFiniteSet(D) /\ V \subseteq D BY DEF First
<1>2. Cardinality(V) \in Nat /\ Cardinality(D) \in Nat /\ Cardinality(V) <= Cardinality(D)
  BY <1>1, FS_CardinalityType, FS_Subset
<1>3. policy.maxDifferences \in Nat \ {0} BY DEF Limits
<1>4. Counted(t, D, m) = Counted(t, V, m) BY <1>2, <1>3, CountedFirst
<1>5. /\ m.count + Cardinality(D) > policy.maxDifferences
      /\ Least(m.count + Cardinality(D), policy.maxDifferences) = policy.maxDifferences
      /\ Least(m.count + Cardinality(V), policy.maxDifferences) = policy.maxDifferences
  BY <1>2, <1>3 DEF Least
<1>6. Tally(t, D, m).reason = Tally(t, V, m).reason
  <2>1. CASE V # {} BY <2>1, ReasonFirst
  <2>2. CASE V = {}
    <3>1. m.count > 0 BY <2>2, <1>3, FS_EmptySet
    <3> QED BY <3>1 DEF Tally
  <2> QED BY <2>1, <2>2
<1> QED BY <1>4, <1>5, <1>6 DEF Tally

(* Report(c, ...) is a record of what is reported.                          *)
Report(c, l, ps, r, tr, why) ==
  [count |-> c, limited |-> l, paths |-> ps, redacted |-> r, truncated |-> tr, reason |-> why]

(* What add() does is what reporting one more difference takes.             *)
LEMMA TallyAdd ==
  ASSUME NEW t, NEW V, NEW s, Follows(t, V, s), NEW m, m.count \in Nat, Limits
  PROVE  Tally(t, V \union {s}, m) = Add(Tally(t, V, m), s \in policy.allowed, s, Mismatch(t, s))
<1> DEFINE W == V \union {s}
           n == Cardinality(V)
           max == policy.maxDifferences
           old == Tally(t, V, m)
           A == Counted(t, V, m) \intersect policy.allowed
           B == Counted(t, W, m) \intersect policy.allowed
<1>1. /\ First(t, V, W) /\ n \in Nat /\ Cardinality(W) = n + 1
      /\ Rank(t, W, s) = n /\ Nth(t, W, n) = s
  BY RankOfLast
<1>2. max \in Nat \ {0} BY DEF Limits
<1>3. IsFiniteSet(V) /\ s \notin V /\ IsFiniteSet(W) BY <1>1 DEF Follows, First
<1>4. A \subseteq V BY DEF Counted
<1>5. IsFiniteSet(A) /\ Cardinality(A) \in Nat /\ Cardinality(A) <= n
  BY <1>3, <1>4, FS_Subset, FS_CardinalityType
<1> DEFINE c == Least(m.count + n, max)
           d == Least(m.count + (n + 1), max)
           why == IF m.count > 0 \/ V = {} THEN m.reason ELSE Mismatch(t, Nth(t, V, 0))
           next == IF m.count > 0 \/ W = {} THEN m.reason ELSE Mismatch(t, Nth(t, W, 0))
<1>6. /\ old = Report(c, m.count + n > max, Named(t, A), c - Cardinality(A),
                       Cardinality(A) > policy.maxPaths, why)
      /\ old.count = c /\ old.reason = why
  BY DEF Tally, Report
<1>7. /\ Tally(t, W, m) = Report(d, m.count + (n + 1) > max, Named(t, B), d - Cardinality(B),
                                  Cardinality(B) > policy.maxPaths, next)
      /\ Tally(t, W, m).reason = next
  BY <1>1 DEF Tally, Report
<1>8. V # {} => Tally(t, W, m).reason = old.reason BY <1>1, ReasonFirst
<1>9. V = {} <=> n = 0 BY <1>3, FS_EmptySet
<1>10. c = max <=> m.count + n >= max BY <1>1, <1>2 DEF Least
<1> DEFINE inA == s \in policy.allowed
           room == Len(Named(t, A)) < policy.maxPaths
<1> DEFINE l == m.count + n > max
           ps == Named(t, A)
           r == c - Cardinality(A)
           tr == Cardinality(A) > policy.maxPaths
<1>13. old = Report(c, l, ps, r, tr, why) BY <1>6
<1>14. l \in BOOLEAN /\ tr \in BOOLEAN /\ inA \in BOOLEAN OBVIOUS
<1> HIDE DEF W, n, max, old, A, B, c, d, why, next, inA, room, l, ps, r, tr
<1>15. Add(old, inA, s, Mismatch(t, s)) =
         IF c = policy.maxDifferences THEN Report(c, TRUE, ps, r, tr, why)
         ELSE Report(c + 1, l, IF inA /\ Len(ps) < policy.maxPaths THEN Append(ps, s) ELSE ps,
                     IF inA THEN r ELSE r + 1, tr \/ (inA /\ ~(Len(ps) < policy.maxPaths)),
                     IF c = 0 THEN Mismatch(t, s) ELSE why)
  <2>1. CASE c = policy.maxDifferences
    <3>1. Full(old) BY <1>13, <2>1 DEF Full, Report
    <3>2. Add(old, inA, s, Mismatch(t, s)) = [old EXCEPT !.limited = TRUE] BY <3>1 DEF Add
    <3>3. \A b : [Report(c, l, ps, r, tr, why) EXCEPT !.limited = b] = Report(c, b, ps, r, tr, why)
      BY DEF Report
    <3>4. [Report(c, l, ps, r, tr, why) EXCEPT !.limited = TRUE] = Report(c, TRUE, ps, r, tr, why)
      BY <3>3
    <3> QED BY <1>13, <2>1, <3>2, <3>4
  <2>2. CASE c # policy.maxDifferences
    <3>1. ~Full(old) BY <1>13, <2>2 DEF Full, Report
    <3> DEFINE space == Len(old.paths) < policy.maxPaths
    <3>2. Add(old, inA, s, Mismatch(t, s)) =
            [old EXCEPT !.count = @ + 1,
                        !.reason = IF old.count = 0 THEN Mismatch(t, s) ELSE @,
                        !.redacted = IF inA THEN @ ELSE @ + 1,
                        !.paths = IF inA /\ space THEN Append(@, s) ELSE @,
                        !.truncated = @ \/ (inA /\ ~space)]
      BY <3>1 DEF Add
    <3>3. old.paths = ps BY <1>13 DEF Report
    <3> QED BY <1>13, <1>14, <2>2, <3>2, <3>3 DEF Report
  <2> QED BY <2>1, <2>2
<1>16. Add(old, inA, s, Mismatch(t, s)) =
         IF c = max
         THEN Report(c, TRUE, Named(t, A), c - Cardinality(A),
                     Cardinality(A) > policy.maxPaths, why)
         ELSE Report(c + 1, m.count + n > max,
                     IF inA /\ room THEN Append(Named(t, A), s) ELSE Named(t, A),
                     IF inA THEN c - Cardinality(A) ELSE (c - Cardinality(A)) + 1,
                     Cardinality(A) > policy.maxPaths \/ (inA /\ ~room),
                     IF c = 0 THEN Mismatch(t, s) ELSE why)
  BY <1>15 DEF l, ps, r, tr, room, max
<1>11. CASE m.count + n >= max
  <2>1. Counted(t, W, m) = Counted(t, V, m) BY <1>1, <1>11, CountedFirst DEF n, max
  <2>2. B = A BY <2>1 DEF A, B
  <2>3. d = max /\ c = max /\ m.count + (n + 1) > max
    BY <1>1, <1>2, <1>11 DEF Least, c, d
  <2>4. next = why
    <3>1. CASE V # {} BY <3>1, <1>6, <1>7, <1>8
    <3>2. CASE V = {}
      <4>1. m.count > 0 BY <3>2, <1>2, <1>9, <1>11
      <4> QED BY <4>1 DEF why, next
    <3> QED BY <3>1, <3>2
  <2>5. (m.count + (n + 1) > max) = TRUE BY <2>3
  <2>6. Tally(t, W, m)
        = Report(c, TRUE, Named(t, A), c - Cardinality(A), Cardinality(A) > policy.maxPaths, why)
    BY <1>7, <2>2, <2>3, <2>4, <2>5
  <2> QED BY <1>16, <2>3, <2>6 DEF W, old, inA
<1>12. CASE ~(m.count + n >= max)
  <2>1. Counted(t, V, m) = V /\ Counted(t, W, m) = W
    <3>1. m.count + n <= max /\ m.count + Cardinality(W) <= max BY <1>1, <1>2, <1>12
    <3>2. \A p \in V : ~Earlier(t, p, p) BY DEF Follows
    <3>3. \A p \in W : ~Earlier(t, p, p) BY DEF Follows, W
    <3> QED BY <1>3, <3>1, <3>2, <3>3, CountedAll DEF n, max
  <2>2. A = V \intersect policy.allowed /\ B = W \intersect policy.allowed BY <2>1 DEF A, B
  <2>3. /\ d = c + 1 /\ c = m.count + n /\ c # max
        /\ ~(m.count + (n + 1) > max) /\ ~(m.count + n > max)
    BY <1>1, <1>2, <1>12 DEF Least, c, d
  <2>4. next = IF c = 0 THEN Mismatch(t, s) ELSE why
    <3>1. CASE V # {}
      <4>1. c # 0 BY <1>1, <1>9, <2>3, <3>1
      <4> QED BY <1>6, <1>7, <1>8, <3>1, <4>1
    <3>2. CASE V = {}
      <4>1. n = 0 /\ Nth(t, W, 0) = s /\ W # {} BY <1>1, <1>9, <3>2 DEF W
      <4>2. next = IF m.count > 0 THEN m.reason ELSE Mismatch(t, s) BY <4>1 DEF next
      <4>3. why = m.reason BY <3>2 DEF why
      <4> QED BY <2>3, <4>1, <4>2, <4>3
    <3> QED BY <3>1, <3>2
  <2>5. (m.count + (n + 1) > max) = (m.count + n > max) BY <2>3
  <2>6. CASE ~inA
    <3>1. B = A BY <2>2, <2>6 DEF W, inA
    <3>2. d - Cardinality(A) = (c - Cardinality(A)) + 1 BY <1>1, <1>5, <2>3
    <3>3. (Cardinality(A) > policy.maxPaths)
          = (Cardinality(A) > policy.maxPaths \/ (inA /\ ~room)) BY <2>6
    <3>4. Tally(t, W, m) = Report(c + 1, m.count + n > max, Named(t, A), (c - Cardinality(A)) + 1,
                                  Cardinality(A) > policy.maxPaths \/ (inA /\ ~room), next)
      BY <1>7, <2>3, <2>5, <3>1, <3>2, <3>3
    <3> QED BY <1>16, <2>3, <2>4, <2>6, <3>4 DEF W, old, inA
  <2>7. CASE inA
    <3>1. B = A \union {s} /\ s \notin A BY <2>2, <2>7, <1>3 DEF W, inA
    <3>2. Follows(t, A, s) BY <1>4, <1>5, <3>1 DEF Follows
    <3>3. /\ room <=> Cardinality(A) < policy.maxPaths
          /\ Named(t, B) = IF Cardinality(A) < policy.maxPaths
                           THEN Append(Named(t, A), s) ELSE Named(t, A)
      BY <3>1, <3>2, NamedMore DEF room
    <3>4. Cardinality(B) = Cardinality(A) + 1 BY <1>5, <3>1, FS_AddElement
    <3>5. policy.maxPaths \in Nat BY DEF Limits
    <3>6. (Cardinality(B) > policy.maxPaths)
          = (Cardinality(A) > policy.maxPaths \/ (inA /\ ~room))
      BY <1>5, <2>7, <3>3, <3>4, <3>5
    <3>7. d - Cardinality(B) = c - Cardinality(A) BY <1>1, <1>5, <2>3, <3>4
    <3>8. Named(t, B) = IF inA /\ room THEN Append(Named(t, A), s) ELSE Named(t, A)
      BY <2>7, <3>3
    <3>9. Tally(t, W, m) = Report(c + 1, m.count + n > max,
                                  IF inA /\ room THEN Append(Named(t, A), s) ELSE Named(t, A),
                                  c - Cardinality(A),
                                  Cardinality(A) > policy.maxPaths \/ (inA /\ ~room), next)
      BY <1>7, <2>3, <2>5, <3>6, <3>7, <3>8
    <3> QED BY <1>16, <2>3, <2>4, <2>7, <3>9 DEF W, old, inA
  <2> QED BY <2>6, <2>7
<1> QED BY <1>11, <1>12 DEF W

(* Plain(n, why) is the report of n differences that are not to be named.   *)
Plain(n, why) ==
  Report(Least(n, policy.maxDifferences), n > policy.maxDifferences, <<>>,
         Least(n, policy.maxDifferences), FALSE, why)

(* One difference of the metadata more, or none.                            *)
LEMMA PlainAddIf ==
  ASSUME NEW n \in Nat, NEW why, NEW reason, NEW differs \in BOOLEAN, Limits
  PROVE  AddIf(differs, Plain(n, why), reason)
         = Plain(n + One(differs), IF differs /\ n = 0 THEN reason ELSE why)
<1> DEFINE max == policy.maxDifferences
           d == Plain(n, why)
           c == Least(n, max)
           l == n > max
           off == FALSE
<1>1. max \in Nat \ {0} BY DEF Limits
<1>2. d = Report(c, l, <<>>, c, off, why) /\ l \in BOOLEAN /\ off \in BOOLEAN BY DEF Plain
<1>3. CASE ~differs
  <2>1. AddIf(differs, d, reason) = d /\ n + One(differs) = n BY <1>3 DEF AddIf, One
  <2> QED BY <1>3, <2>1
<1>4. CASE differs /\ n >= max
  <2>1. c = max /\ Least(n + 1, max) = max /\ n # 0 /\ (n + 1 > max) = TRUE
    BY <1>1, <1>4 DEF Least
  <2>2. Plain(n + 1, why) = Report(c, TRUE, <<>>, c, off, why) BY <2>1 DEF Plain
  <2> HIDE DEF d, c, l, off
  <2>3. Full(d) BY <1>2, <2>1 DEF Full, Report, max
  <2>4. AddIf(differs, d, reason) = [d EXCEPT !.limited = TRUE] BY <1>4, <2>3 DEF AddIf, Add
  <2>5. \A b : [d EXCEPT !.limited = b] = Report(c, b, <<>>, c, off, why) BY <1>2 DEF Report
  <2>6. [d EXCEPT !.limited = TRUE] = Report(c, TRUE, <<>>, c, off, why) BY <2>5
  <2>7. n + One(differs) = n + 1 BY <1>4 DEF One
  <2> QED BY <2>1, <2>2, <2>4, <2>6, <2>7 DEF d
<1>5. CASE differs /\ ~(n >= max)
  <2>1. c = n /\ c # max /\ Least(n + 1, max) = n + 1 /\ (n + 1 > max) = l
    BY <1>1, <1>5 DEF Least
  <2> DEFINE next == IF n = 0 THEN reason ELSE why
  <2>2. Plain(n + 1, next) = Report(n + 1, l, <<>>, n + 1, off, next) BY <2>1 DEF Plain
  <2> HIDE DEF d, c, l, off
  <2>3. ~Full(d) BY <1>2, <2>1 DEF Full, Report, max
  <2>4. AddIf(differs, d, reason) =
          [d EXCEPT !.count = @ + 1, !.reason = IF d.count = 0 THEN reason ELSE @,
                    !.redacted = @ + 1, !.paths = @,
                    !.truncated = @ \/ (FALSE /\ ~(Len(d.paths) < policy.maxPaths))]
    BY <1>5, <2>3 DEF AddIf, Add
  <2>5. AddIf(differs, d, reason) = Report(n + 1, l, <<>>, n + 1, off, next)
    BY <1>2, <2>1, <2>4 DEF Report
  <2>6. n + One(differs) = n + 1 BY <1>5 DEF One
  <2> QED BY <1>5, <2>2, <2>5, <2>6 DEF d
<1> QED BY <1>3, <1>4, <1>5

(* What the metadata adds, before the walk begins.                          *)
LEMMA MetadataTally ==
  ASSUME NEW t, NEW ruled, Limits
  PROVE  /\ Metadata(ruled) = Tally(t, {}, OfMetadata(ruled))
         /\ OfMetadata(ruled).count \in Nat
<1> DEFINE b == given.v1.class # given.v2.class
           e == StatusDiffers(ruled)
           h == policy.header
                /\ (given.v1.header = 0 \/ given.v2.header = 0 \/ given.v1.header # given.v2.header)
           m == OfMetadata(ruled)
           class  == AddIf(b, Matched, "class")
           status == AddIf(e, class, "status")
           header == AddIf(h, status, "header")
<1>1. Metadata(ruled) = header BY DEF Metadata, StatusDiffers
<1>2. m.count = One(b) + One(e) + One(h) /\ m.count \in Nat
  <2>1. (policy.header /\ ~(given.v1.header = given.v2.header /\ given.v1.header # 0)) <=> h
    OBVIOUS
  <2> QED BY <2>1 DEF OfMetadata, One
<1>3. m.reason = IF b THEN "class" ELSE IF e THEN "status" ELSE IF h THEN "header" ELSE "matched"
  <2>1. (policy.header /\ ~(given.v1.header = given.v2.header /\ given.v1.header # 0)) <=> h
    OBVIOUS
  <2> QED BY <2>1 DEF OfMetadata
<1> DEFINE max == policy.maxDifferences
<1>4. max \in Nat \ {0} BY DEF Limits
<1>5. Tally(t, {}, m) = Plain(m.count, m.reason)
  <2>1. Counted(t, {}, m) \intersect policy.allowed = {} BY DEF Counted
  <2>2. Cardinality({}) = 0 BY FS_EmptySet
  <2>3. Named(t, {}) = <<>>
    <3>1. Least(0, policy.maxPaths) = 0 BY DEF Limits, Least
    <3>2. Named(t, {}) = [k \in 1..0 |-> Nth(t, {}, k - 1)] BY <2>2, <3>1 DEF Named
    <3> QED BY <3>2
  <2>4. (0 > policy.maxPaths) = FALSE BY DEF Limits
  <2>5. m.count + 0 = m.count BY <1>2
  <2>6. Least(m.count, max) - 0 = Least(m.count, max) BY <1>2, <1>4 DEF Least
  <2>7. Tally(t, {}, m)
         = Report(Least(m.count + 0, max), m.count + 0 > max, Named(t, {}),
                  Least(m.count + 0, max) - 0, 0 > policy.maxPaths, m.reason)
    BY <2>1, <2>2 DEF Tally, Report
  <2>8. Tally(t, {}, m) = Report(Least(m.count, max), m.count > max, <<>>, Least(m.count, max),
                                 FALSE, m.reason)
    BY <2>3, <2>4, <2>5, <2>6, <2>7
  <2> QED BY <2>8 DEF Plain
<1>6. Matched = Plain(0, "matched")
  <2>1. Least(0, max) = 0 /\ (0 > max) = FALSE BY <1>4 DEF Least
  <2> QED BY <2>1 DEF Plain, Report, Matched
<1>7. b \in BOOLEAN /\ e \in BOOLEAN /\ h \in BOOLEAN
  BY DEF StatusDiffers
<1> DEFINE n1 == 0 + One(b)
           w1 == IF b /\ 0 = 0 THEN "class" ELSE "matched"
           n2 == n1 + One(e)
           w2 == IF e /\ n1 = 0 THEN "status" ELSE w1
           n3 == n2 + One(h)
           w3 == IF h /\ n2 = 0 THEN "header" ELSE w2
<1> HIDE DEF b, e, h
<1>8. n1 \in Nat /\ n2 \in Nat BY DEF One
<1>9. class = Plain(n1, w1)
  <2>1. 0 \in Nat OBVIOUS
  <2> QED BY <1>6, <1>7, <2>1, PlainAddIf
<1>13. n3 = One(b) + One(e) + One(h)
       /\ w3 = IF b THEN "class" ELSE IF e THEN "status" ELSE IF h THEN "header" ELSE "matched"
  BY <1>7 DEF One
<1> HIDE DEF n1, w1, class
<1>10. status = Plain(n2, w2) BY <1>7, <1>8, <1>9, PlainAddIf
<1> HIDE DEF n2, w2, status
<1>11. header = Plain(n3, w3) BY <1>7, <1>8, <1>10, PlainAddIf
<1> HIDE DEF n3, w3
<1> QED BY <1>1, <1>2, <1>3, <1>5, <1>11, <1>13

-----------------------------------------------------------------------------
(* A round of the walk                                                      *)

(* What the policies promise of tolerances.                                 *)
Tolerances == \A rule \in policy.tolerances : rule.absolute \in Nat

(* A path differs, by definition, if it is not the same and not excused.    *)
LEMMA DiffersMeans ==
  ASSUME NEW t, IsTree(t), IsTree(left), Tolerances, NEW ruled, NEW p, ~Ignored(ruled, p)
  PROVE  Differs(t, ruled, p) <=> ~Same(t, p) /\ ~Excused(ruled, t, p)
<1> DEFINE a == Node(left, p)
           b == Node(t, p)
           near == \E rule \in policy.tolerances :
                     rule.path = p /\ a.leaf - b.leaf \in (-rule.absolute)..rule.absolute
<1>1. Differs(t, ruled, p)
      <=> \/ a.kind # b.kind
          \/ a.kind = "list" /\ Length(left, p) # Length(t, p)
          \/ a.kind \notin Containers /\ a.leaf # b.leaf /\ (ruled /\ a.kind = "number" => ~near)
  BY DEF Differs, Ignored
<1>2. CASE a.kind # b.kind BY <1>1, <1>2 DEF Same, SameKind, Excused
<1>3. CASE a.kind = b.kind /\ a.kind \in Containers
  <2>1. a.kind # "number" BY <1>3 DEF Containers
  <2> QED BY <1>1, <1>3, <2>1 DEF Same, SameKind, Excused, Nested
<1>4. CASE a.kind = b.kind /\ a.kind \notin Containers
  <2>1. a.kind # "list" BY <1>4 DEF Containers
  <2>2. Same(t, p) <=> a.leaf = b.leaf BY <1>4, <2>1 DEF Same, SameKind, Nested
  <2>3. CASE a.kind # "number"
    BY <1>1, <1>4, <2>1, <2>2, <2>3 DEF Excused, SameKind
  <2>4. CASE a.kind = "number"
    <3>1. p \in DOMAIN left /\ p \in DOMAIN t BY <1>4, <2>4 DEF Node, Absent
    <3>2. a = left[p] /\ b = t[p] /\ a.leaf \in Int /\ b.leaf \in Int BY <3>1 DEF Node, IsTree
    <3>3. ASSUME NEW rule \in policy.tolerances
          PROVE  Distance(t, p) <= rule.absolute
                 <=> a.leaf - b.leaf \in (-rule.absolute)..rule.absolute
      <4> DEFINE x == left[p].leaf
                 y == t[p].leaf
      <4>1. x \in Int /\ y \in Int /\ rule.absolute \in Nat BY <3>2 DEF Tolerances
      <4>2. a.leaf = x /\ b.leaf = y BY <3>2
      <4>3. Distance(t, p) = IF x > y THEN x - y ELSE y - x BY DEF Distance
      <4> HIDE DEF x, y, a, b
      <4> QED BY <4>1, <4>2, <4>3
    <3>4. Tolerated(ruled, t, p) <=> ruled /\ near BY <3>3 DEF Tolerated
    <3> QED BY <1>1, <1>4, <2>1, <2>2, <2>4, <3>4 DEF Excused, SameKind
  <2> QED BY <2>3, <2>4
<1> QED BY <1>2, <1>3, <1>4

(* The differences among the paths that are not in the stack.               *)
SeenToDiffer(t, ruled, stack) == Differences(t, ruled) \intersect Seen(t, ruled, stack)

(* Comparing at the top of the stack counts it, if the values differ there. *)
LEMMA TopIsCounted ==
  ASSUME NEW t, IsTree(t), IsTree(left), NEW ruled,
         NEW stack, Stacked(t, ruled, stack), stack # <<>>,
         NEW new, Seen(t, ruled, new) = Seen(t, ruled, stack) \union {Last(stack)},
         NEW m, m.count \in Nat, Limits
  PROVE  Tally(t, SeenToDiffer(t, ruled, new), m) =
           IF Differs(t, ruled, Last(stack))
           THEN Add(Tally(t, SeenToDiffer(t, ruled, stack), m), Last(stack) \in policy.allowed,
                    Last(stack), Mismatch(t, Last(stack)))
           ELSE Tally(t, SeenToDiffer(t, ruled, stack), m)
<1> DEFINE s == Last(stack)
           V == SeenToDiffer(t, ruled, stack)
<1>1. /\ s \in Reached(t, ruled) /\ s \notin Seen(t, ruled, stack)
      /\ \A p \in Seen(t, ruled, stack) : Earlier(t, p, s)
  BY TopFacts
<1>2. CASE ~Differs(t, ruled, s)
  <2>1. s \notin Differences(t, ruled) BY <1>2 DEF Differences
  <2>2. SeenToDiffer(t, ruled, new) = V BY <2>1 DEF SeenToDiffer
  <2> QED BY <1>2, <2>2
<1>3. CASE Differs(t, ruled, s)
  <2>1. s \in Differences(t, ruled) BY <1>1, <1>3 DEF Differences
  <2>2. SeenToDiffer(t, ruled, new) = V \union {s} BY <2>1 DEF SeenToDiffer
  <2>3. V \subseteq Reached(t, ruled) /\ V \subseteq Seen(t, ruled, stack) /\ s \notin V
    BY <1>1 DEF SeenToDiffer, Seen
  <2>4. IsFiniteSet(V) BY <2>3, ReachedFinite, FS_Subset
  <2>5. ASSUME NEW p \in V PROVE Earlier(t, p, s) /\ ~Earlier(t, s, p) /\ ~Earlier(t, p, p)
    BY <1>1, <2>3, EarlierOnce
  <2>6. ~Earlier(t, s, s) BY <1>1, EarlierOnce
  <2>7. Follows(t, V, s) BY <2>3, <2>4, <2>5, <2>6 DEF Follows
  <2>8. Tally(t, V \union {s}, m) = Add(Tally(t, V, m), s \in policy.allowed, s, Mismatch(t, s))
    BY <2>7, TallyAdd
  <2> QED BY <1>3, <2>2, <2>8
<1> QED BY <1>2, <1>3

(* A walk begins at the roots.                                              *)
LEMMA WalkBegins ==
  ASSUME NEW t, IsTree(t), IsTree(left), NEW ruled
  PROVE  Stacked(t, ruled, << <<>> >>) /\ Seen(t, ruled, << <<>> >>) = {}
<1> DEFINE stack == << <<>> >>
<1>1. <<>> \in Paths /\ stack \in Seq(Paths) /\ DOMAIN stack = {1} /\ stack[1] = <<>> BY DEF Paths
<1>2. <<>> \in Reached(t, ruled) /\ Reached(t, ruled) \subseteq Paths BY ReachedFinite
<1>3. \A p \in Paths : IsPrefix(<<>>, p)
  <2>1. TAKE p \in Paths
  <2>2. Len(<<>>) = 0 /\ Len(p) \in Nat BY DEF Paths
  <2> QED BY <1>1, <2>2, PrefixNames
<1>4. Seen(t, ruled, stack) = {} BY <1>1, <1>2, <1>3 DEF Seen
<1>5. \A i, j \in DOMAIN stack : ~(i < j) BY <1>1
<1> QED BY <1>1, <1>2, <1>4, <1>5 DEF Stacked

(* A walk that is over has found all differences, or as many as it may.     *)
LEMMA WalkEnds ==
  ASSUME NEW t, IsTree(t), IsTree(left), NEW ruled, NEW stack, Stacked(t, ruled, stack),
         NEW m, m.count \in Nat, Limits,
         stack = <<>> \/ Tally(t, SeenToDiffer(t, ruled, stack), m).limited
  PROVE  /\ Tally(t, SeenToDiffer(t, ruled, stack), m) = Tally(t, Differences(t, ruled), m)
         /\ stack = <<>> => Seen(t, ruled, stack) = Reached(t, ruled)
<1> DEFINE V == SeenToDiffer(t, ruled, stack)
           D == Differences(t, ruled)
<1>1. stack = <<>> => Seen(t, ruled, stack) = Reached(t, ruled) BY DEF Seen
<1>2. D \subseteq Reached(t, ruled) /\ V \subseteq D /\ V \subseteq Seen(t, ruled, stack)
  BY DEF Differences, SeenToDiffer
<1>3. CASE stack = <<>>
  <2>1. V = D BY <1>1, <1>2, <1>3 DEF SeenToDiffer
  <2> QED BY <1>1, <2>1
<1>4. CASE Tally(t, V, m).limited
  <2>1. IsFiniteSet(D) /\ IsFiniteSet(V) BY <1>2, ReachedFinite, FS_Subset
  <2>2. \A p \in V : ~Earlier(t, p, p) BY <1>2, EarlierOnce
  <2>3. ASSUME NEW p \in V, NEW q \in D \ V PROVE Earlier(t, p, q) /\ ~Earlier(t, q, p)
    <3>1. p \in Reached(t, ruled) /\ q \in Reached(t, ruled) /\ p \in Paths /\ q \in Paths
      BY <1>2, ReachedFinite
    <3>2. q \notin Seen(t, ruled, stack) BY <2>3 DEF SeenToDiffer
    <3>3. PICK i \in DOMAIN stack : IsPrefix(stack[i], q) BY <3>1, <3>2 DEF Seen
    <3>4. p \in Seen(t, ruled, stack) BY <1>2
    <3>5. Earlier(t, p, stack[i]) /\ stack[i] \in Paths /\ ~IsPrefix(stack[i], p)
      BY <3>4, ReachedFinite DEF Stacked, Seen
    <3>6. Earlier(t, p, q) BY <3>1, <3>3, <3>5, EarlierBelow
    <3> QED BY <3>1, <3>6, EarlierOnce
  <2>4. First(t, V, D) BY <1>2, <2>1, <2>2, <2>3 DEF First
  <2>5. m.count + Cardinality(V) > policy.maxDifferences BY <1>4 DEF Tally
  <2>6. Tally(t, D, m) = Tally(t, V, m) BY <2>4, <2>5, TallyFirst
  <2> QED BY <1>1, <2>6
<1> QED BY <1>3, <1>4

-----------------------------------------------------------------------------
(* The values and the policies there are                                    *)

(* The calls of compare() have values to walk through, and limits.          *)
LEMMA CaseFacts ==
  ASSUME given \in Cases
  PROVE  /\ IsTree(left) /\ IsTree(given.v2.body) /\ Limits /\ Tolerances
         /\ policy.mappings \in Seq([v1 : Paths, v2 : Paths])
         /\ \A i, j \in DOMAIN policy.mappings :
              \A e \in Ends(policy.mappings[i]), f \in Ends(policy.mappings[j]) :
                e \in Paths \ {<<>>} /\ (IsPrefix(e, f) => i = j /\ e = f)
         /\ \A i \in DOMAIN policy.mappings : policy.mappings[i].v1 # policy.mappings[i].v2
         /\ DOMAIN given.context = {"request", "authority", "data"}
<1>1. /\ WellFormed(policy) /\ IsValue(left) /\ IsValue(given.v2.body)
      /\ policy.mappings \in Seq([v1 : Paths, v2 : Paths])
      /\ DOMAIN given.context = {"request", "authority", "data"}
  BY CasesAssumption DEF policy, left
<1>2. IsTree(left) /\ IsTree(given.v2.body) BY <1>1 DEF IsValue, IsTree
<1>3. Limits BY <1>1 DEF WellFormed, Limits
<1>4. Tolerances BY <1>1 DEF WellFormed, Tolerances
<1> QED BY <1>1, <1>2, <1>3, <1>4 DEF WellFormed

(* Where a path is moved to, and where from.                                *)
Elsewhere(p, from, to) == to \o SubSeq(p, Len(from) + 1, Len(p))

(* Moving a path there and back.                                            *)
LEMMA ElsewhereFacts ==
  ASSUME NEW from \in Paths, NEW to \in Paths, NEW p \in Paths, IsPrefix(from, p)
  PROVE  /\ Elsewhere(p, from, to) \in Paths /\ IsPrefix(to, Elsewhere(p, from, to))
         /\ Elsewhere(Elsewhere(p, from, to), to, from) = p
<1> DEFINE n == Len(from)
           m == Len(to)
           rest == SubSeq(p, n + 1, Len(p))
           q == to \o rest
<1>1. n \in Nat /\ m \in Nat /\ Len(p) \in Nat /\ n <= Len(p) /\ \A i \in 1..n : from[i] = p[i]
  BY PrefixNames DEF Paths
<1>2. /\ rest \in Seq(STRING) /\ Len(rest) = Len(p) - n
      /\ \A i \in 1..(Len(p) - n) : rest[i] = p[n + i]
  <2>1. n + 1 \in 1..(Len(p) + 1) BY <1>1
  <2>2. p \in Seq(STRING) BY DEF Paths
  <2> QED BY <1>1, <2>1, <2>2
<1> HIDE DEF rest
<1>3. /\ q \in Seq(STRING) /\ Len(q) = m + (Len(p) - n)
      /\ \A i \in 1..m : q[i] = to[i]
      /\ \A i \in 1..(Len(p) - n) : q[m + i] = p[n + i]
  <2>1. to \in Seq(STRING) BY DEF Paths
  <2>2. rest \in Seq(STRING) BY <1>2
  <2>3. /\ q \in Seq(STRING) /\ Len(q) = Len(to) + Len(rest)
        /\ \A i \in 1..Len(to) : q[i] = to[i]
        /\ \A i \in 1..Len(rest) : q[Len(to) + i] = rest[i]
    BY <2>1, <2>2, Joined
  <2> QED BY <1>1, <1>2, <2>3
<1> HIDE DEF q
<1>4. q \in Paths /\ IsPrefix(to, q)
  <2>1. q \in Paths /\ m <= Len(q) BY <1>1, <1>3 DEF Paths
  <2> QED BY <1>3, <2>1, PrefixNames
<1> DEFINE back == SubSeq(q, m + 1, Len(q))
           r == from \o back
<1>5. /\ back \in Seq(STRING) /\ Len(back) = Len(p) - n
      /\ \A i \in 1..(Len(p) - n) : back[i] = q[m + i]
  BY <1>1, <1>3
<1>6. /\ r \in Seq(STRING) /\ Len(r) = n + (Len(p) - n)
      /\ \A i \in 1..n : r[i] = from[i]
      /\ \A i \in 1..(Len(p) - n) : r[n + i] = back[i]
  <2>1. from \in Seq(STRING) BY DEF Paths
  <2> HIDE DEF back
  <2> QED BY <1>1, <1>5, <2>1, Joined
<1> HIDE DEF r
<1>7. ASSUME NEW i \in 1..Len(p) PROVE r[i] = p[i]
  <2>1. CASE i \in 1..n BY <1>1, <1>6, <2>1
  <2>2. CASE i \notin 1..n
    <3>1. i - n \in 1..(Len(p) - n) /\ i = n + (i - n) BY <1>1, <2>2
    <3> QED BY <1>3, <1>5, <1>6, <3>1
  <2> QED BY <2>1, <2>2
<1>8. r = p
  <2>1. Len(r) = Len(p) /\ r \in Paths BY <1>1, <1>6 DEF Paths
  <2> QED BY <1>7, <2>1, SamePaths
<1> QED BY <1>4, <1>8 DEF Elsewhere, q, rest, r

(* Moving a field leaves a value a value, and all other paths alone.        *)
LEMMA MovedFacts ==
  ASSUME NEW t, IsTree(t), NEW from \in Paths \ {<<>>}, NEW to \in Paths \ {<<>>},
         from \in DOMAIN t, NEW place \in Nat
  PROVE  /\ IsTree(Moved(t, from, to, place))
         /\ \A p \in Paths : ~IsPrefix(from, p) /\ ~IsPrefix(to, p) =>
              Node(Moved(t, from, to, place), p) = Node(t, p)
<1> DEFINE stays == {p \in DOMAIN t : ~IsPrefix(from, p)}
           goes == DOMAIN t \ stays
           new == stays \union {Elsewhere(q, from, to) : q \in goes}
           u == [p \in new |-> IF p = to THEN [t[from] EXCEPT !.place = place]
                               ELSE IF p \in stays THEN t[p] ELSE t[Elsewhere(p, to, from)]]
<1>1. Moved(t, from, to, place) = u BY DEF Moved, Elsewhere
<1>2. IsFiniteSet(stays) /\ IsFiniteSet(goes) BY FS_Subset DEF IsTree
<1>3. IsFiniteSet({Elsewhere(q, from, to) : q \in goes})
  <2> DEFINE f == [q \in goes |-> Elsewhere(q, from, to)]
             image == {Elsewhere(q, from, to) : q \in goes}
  <2>1. f \in Surjection(goes, image) BY DEF Surjection
  <2> HIDE DEF f, image
  <2>2. IsFiniteSet(image) BY <1>2, <2>1, FS_Surjection
  <2> QED BY <2>2 DEF image
<1>4. IsFiniteSet(new) BY <1>2, <1>3, FS_Union
<1>5. ASSUME NEW q \in goes
      PROVE  /\ Elsewhere(q, from, to) \in Paths /\ IsPrefix(to, Elsewhere(q, from, to))
             /\ Elsewhere(Elsewhere(q, from, to), to, from) = q /\ q \in DOMAIN t
  <2>1. q \in Paths /\ IsPrefix(from, q) /\ q \in DOMAIN t BY DEF IsTree
  <2> QED BY <2>1, ElsewhereFacts
<1>6. new \subseteq Paths BY <1>5 DEF IsTree
<1>7. <<>> \in stays
  <2>1. <<>> \in Paths /\ Len(<<>>) = 0 /\ Len(from) \in Nat BY DEF Paths
  <2>2. Len(from) # 0 BY DEF Paths
  <2>3. ~IsPrefix(from, <<>>) BY <2>1, <2>2, PrefixNames
  <2> QED BY <2>3 DEF IsTree
<1>8. ASSUME NEW p \in new PROVE u[p] \in [kind : Kinds, leaf : Int, place : Nat]
  <2>1. \A x \in DOMAIN t : t[x] \in [kind : Kinds, leaf : Int, place : Nat] BY DEF IsTree
  <2>2. CASE p = to BY <2>1, <2>2
  <2>3. CASE p # to /\ p \in stays BY <2>1, <2>3
  <2>4. CASE p # to /\ p \notin stays
    <3>1. PICK q \in goes : p = Elsewhere(q, from, to) BY <2>4
    <3>2. u[p] = t[q] /\ q \in DOMAIN t BY <1>5, <2>4, <3>1
    <3> QED BY <2>1, <3>2
  <2> QED BY <2>2, <2>3, <2>4
<1>9. ASSUME NEW p \in Paths, ~IsPrefix(from, p), ~IsPrefix(to, p) PROVE Node(u, p) = Node(t, p)
  <2>1. p \in new <=> p \in DOMAIN t BY <1>5, <1>9
  <2>2. p # to BY <1>9, PrefixOrder
  <2>3. p \in DOMAIN t => p \in stays BY <1>9
  <2> QED BY <2>1, <2>2, <2>3 DEF Node
<1>10. IsTree(u) BY <1>4, <1>6, <1>7, <1>8 DEF IsTree
<1> HIDE DEF u
<1> QED BY <1>1, <1>9, <1>10

-----------------------------------------------------------------------------
(* What depends on the arguments of compare() only, and they never change   *)

(* How two nodes compare.                                                   *)
LEMMA NodesKept ==
  ASSUME given' = given, NEW t, NEW ruled, NEW p
  PROVE  /\ left' = left /\ policy' = policy
         /\ Kids(t, p)' = Kids(t, p)
         /\ Nested(t, p)' = Nested(t, p)
         /\ Ignored(ruled, p)' = Ignored(ruled, p)
         /\ Same(t, p)' = Same(t, p)
         /\ Mismatch(t, p)' = Mismatch(t, p)
         /\ Excused(ruled, t, p)' = Excused(ruled, t, p)
BY DEF left, policy, Kids, Node, Children, Nested, SameKind, Ignored, Same, Length, Mismatch,
       Excused, Tolerated, Distance

(* The paths to compare at, those that differ, and their order.             *)
LEMMA PathsKept ==
  ASSUME given' = given, NEW t, NEW ruled
  PROVE  /\ Reached(t, ruled)' = Reached(t, ruled)
         /\ Differences(t, ruled)' = Differences(t, ruled)
         /\ \A p, q : Earlier(t, p, q)' = Earlier(t, p, q)
<1>1. Reached(t, ruled)' = Reached(t, ruled) BY NodesKept DEF Reached
<1>2. \A p : Differs(t, ruled, p)' = Differs(t, ruled, p)
  BY DEF Differs, Node, left, policy, Length, Children
<1>3. Differences(t, ruled)' = Differences(t, ruled) BY <1>1, <1>2 DEF Differences
<1>4. \A p, q : Earlier(t, p, q)' = Earlier(t, p, q) BY DEF Earlier, Precedes, left
<1> QED BY <1>1, <1>3, <1>4

(* What the stack stands for.                                               *)
LEMMA StackKept ==
  ASSUME given' = given, NEW t, NEW ruled, NEW stack
  PROVE  /\ Seen(t, ruled, stack)' = Seen(t, ruled, stack)
         /\ SeenToDiffer(t, ruled, stack)' = SeenToDiffer(t, ruled, stack)
         /\ Stacked(t, ruled, stack)' = Stacked(t, ruled, stack)
<1>1. Seen(t, ruled, stack)' = Seen(t, ruled, stack) BY PathsKept DEF Seen
<1> QED BY <1>1, PathsKept DEF SeenToDiffer, Stacked

(* What is to be reported.                                                  *)
LEMMA ReportKept ==
  ASSUME given' = given, NEW t, NEW ruled, NEW D, NEW m
  PROVE  /\ Tally(t, D, m)' = Tally(t, D, m)
         /\ OfMetadata(ruled)' = OfMetadata(ruled)
<1>1. OfMetadata(ruled)' = OfMetadata(ruled)
  BY DEF OfMetadata, StatusDiffers, SameStatus, Equivalent, policy
<1>2. \A S, p : Rank(t, S, p)' = Rank(t, S, p) BY PathsKept DEF Rank
<1>3. \A S, k : Nth(t, S, k)' = Nth(t, S, k) BY <1>2 DEF Nth
<1>4. \A S : Named(t, S)' = Named(t, S) BY <1>3 DEF Named, policy
<1>5. Counted(t, D, m)' = Counted(t, D, m) BY <1>2 DEF Counted, policy
<1>6. \A p : Mismatch(t, p)' = Mismatch(t, p) BY NodesKept
<1>7. policy' = policy BY DEF policy
<1> QED BY <1>1, <1>3, <1>4, <1>5, <1>6, <1>7 DEF Tally

-----------------------------------------------------------------------------
(* The inductive invariant                                                  *)

(* The walk: what is not in the stack has been compared, and is reported.   *)
Walked ==
  /\ Stacked(right, Ruled, pending)
  /\ found = Tally(right, SeenToDiffer(right, Ruled, pending), OfMetadata(Ruled))

(* The rules that excuse a difference at one of the paths are applied.      *)
Recorded(paths) == \A p \in paths :
  /\ p \in policy.ignored => [rule |-> "ignore", path |-> p] \in applied
  /\ p \notin policy.ignored /\ Excused(TRUE, right, p) =>
       [rule |-> "tolerance", path |-> p] \in applied

MapRule(i) == [rule |-> "mapping", path |-> policy.mappings[i].v1]

(* A path that an applied mapping is about.                                 *)
Touched(p) == \E i \in DOMAIN policy.mappings :
  MapRule(i) \in applied /\ \E e \in Ends(policy.mappings[i]) : IsPrefix(e, p)

(* Only what an applied mapping is about changed, and that is in objects.   *)
MapInv ==
  /\ \A i \in DOMAIN policy.mappings : MapRule(i) \in applied =>
       \A e \in Ends(policy.mappings[i]) : Node(given.v2.body, Front(e)).kind = "object"
  /\ \A p \in Paths : ~Touched(p) => Node(right, p) = Node(given.v2.body, p)
  /\ applied = {} => right = given.v2.body

Concluded == result \in {"matched", "different"}

Typed ==
  /\ given \in Cases /\ IsTree(right)
  /\ stage \in {"judge", "raw", "map", "final", "done"}
  /\ taken \in 0..Len(policy.mappings)
  /\ Concluded => stage = "done"

(* What has been compared without the rules.                                *)
RawInv == raw = Tally(given.v2.body, Before, OfMetadata(FALSE))

ComparisonInv ==
  /\ Typed
  /\ stage \in {"judge", "raw"} => right = given.v2.body /\ applied = {}
  /\ stage \in {"raw", "final"} => Walked
  /\ stage \in {"raw", "map", "final"} \/ Concluded => Comparable
  /\ stage \in {"map", "final"} \/ Concluded => RawInv /\ MapInv
  /\ stage = "final" \/ Concluded => StatusRule \subseteq applied
  /\ stage = "final" => Recorded(Seen(right, TRUE, pending))
  /\ Concluded => /\ found = Tally(right, After, OfMetadata(TRUE))
                  /\ ~found.limited => Recorded(Reached(right, TRUE))
                  /\ result = IF found.count > 0 THEN "different" ELSE "matched"

(* With the rules or without them.                                          *)
LEMMA RuledOrNot ==
  ASSUME NEW t, NEW ruled
  PROVE  /\ ~ruled => /\ Reached(t, ruled) = Reached(t, FALSE)
                      /\ Differences(t, ruled) = Differences(t, FALSE)
                      /\ OfMetadata(ruled) = OfMetadata(FALSE)
         /\ ruled => /\ Reached(t, ruled) = Reached(t, TRUE)
                     /\ Differences(t, ruled) = Differences(t, TRUE)
                     /\ OfMetadata(ruled) = OfMetadata(TRUE)
                     /\ \A stack : Seen(t, ruled, stack) = Seen(t, TRUE, stack)
                     /\ \A p : Excused(ruled, t, p) = Excused(TRUE, t, p)
<1>1. CASE ruled
  <2>1. \A p : Ignored(ruled, p) = Ignored(TRUE, p) BY <1>1 DEF Ignored
  <2>2. Reached(t, ruled) = Reached(t, TRUE) BY <2>1 DEF Reached
  <2>3. \A p : Differs(t, ruled, p) = Differs(t, TRUE, p) BY <1>1 DEF Differs
  <2>4. OfMetadata(ruled) = OfMetadata(TRUE) BY <1>1 DEF OfMetadata, StatusDiffers
  <2>5. \A p : Excused(ruled, t, p) = Excused(TRUE, t, p) BY <1>1 DEF Excused, Tolerated
  <2> QED BY <1>1, <2>2, <2>3, <2>4, <2>5 DEF Differences, Seen
<1>2. CASE ~ruled
  <2>1. \A p : Ignored(ruled, p) = Ignored(FALSE, p) BY <1>2 DEF Ignored
  <2>2. Reached(t, ruled) = Reached(t, FALSE) BY <2>1 DEF Reached
  <2>3. \A p : Differs(t, ruled, p) = Differs(t, FALSE, p) BY <1>2 DEF Differs
  <2>4. OfMetadata(ruled) = OfMetadata(FALSE) BY <1>2 DEF OfMetadata, StatusDiffers
  <2> QED BY <1>2, <2>2, <2>3, <2>4 DEF Differences
<1> QED BY <1>1, <1>2

(* A round of the walk compares at the top of the stack.                    *)
LEMMA RoundWalks ==
  ASSUME Typed, Walked, Ignore \/ Tolerate \/ Visit
  PROVE  /\ Walked'
         /\ Seen(right, Ruled, pending)' = Seen(right, Ruled, pending) \union {Top}
         /\ given' = given /\ right' = right /\ stage' = stage /\ Ruled' = Ruled
<1> DEFINE s == Top
           V == SeenToDiffer(right, Ruled, pending)
           m == OfMetadata(Ruled)
<1>1. IsTree(right) /\ IsTree(left) /\ Limits /\ Tolerances BY CaseFacts DEF Typed
<1>2. given' = given /\ right' = right /\ stage' = stage /\ Ruled' = Ruled
  BY DEF Ignore, Tolerate, Visit, Apply, Ruled
<1>3. pending # <<>> /\ s = Last(pending) BY DEF Ignore, Tolerate, Visit, Walking, Top
<1>4. Stacked(right, Ruled, pending) /\ found = Tally(right, V, m) BY DEF Walked
<1>5. m.count \in Nat BY <1>1, MetadataTally
<1>6. /\ Stacked(right, Ruled, pending')
      /\ Seen(right, Ruled, pending') = Seen(right, Ruled, pending) \union {s}
      /\ found' = IF Differs(right, Ruled, s)
                  THEN Add(found, s \in policy.allowed, s, Mismatch(right, s)) ELSE found
  <2>1. CASE Ignore
    <3>1. Ignored(Ruled, s) /\ pending' = Front(pending) /\ found' = found BY <2>1 DEF Ignore, Apply
    <3>2. ~Differs(right, Ruled, s) BY <3>1 DEF Differs, Ignored
    <3> QED BY <1>1, <1>3, <1>4, <3>1, <3>2, TopIsTaken
  <2>2. CASE Tolerate
    <3>1. /\ ~Ignored(Ruled, s) /\ Excused(Ruled, right, s)
          /\ pending' = Front(pending) /\ found' = found
      BY <2>2 DEF Tolerate, Apply
    <3>2. ~Differs(right, Ruled, s) BY <1>1, <3>1, DiffersMeans
    <3>3. ~Nested(right, s) BY <3>1 DEF Excused, Nested, Containers
    <3> QED BY <1>1, <1>3, <1>4, <3>1, <3>2, <3>3, TopIsTaken
  <2>3. CASE Visit
    <3>1. ~Ignored(Ruled, s) /\ ~Excused(Ruled, right, s) BY <2>3 DEF Visit
    <3>2. Differs(right, Ruled, s) <=> ~Same(right, s) BY <1>1, <3>1, DiffersMeans
    <3>3. found' = IF Same(right, s) THEN found
                   ELSE Add(found, s \in policy.allowed, s, Mismatch(right, s))
      BY <2>3 DEF Visit
    <3>4. CASE Nested(right, s)
      <4>1. PICK order \in Orders(right, Kids(right, s)) :
              pending' = Front(pending) \o Reverse(order)
        BY <2>3, <3>4 DEF Visit
      <4> QED BY <1>1, <1>3, <1>4, <3>1, <3>2, <3>3, <3>4, <4>1, TopIsOpened
    <3>5. CASE ~Nested(right, s)
      <4>1. pending' = Front(pending) BY <2>3, <3>5 DEF Visit
      <4> QED BY <1>1, <1>3, <1>4, <3>2, <3>3, <3>5, <4>1, TopIsTaken
    <3> QED BY <3>4, <3>5
  <2> QED BY <2>1, <2>2, <2>3
<1>7. found' = Tally(right, SeenToDiffer(right, Ruled, pending'), m)
  BY <1>1, <1>3, <1>4, <1>5, <1>6, TopIsCounted
<1>8. Walked'
  BY <1>2, <1>6, <1>7, StackKept, ReportKept DEF Walked
<1>9. Seen(right, Ruled, pending)' = Seen(right, Ruled, pending) \union {s}
  BY <1>2, <1>6, StackKept
<1> QED BY <1>2, <1>8, <1>9

(* A walk begins with the metadata.                                         *)
LEMMA WalkStarts ==
  ASSUME given \in Cases, given' = given, right' = right, IsTree(right),
         pending' = << <<>> >>, NEW ruled, Ruled' = ruled, found' = Metadata(ruled)
  PROVE  Walked' /\ Seen(right, Ruled, pending)' = {}
<1>1. IsTree(left) /\ Limits BY CaseFacts
<1>2. Stacked(right, ruled, pending') /\ Seen(right, ruled, pending') = {} BY <1>1, WalkBegins
<1>3. SeenToDiffer(right, ruled, pending') = {} BY <1>2 DEF SeenToDiffer
<1>4. found' = Tally(right, SeenToDiffer(right, ruled, pending'), OfMetadata(ruled))
  BY <1>1, <1>3, MetadataTally
<1> QED BY <1>2, <1>4, StackKept, ReportKept DEF Walked

(* A walk that is over has what is to be reported.                          *)
LEMMA WalkIsOver ==
  ASSUME Typed, Walked, WalkOver
  PROVE  /\ found = Tally(right, Differences(right, Ruled), OfMetadata(Ruled))
         /\ ~found.limited => Seen(right, Ruled, pending) = Reached(right, Ruled)
<1>1. IsTree(right) /\ IsTree(left) /\ Limits BY CaseFacts DEF Typed
<1>2. OfMetadata(Ruled).count \in Nat BY <1>1, MetadataTally
<1>3. \/ pending = <<>>
      \/ Tally(right, SeenToDiffer(right, Ruled, pending), OfMetadata(Ruled)).limited
  BY DEF Walked, WalkOver
<1>4. Stacked(right, Ruled, pending) BY DEF Walked
<1> QED BY <1>1, <1>2, <1>3, <1>4, WalkEnds DEF Walked, WalkOver

(* Only the mappings touch what is compared.                                *)
LEMMA MapKept ==
  ASSUME MapInv, given' = given, right' = right, applied \subseteq applied',
         \A r \in applied' \ applied : r.rule # "mapping"
  PROVE  MapInv'
<1>1. policy' = policy BY DEF policy
<1>2. \A i : MapRule(i)' = MapRule(i) BY <1>1 DEF MapRule
<1>3. \A i : MapRule(i) \in applied' <=> MapRule(i) \in applied BY DEF MapRule
<1>4. \A p : Touched(p)' <=> Touched(p) BY <1>1, <1>2, <1>3 DEF Touched
<1>5. applied' = {} => applied = {} OBVIOUS
<1> QED BY <1>1, <1>2, <1>3, <1>4, <1>5 DEF MapInv, Node

(* A mapping moves a field from one object to another, and neither is in a  *)
(* field that was moved before.                                             *)
LEMMA MappingKeeps ==
  ASSUME Typed, MapInv, MapField
  PROVE  IsTree(right)' /\ MapInv'
<1> DEFINE n == taken + 1
           from == Mapping.v2
           to == Mapping.v1
<1>1. /\ IsTree(right) /\ IsTree(given.v2.body)
      /\ policy.mappings \in Seq([v1 : Paths, v2 : Paths])
      /\ \A i, j \in DOMAIN policy.mappings :
           \A e \in Ends(policy.mappings[i]), f \in Ends(policy.mappings[j]) :
             e \in Paths \ {<<>>} /\ (IsPrefix(e, f) => i = j /\ e = f)
  BY CaseFacts DEF Typed
<1>2. n \in DOMAIN policy.mappings /\ Mapping = policy.mappings[n] /\ taken \in Nat
  BY <1>1 DEF Typed, MapField, AtMapping, Mapping
<1>3. /\ Ends(policy.mappings[n]) = {from, to}
      /\ from \in Paths \ {<<>>} /\ to \in Paths \ {<<>>}
  <2>1. Ends(policy.mappings[n]) = {from, to} BY <1>2 DEF Ends
  <2> QED BY <1>1, <1>2, <2>1
<1>4. /\ from \in DOMAIN right
      /\ InObject(right, from) /\ InObject(right, to)
      /\ given' = given /\ right' = Moved(right, from, to, LastPlace)
      /\ applied' = applied \union {[rule |-> "mapping", path |-> to]}
  BY DEF MapField, Conflicts, HasField
<1>5. LastPlace \in Nat BY <1>1, <1>2, FS_CardinalityType DEF LastPlace, IsTree
<1>6. /\ IsTree(right')
      /\ \A p \in Paths : ~IsPrefix(from, p) /\ ~IsPrefix(to, p) => Node(right', p) = Node(right, p)
  BY <1>1, <1>3, <1>4, <1>5, MovedFacts
<1>7. policy' = policy /\ (\A i : MapRule(i)' = MapRule(i)) BY <1>4 DEF policy, MapRule
<1>8. MapRule(n) \in applied' BY <1>2, <1>4 DEF MapRule
<1>9. ASSUME NEW i \in DOMAIN policy.mappings, MapRule(i) \in applied'
      PROVE  MapRule(i) \in applied \/ i = n
  <2>1. SUFFICES ASSUME MapRule(i) \notin applied PROVE i = n OBVIOUS
  <2>2. policy.mappings[i].v1 = to BY <1>4, <1>9, <2>1 DEF MapRule
  <2>3. to \in Ends(policy.mappings[i]) BY <2>2 DEF Ends
  <2>4. IsPrefix(to, to) BY <1>3, PrefixOrder
  <2> QED BY <1>1, <1>2, <1>3, <2>3, <2>4
<1>10. ASSUME NEW e \in {from, to} PROVE ~Touched(Front(e))
  <2>1. SUFFICES ASSUME NEW j \in DOMAIN policy.mappings, NEW f \in Ends(policy.mappings[j]),
                        IsPrefix(f, Front(e))
                 PROVE  FALSE
    BY DEF Touched
  <2>2. e \in Paths /\ e # <<>> /\ f \in Paths BY <1>1, <1>3
  <2>3. /\ Front(e) \in Paths /\ Len(Front(e)) = Len(e) - 1 /\ IsPrefix(Front(e), e)
        /\ Len(e) \in Nat
    BY <2>2, ChildPath
  <2>4. IsPrefix(f, e) BY <2>1, <2>2, <2>3, PrefixOrder
  <2>5. f = e BY <1>1, <1>2, <1>3, <2>4
  <2>6. Len(e) <= Len(Front(e)) BY <2>1, <2>2, <2>3, <2>5, PrefixNames
  <2> QED BY <2>3, <2>6
<1>11. ASSUME NEW e \in {from, to} PROVE Node(given.v2.body, Front(e)).kind = "object"
  <2>1. Front(e) \in Paths BY <1>3, ChildPath
  <2>2. Node(right, Front(e)).kind = "object" BY <1>4 DEF InObject
  <2> QED BY <1>10, <2>1, <2>2 DEF MapInv
<1>12. ASSUME NEW i \in DOMAIN policy.mappings, MapRule(i) \in applied',
              NEW e \in Ends(policy.mappings[i])
       PROVE  Node(given.v2.body, Front(e)).kind = "object"
  BY <1>3, <1>9, <1>11, <1>12 DEF MapInv
<1>13. ASSUME NEW p \in Paths, ~Touched(p)' PROVE Node(right', p) = Node(given.v2.body, p)
  <2>1. \A i \in DOMAIN policy.mappings : MapRule(i) \in applied' =>
          \A e \in Ends(policy.mappings[i]) : ~IsPrefix(e, p)
    BY <1>7, <1>13 DEF Touched
  <2>2. ~IsPrefix(from, p) /\ ~IsPrefix(to, p) BY <1>2, <1>3, <1>8, <2>1
  <2>3. ~Touched(p) BY <1>4, <2>1 DEF Touched
  <2> QED BY <1>6, <2>2, <2>3 DEF MapInv
<1>14. applied' # {} BY <1>4
<1>15. \A t, p : Node(t, p)' = Node(t, p) BY DEF Node
<1>16. MapInv' BY <1>4, <1>7, <1>12, <1>13, <1>14 DEF MapInv, Node
<1>17. IsTree(right)' BY <1>6 DEF IsTree
<1> QED BY <1>16, <1>17

(* A rule that excuses a difference is recorded when it is met.             *)
LEMMA RoundRecords ==
  ASSUME Typed, Walked, Ignore \/ Tolerate \/ Visit, stage = "final",
         Recorded(Seen(right, TRUE, pending))
  PROVE  Recorded(Seen(right, TRUE, pending))'
<1>1. /\ Seen(right, Ruled, pending)' = Seen(right, Ruled, pending) \union {Top}
      /\ given' = given /\ right' = right /\ Ruled' = Ruled
  BY RoundWalks
<1>2. Ruled BY DEF Ruled
<1>3. /\ Seen(right, Ruled, pending) = Seen(right, TRUE, pending)
      /\ Excused(Ruled, right, Top) = Excused(TRUE, right, Top)
  BY <1>2, RuledOrNot
<1>4. Seen(right, TRUE, pending)' = Seen(right, TRUE, pending) \union {Top}
  <2>1. Seen(right, Ruled, pending)' = Seen(right, Ruled, pending') BY <1>1, StackKept
  <2>2. Seen(right, TRUE, pending)' = Seen(right, TRUE, pending') BY <1>1, StackKept
  <2>3. Seen(right, Ruled, pending') = Seen(right, TRUE, pending') BY <1>2, RuledOrNot
  <2> QED BY <1>1, <1>3, <2>1, <2>2, <2>3
<1>5. /\ applied \subseteq applied'
      /\ Top \in policy.ignored => [rule |-> "ignore", path |-> Top] \in applied'
      /\ Top \notin policy.ignored /\ Excused(TRUE, right, Top) =>
           [rule |-> "tolerance", path |-> Top] \in applied'
  <2>1. CASE Ignore BY <1>2, <2>1 DEF Ignore, Apply, Ignored
  <2>2. CASE Tolerate BY <1>2, <1>3, <2>2 DEF Tolerate, Apply, Ignored
  <2>3. CASE Visit BY <1>2, <1>3, <2>3 DEF Visit, Ignored
  <2> QED BY <2>1, <2>2, <2>3
<1>6. policy' = policy /\ \A p : Excused(TRUE, right, p)' = Excused(TRUE, right, p)
  <2>1. \A t, p : Excused(TRUE, t, p)' = Excused(TRUE, t, p) BY <1>1, NodesKept
  <2> QED BY <1>1, <2>1 DEF policy
<1> QED BY <1>4, <1>5, <1>6 DEF Recorded

(* The invariant holds at first.                                            *)
LEMMA ComparisonStarts == CompareInit => ComparisonInv
<1> SUFFICES ASSUME CompareInit PROVE ComparisonInv OBVIOUS
<1>1. given \in Cases /\ stage = "judge" /\ result = "none" /\ taken = 0 /\ applied = {}
      /\ right = given.v2.body
  BY DEF CompareInit
<1>2. IsTree(right) /\ Len(policy.mappings) \in Nat BY <1>1, CaseFacts
<1>3. ~Concluded BY <1>1 DEF Concluded
<1>4. Typed BY <1>1, <1>2, <1>3 DEF Typed
<1> QED BY <1>1, <1>3, <1>4 DEF ComparisonInv

(* Each step keeps it.                                                      *)
LEMMA ComparisonStep == ComparisonInv /\ [CompareNext]_compareVars => ComparisonInv'
<1> SUFFICES ASSUME ComparisonInv, [CompareNext]_compareVars PROVE ComparisonInv' OBVIOUS
<1>1. Typed BY DEF ComparisonInv
<1>2. IsTree(right) /\ IsTree(given.v2.body) /\ taken \in Nat /\ Len(policy.mappings) \in Nat
      /\ given \in Cases
  BY <1>1, CaseFacts DEF Typed
<1>3. given' = given
  BY DEF CompareNext, compareVars, Preclude, Begin, Ignore, Tolerate, Visit, Collate, SkipMapping,
         MapField, Conflict, Normalize, Conclude, Returned, Apply
<1>4. policy' = policy BY <1>3 DEF policy
<1>5. Comparable' = Comparable /\ StatusRule' = StatusRule
  BY <1>3 DEF Comparable, Responses, Captured, ContextHolds, policy, StatusRule, SameStatus,
              Equivalent
<1>6. \A t : IsTree(t)' = IsTree(t) BY DEF IsTree
<1>7. /\ \A t, D, m : Tally(t, D, m)' = Tally(t, D, m)
      /\ \A ruled : OfMetadata(ruled)' = OfMetadata(ruled)
      /\ \A t, ruled : /\ Differences(t, ruled)' = Differences(t, ruled)
                       /\ Reached(t, ruled)' = Reached(t, ruled)
  BY <1>3, ReportKept, PathsKept
<1>8. Before' = Before BY <1>3, <1>7 DEF Before
<1>9. raw' = raw /\ RawInv => RawInv' BY <1>3, <1>7, <1>8 DEF RawInv
<1>10. \A r \in StatusRule : r.rule # "mapping" BY DEF StatusRule
<1>11. stage # "done" => ~Concluded BY <1>1 DEF Typed
<1>20. CASE Preclude
  <2>1. stage' = "done" /\ ~Concluded' BY <1>20 DEF Preclude, Concluded, Precluded
  <2>2. Typed' BY <1>1, <1>3, <1>4, <1>6, <1>20, <2>1 DEF Typed, Preclude
  <2> QED BY <2>1, <2>2 DEF ComparisonInv
<1>21. CASE Begin
  <2>1. /\ stage = "judge" /\ stage' = "raw" /\ right' = right /\ taken' = taken
        /\ applied' = applied /\ result' = result /\ Comparable
        /\ pending' = << <<>> >> /\ found' = Metadata(FALSE)
    BY <1>21 DEF Begin
  <2>2. ~Concluded' BY <1>11, <2>1 DEF Concluded
  <2>3. Ruled' = FALSE BY <2>1 DEF Ruled
  <2>4. Walked' BY <1>2, <1>3, <2>1, <2>3, WalkStarts
  <2>5. Typed' BY <1>1, <1>3, <1>4, <1>6, <2>1, <2>2 DEF Typed
  <2>6. right' = given'.v2.body /\ applied' = {} BY <1>3, <2>1 DEF ComparisonInv
  <2> QED BY <1>5, <2>1, <2>2, <2>4, <2>5, <2>6 DEF ComparisonInv
<1>22. CASE Ignore \/ Tolerate \/ Visit
  <2>1. Walked /\ stage \in {"raw", "final"}
    BY <1>22 DEF ComparisonInv, Ignore, Tolerate, Visit, Walking
  <2>2. Walked' /\ right' = right /\ stage' = stage BY <1>1, <1>22, <2>1, RoundWalks
  <2>3. /\ taken' = taken /\ result' = result /\ raw' = raw /\ applied \subseteq applied'
        /\ \A r \in applied' \ applied : r.rule # "mapping"
    BY <1>22 DEF Ignore, Tolerate, Visit, Apply
  <2>4. ~Concluded' BY <1>11, <2>1, <2>3 DEF Concluded
  <2>5. Typed' BY <1>1, <1>3, <1>4, <1>6, <2>2, <2>3, <2>4 DEF Typed
  <2>6. CASE stage = "raw"
    <3>1. ~Ruled BY <2>6 DEF Ruled
    <3>2. applied' = applied
      BY <1>22, <3>1 DEF Ignore, Tolerate, Visit, Apply, Ignored, Excused, Tolerated
    <3>3. right' = given'.v2.body /\ applied' = {} BY <1>3, <2>2, <2>6, <3>2 DEF ComparisonInv
    <3> QED BY <1>5, <2>2, <2>4, <2>5, <2>6, <3>3 DEF ComparisonInv
  <2>7. CASE stage = "final"
    <3>1. Recorded(Seen(right, TRUE, pending))'
      BY <1>1, <1>22, <2>1, <2>7, RoundRecords DEF ComparisonInv
    <3>2. MapInv' BY <1>3, <2>2, <2>3, <2>7, MapKept DEF ComparisonInv
    <3>3. RawInv' /\ StatusRule' \subseteq applied' /\ Comparable'
      BY <1>5, <1>9, <2>3, <2>7 DEF ComparisonInv
    <3> QED BY <2>2, <2>4, <2>5, <2>7, <3>1, <3>2, <3>3 DEF ComparisonInv
  <2> QED BY <2>1, <2>6, <2>7
<1>23. CASE Collate
  <2>1. /\ stage = "raw" /\ WalkOver /\ stage' = "map" /\ raw' = found
        /\ right' = right /\ taken' = taken /\ applied' = applied /\ result' = result
    BY <1>23 DEF Collate
  <2>2. ~Concluded' BY <1>11, <2>1 DEF Concluded
  <2>3. Typed' BY <1>1, <1>3, <1>4, <1>6, <2>1, <2>2 DEF Typed
  <2>4. Walked /\ right = given.v2.body /\ applied = {} /\ Comparable BY <2>1 DEF ComparisonInv
  <2>5. found = Tally(right, Differences(right, Ruled), OfMetadata(Ruled))
    BY <1>1, <2>1, <2>4, WalkIsOver
  <2>6. ~Ruled BY <2>1 DEF Ruled
  <2>7. Differences(right, Ruled) = Before /\ OfMetadata(Ruled) = OfMetadata(FALSE)
    BY <2>4, <2>6, RuledOrNot DEF Before
  <2>8. raw' = Tally(given.v2.body, Before, OfMetadata(FALSE)) BY <2>1, <2>4, <2>5, <2>7
  <2>9. RawInv' BY <1>3, <1>7, <1>8, <2>8 DEF RawInv
  <2>10. MapInv BY <2>4 DEF MapInv
  <2>11. MapInv' BY <1>3, <2>1, <2>10, MapKept
  <2> QED BY <1>5, <2>1, <2>2, <2>3, <2>4, <2>9, <2>11 DEF ComparisonInv
<1>24. CASE SkipMapping
  <2>1. /\ stage = "map" /\ stage' = "map" /\ taken < Len(policy.mappings) /\ taken' = taken + 1
        /\ right' = right /\ applied' = applied /\ result' = result /\ raw' = raw
    BY <1>24 DEF SkipMapping, AtMapping
  <2>2. ~Concluded' BY <1>11, <2>1 DEF Concluded
  <2>3. taken' \in 0..Len(policy.mappings) BY <1>2, <2>1
  <2>4. Typed' BY <1>1, <1>3, <1>4, <1>6, <2>1, <2>2, <2>3 DEF Typed
  <2>5. MapInv' BY <1>3, <2>1, MapKept DEF ComparisonInv
  <2> QED BY <1>5, <1>9, <2>1, <2>2, <2>4, <2>5 DEF ComparisonInv
<1>25. CASE MapField
  <2>1. /\ stage = "map" /\ stage' = "map" /\ taken < Len(policy.mappings) /\ taken' = taken + 1
        /\ result' = result /\ raw' = raw
    BY <1>25 DEF MapField, AtMapping
  <2>2. ~Concluded' BY <1>11, <2>1 DEF Concluded
  <2>3. taken' \in 0..Len(policy.mappings) BY <1>2, <2>1
  <2>4. IsTree(right)' /\ MapInv' BY <1>1, <1>25, <2>1, MappingKeeps DEF ComparisonInv
  <2>5. Typed' BY <1>1, <1>3, <1>4, <2>1, <2>2, <2>3, <2>4 DEF Typed
  <2> QED BY <1>5, <1>9, <2>1, <2>2, <2>4, <2>5 DEF ComparisonInv
<1>26. CASE Conflict
  <2>1. stage' = "done" /\ ~Concluded' BY <1>26 DEF Conflict, Concluded
  <2>2. Typed' BY <1>1, <1>3, <1>4, <1>6, <1>26, <2>1 DEF Typed, Conflict
  <2> QED BY <2>1, <2>2 DEF ComparisonInv
<1>27. CASE Normalize
  <2>1. /\ stage = "map" /\ stage' = "final" /\ applied' = applied \union StatusRule
        /\ found' = Metadata(TRUE) /\ pending' = << <<>> >>
        /\ right' = right /\ taken' = taken /\ result' = result /\ raw' = raw
    BY <1>27 DEF Normalize
  <2>2. ~Concluded' BY <1>11, <2>1 DEF Concluded
  <2>3. Typed' BY <1>1, <1>3, <1>4, <1>6, <2>1, <2>2 DEF Typed
  <2>4. Ruled' = TRUE BY <2>1 DEF Ruled
  <2>5. Walked' /\ Seen(right, Ruled, pending)' = {} BY <1>2, <1>3, <2>1, <2>4, WalkStarts
  <2>6. Seen(right, TRUE, pending)' = {}
    <3>1. \A stack : Seen(right', TRUE, stack) = Seen(right', Ruled', stack)
      BY <2>4, RuledOrNot
    <3>2. \A t, ruled, stack : Seen(t, ruled, stack)' = Seen(t, ruled, stack) BY <1>3, StackKept
    <3> QED BY <2>5, <3>1, <3>2
  <2>7. Recorded(Seen(right, TRUE, pending))' BY <2>6 DEF Recorded
  <2>8. MapInv' BY <1>3, <1>10, <2>1, MapKept DEF ComparisonInv
  <2>9. StatusRule' \subseteq applied' BY <1>5, <2>1
  <2>10. RawInv' /\ Comparable' BY <1>5, <1>9, <2>1 DEF ComparisonInv
  <2> QED BY <2>1, <2>2, <2>3, <2>5, <2>7, <2>8, <2>9, <2>10 DEF ComparisonInv
<1>28. CASE Conclude
  <2>1. /\ stage = "final" /\ WalkOver /\ stage' = "done"
        /\ result' = IF found.count > 0 THEN "different" ELSE "matched"
        /\ right' = right /\ taken' = taken /\ applied' = applied /\ found' = found /\ raw' = raw
    BY <1>28 DEF Conclude
  <2>2. Typed' BY <1>1, <1>3, <1>4, <1>6, <2>1 DEF Typed
  <2>3. Walked /\ RawInv /\ MapInv /\ Comparable /\ StatusRule \subseteq applied
        /\ Recorded(Seen(right, TRUE, pending))
    BY <2>1 DEF ComparisonInv
  <2>4. /\ found = Tally(right, Differences(right, Ruled), OfMetadata(Ruled))
        /\ ~found.limited => Seen(right, Ruled, pending) = Reached(right, Ruled)
    BY <1>1, <2>1, <2>3, WalkIsOver
  <2>5. Ruled BY <2>1 DEF Ruled
  <2>6. /\ Differences(right, Ruled) = After /\ OfMetadata(Ruled) = OfMetadata(TRUE)
        /\ Reached(right, Ruled) = Reached(right, TRUE)
        /\ Seen(right, Ruled, pending) = Seen(right, TRUE, pending)
    BY <2>5, RuledOrNot DEF After
  <2>7. After' = After BY <1>7, <2>1 DEF After
  <2>8. found' = Tally(right, After, OfMetadata(TRUE))' BY <1>7, <2>1, <2>4, <2>6, <2>7
  <2>9. ~found.limited => Recorded(Reached(right, TRUE)) BY <2>3, <2>4, <2>6
  <2>10. \A p : Excused(TRUE, right, p)' = Excused(TRUE, right, p)
    <3>1. \A t, p : Excused(TRUE, t, p)' = Excused(TRUE, t, p) BY <1>3, NodesKept
    <3> QED BY <2>1, <3>1
  <2>11. Reached(right, TRUE)' = Reached(right, TRUE) BY <1>7, <2>1
  <2>12. ~found'.limited => Recorded(Reached(right, TRUE))'
    BY <1>4, <2>1, <2>9, <2>10, <2>11 DEF Recorded
  <2>13. MapInv' BY <1>3, <2>1, <2>3, MapKept
  <2>14. RawInv' /\ StatusRule' \subseteq applied' /\ Comparable' BY <1>5, <1>9, <2>1, <2>3
  <2>15. result' = IF found'.count > 0 THEN "different" ELSE "matched" BY <2>1
  <2> QED BY <2>1, <2>2, <2>8, <2>12, <2>13, <2>14, <2>15 DEF ComparisonInv
<1>29. CASE Returned \/ UNCHANGED compareVars
  <2>1. UNCHANGED compareVars BY <1>29 DEF Returned
  <2>2. /\ stage' = stage /\ pending' = pending /\ taken' = taken /\ right' = right
        /\ found' = found /\ raw' = raw /\ applied' = applied /\ result' = result
    BY <2>1 DEF compareVars
  <2>3. Typed' BY <1>1, <1>3, <1>4, <1>6, <2>2 DEF Typed, Concluded
  <2>4. Concluded' = Concluded /\ Ruled' = Ruled BY <2>2 DEF Concluded, Ruled
  <2>5. Walked => Walked'
    <3>1. \A t, ruled, stack : /\ SeenToDiffer(t, ruled, stack)' = SeenToDiffer(t, ruled, stack)
                               /\ Stacked(t, ruled, stack)' = Stacked(t, ruled, stack)
      BY <1>3, StackKept
    <3> QED BY <1>7, <2>2, <2>4, <3>1 DEF Walked
  <2>6. MapInv => MapInv' BY <1>3, <2>2, MapKept
  <2>7. \A S : Recorded(S) => Recorded(S)'
    <3>1. \A t, p : Excused(TRUE, t, p)' = Excused(TRUE, t, p) BY <1>3, NodesKept
    <3> QED BY <1>4, <2>2, <3>1 DEF Recorded
  <2>8. Seen(right, TRUE, pending)' = Seen(right, TRUE, pending)
    <3>1. \A t, ruled, stack : Seen(t, ruled, stack)' = Seen(t, ruled, stack) BY <1>3, StackKept
    <3> QED BY <2>2, <3>1
  <2>9. After' = After /\ Reached(right, TRUE)' = Reached(right, TRUE) BY <1>7, <2>2 DEF After
  <2>10. RawInv => RawInv' BY <1>9, <2>2
  <2>12. Recorded(Seen(right, TRUE, pending)) => Recorded(Seen(right, TRUE, pending))'
    BY <2>7, <2>8 DEF Recorded
  <2>13. Recorded(Reached(right, TRUE)) => Recorded(Reached(right, TRUE))'
    BY <2>7, <2>9 DEF Recorded
  <2>14. Concluded => /\ found' = Tally(right, After, OfMetadata(TRUE))'
                      /\ ~found'.limited => Recorded(Reached(right, TRUE))'
                      /\ result' = IF found'.count > 0 THEN "different" ELSE "matched"
    BY <1>7, <2>2, <2>9, <2>13 DEF ComparisonInv
  <2>15. stage \in {"judge", "raw"} => right' = given'.v2.body /\ applied' = {}
    BY <1>3, <2>2 DEF ComparisonInv
  <2> QED BY <1>5, <2>2, <2>3, <2>4, <2>5, <2>6, <2>10, <2>12, <2>14, <2>15 DEF ComparisonInv
<1> QED
  BY <1>20, <1>21, <1>22, <1>23, <1>24, <1>25, <1>26, <1>27, <1>28, <1>29 DEF CompareNext

(* The reports follow from the invariant.                                   *)
LEMMA InvIsExact == ComparisonInv => DifferencesAreExact
<1> SUFFICES ASSUME ComparisonInv PROVE DifferencesAreExact OBVIOUS
<1>1. Typed BY DEF ComparisonInv
<1>2. ASSUME stage \in {"raw", "final"}, WalkOver
      PROVE  found = Tally(right, Differences(right, Ruled), OfMetadata(Ruled))
  BY <1>1, <1>2, WalkIsOver DEF ComparisonInv
<1>3. ASSUME stage = "raw", WalkOver PROVE found = Tally(given.v2.body, Before, OfMetadata(FALSE))
  <2>1. ~Ruled /\ right = given.v2.body BY <1>3 DEF Ruled, ComparisonInv
  <2>2. Differences(right, Ruled) = Before /\ OfMetadata(Ruled) = OfMetadata(FALSE)
    BY <2>1, RuledOrNot DEF Before
  <2> QED BY <1>2, <1>3, <2>1, <2>2
<1>4. ASSUME stage = "final", WalkOver PROVE found = Tally(right, After, OfMetadata(TRUE))
  <2>1. Ruled BY <1>4 DEF Ruled
  <2>2. Differences(right, Ruled) = After /\ OfMetadata(Ruled) = OfMetadata(TRUE)
    BY <2>1, RuledOrNot DEF After
  <2> QED BY <1>2, <1>4, <2>2
<1>5. stage \in {"map", "final"} => raw = Tally(given.v2.body, Before, OfMetadata(FALSE))
  BY DEF ComparisonInv, RawInv
<1> QED BY <1>3, <1>4, <1>5 DEF DifferencesAreExact

-----------------------------------------------------------------------------
(* What becomes of a difference                                             *)

(* What no mapping is about is as it was, and so is all above it.           *)
LEMMA UntouchedPath ==
  ASSUME Typed, MapInv, NEW p \in Paths, ~Touched(p), NEW k \in 0..Len(p)
  PROVE  /\ ~Touched(Upto(p, k))
         /\ Node(right, Upto(p, k)) = Node(given.v2.body, Upto(p, k))
         /\ Upto(p, k) \in DOMAIN right <=> Upto(p, k) \in DOMAIN given.v2.body
<1> DEFINE u == Upto(p, k)
<1>1. u \in Paths /\ IsPrefix(u, p) BY UptoFacts, UptoPrefix
<1>2. /\ IsTree(right) /\ IsTree(given.v2.body)
      /\ \A i \in DOMAIN policy.mappings : \A e \in Ends(policy.mappings[i]) : e \in Paths
  BY CaseFacts DEF Typed
<1>3. ~Touched(u) BY <1>1, <1>2, PrefixOrder DEF Touched
<1>4. Node(right, u) = Node(given.v2.body, u) BY <1>1, <1>3 DEF MapInv
<1>5. ASSUME NEW t, IsTree(t) PROVE u \in DOMAIN t <=> Node(t, u).kind # "missing"
  BY <1>5 DEF IsTree, Node, Absent, Kinds, Containers
<1> QED BY <1>2, <1>3, <1>4, <1>5

(* A list in which no mapping is about anything has its length.             *)
LEMMA UntouchedLength ==
  ASSUME Typed, MapInv, NEW p \in Paths, ~Touched(p), Node(given.v2.body, p).kind = "list"
  PROVE  Length(right, p) = Length(given.v2.body, p)
<1>1. /\ IsTree(right) /\ IsTree(given.v2.body)
      /\ \A i \in DOMAIN policy.mappings : \A e \in Ends(policy.mappings[i]) : e \in Paths
  BY CaseFacts DEF Typed
<1>2. ASSUME NEW q \in Paths, q # <<>>, Front(q) = p PROVE ~Touched(q)
  <2>1. SUFFICES ASSUME NEW i \in DOMAIN policy.mappings, MapRule(i) \in applied,
                        NEW e \in Ends(policy.mappings[i]), IsPrefix(e, q)
                 PROVE  FALSE
    BY DEF Touched
  <2>2. /\ e \in Paths /\ Len(e) \in Nat /\ Len(q) \in Nat
        /\ IsPrefix(p, q) /\ Len(p) = Len(q) - 1
    BY <1>1, <1>2, ChildPath DEF Paths
  <2>3. e # q BY <1>2, <2>1 DEF MapInv
  <2>4. Len(e) <= Len(q) /\ \A j \in 1..Len(e) : e[j] = q[j] BY <2>1, <2>2, PrefixNames
  <2>5. Len(e) # Len(q) BY <2>2, <2>3, <2>4, SamePaths
  <2>6. Len(e) <= Len(p) BY <2>2, <2>4, <2>5
  <2>7. IsPrefix(e, p) BY <2>1, <2>2, <2>6, PrefixOrder
  <2> QED BY <2>1, <2>7 DEF Touched
<1>3. ASSUME NEW q \in Paths, q # <<>>, Front(q) = p
      PROVE  q \in DOMAIN right <=> q \in DOMAIN given.v2.body
  <2>1. Len(q) \in 0..Len(q) /\ IsPrefix(q, q) BY PrefixOrder DEF Paths
  <2>2. Upto(q, Len(q)) = q BY <2>1, PrefixNames
  <2> QED BY <1>2, <1>3, <2>1, <2>2, UntouchedPath
<1>4. DOMAIN right \subseteq Paths /\ DOMAIN given.v2.body \subseteq Paths BY <1>1 DEF IsTree
<1>5. Children(right, p) = Children(given.v2.body, p) BY <1>3, <1>4 DEF Children
<1> QED BY <1>5 DEF Length

(* What was compared without the rules is compared with them, up to the     *)
(* first path that is ignored.                                              *)
LEMMA ReachedAgain ==
  ASSUME Typed, MapInv, NEW p \in Reached(given.v2.body, FALSE), ~Touched(p), NEW m \in 0..Len(p),
         \A k \in 0..(m - 1) : Upto(p, k) \notin policy.ignored
  PROVE  Upto(p, m) \in Reached(right, TRUE)
<1> DEFINE t == given.v2.body
           u == Upto(p, m)
<1>1. IsTree(left) /\ IsTree(right) /\ IsTree(t) BY CaseFacts DEF Typed
<1>2. p \in Paths /\ Len(p) \in Nat /\ m \in Nat /\ m <= Len(p)
  <2>1. p \in Paths BY <1>1, ReachedFinite
  <2> QED BY <2>1 DEF Paths
<1>3. u \in Paths /\ Len(u) = m /\ \A j \in 0..m : Upto(u, j) = Upto(p, j)
  BY <1>2, UptoFacts, UptoPrefix
<1>4. u \in DOMAIN left \union DOMAIN t BY <1>1, ReachedAbove, ReachedFinite
<1>5. u \in DOMAIN left \union DOMAIN right BY <1>2, <1>4, UntouchedPath
<1>6. ASSUME NEW k \in 0..(m - 1)
      PROVE  Nested(right, Upto(p, k)) /\ Upto(p, k + 1) \in Kids(right, Upto(p, k))
  <2>1. k \in 0..Len(p) /\ k < Len(p) /\ k + 1 \in 0..Len(p) BY <1>2
  <2>2. Nested(t, Upto(p, k)) /\ Upto(p, k + 1) \in Kids(t, Upto(p, k))
    BY <1>1, <2>1, ReachedAbove
  <2>3. /\ Node(right, Upto(p, k)) = Node(t, Upto(p, k))
        /\ Upto(p, k + 1) \in DOMAIN right <=> Upto(p, k + 1) \in DOMAIN t
    BY <1>2, <2>1, UntouchedPath
  <2> QED BY <2>2, <2>3 DEF Nested, SameKind, Kids, Children
<1>7. ASSUME NEW k \in 0..(Len(u) - 1)
      PROVE  /\ Nested(right, Upto(u, k)) /\ ~Ignored(TRUE, Upto(u, k))
             /\ Upto(u, k + 1) \in Kids(right, Upto(u, k))
  <2>1. k \in 0..(m - 1) /\ Upto(u, k) = Upto(p, k) /\ Upto(u, k + 1) = Upto(p, k + 1)
    BY <1>2, <1>3
  <2> QED BY <1>6, <2>1 DEF Ignored
<1> QED BY <1>5, <1>7 DEF Reached

(* A family of subsets of a finite set has one that contains no other.      *)
LEMMA SmallestSet ==
  ASSUME NEW S, IsFiniteSet(S), NEW B \in SUBSET (SUBSET S), B # {}
  PROVE  \E a \in B : \A b \in B : b \subseteq a => b = a
<1>1. FiniteSubsetsOf(S) = SUBSET S BY FS_FiniteSubsetsOfFinite
<1>2. IsWellFoundedOn(StrictSubsetOrdering(S), SUBSET S)
  BY <1>1, FS_StrictSubsetOrderingWellFounded
<1>3. PICK a \in B : \A b \in B : ~(<<b, a>> \in StrictSubsetOrdering(S)) BY <1>2, WFMin
<1>4. ASSUME NEW b \in B, b \subseteq a, b # a PROVE FALSE
  <2>1. <<b, a>> \in StrictSubsetOrdering(S) BY <1>4 DEF StrictSubsetOrdering
  <2> QED BY <1>3, <2>1
<1> QED BY <1>4

(* A set of numbers has one that no other is below.                         *)
LEMMA LeastNumber ==
  ASSUME NEW n \in Nat, NEW B \in SUBSET (0..n), B # {}
  PROVE  \E m \in B : \A k \in 0..(m - 1) : k \notin B
<1> DEFINE I == 0..n
           F == {s \in SUBSET I : \E k \in B : s = 0..k}
<1>1. IsFiniteSet(I)
  <2>1. n \in Int /\ 0 \in Int OBVIOUS
  <2> QED BY <2>1, FS_Interval
<1>2. \A k \in B : k \in Nat /\ 0..k \in F OBVIOUS
<1>3. F \in SUBSET (SUBSET I) /\ F # {} BY <1>2
<1>4. \A s \in F : \E k \in B : s = 0..k OBVIOUS
<1> HIDE DEF I, F
<1>5. PICK a \in F : \A b \in F : b \subseteq a => b = a BY <1>1, <1>3, SmallestSet
<1>6. PICK m \in B : a = 0..m BY <1>4
<1>7. ASSUME NEW k \in 0..(m - 1), k \in B PROVE FALSE
  <2>1. m \in Nat /\ 0..k \in F BY <1>2, <1>7
  <2>2. 0..k \subseteq 0..m /\ m \in 0..m /\ m \notin 0..k BY <2>1
  <2> QED BY <1>5, <1>6, <2>1, <2>2
<1> QED BY <1>7

(* A difference that the rules make disappear has one that explains it.     *)
LEMMA DifferenceIsExplained ==
  ASSUME Typed, MapInv, Recorded(Reached(right, TRUE)), NEW p \in Before \ After
  PROVE  \E rule \in applied : Explains(rule, p)
<1> DEFINE t == given.v2.body
<1>1. IsTree(left) /\ IsTree(right) /\ IsTree(t) /\ Tolerances BY CaseFacts DEF Typed
<1>2. p \in Reached(t, FALSE) /\ Differs(t, FALSE, p) BY DEF Before, Differences
<1>3. p \in Paths /\ Len(p) \in Nat
  <2>1. p \in Paths BY <1>1, <1>2, ReachedFinite
  <2> QED BY <2>1 DEF Paths
<1>4. CASE Touched(p)
  <2>1. PICK i \in DOMAIN policy.mappings :
          MapRule(i) \in applied /\ \E e \in Ends(policy.mappings[i]) : IsPrefix(e, p)
    BY <1>4 DEF Touched
  <2>2. Explains(MapRule(i), p) BY <2>1 DEF MapRule, Explains
  <2> QED BY <2>1, <2>2
<1>5. CASE ~Touched(p)
  <2> DEFINE n == Len(p)
             B == {k \in 0..n : Upto(p, k) \in policy.ignored}
  <2>1. CASE B # {}
    <3>1. PICK m \in B : \A k \in 0..(m - 1) : k \notin B
      <4>1. n \in Nat /\ B \in SUBSET (0..n) BY <1>3
      <4> HIDE DEF n, B
      <4> QED BY <2>1, <4>1, LeastNumber
    <3> DEFINE u == Upto(p, m)
    <3>2. m \in 0..Len(p) /\ u \in policy.ignored OBVIOUS
    <3>3. \A k \in 0..(m - 1) : Upto(p, k) \notin policy.ignored BY <1>3, <3>1, <3>2
    <3>4. u \in Reached(right, TRUE) BY <1>2, <1>5, <3>2, <3>3, ReachedAgain
    <3>5. [rule |-> "ignore", path |-> u] \in applied BY <3>2, <3>4 DEF Recorded
    <3>6. IsPrefix(u, p) BY <1>3, <3>2, UptoPrefix
    <3>7. Explains([rule |-> "ignore", path |-> u], p) BY <3>6 DEF Explains
    <3> QED BY <3>5, <3>7
  <2>2. CASE B = {}
    <3>1. Len(p) \in 0..Len(p) /\ IsPrefix(p, p) BY <1>3, PrefixOrder
    <3>2. Upto(p, Len(p)) = p BY <1>3, <3>1, PrefixNames
    <3>3. \A k \in 0..(Len(p) - 1) : Upto(p, k) \notin policy.ignored BY <1>3, <2>2
    <3>4. p \in Reached(right, TRUE) BY <1>2, <1>5, <3>1, <3>2, <3>3, ReachedAgain
    <3>5. p \notin policy.ignored BY <2>2, <3>1, <3>2
    <3>6. ~Differs(right, TRUE, p) BY <3>4 DEF After, Differences
    <3>7. Same(right, p) \/ Excused(TRUE, right, p)
      <4>1. ~Ignored(TRUE, p) BY <3>5 DEF Ignored
      <4> QED BY <1>1, <3>6, <4>1, DiffersMeans
    <3>8. ~Same(t, p)
      <4>1. ~Ignored(FALSE, p) BY DEF Ignored
      <4> QED BY <1>1, <1>2, <4>1, DiffersMeans
    <3>9. Node(right, p) = Node(t, p) BY <1>3, <1>5, <3>1, <3>2, UntouchedPath
    <3>10. Node(t, p).kind = "list" => Length(right, p) = Length(t, p)
      BY <1>3, <1>5, UntouchedLength
    <3>11. ~Same(right, p) BY <3>8, <3>9, <3>10 DEF Same, SameKind, Nested
    <3>12. [rule |-> "tolerance", path |-> p] \in applied BY <3>4, <3>5, <3>7, <3>11 DEF Recorded
    <3>13. Explains([rule |-> "tolerance", path |-> p], p) BY DEF Explains
    <3> QED BY <3>12, <3>13
  <2> QED BY <2>1, <2>2
<1> QED BY <1>4, <1>5

(* Without a rule that is applied, nothing changes.                         *)
LEMMA NoRuleNoChange ==
  ASSUME Typed, MapInv, RawInv, StatusRule \subseteq applied, Recorded(Reached(right, TRUE)),
         found = Tally(right, After, OfMetadata(TRUE)), applied = {}
  PROVE  raw = found
<1>1. right = given.v2.body BY DEF MapInv
<1>2. Before \subseteq After BY DifferenceIsExplained
<1>3. After \subseteq Before
  <2>1. Reached(right, TRUE) \subseteq Reached(right, FALSE) BY DEF Reached, Ignored
  <2>2. \A p : Differs(right, TRUE, p) => Differs(right, FALSE, p) BY DEF Differs
  <2> QED BY <1>1, <2>1, <2>2 DEF Before, After, Differences
<1>4. OfMetadata(TRUE) = OfMetadata(FALSE)
  <2>1. SameStatus \/ ~Equivalent BY DEF StatusRule
  <2> QED BY <2>1 DEF OfMetadata, StatusDiffers
<1>5. Before = After BY <1>2, <1>3
<1>6. raw = Tally(given.v2.body, Before, OfMetadata(FALSE)) BY DEF RawInv
<1> QED BY <1>1, <1>4, <1>5, <1>6

(* So do the rules that explain a verdict.                                  *)
LEMMA InvExplains == ComparisonInv => VerdictIsExplained
<1> SUFFICES ASSUME ComparisonInv, Concluded PROVE VerdictIsExplained
  BY DEF VerdictIsExplained, Concluded
<1>1. /\ Typed /\ Comparable /\ RawInv /\ MapInv /\ StatusRule \subseteq applied
      /\ found = Tally(right, After, OfMetadata(TRUE))
      /\ ~found.limited => Recorded(Reached(right, TRUE))
      /\ result = IF found.count > 0 THEN "different" ELSE "matched"
  BY DEF ComparisonInv
<1>2. /\ IsTree(left) /\ IsTree(right) /\ Limits
      /\ DOMAIN given.context = {"request", "authority", "data"}
  BY <1>1, CaseFacts DEF Typed
<1>3. \A r \in Responses : r.outcome = "http_response" /\ r.whole
  BY <1>1 DEF Comparable, Captured
<1>4. \A c \in {"request", "authority", "data"} : given.context[c] = "yes"
  BY <1>1, <1>2 DEF Comparable, ContextHolds
<1>5. result = "matched" <=> After = {} /\ OfMetadata(TRUE).count = 0
  <2> DEFINE m == OfMetadata(TRUE).count
             n == Cardinality(After)
  <2>1. After \subseteq Reached(right, TRUE) BY DEF After, Differences
  <2>2. IsFiniteSet(After) BY <1>2, <2>1, ReachedFinite, FS_Subset
  <2>3. n \in Nat /\ (n = 0 <=> After = {}) BY <2>2, FS_CardinalityType, FS_EmptySet
  <2>4. m \in Nat BY <1>2, MetadataTally
  <2>5. found.count = Least(m + n, policy.maxDifferences) BY <1>1 DEF Tally
  <2> HIDE DEF m, n
  <2>6. found.count > 0 <=> ~(m = 0 /\ n = 0) BY <1>2, <2>3, <2>4, <2>5 DEF Limits, Least
  <2> QED BY <1>1, <2>3, <2>6 DEF m
<1>6. ASSUME ~found.limited, NEW p \in Before \ After
      PROVE  \E rule \in applied : Explains(rule, p)
  BY <1>1, <1>6, DifferenceIsExplained
<1>7. StatusDiffers(FALSE) /\ ~StatusDiffers(TRUE) => \E rule \in applied : rule.rule = "status"
  <2>1. SUFFICES ASSUME ~SameStatus, Equivalent PROVE \E rule \in applied : rule.rule = "status"
    BY DEF StatusDiffers
  <2>2. [rule |-> "status", path |-> <<>>] \in applied BY <1>1, <2>1 DEF StatusRule
  <2> QED BY <2>2
<1>8. ~found.limited /\ applied = {} => raw = found BY <1>1, NoRuleNoChange
<1> QED BY <1>3, <1>4, <1>5, <1>6, <1>7, <1>8 DEF VerdictIsExplained

-----------------------------------------------------------------------------
(* The invariant above holds at every step of a comparison.                 *)
THEOREM ComparisonInductive == CompareSpec => []ComparisonInv
BY ComparisonStarts, ComparisonStep, PTL DEF CompareSpec

(* What compare() reports of the differences before the rules, and after    *)
(* them, is what is to be reported of all of them by definition.            *)
THEOREM ReportsAreExact == CompareSpec => []DifferencesAreExact
BY ComparisonInductive, InvIsExact, PTL

(* A verdict is of pairs that can be compared, and a difference that is gone *)
(* from it was excused by a rule about its path, recorded as applied.       *)
THEOREM RulesExplain == CompareSpec => []VerdictIsExplained
BY ComparisonInductive, InvExplains, PTL
=============================================================================
