--------------------------- MODULE CollectorProps ---------------------------
(***************************************************************************)
(* What must be true of the collector (collection/collector.py).            *)
(***************************************************************************)
EXTENDS Collector

(* Every variable has its type. *)
TypeOK ==
  /\ submitted \in SUBSET Events /\ expired \in SUBSET Events
  /\ queue \in Seq(Events)
  /\ pending \in SUBSET Events /\ bytes \in Int
  /\ finished \in SUBSET Events
  /\ tasks \in SUBSET Tasks
  /\ fate \in [Events -> Outcomes \union {NoFate}]
  /\ told \in [Events -> Nat]
  /\ known \in BOOLEAN
  /\ worker \in {"idle", "loop", "writing", "retrying"}
  /\ cancelled \in BOOLEAN
  /\ batch \in SUBSET Events /\ attempt \in 1..MaxAttempts
  /\ uncertain \in SUBSET Events
  /\ answer \in SUBSET Answers(Events)
  /\ closed \in BOOLEAN
  /\ closing \in {"no", "flushing", "cancelling", "true", "false"}
  /\ flushAt \in [Callers -> {"no", "worker", "woken", "writes", "done"}]
  /\ flushed \in [Callers -> SUBSET Events]
  /\ awaited \in [Callers -> SUBSET [ids : SUBSET Events, attempt : 1..MaxAttempts]]
  /\ committed \in SUBSET Events

(* Exactly the accepted events are queued, in the worker's batch or         *)
(* settled, and no event is both waiting and settled; the outcome is told   *)
(* to on_outcome once: no event is lost, and none is settled twice.         *)
ExactlyOneFate ==
  \A e \in Events :
    /\ told[e] = IF fate[e] = NoFate THEN 0 ELSE 1
    /\ e \in submitted <=> fate[e] # NoFate \/ e \in Queued \union batch
    /\ fate[e] # NoFate => e \notin Queued \union batch

(* A reservation is held by exactly the events that are queued, in the      *)
(* worker's batch, or settled while a write task still holds their payload; *)
(* in particular no write task runs with a payload nobody accounts for.     *)
ReservationsAccounted ==
  /\ pending = Queued \union batch \union finished
  /\ finished \intersect (Queued \union batch) = {}
  /\ finished \subseteq Writing
  /\ Writing \subseteq pending

(* The bytes held are those of the events that hold a reservation, and      *)
(* neither limit is ever exceeded.                                          *)
WithinLimits ==
  /\ bytes = Weight[pending]
  /\ bytes <= MaxBytes
  /\ Cardinality(pending) <= MaxEvents

(* Two write tasks never carry the same event: a retry only starts when the *)
(* write it repeats is over, and a write in doubt is never repeated.        *)
NoOverlappingWrites ==
  \A s, t \in tasks : s # t => s.ids \intersect t.ids = {}

(* The payloads in memory: each is held by exactly one place that accounts  *)
(* for it, and their sizes stay within the limits, through retries, late    *)
(* answers and writes that outlive the worker.                              *)
PayloadsAccounted == ReservationsAccounted /\ NoOverlappingWrites /\ WithinLimits

(* An event reported as dropped is not in the store, and no write task is   *)
(* running that could still put it there; one reported as stored is there.     *)
FateIsTrue ==
  \A e \in Events :
    /\ fate[e] = "stored" => e \in committed
    /\ fate[e] \in Dropped => /\ e \notin committed
                              /\ \A t \in tasks : e \in t.ids => t.done

(* A queued event always has a live worker: submit() never relies on a      *)
(* worker that has already seen the queue empty.                            *)
NoLostWakeup == queue # <<>> => worker # "idle"

(* When close() returns, every accepted event has its outcome; when it      *)
(* returned True, no write runs and no reservation is left either.  Only a  *)
(* close() that ran out of time gives up events as dropped_shutdown, and    *)
(* completeness_known never survives one.                                   *)
CloseSettlesAll ==
  /\ closing \in {"true", "false"} => \A e \in submitted : fate[e] # NoFate
  /\ closing = "true" => pending = {} /\ tasks = {}
  /\ (\E e \in Events : fate[e] = "dropped_shutdown") => closing \in {"cancelling", "false"}
  /\ known => closing \notin {"cancelling", "false"}

(* When flush() returns, every event accepted before it was called has its  *)
(* outcome and has given back its reservation, whatever was submitted and   *)
(* however many workers were started meanwhile.                             *)
FlushSettlesEarlier ==
  \A c \in Callers : flushAt[c] = "done" => flushed[c] \intersect pending = {}

-----------------------------------------------------------------------------
(* The collector keeps the promise of EventFate.                            *)
Life == [e \in Events |-> IF fate[e] # NoFate THEN fate[e]
                          ELSE IF e \in submitted THEN "open" ELSE "new"]

Promise == INSTANCE EventFate WITH life <- Life, durable <- committed, complete <- known

(* Every behaviour of the collector is one of EventFate: one final, truthful*)
(* outcome per accepted event, and no drop of an event that may be stored.  *)
KeepsPromise == Promise!Spec

(* Every accepted event is given its outcome, even if the store never       *)
(* answers a single write: each is submitted once and keeps its outcome, so  *)
(* that in the end all of them have one.                                    *)
EveryEventSettled == <>[](\A e \in submitted : fate[e] # NoFate)

(* close() returns, even if the store never answers.                        *)
CloseReturns == closing = "flushing" ~> closing \in {"true", "false"}

(* With a store that ends its writes, every reservation is given back, so   *)
(* that a full collector accepts events again; none is taken twice.          *)
CapacityReturns == StoreFairness => <>[](pending = {})

(* Nothing waits for ever: events get their outcome and close() returns     *)
(* although the store is silent, and capacity comes back if it is not.      *)
Progress == EveryEventSettled /\ CloseReturns /\ CapacityReturns
=============================================================================
