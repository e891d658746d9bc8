------------------------------- MODULE Runtime -------------------------------
(***************************************************************************)
(* ProxyRuntime (proxy/runtime.py) as a whole: many requests share its       *)
(* limits; each selected request becomes a pair, each pair one piece of      *)
(* evidence that passes through the comparison pipeline and the collector;   *)
(* flush() waits for the evidence of the pairs it finds, and close() drains  *)
(* the stages in order, under one deadline.                                  *)
(*                                                                         *)
(* The insides of the stages are the subject of other modules: of one        *)
(* request, Exchange; of the pipeline, Pipeline; of the collector,           *)
(* Collector.  Here each of them does what its close(), flush() and submit() *)
(* were shown there to do: a closed stage has settled all that it accepted,  *)
(* and gives up work only when its close() ran out of time.                  *)
(*                                                                         *)
(* A coroutine's code between two awaits is one action; a cancellation is    *)
(* delivered with the step that asks for it.                                 *)
(*                                                                         *)
(* An operator whose name has a suffix after "_" is a plausible bug, used by *)
(* no definition: it stands for the operator it precedes when the properties *)
(* are tested against it.                                                    *)
(***************************************************************************)
EXTENDS Integers, FiniteSets

CONSTANTS
  Requests,      \* the requests that may arrive, numbered in that order
  MaxActive,     \* budgets.serving_max_inflight
  MaxShadows,    \* budgets.shadow_max_inflight
  Callers        \* callers of flush()

(* Budgets refuses limits that are not positive.                            *)
ASSUME RuntimeAssumption ==
  /\ IsFiniteSet(Requests) /\ Requests \subseteq Nat
  /\ MaxActive  \in Nat \ {0}
  /\ MaxShadows \in Nat \ {0}

(* What becomes of a pair's evidence: on its way, or counted for good.      *)
(* "counted" is stored, or any loss on the way (limits, age, timeouts, errors),*)
(* "shutdown" one at the deadline of close(), and "refused" one by a stage  *)
(* that was already closed.                                                 *)
OnItsWay == {"comparing", "collecting"}
Fates    == {"counted", "unknown", "shutdown", "refused"}

(* The steps of _close(), in order.                                         *)
Draining    == {"active", "activeJoin", "pairs", "pairsJoin"}
Closing     == {"maintenance", "comparison", "collector", "transports", "store"} \union Draining

VARIABLES
  started,      \* _initial_budgets is not None
  accepting,    \* _accepting
  closeAt,      \* _close(): "no", one of Closing, "done"
  deadline,     \* the deadline of _close() has passed
  waited,       \* pending: the requests, or pairs, that _close() waits for
  at,           \* at[r]: "new", "rejected", "active", "joining", "over"
  selected,     \* requests in the shadow sample
  slots,        \* requests with reserved = True
  shadowSlots,  \* _shadow_slots
  shadow,       \* shadow[r]: "none", "input", "running", "over"
  pair,         \* pair[r]: "none", "waiting", "over"
  evidence,     \* evidence[r]: "none", OnItsWay or Fates
  comparison,   \* _open of the pipeline
  collector,    \* not _closed of the collector
  known,        \* collector.completeness_known
  late,         \* close() of the collector or of the store ran out of time
  flushAt,      \* flush() of each caller: "no", "pairs", "comparison", "collector",
                \* "done", "cancelled"
  covered,      \* the pairs registered when that flush() was called
  flushed       \* what the stage it is in must settle before it goes on

requestVars == <<at, selected, slots, shadowSlots>>
closeVars   == <<started, accepting, closeAt, deadline, waited>>
stageVars   == <<comparison, collector, known, late>>
flushVars   == <<flushAt, covered, flushed>>
vars == <<closeVars, requestVars, shadow, pair, evidence, stageVars, flushVars>>

-----------------------------------------------------------------------------
Active == {r \in Requests : at[r] \in {"active", "joining"}}       \* _active
Pairs  == {r \in Requests : pair[r] = "waiting"}                   \* _pairs
Going(stage) == {r \in Requests : evidence[r] = stage}

Init ==
  /\ started = FALSE /\ accepting = FALSE /\ closeAt = "no" /\ deadline = FALSE
  /\ waited = {}
  /\ at = [r \in Requests |-> "new"] /\ selected = {} /\ slots = {} /\ shadowSlots = 0
  /\ shadow = [r \in Requests |-> "none"] /\ pair = [r \in Requests |-> "none"]
  /\ evidence = [r \in Requests |-> "none"]
  /\ comparison = TRUE /\ collector = TRUE /\ known = TRUE /\ late = FALSE
  /\ flushAt = [c \in Callers |-> "no"] /\ covered = [c \in Callers |-> {}]
  /\ flushed = [c \in Callers |-> {}]

(* start(): once close() was called, it raises.                             *)
Start ==
  /\ closeAt = "no" /\ ~accepting
  /\ started' = TRUE /\ accepting' = TRUE
  /\ UNCHANGED <<closeAt, deadline, waited, requestVars, shadow, pair, evidence, stageVars,
                 flushVars>>

-----------------------------------------------------------------------------
(* Requests                                                                 *)

Admits == accepting /\ Cardinality(Active) < MaxActive

SlotFree == shadowSlots < MaxShadows

(* __call__ up to the first await of the request: admission, the sample,    *)
(* and the shadow slot, reserved before any of the body is captured.        *)
Arrive(r, inSample) ==
  /\ at[r] = "new" /\ started
  /\ \A q \in Requests : q < r => at[q] # "new"
  /\ IF ~Admits
     THEN /\ ~inSample
          /\ at' = [at EXCEPT ![r] = "rejected"]
          /\ UNCHANGED <<selected, slots, shadowSlots, shadow>>
     ELSE /\ at' = [at EXCEPT ![r] = "active"]
          /\ selected' = IF inSample THEN selected \union {r} ELSE selected
          /\ IF inSample /\ SlotFree
             THEN /\ slots' = slots \union {r} /\ shadowSlots' = shadowSlots + 1
                  /\ shadow' = [shadow EXCEPT ![r] = "input"]
             ELSE UNCHANGED <<slots, shadowSlots, shadow>>
  /\ UNCHANGED <<closeVars, pair, evidence, stageVars, flushVars>>

(* dispatch_shadow: the whole body was captured, or the shadow never runs.  *)
ShadowDispatch(r, whole) ==
  /\ shadow[r] = "input"
  /\ shadow' = [shadow EXCEPT ![r] = IF whole THEN "running" ELSE "over"]
  /\ UNCHANGED <<closeVars, requestVars, pair, evidence, stageVars, flushVars>>

(* The shadow attempt ends, cancelled or not; its cleanup included.         *)
ShadowEnds(r) ==
  /\ shadow[r] = "running"
  /\ shadow' = [shadow EXCEPT ![r] = "over"]
  /\ UNCHANGED <<closeVars, requestVars, pair, evidence, stageVars, flushVars>>

(* shadow_task.cancel() for every request of S: what was not dispatched     *)
(* never is, what runs ends when its cleanup does.                          *)
ShadowsCancelled(S) ==
  shadow' = [r \in Requests |-> IF r \in S /\ shadow[r] = "input" THEN "over" ELSE shadow[r]]

(* The delivery is over, or the client is gone, or the server cancels the   *)
(* request: its children are joined; shadows are cancelled in the latter.   *)
RequestLeaves(r, gone) ==
  /\ at[r] = "active"
  /\ at' = [at EXCEPT ![r] = "joining"]
  /\ ShadowsCancelled(IF gone THEN {r} ELSE {})
  /\ UNCHANGED <<closeVars, selected, slots, shadowSlots, pair, evidence, stageVars, flushVars>>

(* The finally block: a selected request registers its pair before it       *)
(* leaves _active.                                                          *)
RequestJoined(r) ==
  /\ at[r] = "joining"
  /\ at' = [at EXCEPT ![r] = "over"]
  /\ pair' = [pair EXCEPT ![r] = IF r \in selected THEN "waiting" ELSE "none"]
  /\ UNCHANGED <<closeVars, selected, slots, shadowSlots, shadow, evidence, stageVars, flushVars>>

-----------------------------------------------------------------------------
(* Evidence                                                                 *)

(* What pipeline.submit() makes of a pair.                                  *)
Submitted == IF comparison THEN {"comparing", "counted"} ELSE {"refused"}

(* The slot goes with the pair, whether it was submitted or not.            *)
CountAfter_Unreserved(r) == shadowSlots - 1

CountAfter(r) == IF r \in slots THEN shadowSlots - 1 ELSE shadowSlots

(* finalize() after its shadow: submit(), or an exception on the way to it. *)
PairEnds(r, fate) ==
  /\ pair[r] = "waiting" /\ shadow[r] \in {"none", "over"}
  /\ fate \in Submitted \union {"counted"}
  /\ pair' = [pair EXCEPT ![r] = "over"]
  /\ evidence' = [evidence EXCEPT ![r] = fate]
  /\ slots' = slots \ {r}
  /\ shadowSlots' = CountAfter(r)
  /\ UNCHANGED <<closeVars, at, selected, shadow, stageVars, flushVars>>

(* A worker of the pipeline settles a job: drops it, or hands its event to  *)
(* the collector, which accepts or refuses it.                              *)
CompareEnds(r, fate) ==
  /\ evidence[r] = "comparing"
  /\ fate \in {"counted"} \union IF collector THEN {"collecting"} ELSE {"refused"}
  /\ evidence' = [evidence EXCEPT ![r] = fate]
  /\ UNCHANGED <<closeVars, requestVars, shadow, pair, stageVars, flushVars>>

(* The collector settles an event.                                          *)
CollectEnds(r, fate) ==
  /\ evidence[r] = "collecting"
  /\ fate \in {"counted", "unknown"}
  /\ evidence' = [evidence EXCEPT ![r] = fate]
  /\ known' = (known /\ fate # "unknown")
  /\ UNCHANGED <<closeVars, requestVars, shadow, pair, comparison, collector, late, flushVars>>

-----------------------------------------------------------------------------
(* flush()                                                                  *)
FlushUnchanged == <<closeVars, requestVars, pair, evidence, stageVars>>

Flush(c) ==
  /\ flushAt[c] = "no"
  /\ flushAt' = [flushAt EXCEPT ![c] = "pairs"]
  /\ covered' = [covered EXCEPT ![c] = {r \in Requests : pair[r] # "none"}]
  /\ flushed' = [flushed EXCEPT ![c] = Pairs]
  /\ UNCHANGED <<FlushUnchanged, shadow>>

PairsFlushed_Unawaited(c) == TRUE

PairsFlushed(c) == flushed[c] \intersect Pairs = {}

(* comparison.flush() waits for an empty pipeline, collector.flush() for    *)
(* what it finds there.                                                     *)
FlushNext(c) ==
  /\ \/ /\ flushAt[c] = "pairs" /\ PairsFlushed(c)
        /\ flushAt' = [flushAt EXCEPT ![c] = "comparison"]
        /\ flushed' = [flushed EXCEPT ![c] = {}]
     \/ /\ flushAt[c] = "comparison" /\ Going("comparing") = {}
        /\ flushAt' = [flushAt EXCEPT ![c] = "collector"]
        /\ flushed' = [flushed EXCEPT ![c] = Going("collecting")]
     \/ /\ flushAt[c] = "collector" /\ flushed[c] \intersect Going("collecting") = {}
        /\ flushAt' = [flushAt EXCEPT ![c] = "done"]
        /\ flushed' = [flushed EXCEPT ![c] = {}]
  /\ UNCHANGED <<FlushUnchanged, shadow, covered>>

(* A flush() that is cancelled while it gathers pairs cancels them, and     *)
(* with them the shadows they wait for.                                     *)
FlushCancelled(c) ==
  /\ flushAt[c] \in {"pairs", "comparison", "collector"}
  /\ flushAt' = [flushAt EXCEPT ![c] = "cancelled"]
  /\ ShadowsCancelled(IF flushAt[c] = "pairs" THEN flushed[c] \intersect Pairs ELSE {})
  /\ covered' = [covered EXCEPT ![c] = {}] /\ flushed' = [flushed EXCEPT ![c] = {}]
  /\ UNCHANGED FlushUnchanged

-----------------------------------------------------------------------------
(* close()                                                                  *)

(* The first step of _close(): nothing is closed if nothing was started.    *)
Close ==
  /\ closeAt = "no"
  /\ accepting' = FALSE
  /\ closeAt' = IF started THEN "maintenance" ELSE "done"
  /\ UNCHANGED <<started, deadline, waited, requestVars, shadow, pair, evidence, stageVars,
                 flushVars>>

(* shutdown_grace_seconds are over.                                         *)
Deadline ==
  /\ closeAt \in Closing /\ ~deadline
  /\ deadline' = TRUE
  /\ UNCHANGED <<started, accepting, closeAt, waited, requestVars, shadow, pair, evidence,
                 stageVars, flushVars>>

(* The retention worker is stopped, and cancelled at the deadline; then the *)
(* requests in flight are waited for.                                       *)
MaintenanceClosed ==
  /\ closeAt = "maintenance"
  /\ closeAt' = "active" /\ waited' = Active
  /\ UNCHANGED <<started, accepting, deadline, requestVars, shadow, pair, evidence, stageVars,
                 flushVars>>

(* The requests that are left at the deadline are cancelled.  A request     *)
(* that joins its children goes on.                                         *)
CancelActive ==
  /\ closeAt = "active" /\ deadline /\ waited \intersect Active # {}
  /\ closeAt' = "activeJoin" /\ waited' = waited \intersect Active
  /\ at' = [r \in Requests |-> IF r \in waited /\ at[r] = "active" THEN "joining" ELSE at[r]]
  /\ ShadowsCancelled({r \in waited : at[r] = "active"})
  /\ UNCHANGED <<started, accepting, deadline, selected, slots, shadowSlots, pair, evidence,
                 stageVars, flushVars>>

(* The pairs to wait for are looked up when all the requests are over.      *)
PairsToDrain_SeenEarly == {r \in Requests : pair[r] = "waiting" /\ r \notin waited}

PairsToDrain == Pairs

ActiveDrained ==
  /\ closeAt \in {"active", "activeJoin"} /\ waited \intersect Active = {}
  /\ closeAt' = "pairs" /\ waited' = PairsToDrain
  /\ UNCHANGED <<started, accepting, deadline, requestVars, shadow, pair, evidence, stageVars,
                 flushVars>>

CancelPairs ==
  /\ closeAt = "pairs" /\ deadline /\ waited \intersect Pairs # {}
  /\ closeAt' = "pairsJoin" /\ waited' = waited \intersect Pairs
  /\ ShadowsCancelled(waited \intersect Pairs)
  /\ UNCHANGED <<started, accepting, deadline, requestVars, pair, evidence, stageVars, flushVars>>

(* All pairs were submitted: the pipeline stops accepting.                  *)
PairsDrained ==
  /\ closeAt \in {"pairs", "pairsJoin"} /\ waited \intersect Pairs = {}
  /\ closeAt' = "comparison" /\ comparison' = FALSE /\ waited' = {}
  /\ UNCHANGED <<started, accepting, deadline, requestVars, shadow, pair, evidence, collector,
                 known, late, flushVars>>

(* The pipeline is empty, or the deadline has passed and what it had not    *)
(* settled is dropped.  Then the collector stops accepting.                 *)
ComparisonMayClose_NoDeadline == Going("comparing") = {}

ComparisonMayClose == Going("comparing") = {} \/ deadline

ComparisonClosed ==
  /\ closeAt = "comparison" /\ ComparisonMayClose
  /\ closeAt' = "collector" /\ collector' = FALSE
  /\ evidence' = [r \in Requests |-> IF evidence[r] = "comparing" THEN "shutdown" ELSE evidence[r]]
  /\ UNCHANGED <<started, accepting, deadline, waited, requestVars, shadow, pair, comparison,
                 known, late, flushVars>>

(* The collector has settled all, or runs out of time: it drops events it   *)
(* never tried to write, and is in doubt of the others.                     *)
CollectorClosed ==
  /\ closeAt = "collector"
  /\ closeAt' = "transports"
  /\ \/ Going("collecting") = {} /\ UNCHANGED <<evidence, known, late>>
     \/ /\ deadline
        /\ \E doubt \in SUBSET Going("collecting") :
             evidence' = [r \in Requests |-> IF r \in doubt THEN "unknown"
                                             ELSE IF r \in Going("collecting") THEN "shutdown"
                                             ELSE evidence[r]]
        /\ known' = FALSE /\ late' = TRUE
  /\ UNCHANGED <<started, accepting, deadline, waited, requestVars, shadow, pair, comparison,
                 collector, flushVars>>

TransportsClosed ==
  /\ closeAt = "transports"
  /\ closeAt' = "store"
  /\ UNCHANGED <<started, accepting, deadline, waited, requestVars, shadow, pair, evidence,
                 stageVars, flushVars>>

(* The store is closed after the writes it still runs, or not in time.      *)
StoreClosed(inTime) ==
  /\ closeAt = "store" /\ (inTime \/ deadline)
  /\ closeAt' = "done"
  /\ IF inTime THEN UNCHANGED <<known, late>> ELSE known' = FALSE /\ late' = TRUE
  /\ UNCHANGED <<started, accepting, deadline, waited, requestVars, shadow, pair, evidence,
                 comparison, collector, flushVars>>

-----------------------------------------------------------------------------
RequestStep(r) ==
  \/ \E inSample \in BOOLEAN : Arrive(r, inSample)
  \/ \E whole \in BOOLEAN : ShadowDispatch(r, whole)
  \/ ShadowEnds(r)
  \/ \E gone \in BOOLEAN : RequestLeaves(r, gone)
  \/ RequestJoined(r)
EvidenceStep(r) == \E fate \in OnItsWay \union Fates :
                     PairEnds(r, fate) \/ CompareEnds(r, fate) \/ CollectEnds(r, fate)
CloseStep ==
  \/ Deadline \/ MaintenanceClosed \/ CancelActive \/ ActiveDrained \/ CancelPairs \/ PairsDrained
  \/ ComparisonClosed \/ CollectorClosed \/ TransportsClosed
  \/ \E inTime \in BOOLEAN : StoreClosed(inTime)

Next ==
  \/ Start \/ Close \/ CloseStep
  \/ \E r \in Requests : RequestStep(r) \/ EvidenceStep(r)
  \/ \E c \in Callers : Flush(c) \/ FlushNext(c) \/ FlushCancelled(c)

(* What Exchange shows of each request: it is joined, its shadow ends, its  *)
(* pair ends, whatever clients and backends do; the rest of close() is run  *)
(* by the event loop, and httpx closes its connections.  Nothing is assumed *)
(* of the comparisons or of the store.                                      *)
Fairness ==
  /\ \A r \in Requests :
       /\ WF_vars(RequestJoined(r))
       /\ WF_vars(ShadowEnds(r) \/ \E whole \in BOOLEAN : ShadowDispatch(r, whole))
       /\ WF_vars(\E fate \in OnItsWay \union Fates : PairEnds(r, fate))
  /\ WF_vars(Deadline)
  /\ WF_vars(MaintenanceClosed \/ CancelActive \/ ActiveDrained \/ CancelPairs \/ PairsDrained
             \/ ComparisonClosed \/ CollectorClosed \/ TransportsClosed
             \/ \E inTime \in BOOLEAN : StoreClosed(inTime))

Spec     == Init /\ [][Next]_vars
FairSpec == Spec /\ Fairness
=============================================================================
