---------------------------- MODULE RuntimeProps ----------------------------
(***************************************************************************)
(* What must be true of the runtime as a whole (proxy/runtime.py).          *)
(***************************************************************************)
EXTENDS Runtime

(* Every variable has its type. *)
TypeOK ==
  /\ started \in BOOLEAN /\ accepting \in BOOLEAN /\ deadline \in BOOLEAN
  /\ closeAt \in {"no", "done"} \union Closing
  /\ waited \in SUBSET Requests
  /\ at \in [Requests -> {"new", "rejected", "active", "joining", "over"}]
  /\ selected \in SUBSET Requests /\ slots \in SUBSET Requests /\ shadowSlots \in Nat
  /\ shadow \in [Requests -> {"none", "input", "running", "over"}]
  /\ pair \in [Requests -> {"none", "waiting", "over"}]
  /\ evidence \in [Requests -> {"none"} \union OnItsWay \union Fates]
  /\ comparison \in BOOLEAN /\ collector \in BOOLEAN /\ known \in BOOLEAN /\ late \in BOOLEAN
  /\ flushAt \in [Callers -> {"no", "pairs", "comparison", "collector", "done", "cancelled"}]
  /\ covered \in [Callers -> SUBSET Requests] /\ flushed \in [Callers -> SUBSET Requests]

(* _shadow_slots counts the requests that hold a slot and is within the     *)
(* limit; only they have a shadow, and a slot is held as long as the shadow *)
(* runs or its pair is not submitted: no cancellation, of a request, of a   *)
(* pair by close() or by a flush(), loses or doubles one.                   *)
ShadowSlotsAccounted ==
  /\ shadowSlots = Cardinality(slots) /\ shadowSlots <= MaxShadows
  /\ \A r \in Requests :
       /\ shadow[r] \in {"input", "running"} => r \in slots
       /\ r \in slots => at[r] \in {"active", "joining"} \/ pair[r] = "waiting"

(* Once _close() has reached the pipeline, no request, shadow or pair is    *)
(* left, although pairs are only looked up when the requests are over and   *)
(* nothing holds back a request that is just being joined.                  *)
DrainedBeforeComparison ==
  started /\ closeAt \in {"comparison", "collector", "transports", "store", "done"} =>
    /\ Active = {} /\ Pairs = {} /\ slots = {}
    /\ \A r \in Requests : shadow[r] \in {"none", "over"}

(* Every selected request that is over is one pair, and its evidence is on  *)
(* its way or counted.  None is refused because a later stage was closed    *)
(* before an earlier one was empty; close() gives evidence up only after its*)
(* deadline, nothing is on its way when it has returned, and                *)
(* completeness_known does not survive an event in doubt or a late store.   *)
CloseAccountsForAll ==
  /\ \A r \in Requests :
       /\ pair[r] # "none" <=> r \in selected /\ at[r] = "over"
       /\ evidence[r] # "none" <=> pair[r] = "over"
       /\ evidence[r] # "refused"
  /\ known => ~late /\ Going("unknown") = {}
  /\ Going("shutdown") # {} => deadline
  /\ closeAt = "done" => Going("comparing") = {} /\ Going("collecting") = {}

(* close() drains the stages in an order that loses nothing silently.       *)
CloseDrainsInOrder == DrainedBeforeComparison /\ CloseAccountsForAll

(* When flush() returns, the evidence of every pair registered when it was  *)
(* called is counted, though the stages are only awaited one by one.        *)
FlushSettlesPairs ==
  \A c \in Callers : flushAt[c] = "done" => \A r \in covered[c] : evidence[r] \in Fates

-----------------------------------------------------------------------------
(* close() returns, even if clients, backends and the store stay silent and *)
(* comparisons never end.                                                   *)
CloseReturns == closeAt # "no" ~> closeAt = "done"
=============================================================================
