---------------------------- MODULE RuntimeProofs ----------------------------
(***************************************************************************)
(* Proofs about the runtime (proxy/runtime.py), for any number of requests, *)
(* any budgets and any callers of flush().                                  *)
(***************************************************************************)
EXTENDS RuntimeProps, FiniteSetTheorems, TLAPS

AfterPairs    == {"comparison", "collector", "transports", "store", "done"}
Emptied       == {"collector", "transports", "store", "done"}

(* Who holds a shadow slot: a selected request, until its pair is over.     *)
SlotInv ==
  /\ ShadowSlotsAccounted
  /\ slots \subseteq selected

(* A pair is what a selected request leaves behind; and before start(),     *)
(* nothing has arrived.                                                     *)
PairInv ==
  \A r \in Requests :
    /\ pair[r] # "none" <=> r \in selected /\ at[r] = "over"
    /\ evidence[r] # "none" <=> pair[r] = "over"
    /\ r \in selected => at[r] \notin {"new", "rejected"}
    /\ ~started => at[r] = "new"

(* How far close() is: nothing is admitted any more; what it waits for holds*)
(* every request, or pair, there still is.                                  *)
CloseInv ==
  /\ closeAt # "no" => ~accepting
  /\ accepting => started
  /\ closeAt \in Closing => started
  /\ closeAt \in {"active", "activeJoin"} => Active \subseteq waited
  /\ closeAt \in {"pairs", "pairsJoin"} => Active = {} /\ Pairs \subseteq waited
  /\ started /\ closeAt \in AfterPairs => Active = {} /\ Pairs = {}

(* Which stages are closed then, and what they hold.                        *)
StageInv ==
  /\ ~comparison => started /\ closeAt \in AfterPairs
  /\ ~collector => started /\ closeAt \in Emptied
  /\ closeAt \in Emptied => Going("comparing") = {}
  /\ closeAt \in {"transports", "store", "done"} => Going("collecting") = {}
  /\ Going("refused") = {}
  /\ known => ~late /\ Going("unknown") = {}
  /\ Going("shutdown") # {} => deadline

(* How far the pairs are that a flush() covers.                             *)
FlushInv ==
  \A c \in Callers : \A r \in covered[c] :
    /\ pair[r] # "none"
    /\ flushAt[c] = "pairs" => pair[r] = "over" \/ r \in flushed[c]
    /\ flushAt[c] \in {"comparison", "collector", "done"} => pair[r] = "over"
    /\ flushAt[c] \in {"collector", "done"} => evidence[r] # "comparing"
    /\ flushAt[c] = "collector" /\ evidence[r] = "collecting" => r \in flushed[c]
    /\ flushAt[c] = "done" => evidence[r] # "collecting"

IInv == TypeOK /\ SlotInv /\ PairInv /\ CloseInv /\ StageInv /\ FlushInv

-----------------------------------------------------------------------------
(* The slots taken are finitely many.                                       *)
LEMMA SlotsFinite == TypeOK => IsFiniteSet(slots) /\ Cardinality(slots) \in Nat
  BY RuntimeAssumption, FS_Subset, FS_CardinalityType DEF TypeOK

(* A request that gets a slot, and one that gives it back, is counted.      *)
LEMMA SlotCounted ==
  ASSUME TypeOK, NEW r \in Requests
  PROVE  /\ r \notin slots => Cardinality(slots \union {r}) = Cardinality(slots) + 1
         /\ r \in slots => /\ Cardinality(slots \ {r}) = Cardinality(slots) - 1
                           /\ Cardinality(slots) > 0
         /\ r \notin slots => slots \ {r} = slots
<1>1. IsFiniteSet(slots) /\ Cardinality(slots) \in Nat
  BY SlotsFinite
<1>2. r \notin slots => Cardinality(slots \union {r}) = Cardinality(slots) + 1
  BY <1>1, FS_AddElement
<1>3. ASSUME r \in slots
      PROVE Cardinality(slots \ {r}) = Cardinality(slots) - 1 /\ Cardinality(slots) > 0
  <2>1. slots # {}
    BY <1>3
  <2>2. Cardinality(slots) # 0
    BY <1>1, <2>1, FS_EmptySet
  <2>3. Cardinality(slots \ {r}) = Cardinality(slots) - 1
    BY <1>1, <1>3, FS_RemoveElement
  <2> QED
    BY <1>1, <2>2, <2>3
<1>4. r \notin slots => slots \ {r} = slots
  OBVIOUS
<1> QED
  BY <1>2, <1>3, <1>4

(* A collector that is out of time gives up the events it holds, and only   *)
(* these; one that is not holds none.                                       *)
LEMMA GiveUp ==
  ASSUME TypeOK, CollectorClosed
  PROVE  /\ evidence' \in [Requests -> {"none"} \union OnItsWay \union Fates]
         /\ \A r \in Requests :
              \/ evidence'[r] = evidence[r] /\ evidence[r] # "collecting"
              \/ /\ evidence[r] = "collecting" /\ deadline /\ known' = FALSE
                 /\ evidence'[r] \in {"unknown", "shutdown"}
         /\ \/ UNCHANGED <<known, late>>
            \/ known' = FALSE /\ late' = TRUE
<1>1. CASE Going("collecting") = {} /\ UNCHANGED <<evidence, known, late>>
  BY <1>1 DEF TypeOK, Going
<1>2. ASSUME deadline, known' = FALSE, late' = TRUE, NEW doubt \in SUBSET Going("collecting"),
             evidence' = [r \in Requests |-> IF r \in doubt THEN "unknown"
                                            ELSE IF r \in Going("collecting") THEN "shutdown"
                                            ELSE evidence[r]]
      PROVE  /\ evidence' \in [Requests -> {"none"} \union OnItsWay \union Fates]
             /\ \A r \in Requests :
                  \/ evidence'[r] = evidence[r] /\ evidence[r] # "collecting"
                  \/ /\ evidence[r] = "collecting"
                     /\ evidence'[r] \in {"unknown", "shutdown"}
  <2>1. \A r \in doubt : r \in Going("collecting")
    BY <1>2
  <2>2. \A r \in Requests :
          \/ evidence'[r] = evidence[r] /\ evidence[r] # "collecting"
          \/ evidence[r] = "collecting" /\ evidence'[r] \in {"unknown", "shutdown"}
    BY <1>2, <2>1 DEF Going
  <2>3. DOMAIN evidence' = Requests /\ evidence' = [r \in Requests |-> evidence'[r]]
    BY <1>2
  <2>4. \A r \in Requests : evidence'[r] \in {"none"} \union OnItsWay \union Fates
    BY <2>2 DEF TypeOK, Fates
  <2> QED
    BY <2>2, <2>3, <2>4
<1> QED
  BY <1>1, <1>2 DEF CollectorClosed

-----------------------------------------------------------------------------
(* One lemma for each part of the invariant, one step for each action: types.*)
LEMMA NextType == TypeOK /\ SlotInv /\ [Next]_vars => TypeOK'
<1> SUFFICES ASSUME TypeOK /\ SlotInv, [Next]_vars PROVE TypeOK'
  OBVIOUS
<1> USE DEF TypeOK, requestVars, closeVars, stageVars, flushVars, FlushUnchanged, OnItsWay,
            Fates, Closing, Draining, Active, Pairs, Going
<1>1. CASE Start
  BY <1>1 DEF Start
<1>2. CASE Close
  BY <1>2 DEF Close
<1>3. CASE Deadline
  BY <1>3 DEF Deadline
<1>4. CASE MaintenanceClosed
  BY <1>4 DEF MaintenanceClosed
<1>5. CASE CancelActive
  BY <1>5 DEF CancelActive, ShadowsCancelled
<1>6. CASE ActiveDrained
  BY <1>6 DEF ActiveDrained, PairsToDrain
<1>7. CASE CancelPairs
  BY <1>7 DEF CancelPairs, ShadowsCancelled
<1>8. CASE PairsDrained
  BY <1>8 DEF PairsDrained
<1>9. CASE ComparisonClosed
  BY <1>9 DEF ComparisonClosed, ComparisonMayClose
<1>10. CASE CollectorClosed
  BY <1>10, GiveUp DEF CollectorClosed
<1>11. CASE TransportsClosed
  BY <1>11 DEF TransportsClosed
<1>12. ASSUME NEW inTime \in BOOLEAN, StoreClosed(inTime) PROVE TypeOK'
  BY <1>12 DEF StoreClosed
<1>13. ASSUME NEW r \in Requests, NEW inSample \in BOOLEAN, Arrive(r, inSample)
       PROVE TypeOK'
  BY <1>13 DEF Arrive, Admits, SlotFree
<1>14. ASSUME NEW r \in Requests, NEW whole \in BOOLEAN, ShadowDispatch(r, whole)
       PROVE TypeOK'
  BY <1>14 DEF ShadowDispatch
<1>15. ASSUME NEW r \in Requests, ShadowEnds(r) PROVE TypeOK'
  BY <1>15 DEF ShadowEnds
<1>16. ASSUME NEW r \in Requests, NEW gone \in BOOLEAN, RequestLeaves(r, gone) PROVE TypeOK'
  BY <1>16 DEF RequestLeaves, ShadowsCancelled
<1>17. ASSUME NEW r \in Requests, RequestJoined(r) PROVE TypeOK'
  BY <1>17 DEF RequestJoined
<1>18. ASSUME NEW r \in Requests, NEW fate \in OnItsWay \union Fates, PairEnds(r, fate)
       PROVE TypeOK'
  <2>0. /\ r \in slots => Cardinality(slots \ {r}) = Cardinality(slots) - 1
        /\ r \notin slots => slots \ {r} = slots
        /\ r \in slots => Cardinality(slots) > 0
        /\ Cardinality(slots) \in Nat
    BY SlotCounted, SlotsFinite
  <2>1. shadowSlots' \in Nat
    BY <1>18, <2>0 DEF PairEnds, CountAfter, SlotInv, ShadowSlotsAccounted
  <2>2. fate \in {"none"} \union OnItsWay \union Fates
    OBVIOUS
  <2> QED
    BY <1>18, <2>1, <2>2 DEF PairEnds
<1>19. ASSUME NEW r \in Requests, NEW fate \in OnItsWay \union Fates, CompareEnds(r, fate)
       PROVE TypeOK'
  BY <1>19 DEF CompareEnds
<1>20. ASSUME NEW r \in Requests, NEW fate \in OnItsWay \union Fates, CollectEnds(r, fate)
       PROVE TypeOK'
  BY <1>20 DEF CollectEnds
<1>21. ASSUME NEW c \in Callers, Flush(c) PROVE TypeOK'
  BY <1>21 DEF Flush
<1>22. ASSUME NEW c \in Callers, FlushNext(c) PROVE TypeOK'
  BY <1>22 DEF FlushNext, PairsFlushed
<1>23. ASSUME NEW c \in Callers, FlushCancelled(c) PROVE TypeOK'
  BY <1>23 DEF FlushCancelled, ShadowsCancelled
<1>24. CASE UNCHANGED vars
  BY <1>24 DEF vars
<1> QED
  BY <1>1, <1>2, <1>3, <1>4, <1>5, <1>6, <1>7, <1>8, <1>9, <1>10, <1>11, <1>12, <1>13,
     <1>14, <1>15, <1>16, <1>17, <1>18, <1>19, <1>20, <1>21, <1>22, <1>23, <1>24
  DEF Next, CloseStep, RequestStep, EvidenceStep

(* Slots: only an admission takes one, only the end of a pair gives it back. *)
LEMMA NextSlot == TypeOK /\ SlotInv /\ PairInv /\ [Next]_vars => SlotInv'
<1> SUFFICES ASSUME TypeOK /\ SlotInv /\ PairInv, [Next]_vars PROVE SlotInv'
  OBVIOUS
<1> USE DEF TypeOK, SlotInv, ShadowSlotsAccounted, PairInv, requestVars, closeVars,
            stageVars, flushVars, FlushUnchanged
<1>1. CASE Start
  BY <1>1 DEF Start
<1>2. CASE Close
  BY <1>2 DEF Close
<1>3. CASE Deadline
  BY <1>3 DEF Deadline
<1>4. CASE MaintenanceClosed
  BY <1>4 DEF MaintenanceClosed
<1>5. CASE CancelActive
  BY <1>5 DEF CancelActive, ShadowsCancelled
<1>6. CASE ActiveDrained
  BY <1>6 DEF ActiveDrained, PairsToDrain
<1>7. CASE CancelPairs
  BY <1>7 DEF CancelPairs, ShadowsCancelled
<1>8. CASE PairsDrained
  BY <1>8 DEF PairsDrained
<1>9. CASE ComparisonClosed
  BY <1>9 DEF ComparisonClosed, ComparisonMayClose
<1>10. CASE CollectorClosed
  BY <1>10 DEF CollectorClosed
<1>11. CASE TransportsClosed
  BY <1>11 DEF TransportsClosed
<1>12. ASSUME NEW inTime \in BOOLEAN, StoreClosed(inTime) PROVE SlotInv'
  BY <1>12 DEF StoreClosed
<1>13. ASSUME NEW r \in Requests, NEW inSample \in BOOLEAN, Arrive(r, inSample)
       PROVE SlotInv'
  <2>1. r \notin slots
    BY <1>13 DEF Arrive
  <2>2. Cardinality(slots) \in Nat /\ Cardinality(slots \union {r}) = Cardinality(slots) + 1
    BY <2>1, SlotsFinite, SlotCounted
  <2>3. CASE Admits /\ inSample /\ SlotFree
    <3>1. slots' = slots \union {r} /\ shadowSlots' = shadowSlots + 1 /\ shadowSlots < MaxShadows
      BY <1>13, <2>3 DEF Arrive, SlotFree
    <3>2. MaxShadows \in Nat /\ shadowSlots \in Nat
      BY RuntimeAssumption
    <3>3. shadowSlots' = Cardinality(slots') /\ shadowSlots' <= MaxShadows
      BY <2>2, <3>1, <3>2
    <3> QED
      BY <1>13, <2>3, <3>1, <3>3 DEF Arrive
  <2>4. CASE ~(Admits /\ inSample /\ SlotFree)
    BY <1>13, <2>4 DEF Arrive
  <2> QED
    BY <2>3, <2>4
<1>14. ASSUME NEW r \in Requests, NEW whole \in BOOLEAN, ShadowDispatch(r, whole)
       PROVE SlotInv'
  BY <1>14 DEF ShadowDispatch
<1>15. ASSUME NEW r \in Requests, ShadowEnds(r) PROVE SlotInv'
  BY <1>15 DEF ShadowEnds
<1>16. ASSUME NEW r \in Requests, NEW gone \in BOOLEAN, RequestLeaves(r, gone)
       PROVE SlotInv'
  BY <1>16 DEF RequestLeaves, ShadowsCancelled
<1>17. ASSUME NEW r \in Requests, RequestJoined(r) PROVE SlotInv'
  BY <1>17 DEF RequestJoined
<1>18. ASSUME NEW r \in Requests, NEW fate \in OnItsWay \union Fates, PairEnds(r, fate)
       PROVE SlotInv'
  <2>0. /\ r \in slots => Cardinality(slots \ {r}) = Cardinality(slots) - 1
        /\ r \notin slots => slots \ {r} = slots
        /\ r \in slots => Cardinality(slots) > 0
        /\ Cardinality(slots) \in Nat
    BY SlotCounted, SlotsFinite
  <2>1. slots' = slots \ {r} /\ shadowSlots' = IF r \in slots THEN shadowSlots - 1 ELSE shadowSlots
    BY <1>18 DEF PairEnds, CountAfter
  <2>2. MaxShadows \in Nat /\ shadowSlots \in Nat /\ shadowSlots <= MaxShadows
        /\ shadowSlots = Cardinality(slots)
    BY RuntimeAssumption
  <2>3. shadowSlots' = Cardinality(slots') /\ shadowSlots' <= MaxShadows
    <3>1. CASE r \in slots
      BY <2>0, <2>1, <2>2, <3>1
    <3>2. CASE r \notin slots
      BY <2>0, <2>1, <2>2, <3>2
    <3> QED
      BY <3>1, <3>2
  <2> QED
    BY <1>18, <2>1, <2>3 DEF PairEnds
<1>19. ASSUME NEW r \in Requests, NEW fate \in OnItsWay \union Fates, CompareEnds(r, fate)
       PROVE SlotInv'
  BY <1>19 DEF CompareEnds
<1>20. ASSUME NEW r \in Requests, NEW fate \in OnItsWay \union Fates, CollectEnds(r, fate)
       PROVE SlotInv'
  BY <1>20 DEF CollectEnds
<1>21. ASSUME NEW c \in Callers, Flush(c) PROVE SlotInv'
  BY <1>21 DEF Flush
<1>22. ASSUME NEW c \in Callers, FlushNext(c) PROVE SlotInv'
  BY <1>22 DEF FlushNext, PairsFlushed
<1>23. ASSUME NEW c \in Callers, FlushCancelled(c) PROVE SlotInv'
  BY <1>23 DEF FlushCancelled, ShadowsCancelled
<1>24. CASE UNCHANGED vars
  BY <1>24 DEF vars
<1> QED
  BY <1>1, <1>2, <1>3, <1>4, <1>5, <1>6, <1>7, <1>8, <1>9, <1>10, <1>11, <1>12, <1>13,
     <1>14, <1>15, <1>16, <1>17, <1>18, <1>19, <1>20, <1>21, <1>22, <1>23, <1>24
  DEF Next, CloseStep, RequestStep, EvidenceStep

(* Pairs: each is registered when its request leaves _active.               *)
LEMMA NextPair == TypeOK /\ PairInv /\ [Next]_vars => PairInv'
<1> SUFFICES ASSUME TypeOK /\ PairInv, [Next]_vars PROVE PairInv'
  OBVIOUS
<1> USE DEF TypeOK, PairInv, requestVars, closeVars, stageVars, flushVars, FlushUnchanged
<1>1. CASE Start
  BY <1>1 DEF Start
<1>2. CASE Close
  BY <1>2 DEF Close
<1>3. CASE Deadline
  BY <1>3 DEF Deadline
<1>4. CASE MaintenanceClosed
  BY <1>4 DEF MaintenanceClosed
<1>5. CASE CancelActive
  BY <1>5 DEF CancelActive, ShadowsCancelled
<1>6. CASE ActiveDrained
  BY <1>6 DEF ActiveDrained, PairsToDrain
<1>7. CASE CancelPairs
  BY <1>7 DEF CancelPairs, ShadowsCancelled
<1>8. CASE PairsDrained
  BY <1>8 DEF PairsDrained
<1>9. CASE ComparisonClosed
  BY <1>9 DEF ComparisonClosed, ComparisonMayClose
<1>10. CASE CollectorClosed
  BY <1>10, GiveUp DEF CollectorClosed
<1>11. CASE TransportsClosed
  BY <1>11 DEF TransportsClosed
<1>12. ASSUME NEW inTime \in BOOLEAN, StoreClosed(inTime) PROVE PairInv'
  BY <1>12 DEF StoreClosed
<1>13. ASSUME NEW r \in Requests, NEW inSample \in BOOLEAN, Arrive(r, inSample)
       PROVE PairInv'
  BY <1>13 DEF Arrive, Admits, SlotFree
<1>14. ASSUME NEW r \in Requests, NEW whole \in BOOLEAN, ShadowDispatch(r, whole)
       PROVE PairInv'
  BY <1>14 DEF ShadowDispatch
<1>15. ASSUME NEW r \in Requests, ShadowEnds(r) PROVE PairInv'
  BY <1>15 DEF ShadowEnds
<1>16. ASSUME NEW r \in Requests, NEW gone \in BOOLEAN, RequestLeaves(r, gone)
       PROVE PairInv'
  BY <1>16 DEF RequestLeaves, ShadowsCancelled
<1>17. ASSUME NEW r \in Requests, RequestJoined(r) PROVE PairInv'
  BY <1>17 DEF RequestJoined
<1>18. ASSUME NEW r \in Requests, NEW fate \in OnItsWay \union Fates, PairEnds(r, fate)
       PROVE PairInv'
  BY <1>18 DEF PairEnds, CountAfter, Submitted
<1>19. ASSUME NEW r \in Requests, NEW fate \in OnItsWay \union Fates, CompareEnds(r, fate)
       PROVE PairInv'
  BY <1>19 DEF CompareEnds
<1>20. ASSUME NEW r \in Requests, NEW fate \in OnItsWay \union Fates, CollectEnds(r, fate)
       PROVE PairInv'
  BY <1>20 DEF CollectEnds
<1>21. ASSUME NEW c \in Callers, Flush(c) PROVE PairInv'
  BY <1>21 DEF Flush
<1>22. ASSUME NEW c \in Callers, FlushNext(c) PROVE PairInv'
  BY <1>22 DEF FlushNext, PairsFlushed
<1>23. ASSUME NEW c \in Callers, FlushCancelled(c) PROVE PairInv'
  BY <1>23 DEF FlushCancelled, ShadowsCancelled
<1>24. CASE UNCHANGED vars
  BY <1>24 DEF vars
<1> QED
  BY <1>1, <1>2, <1>3, <1>4, <1>5, <1>6, <1>7, <1>8, <1>9, <1>10, <1>11, <1>12, <1>13,
     <1>14, <1>15, <1>16, <1>17, <1>18, <1>19, <1>20, <1>21, <1>22, <1>23, <1>24
  DEF Next, CloseStep, RequestStep, EvidenceStep

(* close(): what it waits for can only become less.                         *)
LEMMA NextClose == TypeOK /\ PairInv /\ CloseInv /\ [Next]_vars => CloseInv'
<1> SUFFICES ASSUME TypeOK /\ PairInv /\ CloseInv, [Next]_vars PROVE CloseInv'
  OBVIOUS
<1> USE DEF TypeOK, PairInv, CloseInv, AfterPairs, Closing, Draining, Active, Pairs,
            requestVars, closeVars, stageVars, flushVars, FlushUnchanged
<1>1. CASE Start
  BY <1>1 DEF Start
<1>2. CASE Close
  BY <1>2 DEF Close
<1>3. CASE Deadline
  BY <1>3 DEF Deadline
<1>4. CASE MaintenanceClosed
  BY <1>4 DEF MaintenanceClosed
<1>5. CASE CancelActive
  BY <1>5 DEF CancelActive, ShadowsCancelled
<1>6. CASE ActiveDrained
  BY <1>6 DEF ActiveDrained, PairsToDrain
<1>7. CASE CancelPairs
  BY <1>7 DEF CancelPairs, ShadowsCancelled
<1>8. CASE PairsDrained
  BY <1>8 DEF PairsDrained
<1>9. CASE ComparisonClosed
  BY <1>9 DEF ComparisonClosed, ComparisonMayClose
<1>10. CASE CollectorClosed
  BY <1>10 DEF CollectorClosed
<1>11. CASE TransportsClosed
  BY <1>11 DEF TransportsClosed
<1>12. ASSUME NEW inTime \in BOOLEAN, StoreClosed(inTime) PROVE CloseInv'
  BY <1>12 DEF StoreClosed
<1>13. ASSUME NEW r \in Requests, NEW inSample \in BOOLEAN, Arrive(r, inSample)
       PROVE CloseInv'
  BY <1>13 DEF Arrive, Admits, SlotFree
<1>14. ASSUME NEW r \in Requests, NEW whole \in BOOLEAN, ShadowDispatch(r, whole)
       PROVE CloseInv'
  BY <1>14 DEF ShadowDispatch
<1>15. ASSUME NEW r \in Requests, ShadowEnds(r) PROVE CloseInv'
  BY <1>15 DEF ShadowEnds
<1>16. ASSUME NEW r \in Requests, NEW gone \in BOOLEAN, RequestLeaves(r, gone)
       PROVE CloseInv'
  BY <1>16 DEF RequestLeaves, ShadowsCancelled
<1>17. ASSUME NEW r \in Requests, RequestJoined(r) PROVE CloseInv'
  BY <1>17 DEF RequestJoined
<1>18. ASSUME NEW r \in Requests, NEW fate \in OnItsWay \union Fates, PairEnds(r, fate)
       PROVE CloseInv'
  BY <1>18 DEF PairEnds, CountAfter, Submitted
<1>19. ASSUME NEW r \in Requests, NEW fate \in OnItsWay \union Fates, CompareEnds(r, fate)
       PROVE CloseInv'
  BY <1>19 DEF CompareEnds
<1>20. ASSUME NEW r \in Requests, NEW fate \in OnItsWay \union Fates, CollectEnds(r, fate)
       PROVE CloseInv'
  BY <1>20 DEF CollectEnds
<1>21. ASSUME NEW c \in Callers, Flush(c) PROVE CloseInv'
  BY <1>21 DEF Flush
<1>22. ASSUME NEW c \in Callers, FlushNext(c) PROVE CloseInv'
  BY <1>22 DEF FlushNext, PairsFlushed
<1>23. ASSUME NEW c \in Callers, FlushCancelled(c) PROVE CloseInv'
  BY <1>23 DEF FlushCancelled, ShadowsCancelled
<1>24. CASE UNCHANGED vars
  BY <1>24 DEF vars
<1> QED
  BY <1>1, <1>2, <1>3, <1>4, <1>5, <1>6, <1>7, <1>8, <1>9, <1>10, <1>11, <1>12, <1>13,
     <1>14, <1>15, <1>16, <1>17, <1>18, <1>19, <1>20, <1>21, <1>22, <1>23, <1>24
  DEF Next, CloseStep, RequestStep, EvidenceStep

(* Stages: a closed one is empty, and nobody is left to submit to it.       *)
LEMMA NextStage == TypeOK /\ PairInv /\ CloseInv /\ StageInv /\ [Next]_vars => StageInv'
<1> SUFFICES ASSUME TypeOK /\ PairInv /\ CloseInv /\ StageInv, [Next]_vars PROVE StageInv'
  OBVIOUS
<1> USE DEF TypeOK, PairInv, CloseInv, StageInv, AfterPairs, Emptied, Closing, Draining,
            Active, Pairs, Going, OnItsWay, Fates, requestVars, closeVars, stageVars,
            flushVars, FlushUnchanged
<1>1. CASE Start
  BY <1>1 DEF Start
<1>2. CASE Close
  BY <1>2 DEF Close
<1>3. CASE Deadline
  BY <1>3 DEF Deadline
<1>4. CASE MaintenanceClosed
  BY <1>4 DEF MaintenanceClosed
<1>5. CASE CancelActive
  BY <1>5 DEF CancelActive, ShadowsCancelled
<1>6. CASE ActiveDrained
  BY <1>6 DEF ActiveDrained, PairsToDrain
<1>7. CASE CancelPairs
  BY <1>7 DEF CancelPairs, ShadowsCancelled
<1>8. CASE PairsDrained
  BY <1>8 DEF PairsDrained
<1>9. CASE ComparisonClosed
  BY <1>9 DEF ComparisonClosed, ComparisonMayClose
<1>10. CASE CollectorClosed
  BY <1>10, GiveUp DEF CollectorClosed
<1>11. CASE TransportsClosed
  BY <1>11 DEF TransportsClosed
<1>12. ASSUME NEW inTime \in BOOLEAN, StoreClosed(inTime) PROVE StageInv'
  BY <1>12 DEF StoreClosed
<1>13. ASSUME NEW r \in Requests, NEW inSample \in BOOLEAN, Arrive(r, inSample)
       PROVE StageInv'
  BY <1>13 DEF Arrive, Admits, SlotFree
<1>14. ASSUME NEW r \in Requests, NEW whole \in BOOLEAN, ShadowDispatch(r, whole)
       PROVE StageInv'
  BY <1>14 DEF ShadowDispatch
<1>15. ASSUME NEW r \in Requests, ShadowEnds(r) PROVE StageInv'
  BY <1>15 DEF ShadowEnds
<1>16. ASSUME NEW r \in Requests, NEW gone \in BOOLEAN, RequestLeaves(r, gone)
       PROVE StageInv'
  BY <1>16 DEF RequestLeaves, ShadowsCancelled
<1>17. ASSUME NEW r \in Requests, RequestJoined(r) PROVE StageInv'
  BY <1>17 DEF RequestJoined
<1>18. ASSUME NEW r \in Requests, NEW fate \in OnItsWay \union Fates, PairEnds(r, fate)
       PROVE StageInv'
  BY <1>18 DEF PairEnds, CountAfter, Submitted
<1>19. ASSUME NEW r \in Requests, NEW fate \in OnItsWay \union Fates, CompareEnds(r, fate)
       PROVE StageInv'
  BY <1>19 DEF CompareEnds
<1>20. ASSUME NEW r \in Requests, NEW fate \in OnItsWay \union Fates, CollectEnds(r, fate)
       PROVE StageInv'
  BY <1>20 DEF CollectEnds
<1>21. ASSUME NEW c \in Callers, Flush(c) PROVE StageInv'
  BY <1>21 DEF Flush
<1>22. ASSUME NEW c \in Callers, FlushNext(c) PROVE StageInv'
  BY <1>22 DEF FlushNext, PairsFlushed
<1>23. ASSUME NEW c \in Callers, FlushCancelled(c) PROVE StageInv'
  BY <1>23 DEF FlushCancelled, ShadowsCancelled
<1>24. CASE UNCHANGED vars
  BY <1>24 DEF vars
<1> QED
  BY <1>1, <1>2, <1>3, <1>4, <1>5, <1>6, <1>7, <1>8, <1>9, <1>10, <1>11, <1>12, <1>13,
     <1>14, <1>15, <1>16, <1>17, <1>18, <1>19, <1>20, <1>21, <1>22, <1>23, <1>24
  DEF Next, CloseStep, RequestStep, EvidenceStep

(* flush(): what it covers is ahead of it or settled.                       *)
LEMMA NextFlush == TypeOK /\ PairInv /\ StageInv /\ FlushInv /\ [Next]_vars => FlushInv'
<1> SUFFICES ASSUME TypeOK /\ PairInv /\ StageInv /\ FlushInv, [Next]_vars PROVE FlushInv'
  OBVIOUS
<1> USE DEF TypeOK, PairInv, FlushInv, Pairs, Going, requestVars, closeVars, stageVars,
            flushVars, FlushUnchanged
<1>1. CASE Start
  BY <1>1 DEF Start
<1>2. CASE Close
  BY <1>2 DEF Close
<1>3. CASE Deadline
  BY <1>3 DEF Deadline
<1>4. CASE MaintenanceClosed
  BY <1>4 DEF MaintenanceClosed
<1>5. CASE CancelActive
  BY <1>5 DEF CancelActive, ShadowsCancelled
<1>6. CASE ActiveDrained
  BY <1>6 DEF ActiveDrained, PairsToDrain
<1>7. CASE CancelPairs
  BY <1>7 DEF CancelPairs, ShadowsCancelled
<1>8. CASE PairsDrained
  BY <1>8 DEF PairsDrained
<1>9. CASE ComparisonClosed
  BY <1>9 DEF ComparisonClosed, ComparisonMayClose
<1>10. CASE CollectorClosed
  BY <1>10, GiveUp DEF CollectorClosed
<1>11. CASE TransportsClosed
  BY <1>11 DEF TransportsClosed
<1>12. ASSUME NEW inTime \in BOOLEAN, StoreClosed(inTime) PROVE FlushInv'
  BY <1>12 DEF StoreClosed
<1>13. ASSUME NEW r \in Requests, NEW inSample \in BOOLEAN, Arrive(r, inSample)
       PROVE FlushInv'
  BY <1>13 DEF Arrive, Admits, SlotFree
<1>14. ASSUME NEW r \in Requests, NEW whole \in BOOLEAN, ShadowDispatch(r, whole)
       PROVE FlushInv'
  BY <1>14 DEF ShadowDispatch
<1>15. ASSUME NEW r \in Requests, ShadowEnds(r) PROVE FlushInv'
  BY <1>15 DEF ShadowEnds
<1>16. ASSUME NEW r \in Requests, NEW gone \in BOOLEAN, RequestLeaves(r, gone)
       PROVE FlushInv'
  BY <1>16 DEF RequestLeaves, ShadowsCancelled
<1>17. ASSUME NEW r \in Requests, RequestJoined(r) PROVE FlushInv'
  BY <1>17 DEF RequestJoined
<1>18. ASSUME NEW r \in Requests, NEW fate \in OnItsWay \union Fates, PairEnds(r, fate)
       PROVE FlushInv'
  BY <1>18 DEF PairEnds, CountAfter, Submitted
<1>19. ASSUME NEW r \in Requests, NEW fate \in OnItsWay \union Fates, CompareEnds(r, fate)
       PROVE FlushInv'
  BY <1>19 DEF CompareEnds
<1>20. ASSUME NEW r \in Requests, NEW fate \in OnItsWay \union Fates, CollectEnds(r, fate)
       PROVE FlushInv'
  BY <1>20 DEF CollectEnds
<1>21. ASSUME NEW c \in Callers, Flush(c) PROVE FlushInv'
  BY <1>21 DEF Flush
<1>22. ASSUME NEW c \in Callers, FlushNext(c) PROVE FlushInv'
  BY <1>22 DEF FlushNext, PairsFlushed
<1>23. ASSUME NEW c \in Callers, FlushCancelled(c) PROVE FlushInv'
  BY <1>23 DEF FlushCancelled, ShadowsCancelled
<1>24. CASE UNCHANGED vars
  BY <1>24 DEF vars
<1> QED
  BY <1>1, <1>2, <1>3, <1>4, <1>5, <1>6, <1>7, <1>8, <1>9, <1>10, <1>11, <1>12, <1>13,
     <1>14, <1>15, <1>16, <1>17, <1>18, <1>19, <1>20, <1>21, <1>22, <1>23, <1>24
  DEF Next, CloseStep, RequestStep, EvidenceStep

-----------------------------------------------------------------------------
(* What the runs check follows from the invariant.                          *)
LEMMA InitInv == Init => IInv
<1> SUFFICES ASSUME Init PROVE IInv
  OBVIOUS
<1>1. TypeOK
  BY DEF Init, TypeOK
<1>2. SlotInv
  BY RuntimeAssumption, FS_EmptySet DEF Init, SlotInv, ShadowSlotsAccounted
<1>3. PairInv /\ CloseInv /\ StageInv /\ FlushInv
  BY DEF Init, PairInv, CloseInv, StageInv, FlushInv, Closing, Draining, AfterPairs,
     Emptied, Going
<1> QED
  BY <1>1, <1>2, <1>3 DEF IInv

(* The invariant holds always.                                              *)
LEMMA Invariance == Spec => []IInv
<1>1. IInv /\ [Next]_vars => IInv'
  BY NextType, NextSlot, NextPair, NextClose, NextStage, NextFlush DEF IInv
<1> QED
  BY InitInv, <1>1, PTL DEF Spec

-----------------------------------------------------------------------------
(* Every variable keeps its type, for any number of requests and callers.   *)
THEOREM TypeCorrect == Spec => []TypeOK
<1>1. IInv => TypeOK
  BY DEF IInv
<1> QED
  BY <1>1, Invariance, PTL

(* The shadow slots are counted exactly and within the limit, and held only *)
(* by requests that are active or whose pair is open (_shadow_slots).       *)
THEOREM SlotsAreAccounted == Spec => []ShadowSlotsAccounted
<1>1. IInv => ShadowSlotsAccounted
  BY DEF IInv, SlotInv
<1> QED
  BY <1>1, Invariance, PTL

(* _close() empties each stage before it closes the next one, refuses no    *)
(* evidence, and gives evidence up only after its deadline.                 *)
THEOREM CloseIsOrderly == Spec => []CloseDrainsInOrder
<1>1. ASSUME IInv PROVE DrainedBeforeComparison
  <2>1. started /\ closeAt \in AfterPairs => Active = {} /\ Pairs = {}
    BY <1>1 DEF IInv, CloseInv
  <2>2. Active = {} /\ Pairs = {} =>
          slots = {} /\ \A r \in Requests : shadow[r] \in {"none", "over"}
    BY <1>1 DEF IInv, TypeOK, SlotInv, ShadowSlotsAccounted, Active, Pairs
  <2> QED
    BY <2>1, <2>2 DEF DrainedBeforeComparison, AfterPairs
<1>2. ASSUME IInv PROVE CloseAccountsForAll
  BY <1>2 DEF IInv, TypeOK, PairInv, StageInv, CloseAccountsForAll, Emptied, Going
<1>3. IInv => CloseDrainsInOrder
  BY <1>1, <1>2 DEF CloseDrainsInOrder
<1> QED
  BY <1>3, Invariance, PTL

(* When flush() returns, the evidence of every pair that was registered when*)
(* it was called is counted.                                                *)
THEOREM FlushSettles == Spec => []FlushSettlesPairs
<1>1. ASSUME IInv PROVE FlushSettlesPairs
  BY <1>1 DEF IInv, TypeOK, PairInv, FlushInv, FlushSettlesPairs, OnItsWay
<1> QED
  BY <1>1, Invariance, PTL
=============================================================================
