--------------------------- MODULE RolloutProofs ---------------------------
(***************************************************************************)
(* What a rollout is steered by: the counts of a cohort (module Coverage),   *)
(* and the configurations, decisions and metrics of a fleet (module Fleet),  *)
(* for any finite sets of requests and of workers.                           *)
(*                                                                         *)
(* A count is the cardinality of a set of observations, and the orderings    *)
(* and ratios follow from inclusions between those sets.  The inclusions     *)
(* hold because every observation passes its steps in order (InOrder), the   *)
(* rest because a finished observation has no loose end (NoLooseEnd).        *)
(*                                                                         *)
(* In a fleet, snapshots are prepared in the order of their revisions        *)
(* (MadeInOrder), so what a process used is a chain without a cycle (Chains),*)
(* and the desired revision, which nothing is based on yet, can only be its  *)
(* end; and a merge is a sum over the workers, so it is compared with        *)
(* another worker by worker (Books).                                         *)
(***************************************************************************)
EXTENDS Coverage, Fleet, FiniteSetTheorems, WellFoundedInduction, TLAPS

(* Every observation passes its steps in order, and has the verdict that    *)
(* its steps allow.                                                         *)
InOrder ==
  \A o \in Observations :
    /\ "S" \in seen[o] => "E" \in seen[o]
    /\ "D" \in seen[o] => "S" \in seen[o]
    /\ "T" \in seen[o] => "D" \in seen[o]
    /\ "C" \in seen[o] => "T" \in seen[o]
    /\ "W" \in seen[o] => "S" \in seen[o] /\ result[o] # "none"
    /\ "C" \in seen[o] <=> result[o] \in Comparable

(* An observation that is not registered has no step; a finished one has    *)
(* those that its end requires.                                             *)
NoLooseEnd ==
  \A o \in Observations :
    /\ life[o] = "new" => seen[o] = {}
    /\ life[o] \in {"settled", "dropped"} => ("D" \in seen[o] => "T" \in seen[o])
    /\ life[o] = "settled" => ("S" \in seen[o] => "W" \in seen[o])
    /\ complete => life[o] # "unknown"

Open == {o \in Observations : life[o] = "open"}

CohortInv ==
  /\ TypeOK
  /\ CountedOnce
  /\ InOrder
  /\ NoLooseEnd
  /\ pending = Cardinality(Open)
  /\ closed => pending = 0

-----------------------------------------------------------------------------
(* What a count stands for, without its CASE.                               *)
LEMMA BehindStep ==
  ASSUME NEW s \in Steps
  PROVE  Behind(s) = {o \in Observations : s \in seen[o]}
BY DEF Behind, Steps

(* The two verdicts of a comparison are each behind one step.               *)
LEMMA BehindVerdict ==
  /\ Behind("M") = {o \in Observations : result[o] = "matched"}
  /\ Behind("X") = {o \in Observations : result[o] = "different"}
BY DEF Behind

(* Sets of observations are finite.                                         *)
LEMMA FiniteObservations ==
  ASSUME NEW S \in SUBSET Observations
  PROVE  IsFiniteSet(S) /\ Cardinality(S) \in Nat
<1>1. IsFiniteSet(S)
  BY ObservationsAssumption, FS_Subset
<1> QED
  BY <1>1, FS_CardinalityType

(* One more observation is one more in the count.                           *)
LEMMA OneMore ==
  ASSUME NEW S \in SUBSET Observations, NEW o \in Observations, o \notin S
  PROVE  Cardinality(S \union {o}) = Cardinality(S) + 1
BY FiniteObservations, FS_AddElement

(* A set without one of its observations has one less.                      *)
LEMMA OneLess ==
  ASSUME NEW S \in SUBSET Observations, NEW o \in S
  PROVE  Cardinality(S \ {o}) = Cardinality(S) - 1
BY FiniteObservations, FS_RemoveElement

(* A set within another has no more elements.                               *)
LEMMA FewerWithin ==
  ASSUME NEW S \in SUBSET Observations, NEW T \in SUBSET S
  PROVE  Cardinality(T) <= Cardinality(S)
BY FiniteObservations, FS_Subset

-----------------------------------------------------------------------------
(* The initial state.                                                       *)
LEMMA CohortInitHolds == CohortInit => CohortInv
<1> SUFFICES ASSUME CohortInit PROVE CohortInv
  OBVIOUS
<1>1. TypeOK
  BY DEF CohortInit, TypeOK, Counted, Steps, Results, Comparable, Finished
<1>2. \A s \in Counted : Behind(s) = {}
  BY DEF CohortInit, Behind, Counted, Steps
<1>3. CountedOnce
  BY <1>2, FS_EmptySet DEF CountedOnce, CohortInit
<1>4. InOrder /\ NoLooseEnd
  BY DEF CohortInit, InOrder, NoLooseEnd, Comparable
<1>5. Open = {}
  BY DEF CohortInit, Open
<1>6. pending = Cardinality(Open) /\ (closed => pending = 0)
  BY <1>5, FS_EmptySet DEF CohortInit
<1> QED
  BY <1>1, <1>3, <1>4, <1>6 DEF CohortInv

-----------------------------------------------------------------------------
(* Steps that leave the observations' steps and verdicts alone keep the     *)
(* counts exact, steps that leave their lives alone keep pending.           *)
LEMMA CountsKept ==
  ASSUME CohortInv, UNCHANGED <<seen, result, counts>>
  PROVE  CountedOnce' /\ InOrder'
<1>1. \A s \in Counted : Behind(s)' = Behind(s)
  BY DEF Behind
<1>2. CountedOnce'
  BY <1>1 DEF CohortInv, CountedOnce
<1>3. InOrder'
  BY DEF CohortInv, InOrder
<1> QED
  BY <1>2, <1>3

(* The counter of the open observations is right if nothing opens or ends.  *)
LEMMA PendingKept ==
  ASSUME CohortInv, UNCHANGED <<life, pending>>
  PROVE  (pending = Cardinality(Open))'
<1>1. Open' = Open
  BY DEF Open
<1> QED
  BY <1>1 DEF CohortInv

(* begin().                                                                 *)
LEMMA BeginKeeps ==
  ASSUME CohortInv, NEW o \in Observations, Begin(o)
  PROVE  CohortInv'
<1> USE DEF Begin, MayBegin
<1>1. TypeOK'
  BY DEF CohortInv, TypeOK
<1>2. CountedOnce' /\ InOrder'
  BY CountsKept
<1>3. NoLooseEnd'
  BY DEF CohortInv, NoLooseEnd, TypeOK
<1>4. Open' = Open \union {o} /\ o \notin Open /\ Open \in SUBSET Observations
  BY DEF Open, CohortInv, TypeOK
<1>5. (pending = Cardinality(Open))'
  BY <1>4, OneMore DEF CohortInv
<1>6. (closed => pending = 0)'
  OBVIOUS
<1> QED
  BY <1>1, <1>2, <1>3, <1>5, <1>6 DEF CohortInv

(* The calls that advance an observation by a step other than C.            *)
LEMMA AdvanceKeeps ==
  ASSUME CohortInv, NEW o \in Observations,
         NEW s \in Steps \ {"C"}, NEW before \in SUBSET Steps,
         Advance(o, s, before),
         s = "S" => "E" \in before,
         s = "D" => "S" \in before,
         s = "T" => "D" \in before,
         s = "W" => "S" \in before /\ result[o] # "none"
  PROVE  CohortInv'
<1> USE DEF Advance, MayAdvance
<1>1. TypeOK'
  <2>1. seen' \in [Observations -> SUBSET Steps]
    BY DEF CohortInv, TypeOK
  <2>2. counts' \in [Counted -> Nat]
    BY DEF CohortInv, TypeOK, Counted
  <2> QED
    BY <2>1, <2>2 DEF CohortInv, TypeOK
<1>2. InOrder'
  BY DEF CohortInv, InOrder, TypeOK, Steps
<1>3. NoLooseEnd'
  BY DEF CohortInv, NoLooseEnd, TypeOK
<1>4. (pending = Cardinality(Open))' /\ (closed => pending = 0)'
  BY PendingKept DEF CohortInv
<1>5. ASSUME NEW t \in Counted
      PROVE  counts'[t] = Cardinality(Behind(t)')
  <2>1. CASE t = s
    <3>1. Behind(t) = {x \in Observations : t \in seen[x]}
      BY <2>1, BehindStep
    <3>2. Behind(t)' = {x \in Observations : t \in seen'[x]}
      BY <2>1 DEF Behind, Steps
    <3>3. Behind(t)' = Behind(t) \union {o} /\ o \notin Behind(t)
      BY <2>1, <3>1, <3>2 DEF CohortInv, TypeOK
    <3>4. Cardinality(Behind(t)') = Cardinality(Behind(t)) + 1
      BY <3>1, <3>3, OneMore
    <3> QED
      BY <2>1, <3>4 DEF CohortInv, CountedOnce, TypeOK, Counted
  <2>2. CASE t # s
    <3>1. Behind(t)' = Behind(t)
      BY <2>2 DEF Behind, CohortInv, TypeOK
    <3> QED
      BY <2>2, <3>1 DEF CohortInv, CountedOnce, TypeOK
  <2> QED
    BY <2>1, <2>2
<1>6. CountedOnce'
  BY <1>5 DEF CountedOnce
<1> QED
  BY <1>1, <1>2, <1>3, <1>4, <1>6 DEF CohortInv

(* compared().                                                              *)
LEMMA ComparedKeeps ==
  ASSUME CohortInv, NEW o \in Observations, NEW r \in Results, Compared(o, r)
  PROVE  CohortInv'
<1> USE DEF Compared, MayCompare
<1>1. TypeOK'
  <2>1. seen' \in [Observations -> SUBSET Steps]
    BY DEF CohortInv, TypeOK, Steps
  <2>2. counts' \in [Counted -> Nat]
    BY DEF CohortInv, TypeOK, CountsAfter
  <2>3. result' \in [Observations -> Results \union {"none"}]
    BY DEF CohortInv, TypeOK
  <2> QED
    BY <2>1, <2>2, <2>3 DEF CohortInv, TypeOK
<1>2. InOrder'
  BY DEF CohortInv, InOrder, TypeOK, Comparable, Results
<1>3. NoLooseEnd'
  BY DEF CohortInv, NoLooseEnd, TypeOK
<1>4. (pending = Cardinality(Open))' /\ (closed => pending = 0)'
  BY PendingKept DEF CohortInv
<1>5. ASSUME NEW t \in Counted
      PROVE  counts'[t] = Cardinality(Behind(t)')
  <2>0. /\ o \notin Behind("C") /\ o \notin Behind("M") /\ o \notin Behind("X")
        /\ \A u \in Counted : Behind(u) \in SUBSET Observations
    BY BehindVerdict, BehindStep DEF CohortInv, InOrder, Comparable, Steps, Behind
  <2>1. CASE /\ t \in {"C", "M", "X"}
             /\ counts'[t] = counts[t] + 1
    <3>1. Behind(t)' = Behind(t) \union {o}
      BY <2>1 DEF Behind, CohortInv, TypeOK, CountsAfter, Comparable, Steps
    <3>2. Cardinality(Behind(t)') = Cardinality(Behind(t)) + 1
      BY <2>0, <2>1, <3>1, OneMore
    <3> QED
      BY <2>1, <3>2 DEF CohortInv, CountedOnce
  <2>2. CASE ~(t \in {"C", "M", "X"} /\ counts'[t] = counts[t] + 1)
    <3>1. counts'[t] = counts[t]
      BY <2>2 DEF CohortInv, TypeOK, CountsAfter, Counted, Steps
    <3>2. Behind(t)' = Behind(t)
      BY <2>2 DEF Behind, CohortInv, TypeOK, CountsAfter, Counted, Steps, Comparable, Results
    <3> QED
      BY <3>1, <3>2 DEF CohortInv, CountedOnce
  <2> QED
    BY <2>1, <2>2
<1>6. CountedOnce'
  BY <1>5 DEF CountedOnce
<1> QED
  BY <1>1, <1>2, <1>3, <1>4, <1>6 DEF CohortInv

(* finish().                                                                *)
LEMMA FinishKeeps ==
  ASSUME CohortInv, NEW o \in Observations, NEW how \in Finished, Finish(o, how)
  PROVE  CohortInv'
<1> USE DEF Finish, MayFinish
<1>1. Open' = Open \ {o} /\ o \in Open /\ Open \in SUBSET Observations
  BY DEF Open, CohortInv, TypeOK, Finished
<1>2. Cardinality(Open') = Cardinality(Open) - 1
  BY <1>1, OneLess
<1>3. Cardinality(Open') \in Nat
  BY <1>1, FiniteObservations
<1>4. (pending = Cardinality(Open))' /\ pending' \in Nat
  BY <1>2, <1>3 DEF CohortInv
<1>5. TypeOK'
  BY <1>4 DEF CohortInv, TypeOK
<1>6. CountedOnce' /\ InOrder'
  BY CountsKept
<1>7. NoLooseEnd'
  BY DEF CohortInv, NoLooseEnd, TypeOK, Finished
<1>8. (closed => pending = 0)'
  BY <1>2, <1>3 DEF CohortInv
<1> QED
  BY <1>4, <1>5, <1>6, <1>7, <1>8 DEF CohortInv

(* mark_unknown() and close().                                              *)
LEMMA WindowKeeps ==
  ASSUME CohortInv, MarkUnknown \/ Close
  PROVE  CohortInv'
<1> USE DEF MarkUnknown, Close
<1>1. TypeOK'
  BY DEF CohortInv, TypeOK
<1>2. CountedOnce' /\ InOrder'
  BY CountsKept
<1>3. NoLooseEnd'
  BY DEF CohortInv, NoLooseEnd
<1>4. (pending = Cardinality(Open))' /\ (closed => pending = 0)'
  BY PendingKept DEF CohortInv
<1> QED
  BY <1>1, <1>2, <1>3, <1>4 DEF CohortInv

(* Every step keeps the invariant.                                          *)
LEMMA CohortNextKeeps == CohortInv /\ [CohortNext]_cohortVars => CohortInv'
<1> SUFFICES ASSUME CohortInv, [CohortNext]_cohortVars PROVE CohortInv'
  OBVIOUS
<1>1. ASSUME NEW o \in Observations, Progress(o) PROVE CohortInv'
  <2>1. CASE Advance(o, "E", {})
    BY <2>1, AdvanceKeeps DEF Steps
  <2>2. CASE Advance(o, "S", {"E"})
    BY <2>2, AdvanceKeeps DEF Steps
  <2>3. CASE Advance(o, "D", {"S"})
    BY <2>3, AdvanceKeeps DEF Steps
  <2>4. CASE Advance(o, "T", {"D"})
    BY <2>4, AdvanceKeeps DEF Steps
  <2> QED
    BY <1>1, <2>1, <2>2, <2>3, <2>4 DEF Progress
<1>2. ASSUME NEW o \in Observations, Stored(o) PROVE CohortInv'
  BY <1>2, AdvanceKeeps DEF Stored, Steps
<1>3. CASE UNCHANGED cohortVars
  <2>1. CountedOnce' /\ InOrder' /\ (pending = Cardinality(Open))'
    BY <1>3, CountsKept, PendingKept DEF cohortVars
  <2> QED
    BY <1>3, <2>1 DEF cohortVars, CohortInv, TypeOK, NoLooseEnd
<1> QED
  BY <1>1, <1>2, <1>3, BeginKeeps, ComparedKeeps, FinishKeeps, WindowKeeps DEF CohortNext

(* The invariant holds always.                                              *)
LEMMA CohortInductive == CohortSpec => []CohortInv
BY CohortInitHolds, CohortNextKeeps, PTL DEF CohortSpec

-----------------------------------------------------------------------------
(* Every variable of the cohort has its type; in particular pending never   *)
(* falls below zero.                                                        *)
THEOREM TypeCorrect == CohortSpec => []TypeOK
<1>1. CohortInv => TypeOK
  BY DEF CohortInv
<1> QED
  BY <1>1, CohortInductive, PTL

(* However its calls interleave and repeat, a cohort counts every request   *)
(* once at every step it passed, and those that are not finished.           *)
THEOREM CountsExact == CohortSpec => []CountsAreExact
<1>1. CohortInv => CountsAreExact
  BY DEF CohortInv, CountsAreExact, Open
<1> QED
  BY <1>1, CohortInductive, PTL

(* The counts as cardinalities, with the inclusions between their sets.     *)
LEMMA CountsNest ==
  ASSUME CohortInv
  PROVE  /\ counts["E"] >= counts["S"] /\ counts["S"] >= counts["D"]
         /\ counts["D"] >= counts["T"] /\ counts["T"] >= counts["C"]
         /\ counts["S"] >= counts["W"]
         /\ counts["C"] = counts["M"] + counts["X"]
         /\ \A s \in Counted : counts[s] \in Nat
<1>1. \A s \in Counted : counts[s] = Cardinality(Behind(s)) /\ counts[s] \in Nat
  BY DEF CohortInv, CountedOnce, TypeOK
<1>2. \A s \in Counted : Behind(s) \in SUBSET Observations
  BY DEF Behind
<1>3. /\ Behind("S") \subseteq Behind("E") /\ Behind("D") \subseteq Behind("S")
      /\ Behind("T") \subseteq Behind("D") /\ Behind("C") \subseteq Behind("T")
      /\ Behind("W") \subseteq Behind("S")
  BY BehindStep DEF CohortInv, InOrder, Steps
<1>4. Behind("C") = Behind("M") \union Behind("X") /\ Behind("M") \intersect Behind("X") = {}
  BY BehindStep, BehindVerdict DEF CohortInv, InOrder, Steps, Comparable
<1>5. {"E", "S", "D", "T", "C", "W", "M", "X"} \subseteq Counted
  BY DEF Counted, Steps
<1>6. Cardinality(Behind("C")) = Cardinality(Behind("M")) + Cardinality(Behind("X"))
  <2>1. IsFiniteSet(Behind("M")) /\ IsFiniteSet(Behind("X"))
    BY <1>2, <1>5, FiniteObservations
  <2>2. Cardinality(Behind("M") \union Behind("X"))
          = Cardinality(Behind("M")) + Cardinality(Behind("X"))
              - Cardinality(Behind("M") \intersect Behind("X"))
    BY <2>1, FS_Union
  <2>3. /\ Cardinality(Behind("M")) \in Nat /\ Cardinality(Behind("X")) \in Nat
        /\ Cardinality({}) = 0
    BY <2>1, FS_CardinalityType, FS_EmptySet
  <2>4. Cardinality(Behind("C"))
          = Cardinality(Behind("M")) + Cardinality(Behind("X")) - Cardinality({})
    BY <1>4, <2>2, Zenon
  <2> QED
    BY <2>3, <2>4
<1>7. /\ Cardinality(Behind("S")) <= Cardinality(Behind("E"))
      /\ Cardinality(Behind("D")) <= Cardinality(Behind("S"))
      /\ Cardinality(Behind("T")) <= Cardinality(Behind("D"))
      /\ Cardinality(Behind("C")) <= Cardinality(Behind("T"))
      /\ Cardinality(Behind("W")) <= Cardinality(Behind("S"))
  BY <1>2, <1>3, <1>5, FewerWithin
<1> QED
  BY <1>1, <1>5, <1>6, <1>7

(* The relations the documentation gives between the counts hold at every   *)
(* moment, for any number of requests.                                      *)
THEOREM StepsNest == CohortSpec => []StepsAreNested
<1>1. CohortInv => StepsAreNested
  BY CountsNest DEF StepsAreNested, Counted, Steps
<1> QED
  BY <1>1, CohortInductive, PTL

(* report() can be called at any moment: none of its ratios raises.         *)
THEOREM ReportIsTotal == CohortSpec => []ReportNeverRaises
<1>1. ASSUME CohortInv PROVE ReportNeverRaises
  <2>1. \A s \in {"E", "S", "D", "C", "X", "W"} : counts[s] \in Nat
    BY <1>1, CountsNest DEF Counted, Steps
  <2>2. /\ counts["S"] <= counts["E"] /\ counts["D"] <= counts["S"]
        /\ counts["C"] <= counts["S"] /\ counts["C"] <= counts["E"]
        /\ counts["X"] <= counts["C"] /\ counts["W"] <= counts["S"]
    BY <1>1, CountsNest DEF Counted, Steps
  <2>3. ASSUME NEW p \in Ratios
        PROVE  RatioDefined(counts[p[1]], counts[p[2]])
    BY <2>1, <2>2 DEF Ratios, RatioDefined
  <2> QED
    BY <2>3 DEF ReportNeverRaises
<1> QED
  BY <1>1, CohortInductive, PTL

(* A closed cohort is final.                                                *)
THEOREM ClosedStaysFinal == CohortSpec => ClosedIsFinal
<1>1. ASSUME CohortInv, [CohortNext]_cohortVars, closed
      PROVE  UNCHANGED <<counts, pending>> /\ (complete' => complete)
  <2>1. \A o \in Observations : life[o] # "open"
    <3>1. Cardinality(Open) = 0 /\ Open \in SUBSET Observations
      BY <1>1 DEF CohortInv, Open
    <3>2. Open = {}
      BY <3>1, FiniteObservations, FS_EmptySet
    <3> QED
      BY <3>2 DEF Open
  <2>2. ASSUME NEW o \in Observations
        PROVE  ~(\/ Begin(o) \/ Progress(o) \/ Stored(o)
                 \/ \E r \in Results : Compared(o, r)
                 \/ \E how \in Finished : Finish(o, how))
    BY <1>1, <2>1 DEF Begin, MayBegin, Progress, Stored, Advance, MayAdvance, Compared,
       MayCompare, Finish, MayFinish
  <2>3. CASE MarkUnknown
    BY <2>3, Zenon DEF MarkUnknown
  <2>4. CASE UNCHANGED cohortVars
    BY <2>4, Zenon DEF cohortVars
  <2> QED
    BY <1>1, <2>2, <2>3, <2>4 DEF CohortNext, Close
<1>2. CohortInv /\ [CohortNext]_cohortVars
        => [closed => UNCHANGED <<counts, pending>> /\ (complete' => complete)]_cohortVars
  BY <1>1
<1> QED
  BY <1>2, CohortInductive, PTL DEF CohortSpec, ClosedIsFinal

(* A closed and complete cohort has no loose end.                           *)
THEOREM ClosedIsWhole == CohortSpec => []ClosedCompleteIsWhole
<1>1. ASSUME CohortInv, closed, complete, NEW o \in Observations
      PROVE  /\ "D" \in seen[o] => "T" \in seen[o]
             /\ "S" \in seen[o] => \/ "W" \in seen[o] /\ result[o] # "none"
                                   \/ life[o] = "dropped"
  <2>1. life[o] # "open"
    <3>1. Cardinality(Open) = 0 /\ Open \in SUBSET Observations
      BY <1>1 DEF CohortInv, Open
    <3>2. Open = {}
      BY <3>1, FiniteObservations, FS_EmptySet
    <3> QED
      BY <3>2 DEF Open
  <2> QED
    BY <1>1, <2>1 DEF CohortInv, TypeOK, NoLooseEnd, InOrder, Finished
<1>2. CohortInv => ClosedCompleteIsWhole
  BY <1>1 DEF ClosedCompleteIsWhole
<1> QED
  BY <1>2, CohortInductive, PTL

-----------------------------------------------------------------------------
(* Least elements, and sums over finite sets.                               *)

(* A family of subsets of a finite set has one that contains no other.      *)
LEMMA SmallestSet ==
  ASSUME NEW S, IsFiniteSet(S), NEW B \in SUBSET (SUBSET S), B # {}
  PROVE  \E a \in B : \A b \in B : b \subseteq a => b = a
<1>1. FiniteSubsetsOf(S) = SUBSET S
  BY FS_FiniteSubsetsOfFinite
<1>2. IsWellFoundedOn(StrictSubsetOrdering(S), SUBSET S)
  BY <1>1, FS_StrictSubsetOrderingWellFounded
<1>3. PICK a \in B : \A b \in B : ~ (<<b, a>> \in StrictSubsetOrdering(S))
  BY <1>2, WFMin
<1>4. ASSUME NEW b \in B, b \subseteq a, b # a PROVE FALSE
  <2>1. <<b, a>> \in StrictSubsetOrdering(S)
    BY <1>4 DEF StrictSubsetOrdering
  <2> QED
    BY <2>1, <1>3
<1> QED
  BY <1>4

(* A set of numbers has a least one.                                        *)
LEMMA LeastNumber ==
  ASSUME NEW B \in SUBSET Nat, B # {}
  PROVE  \E m \in B : \A n \in B : m <= n
<1>1. PICK b \in B : TRUE
  OBVIOUS
<1> DEFINE F == {s \in SUBSET (0..b) : \E n \in B : s = 0..n}
<1>2. IsFiniteSet(0..b)
  <2>1. b \in Int /\ 0 \in Int
    OBVIOUS
  <2> QED
    BY <2>1, FS_Interval
<1>3. 0..b \in F
  OBVIOUS
<1>4. PICK a \in F : \A c \in F : c \subseteq a => c = a
  <2>1. F \in SUBSET (SUBSET (0..b)) /\ F # {}
    BY <1>3
  <2> DEFINE I == 0..b
  <2>2. IsFiniteSet(I) /\ F \in SUBSET (SUBSET I) /\ F # {}
    BY <1>2, <2>1
  <2> HIDE DEF F, I
  <2> QED
    BY <2>2, SmallestSet
<1>5. PICK m \in B : a = 0..m
  BY <1>4
<1>6. m <= b
  <2>1. m \in 0..m /\ a \subseteq 0..b
    BY <1>4
  <2> QED
    BY <2>1, <1>5
<1>7. ASSUME NEW n \in B, ~(m <= n) PROVE FALSE
  <2>1. 0..n \in F /\ 0..n \subseteq a
    BY <1>7, <1>6, <1>5
  <2>2. 0..n = a
    BY <2>1, <1>4
  <2>3. m \in 0..m /\ m \notin 0..n
    BY <1>7
  <2> QED
    BY <2>2, <2>3, <1>5
<1> QED
  BY <1>7

(* g adds up h over the subsets of S as the folds of the community modules  *)
(* do: it takes any element, and then the rest.                             *)
Folds(g, h, S) ==
  g = [s \in SUBSET S |-> IF s = {} THEN 0
                          ELSE h[CHOOSE x \in s : TRUE] + g[s \ {CHOOSE x \in s : TRUE}]]

(* g adds up h over the subsets of S, in whatever order.                    *)
Adds(g, h, S) ==
  /\ g \in [SUBSET S -> Int] /\ g[{}] = 0
  /\ \A s \in SUBSET S : \A x \in s : g[s] = h[x] + g[s \ {x}]

(* There is such a fold.                                                    *)
LEMMA FoldExists ==
  ASSUME NEW S, IsFiniteSet(S), NEW h \in [S -> Int]
  PROVE  \E g \in [SUBSET S -> Int] : Folds(g, h, S)
<1> DEFINE Take(g, s) == IF s = {} THEN 0
                         ELSE h[CHOOSE x \in s : TRUE] + g[s \ {CHOOSE x \in s : TRUE}]
           UpTo(g, n) == \A s \in SUBSET S : Cardinality(s) <= n => g[s] = Take(g, s)
           B == {n \in Nat : ~ \E g \in [SUBSET S -> Int] : UpTo(g, n)}
<1>1. \A s \in SUBSET S : IsFiniteSet(s) /\ Cardinality(s) \in Nat
  BY FS_Subset, FS_CardinalityType
<1>2. \A s \in SUBSET S : Cardinality(s) = 0 <=> s = {}
  BY <1>1, FS_EmptySet
<1>3. \A s \in SUBSET S : \A x \in s : Cardinality(s \ {x}) = Cardinality(s) - 1
  BY <1>1, FS_RemoveElement
<1>4. ASSUME B # {} PROVE FALSE
  <2>1. PICK m \in B : \A n \in B : m <= n
    <3>1. B \in SUBSET Nat
      OBVIOUS
    <3> HIDE DEF B
    <3> QED
      BY <3>1, <1>4, LeastNumber
  <2>2. CASE m = 0
    <3> DEFINE g == [s \in SUBSET S |-> 0]
    <3>1. g \in [SUBSET S -> Int]
      OBVIOUS
    <3>2. UpTo(g, 0)
      BY <1>1, <1>2
    <3> QED
      BY <3>1, <3>2, <2>1, <2>2
  <2>3. CASE m # 0
    <3>1. m - 1 \in Nat /\ m - 1 \notin B /\ m \in Nat
      <4>1. B \in SUBSET Nat
        OBVIOUS
      <4> HIDE DEF B
      <4> QED
        BY <2>1, <2>3, <4>1
    <3>2. PICK g \in [SUBSET S -> Int] : UpTo(g, m - 1)
      BY <3>1
    <3> DEFINE k == [s \in SUBSET S |-> IF Cardinality(s) <= m - 1 THEN g[s] ELSE Take(g, s)]
    <3>3. ASSUME NEW s \in SUBSET S, s # {}
          PROVE  (CHOOSE x \in s : TRUE) \in s /\ s \ {CHOOSE x \in s : TRUE} \in SUBSET S
      BY <3>3
    <3>4. ASSUME NEW s \in SUBSET S PROVE Take(g, s) \in Int
      <4>1. CASE s = {}
        BY <4>1
      <4>2. CASE s # {}
        <5> DEFINE x == CHOOSE y \in s : TRUE
        <5>1. x \in S /\ s \ {x} \in SUBSET S
          BY <3>3, <4>2
        <5> HIDE DEF x
        <5>2. h[x] + g[s \ {x}] \in Int
          BY <5>1
        <5> USE DEF x
        <5> QED
          BY <5>2, <4>2
      <4> QED
        BY <4>1, <4>2
    <3>5. k \in [SUBSET S -> Int]
      BY <3>4
    <3>6. ASSUME NEW s \in SUBSET S, Cardinality(s) <= m PROVE k[s] = Take(k, s)
      <4>1. CASE s = {}
        <5>1. k[s] = g[s] /\ g[s] = 0
          BY <4>1, <1>2, <3>1, <3>2
        <5> QED
          BY <5>1, <4>1
      <4>2. CASE s # {}
        <5> DEFINE x == CHOOSE y \in s : TRUE
        <5>1. x \in s /\ s \ {x} \in SUBSET S
          BY <3>3, <4>2
        <5> HIDE DEF x
        <5>2. Cardinality(s \ {x}) <= m - 1
          <6>1. Cardinality(s) \in Nat /\ Cardinality(s \ {x}) = Cardinality(s) - 1
            BY <5>1, <1>3, <1>1
          <6> QED
            BY <6>1, <3>1, <3>6
        <5>3. k[s \ {x}] = g[s \ {x}]
          BY <5>1, <5>2
        <5>4. g[s] = Take(g, s) \/ ~(Cardinality(s) <= m - 1)
          BY <3>2
        <5>5. k[s] = Take(g, s)
          BY <5>4
        <5> USE DEF x
        <5> QED
          BY <5>3, <5>5, <4>2
      <4> QED
        BY <4>1, <4>2
    <3>7. UpTo(k, m)
      BY <3>6
    <3> QED
      BY <3>5, <3>7, <2>1
  <2> QED
    BY <2>2, <2>3
<1>5. Cardinality(S) \in Nat /\ Cardinality(S) \notin B
  BY <1>1, <1>4
<1>6. PICK g \in [SUBSET S -> Int] : UpTo(g, Cardinality(S))
  BY <1>5
<1>7. \A s \in SUBSET S : Cardinality(s) <= Cardinality(S)
  BY FS_Subset
<1>8. \A s \in SUBSET S : g[s] = Take(g, s)
  BY <1>6, <1>7
<1> QED
  BY <1>6, <1>8 DEF Folds

(* Two folds of the same values agree.                                      *)
LEMMA FoldUnique ==
  ASSUME NEW S, IsFiniteSet(S), NEW h, NEW f, NEW g, Folds(f, h, S), Folds(g, h, S)
  PROVE  f = g
<1> DEFINE B == {s \in SUBSET S : f[s] # g[s]}
<1>1. ASSUME B # {} PROVE FALSE
  <2>1. PICK a \in B : \A b \in B : b \subseteq a => b = a
    <3>1. B \in SUBSET (SUBSET S)
      OBVIOUS
    <3> HIDE DEF B
    <3> QED
      BY <3>1, <1>1, SmallestSet
  <2> DEFINE x == CHOOSE y \in a : TRUE
  <2>2. /\ f[a] = IF a = {} THEN 0 ELSE h[x] + f[a \ {x}]
        /\ g[a] = IF a = {} THEN 0 ELSE h[x] + g[a \ {x}]
    BY DEF Folds
  <2>3. a # {}
    BY <2>2
  <2>4. x \in a
    BY <2>3
  <2> HIDE DEF x
  <2>5. a \ {x} \in SUBSET S /\ a \ {x} \subseteq a /\ a \ {x} # a
    BY <2>4
  <2>6. f[a \ {x}] = g[a \ {x}]
    BY <2>5, <2>1
  <2> QED
    BY <2>2, <2>3, <2>6
<1>2. \A s \in SUBSET S : f[s] = g[s]
  BY <1>1
<1>3. f = [s \in SUBSET S |-> f[s]] /\ g = [s \in SUBSET S |-> g[s]]
  BY DEF Folds
<1> QED
  BY <1>2, <1>3

(* A fold adds up, whatever order it chose.                                 *)
LEMMA FoldAdds ==
  ASSUME NEW S, IsFiniteSet(S), NEW h \in [S -> Int], NEW g, Folds(g, h, S)
  PROVE  Adds(g, h, S)
<1>1. g \in [SUBSET S -> Int]
  <2>1. PICK f \in [SUBSET S -> Int] : Folds(f, h, S)
    BY FoldExists
  <2> QED
    BY <2>1, FoldUnique
<1>2. ASSUME NEW s \in SUBSET S
      PROVE  g[s] = IF s = {} THEN 0
                    ELSE h[CHOOSE x \in s : TRUE] + g[s \ {CHOOSE x \in s : TRUE}]
  BY DEF Folds
<1>3. g[{}] = 0
  BY <1>2
<1> DEFINE B == {s \in SUBSET S : \E x \in s : g[s] # h[x] + g[s \ {x}]}
<1>4. ASSUME B # {} PROVE FALSE
  <2>1. PICK a \in B : \A b \in B : b \subseteq a => b = a
    <3>1. B \in SUBSET (SUBSET S)
      OBVIOUS
    <3> HIDE DEF B
    <3> QED
      BY <3>1, <1>4, SmallestSet
  <2>2. PICK x \in a : g[a] # h[x] + g[a \ {x}]
    BY <2>1
  <2> DEFINE c == CHOOSE y \in a : TRUE
  <2>3. c \in a
    BY <2>2
  <2>4. g[a] = h[c] + g[a \ {c}]
    BY <1>2, <2>2
  <2> HIDE DEF c
  <2>5. c # x
    BY <2>2, <2>4
  <2> DEFINE d == a \ {c}
             e == a \ {x}
  <2>6. d \in SUBSET S /\ e \in SUBSET S /\ x \in d /\ c \in e /\ d \ {x} = e \ {c}
    BY <2>1, <2>2, <2>3, <2>5
  <2>7. d \subseteq a /\ d # a /\ e \subseteq a /\ e # a
    BY <2>2, <2>3
  <2>8. d \notin B /\ e \notin B
    BY <2>1, <2>7
  <2>9. g[a] = h[c] + g[d] /\ g[a] # h[x] + g[e]
    BY <2>2, <2>4
  <2>10. h[x] \in Int /\ h[c] \in Int /\ g[d \ {x}] \in Int /\ x \in S /\ c \in S
    BY <2>6, <2>2, <2>3, <1>1
  <2>11. g[d] = h[x] + g[d \ {x}] /\ g[e] = h[c] + g[e \ {c}]
    BY <2>6, <2>8
  <2> HIDE DEF d, e
  <2>12. g[e] = h[c] + g[d \ {x}]
    BY <2>6, <2>11
  <2> QED
    BY <2>9, <2>10, <2>11, <2>12
<1> QED
  BY <1>1, <1>3, <1>4 DEF Adds

(* Sums are equal in the way their terms are.                               *)
LEMMA AddsBalance ==
  ASSUME NEW S, IsFiniteSet(S),
         NEW f, NEW h, NEW k, NEW m,
         f \in [S -> Int], h \in [S -> Int], k \in [S -> Int], m \in [S -> Int],
         \A x \in S : f[x] - h[x] = k[x] - m[x],
         NEW F, NEW H, NEW K, NEW M,
         Adds(F, f, S), Adds(H, h, S), Adds(K, k, S), Adds(M, m, S)
  PROVE  F[S] - H[S] = K[S] - M[S]
<1> DEFINE B == {s \in SUBSET S : F[s] - H[s] # K[s] - M[s]}
<1>1. ASSUME B # {} PROVE FALSE
  <2>1. PICK a \in B : \A b \in B : b \subseteq a => b = a
    <3>1. B \in SUBSET (SUBSET S)
      OBVIOUS
    <3> HIDE DEF B
    <3> QED
      BY <3>1, <1>1, SmallestSet
  <2>2. a # {}
    BY <2>1 DEF Adds
  <2>3. PICK x \in a : TRUE
    BY <2>2
  <2> DEFINE r == a \ {x}
  <2>4. r \in SUBSET S /\ r \subseteq a /\ r # a
    BY <2>3
  <2>5. F[r] - H[r] = K[r] - M[r]
    BY <2>1, <2>4
  <2>6. /\ F[a] = f[x] + F[r] /\ H[a] = h[x] + H[r]
        /\ K[a] = k[x] + K[r] /\ M[a] = m[x] + M[r]
    BY <2>3 DEF Adds
  <2>7. /\ F[r] \in Int /\ H[r] \in Int /\ K[r] \in Int /\ M[r] \in Int
        /\ f[x] \in Int /\ h[x] \in Int /\ k[x] \in Int /\ m[x] \in Int
    BY <2>3, <2>4 DEF Adds
  <2>8. f[x] - h[x] = k[x] - m[x] /\ F[a] - H[a] # K[a] - M[a]
    BY <2>1, <2>3
  <2> HIDE DEF r
  <2> QED
    BY <2>5, <2>6, <2>7, <2>8
<1> QED
  BY <1>1

(* Summing over an image that repeats no element is summing over the set.   *)
LEMMA AddsImage ==
  ASSUME NEW S, IsFiniteSet(S), NEW f \in [S -> Int], NEW T, NEW h \in [T -> Int],
         NEW e \in [S -> T], \A x, y \in S : e[x] = e[y] => x = y,
         \A x \in S : h[e[x]] = f[x],
         NEW F, NEW H, Adds(F, f, S), Adds(H, h, T)
  PROVE  H[{e[x] : x \in S}] = F[S]
<1> DEFINE Of(s) == {e[x] : x \in s}
           B == {s \in SUBSET S : H[Of(s)] # F[s]}
<1>1. ASSUME B # {} PROVE FALSE
  <2>1. PICK a \in B : \A b \in B : b \subseteq a => b = a
    <3>1. B \in SUBSET (SUBSET S)
      OBVIOUS
    <3> HIDE DEF B
    <3> QED
      BY <3>1, <1>1, SmallestSet
  <2>2. a # {}
    <3>1. Of({}) = {}
      OBVIOUS
    <3> QED
      BY <2>1, <3>1 DEF Adds
  <2>3. PICK x \in a : TRUE
    BY <2>2
  <2>4. Of(a) \ {e[x]} = Of(a \ {x})
    BY <2>3
  <2>5. e[x] \in Of(a) /\ Of(a) \in SUBSET T /\ a \ {x} \in SUBSET S
    BY <2>3
  <2>6. H[Of(a)] = h[e[x]] + H[Of(a \ {x})]
    <3> DEFINE y == e[x]
               u == Of(a)
               v == Of(a \ {x})
    <3>1. y \in u /\ u \in SUBSET T /\ u \ {y} = v
      BY <2>4, <2>5
    <3> HIDE DEF y, u, v
    <3>2. H[u] = h[y] + H[v]
      BY <3>1 DEF Adds
    <3> QED
      BY <3>2 DEF y, u, v
  <2>7. F[a] = f[x] + F[a \ {x}]
    BY <2>3 DEF Adds
  <2>8. a \ {x} \subseteq a /\ a \ {x} # a
    BY <2>3
  <2>9. H[Of(a \ {x})] = F[a \ {x}]
    BY <2>1, <2>5, <2>8
  <2> QED
    BY <2>1, <2>3, <2>6, <2>7, <2>9
<1> QED
  BY <1>1

(* The sum over the workers is what adds up.                                *)
LEMMA SumAdds ==
  ASSUME NEW f \in [Workers -> Int]
  PROVE  \E g : Adds(g, f, Workers) /\ Sum(f) = g[Workers]
<1> DEFINE Fold == CHOOSE g : Folds(g, f, Workers)
<1>1. Folds(Fold, f, Workers)
  BY FoldExists, FleetAssumption
<1>2. Sum(f) = Fold[Workers]
  BY DEF Sum, MapThenSumSet, MapThenFoldSet, Folds
<1> HIDE DEF Fold
<1> QED
  BY <1>1, <1>2, FoldAdds, FleetAssumption

(* The values of the counters that are merged.                              *)
Values(T) == [s \in T |-> s.counter]

(* The counter of a merge is what adds up.                                  *)
LEMMA CounterAdds ==
  ASSUME NEW T, IsFiniteSet(T), Values(T) \in [T -> Int]
  PROVE  \E g : Adds(g, Values(T), T) /\ Counter(T) = g[T]
<1> DEFINE Taking(g) ==
             g = [s \in SUBSET T |->
                    IF s = {} THEN 0
                    ELSE (CHOOSE x \in s : TRUE).counter + g[s \ {CHOOSE x \in s : TRUE}]]
           Fold == CHOOSE g : Taking(g)
<1>1. ASSUME NEW g PROVE Taking(g) <=> Folds(g, Values(T), T)
  <2>1. ASSUME NEW s \in SUBSET T, s # {}
        PROVE  Values(T)[CHOOSE x \in s : TRUE] = (CHOOSE x \in s : TRUE).counter
    BY <2>1 DEF Values
  <2> QED
    BY <2>1 DEF Folds
<1>2. \E g : Taking(g)
  <2>1. PICK g \in [SUBSET T -> Int] : Folds(g, Values(T), T)
    BY FoldExists
  <2>2. Folds(g, Values(T), T) => Taking(g)
    BY <1>1
  <2> HIDE DEF Taking
  <2> QED
    BY <2>1, <2>2
<1>3. Taking(Fold)
  BY <1>2
<1>4. Counter(T) = Fold[T]
  BY DEF Counter, MapThenSumSet, MapThenFoldSet
<1> HIDE DEF Fold, Taking
<1>5. Folds(Fold, Values(T), T)
  BY <1>1, <1>3
<1> QED
  BY <1>4, <1>5, FoldAdds

(* The merge of all workers adds up their counters.                         *)
LEMMA CounterIsSum ==
  ASSUME count \in [Workers -> Int]
  PROVE  Counter(Taken(Workers)) = Sum(count)
<1> DEFINE Snapshot(w) == [worker |-> w, generation |-> run[w], alive |-> process[w] # "down",
                           counter |-> count[w]]
           e == [w \in Workers |-> Snapshot(w)]
           T == Taken(Workers)
<1>1. T = {e[w] : w \in Workers} /\ e \in [Workers -> T]
  BY DEF Taken
<1>2. \A v, w \in Workers : e[v] = e[w] => v = w
  OBVIOUS
<1>3. \A s \in T : s.counter \in Int
  BY DEF Taken
<1>4. Values(T) \in [T -> Int]
  BY <1>3 DEF Values
<1>5. \A w \in Workers : Values(T)[e[w]] = count[w]
  BY <1>1 DEF Values
<1>6. IsFiniteSet(T)
  <2>1. e \in Surjection(Workers, T)
    BY <1>1 DEF Surjection
  <2> QED
    BY <2>1, FS_Surjection, FleetAssumption
<1> HIDE DEF T, e
<1>7. PICK H : Adds(H, Values(T), T) /\ Counter(T) = H[T]
  BY <1>4, <1>6, CounterAdds
<1>8. PICK F : Adds(F, count, Workers) /\ Sum(count) = F[Workers]
  BY SumAdds
<1>9. H[{e[w] : w \in Workers}] = F[Workers]
  BY <1>1, <1>2, <1>4, <1>5, <1>7, <1>8, FleetAssumption, AddsImage
<1> QED
  BY <1>1, <1>7, <1>8, <1>9 DEF T

(* Sums over the workers are equal in the way their terms are.              *)
LEMMA SumBalance ==
  ASSUME NEW f \in [Workers -> Int], NEW h \in [Workers -> Int],
         NEW k \in [Workers -> Int], NEW m \in [Workers -> Int],
         \A w \in Workers : f[w] - h[w] = k[w] - m[w]
  PROVE  Sum(f) - Sum(h) = Sum(k) - Sum(m)
<1>1. PICK F : Adds(F, f, Workers) /\ Sum(f) = F[Workers]
  BY SumAdds
<1>2. PICK H : Adds(H, h, Workers) /\ Sum(h) = H[Workers]
  BY SumAdds
<1>3. PICK K : Adds(K, k, Workers) /\ Sum(k) = K[Workers]
  BY SumAdds
<1>4. PICK M : Adds(M, m, Workers) /\ Sum(m) = M[Workers]
  BY SumAdds
<1>5. F[Workers] - H[Workers] = K[Workers] - M[Workers]
  <2>1. IsFiniteSet(Workers)
    BY FleetAssumption
  <2>2. Adds(F, f, Workers) /\ Adds(H, h, Workers)
    BY <1>1, <1>2
  <2>3. Adds(K, k, Workers) /\ Adds(M, m, Workers)
    BY <1>3, <1>4
  <2> QED
    BY <2>1, <2>2, <2>3, AddsBalance, SMTT(60)
<1> QED
  BY <1>1, <1>2, <1>3, <1>4, <1>5

(* A sum of numbers is a number.                                            *)
LEMMA SumType ==
  ASSUME NEW f \in [Workers -> Int]
  PROVE  Sum(f) \in Int
<1>1. PICK g : Adds(g, f, Workers) /\ Sum(f) = g[Workers]
  BY SumAdds
<1> QED
  BY <1>1 DEF Adds

(* The first revision is one, and no other is smaller.                      *)
LEMMA FirstIsLeast ==
  FirstRevision \in Revisions /\ \A r \in Revisions : FirstRevision <= r
<1>1. \E r \in Revisions : \A s \in Revisions : r <= s
  BY FleetAssumption, ConfigurationAssumption, LeastNumber
<1> QED
  BY <1>1 DEF FirstRevision

-----------------------------------------------------------------------------
(* The invariant of the fleet.                                              *)

(* Snapshots are prepared in the order of their revisions, each against one *)
(* that was there, and none against the desired one yet.                    *)
MadeInOrder ==
  /\ desired \in made
  /\ \A m \in made : /\ basis[m] \in made \union {Nobody} /\ basis[m] < m /\ basis[m] # desired
                     /\ \A r \in Revisions \ made : m < r

(* What a process of a run that goes on had, it has used; and a report is   *)
(* of a snapshot its worker had.                                            *)
HadIsUsed ==
  /\ \A h \in had : /\ h[3] \in made /\ h[2] <= run[h[1]]
                    /\ process[h[1]] # "down" /\ h[2] = run[h[1]] => h[3] \in used[h[1]]
  /\ \A w \in Workers : \A r \in reports[w] : \E h \in had : h[1] = w /\ h[3] = r

(* The snapshots of a process are a chain from the one it was started with  *)
(* to the current one.                                                      *)
Chain(w) ==
  /\ used[w] \subseteq made /\ current[w] \in used[w]
  /\ IsFiniteSet(used[w]) /\ Cardinality(used[w]) <= HistoryLimit
  /\ \A r \in used[w] : /\ r <= current[w]
                        /\ r = current[w] \/ \E s \in used[w] : basis[s] = r
  /\ \E first \in used[w] : \A r \in used[w] : basis[r] \notin used[w] <=> r = first
  /\ \A r, s \in used[w] : r # s /\ basis[r] \in used[w] => basis[r] # basis[s]
  /\ process[w] = "serving" => pinned[w] = {budgets[current[w]]}

Chains == \A w \in Workers : process[w] # "down" => Chain(w)

(* What a promotion from the desired revision needs.                        *)
Evident ==
  /\ \A g \in Gates : \E item \in evidence[g] : item.epoch = desired
  /\ \A w \in Workers : \E h \in had : h[1] = w /\ h[3] = desired

Decided ==
  \A o \in Operators : \A d \in decided[o] :
    /\ d.epoch \in made /\ \A e \in decided[o] : e = d
    /\ d.promotes /\ d.epoch = desired => Evident

(* A merge was the sum of what the workers had counted; a worker that goes  *)
(* on counted since then what happened since then.                          *)
Books ==
  \A b \in base : \E c, t \in [Workers -> Int] :
    /\ b.counter = Sum(c) /\ b.total = Sum(t)
    /\ \A w \in Workers : \E n \in Nat :
         /\ b.generations[w] = {n} /\ n <= run[w]
         /\ run[w] = n => count[w] - c[w] = total[w] - t[w]

FleetInv ==
  FleetTypeOK /\ MadeInOrder /\ HadIsUsed /\ Chains /\ Decided /\ Books

(* Revisions are numbers, and none is Nobody.                               *)
LEMMA RevisionsAreNumbers ==
  ASSUME NEW r \in Revisions
  PROVE  r \in Nat /\ r # Nobody
BY ConfigurationAssumption DEF Nobody

(* It holds when the fleet starts.                                          *)
LEMMA FleetInitHolds == Init => FleetInv
<1> SUFFICES ASSUME Init PROVE FleetInv
  OBVIOUS
<1> DEFINE first == FirstRevision
<1>0. first \in Revisions /\ \A r \in Revisions : first <= r
  BY FirstIsLeast
<1> HIDE DEF first
<1>1. PICK b \in Budgets : ConfigInit(first, b)
  BY DEF Init, first
<1>2. R!RolloutInit(first) /\ had = {<<w, 1, first>> : w \in Workers}
  BY DEF Init, first
<1>3. /\ decided = [o \in Operators |-> {}] /\ base = {}
      /\ count = [w \in Workers |-> 0] /\ total = [w \in Workers |-> 0]
  BY DEF Init
<1>4. FleetTypeOK
  BY <1>0, <1>1, <1>2, <1>3 DEF FleetTypeOK, ConfigInit, R!RolloutInit
<1>5. MadeInOrder
  <2>1. made = {first} /\ desired = first /\ basis[first] = Nobody
    BY <1>0, <1>1, <1>2 DEF ConfigInit, R!RolloutInit
  <2>2. first \in Nat /\ first # Nobody
    BY <1>0, RevisionsAreNumbers
  <2>3. \A r \in Revisions \ {first} : first < r
    BY <1>0, <2>2, RevisionsAreNumbers
  <2> QED
    BY <2>1, <2>2, <2>3 DEF MadeInOrder, Nobody
<1>6. HadIsUsed
  BY <1>1, <1>2 DEF HadIsUsed, ConfigInit, R!RolloutInit
<1>7. ASSUME NEW w \in Workers PROVE Chain(w)
  <2>1. /\ used[w] = {first} /\ current[w] = first /\ made = {first}
        /\ pinned[w] = {b} /\ budgets[first] = b /\ basis[first] = Nobody
    BY <1>0, <1>1 DEF ConfigInit
  <2>2. first \in Nat /\ first # Nobody
    BY <1>0, RevisionsAreNumbers
  <2>3. IsFiniteSet({first}) /\ Cardinality({first}) = 1 /\ 1 <= HistoryLimit
    BY FS_Singleton, ConfigurationAssumption
  <2> QED
    BY <2>1, <2>2, <2>3 DEF Chain
<1>8. Decided /\ Books
  BY <1>3 DEF Decided, Books
<1> QED
  BY <1>4, <1>5, <1>6, <1>7, <1>8 DEF FleetInv, Chains


(* Every variable keeps its type.                                           *)
LEMMA FleetTypes ==
  ASSUME FleetInv, [Next]_vars
  PROVE  FleetTypeOK'
<1> USE DEF FleetInv
<1>1. ASSUME NEW o \in Operators, Decide(o) PROVE FleetTypeOK'
  <2>1. PICK promotes \in BOOLEAN :
          decided' = [decided EXCEPT ![o] = {[epoch |-> desired, promotes |-> promotes]}]
    BY <1>1 DEF Decide
  <2>2. {[epoch |-> desired, promotes |-> promotes]} \in
          SUBSET [epoch : Revisions, promotes : BOOLEAN]
    BY DEF FleetTypeOK
  <2>3. decided' \in [Operators -> SUBSET [epoch : Revisions, promotes : BOOLEAN]]
    BY <2>1, <2>2 DEF FleetTypeOK
  <2> QED
    BY <1>1, <2>3 DEF FleetTypeOK, Decide, configVars, snapshotVars, processVars, trackerVars,
      metricVars
<1>2. ASSUME NEW o \in Operators, Change(o) PROVE FleetTypeOK'
  <2>1. PICK d \in decided[o], r \in Revisions \ made, b \in Budgets :
          R!RequestChange(d.epoch, r) /\ Prepare(r, d.epoch, b)
    BY <1>2 DEF Change
  <2>2. d.epoch \in Revisions
    BY DEF FleetTypeOK
  <2> QED
    BY <1>2, <2>1, <2>2 DEF FleetTypeOK, Change, R!RequestChange, Prepare, processVars, metricVars
<1>3. ASSUME NEW o \in Operators, Conflict(o) PROVE FleetTypeOK'
  BY <1>3 DEF FleetTypeOK, Conflict, configVars, snapshotVars, processVars, trackerVars, metricVars
<1>4. ASSUME NEW g \in Gates, NEW status \in Findings, Assess(g, status) PROVE FleetTypeOK'
  BY <1>4 DEF FleetTypeOK, Assess, R!Assess, R!trackerVars, configVars, snapshotVars,
    processVars, operatorVars, metricVars
<1>5. ASSUME NEW w \in Workers, NEW r \in Revisions, ApplyTo(w, r) PROVE FleetTypeOK'
  BY <1>5 DEF FleetTypeOK, ApplyTo, Apply, snapshotVars, trackerVars, metricVars
<1>6. ASSUME NEW w \in Workers, NEW r \in Revisions, BootWith(w, r) PROVE FleetTypeOK'
  BY <1>6 DEF FleetTypeOK, BootWith, Boot, snapshotVars, trackerVars
<1>7. ASSUME NEW w \in Workers, NEW r \in Revisions, NEW failed \in BOOLEAN,
             Deliver(w, r, failed)
      PROVE  FleetTypeOK'
  BY <1>7 DEF FleetTypeOK, Deliver, R!Report, configVars, snapshotVars, processVars,
    operatorVars, metricVars
<1>8. ASSUME NEW w \in Workers, Process(w) PROVE FleetTypeOK'
  <2>1. CASE Start(w)
    <3>1. budgets[current[w]] \in Budgets
      BY <2>1 DEF Start, FleetTypeOK, Chains, Chain
    <3> QED
      BY <1>8, <2>1, <3>1 DEF FleetTypeOK, Process, Start, snapshotVars, trackerVars,
        operatorVars, metricVars
  <2>2. CASE Crash(w)
    BY <1>8, <2>2 DEF FleetTypeOK, Process, Crash, snapshotVars, trackerVars, operatorVars,
      metricVars
  <2> QED
    BY <1>8, <2>1, <2>2 DEF Process
<1>9. ASSUME NEW w \in Workers, CountRequest(w) PROVE FleetTypeOK'
  BY <1>9 DEF FleetTypeOK, CountRequest, configVars, snapshotVars, processVars, trackerVars,
    operatorVars
<1>10. ASSUME Merge PROVE FleetTypeOK'
  <2>1. Sum(total) \in Int /\ Counter(Taken(Workers)) \in Int
    BY CounterIsSum, SumType DEF FleetTypeOK
  <2> QED
    BY <1>10, <2>1 DEF FleetTypeOK, Merge, configVars, snapshotVars, processVars, trackerVars,
      operatorVars
<1>11. CASE UNCHANGED vars
  BY <1>11 DEF FleetTypeOK, vars, configVars, snapshotVars, processVars, trackerVars,
    operatorVars, metricVars
<1> QED
  BY <1>1, <1>2, <1>3, <1>4, <1>5, <1>6, <1>7, <1>8, <1>9, <1>10, <1>11 DEF Next

(* What a change does.                                                      *)
LEMMA ChangeDoes ==
  ASSUME FleetInv, NEW o \in Operators, Change(o)
  PROVE  \E d \in decided[o], r \in Revisions \ made :
           /\ d.epoch = desired /\ r # desired /\ \A m \in made : m < r
           /\ \A s \in Revisions \ (made \union {r}) : r < s
           /\ made' = made \union {r} /\ desired' = r
           /\ basis'[r] = desired /\ \A m \in made : basis'[m] = basis[m]
           /\ \A m \in made : budgets'[m] = budgets[m]
           /\ UNCHANGED <<process, current, used, pinned, run, reports, evidence, had>>
           /\ decided'[o] = {} /\ \A x \in Operators : x # o => decided'[x] = decided[x]
<1> USE DEF FleetInv
<1>1. PICK d \in decided[o], r \in Revisions \ made, b \in Budgets :
        /\ \A s \in Revisions \ made : r <= s
        /\ R!RequestChange(d.epoch, r) /\ Prepare(r, d.epoch, b)
  BY DEF Change
<1>2. d.epoch = desired /\ r # desired /\ desired' = r /\ UNCHANGED <<reports, evidence>>
  BY <1>1 DEF R!RequestChange, R!IsCurrent
<1>3. /\ made' = made \union {r} /\ basis'[r] = desired
      /\ \A m \in made : basis'[m] = basis[m] /\ budgets'[m] = budgets[m]
      /\ UNCHANGED <<process, current, used, pinned, run>>
  BY <1>1, <1>2 DEF Prepare, FleetTypeOK, processVars
<1>4. \A s \in Revisions \ (made \union {r}) : r < s
  <2>1. \A s \in Revisions : s \in Nat
    BY RevisionsAreNumbers
  <2> QED
    BY <1>1, <2>1
<1>5. \A m \in made : m < r
  BY DEF MadeInOrder
<1>6. /\ UNCHANGED had /\ decided'[o] = {}
      /\ \A x \in Operators : x # o => decided'[x] = decided[x]
  BY DEF Change, FleetTypeOK
<1> QED
  BY <1>2, <1>3, <1>4, <1>5, <1>6

(* Every other step leaves the snapshots and the desired revision alone.    *)
LEMMA OthersLeave ==
  ASSUME [Next]_vars, \A o \in Operators : ~Change(o)
  PROVE  UNCHANGED <<made, basis, budgets, desired>>
BY DEF Next, vars, configVars, snapshotVars, trackerVars, Decide, Conflict, Assess, R!Assess,
  R!trackerVars, ApplyTo, Apply, BootWith, Boot, Deliver, R!Report, Process, Start, Crash,
  CountRequest, Merge

(* A change keeps the order of the revisions.                               *)
LEMMA OrderKept ==
  ASSUME FleetInv, [Next]_vars
  PROVE  MadeInOrder'
<1> USE DEF FleetInv
<1>1. ASSUME NEW o \in Operators, Change(o) PROVE MadeInOrder'
  <2>1. PICK r \in Revisions \ made :
           /\ r # desired /\ \A m \in made : m < r
           /\ \A s \in Revisions \ (made \union {r}) : r < s
           /\ made' = made \union {r} /\ desired' = r
           /\ basis'[r] = desired /\ \A m \in made : basis'[m] = basis[m]
    BY <1>1, ChangeDoes
  <2>2. r \in Nat /\ r # Nobody /\ desired \in made
    BY RevisionsAreNumbers DEF MadeInOrder
  <2>3. ASSUME NEW m \in made'
        PROVE  /\ basis'[m] \in made' \union {Nobody} /\ basis'[m] < m /\ basis'[m] # desired'
               /\ \A s \in Revisions \ made' : m < s
    <3>1. CASE m = r
      BY <2>1, <2>2, <3>1
    <3>2. CASE m # r
      <4>1. m \in made
        BY <2>1, <3>2
      <4> QED
        BY <2>1, <2>2, <4>1 DEF MadeInOrder
    <3> QED
      BY <3>1, <3>2
  <2> QED
    BY <2>1, <2>3 DEF MadeInOrder
<1>2. CASE \A o \in Operators : ~Change(o)
  BY <1>2, OthersLeave DEF MadeInOrder
<1> QED
  BY <1>1, <1>2

(* Whatever a process had in this run stays used, and reports stay of what  *)
(* was had.                                                                 *)
LEMMA HadKept ==
  ASSUME FleetInv, [Next]_vars
  PROVE  HadIsUsed'
<1> USE DEF FleetInv
<1>1. ASSUME NEW o \in Operators, Change(o) PROVE HadIsUsed'
  <2>1. made \subseteq made' /\ UNCHANGED <<process, used, run, reports, had>>
    BY <1>1, ChangeDoes
  <2> QED
    BY <2>1 DEF HadIsUsed
<1>2. ASSUME UNCHANGED <<made, process, used, run, reports, had>> PROVE HadIsUsed'
  BY <1>2 DEF HadIsUsed
<1>3. ASSUME NEW o \in Operators, Decide(o) \/ Conflict(o) PROVE HadIsUsed'
  BY <1>2, <1>3 DEF Decide, Conflict, configVars, snapshotVars, processVars, trackerVars
<1>4. ASSUME NEW g \in Gates, NEW status \in Findings, Assess(g, status) PROVE HadIsUsed'
  BY <1>2, <1>4 DEF Assess, R!Assess, R!trackerVars, configVars, snapshotVars, processVars,
    operatorVars
<1>5. ASSUME NEW w \in Workers, NEW r \in Revisions, ApplyTo(w, r) PROVE HadIsUsed'
  <2>1. /\ UNCHANGED <<made, process, run, reports>> /\ r \in made
        /\ used' = [used EXCEPT ![w] = @ \union {r}]
        /\ had' = had \union {<<w, run[w], r>>}
    BY <1>5 DEF ApplyTo, Apply, snapshotVars, trackerVars
  <2>2. /\ used'[w] = used[w] \union {r}
        /\ \A x \in Workers : used[x] \subseteq used'[x]
    BY <2>1 DEF FleetTypeOK
  <2>3. ASSUME NEW h \in had'
        PROVE  /\ h[3] \in made /\ h[2] <= run[h[1]]
               /\ process[h[1]] # "down" /\ h[2] = run[h[1]] => h[3] \in used'[h[1]]
    <3>1. CASE h \in had
      <4>1. h[1] \in Workers
        BY <3>1 DEF FleetTypeOK
      <4> QED
        BY <3>1, <4>1, <2>2 DEF HadIsUsed
    <3>2. CASE h = <<w, run[w], r>>
      <4>1. h[1] = w /\ h[2] = run[w] /\ h[3] = r /\ run[w] \in Nat
        BY <3>2 DEF FleetTypeOK
      <4> QED
        BY <4>1, <2>1, <2>2
    <3> QED
      BY <2>1, <3>1, <3>2
  <2>4. had \subseteq had'
    BY <2>1
  <2> QED
    BY <2>1, <2>3, <2>4 DEF HadIsUsed
<1>6. ASSUME NEW w \in Workers, NEW r \in Revisions, BootWith(w, r) PROVE HadIsUsed'
  <2>1. /\ UNCHANGED <<made, reports>> /\ r \in made
        /\ used' = [used EXCEPT ![w] = {r}] /\ run' = [run EXCEPT ![w] = @ + 1]
        /\ process' = [process EXCEPT ![w] = "ready"]
        /\ had' = had \union {<<w, run[w] + 1, r>>}
    BY <1>6 DEF BootWith, Boot, snapshotVars, trackerVars
  <2>2. /\ used'[w] = {r} /\ run[w] \in Nat /\ run'[w] = run[w] + 1
        /\ \A x \in Workers : x # w => /\ used'[x] = used[x] /\ run'[x] = run[x]
                                       /\ process'[x] = process[x]
    BY <2>1 DEF FleetTypeOK
  <2>3. ASSUME NEW h \in had'
        PROVE  /\ h[3] \in made /\ h[2] <= run'[h[1]]
               /\ process'[h[1]] # "down" /\ h[2] = run'[h[1]] => h[3] \in used'[h[1]]
    <3>1. CASE h \in had
      <4>1. h[1] \in Workers /\ h[2] \in Nat
        BY <3>1 DEF FleetTypeOK
      <4>2. CASE h[1] = w
        <5>1. h[2] <= run[w] /\ h[3] \in made
          BY <3>1, <4>2 DEF HadIsUsed
        <5> QED
          BY <4>1, <4>2, <5>1, <2>2
      <4>3. CASE h[1] # w
        BY <3>1, <4>1, <4>3, <2>2 DEF HadIsUsed
      <4> QED
        BY <4>2, <4>3
    <3>2. CASE h = <<w, run[w] + 1, r>>
      <4>1. h[1] = w /\ h[2] = run[w] + 1 /\ h[3] = r
        BY <3>2
      <4> QED
        BY <4>1, <2>1, <2>2
    <3> QED
      BY <2>1, <3>1, <3>2
  <2>4. had \subseteq had'
    BY <2>1
  <2> QED
    BY <2>1, <2>3, <2>4 DEF HadIsUsed
<1>7. ASSUME NEW w \in Workers, NEW r \in Revisions, NEW failed \in BOOLEAN,
             Deliver(w, r, failed)
      PROVE  HadIsUsed'
  <2>1. /\ UNCHANGED <<made, process, used, run, had>>
        /\ reports' = [reports EXCEPT ![w] = {r}]
        /\ \E h \in had : h[1] = w /\ h[3] = r
    BY <1>7 DEF Deliver, R!Report, configVars, snapshotVars, processVars, operatorVars
  <2>2. \A x \in Workers : reports'[x] = IF x = w THEN {r} ELSE reports[x]
    BY <2>1 DEF FleetTypeOK
  <2> QED
    BY <2>1, <2>2 DEF HadIsUsed
<1>8. ASSUME NEW w \in Workers, Process(w) PROVE HadIsUsed'
  <2>1. UNCHANGED <<made, run, reports, had>>
    BY <1>8 DEF Process, Start, Crash, snapshotVars, trackerVars, operatorVars
  <2>2. \A x \in Workers : process'[x] # "down" => process[x] # "down" /\ used'[x] = used[x]
    BY <1>8 DEF Process, Start, Crash, FleetTypeOK
  <2>3. \A h \in had : h[1] \in Workers
    BY DEF FleetTypeOK
  <2> QED
    BY <2>1, <2>2, <2>3 DEF HadIsUsed
<1>9. ASSUME NEW w \in Workers, CountRequest(w) PROVE HadIsUsed'
  BY <1>2, <1>9 DEF CountRequest, configVars, snapshotVars, processVars, trackerVars, operatorVars
<1>10. ASSUME Merge PROVE HadIsUsed'
  BY <1>2, <1>10 DEF Merge, configVars, snapshotVars, processVars, trackerVars, operatorVars
<1>11. CASE UNCHANGED vars
  BY <1>2, <1>11 DEF vars, configVars, snapshotVars, processVars, trackerVars, operatorVars
<1> QED
  BY <1>1, <1>3, <1>4, <1>5, <1>6, <1>7, <1>8, <1>9, <1>10, <1>11 DEF Next

(* A snapshot that is applied continues the chain of its process.           *)
LEMMA ApplyKeeps ==
  ASSUME FleetInv, NEW w \in Workers, NEW r \in Revisions, Apply(w, r, basis[r])
  PROVE  Chain(w)'
<1> USE DEF FleetInv
<1>1. Chain(w) /\ r \in made /\ UNCHANGED <<made, basis, budgets, process, pinned>>
  BY DEF Apply, Chains, snapshotVars
<1>2. current'[w] = r /\ used'[w] = used[w] \union {r}
  BY DEF Apply, FleetTypeOK
<1>3. basis[r] = current[w] /\ r \notin used[w] /\ Cardinality(used[w]) < HistoryLimit
  BY DEF Apply, Accepts, UpToDate
<1>4. current[w] \in made /\ current[w] < r
  BY <1>1, <1>3 DEF Chain, MadeInOrder
<1>5. made \subseteq Nat
  BY RevisionsAreNumbers DEF FleetTypeOK
<1>6. ASSUME NEW s \in used[w] PROVE s < r /\ s \in Nat /\ s \in made
  <2>1. s <= current[w] /\ s \in made
    BY <1>1 DEF Chain
  <2>2. s \in Nat /\ current[w] \in Nat /\ r \in Nat
    BY <2>1, <1>1, <1>4, <1>5
  <2> QED
    BY <2>1, <2>2, <1>4
<1>7. \A s \in used[w] : basis[s] # r
  BY <1>6, <1>1, <1>5 DEF MadeInOrder, Nobody
<1>8. IsFiniteSet(used'[w]) /\ Cardinality(used'[w]) <= HistoryLimit
  <2>1. /\ IsFiniteSet(used[w] \union {r})
        /\ Cardinality(used[w] \union {r}) = Cardinality(used[w]) + 1
    BY <1>1, <1>3, FS_AddElement DEF Chain
  <2>2. Cardinality(used[w]) \in Nat /\ HistoryLimit \in Nat
    BY <1>1, FS_CardinalityType, ConfigurationAssumption DEF Chain
  <2> QED
    BY <2>1, <2>2, <1>2, <1>3
<1>9. \A s \in used'[w] : /\ s <= r
                          /\ s = r \/ \E t \in used'[w] : basis[t] = s
  <2>1. ASSUME NEW s \in used[w] PROVE s <= r /\ \E t \in used'[w] : basis[t] = s
    <3>1. s = current[w] \/ \E t \in used[w] : basis[t] = s
      BY <1>1 DEF Chain
    <3>2. s <= r
      BY <1>6, <1>1, <1>5
    <3> QED
      BY <3>1, <3>2, <1>2, <1>3
  <2>2. r <= r
    BY <1>1, <1>5
  <2> QED
    BY <2>1, <2>2, <1>2
<1>10. PICK first \in used[w] : \A s \in used[w] : basis[s] \notin used[w] <=> s = first
  BY <1>1 DEF Chain
<1>11. \A s \in used'[w] : basis[s] \notin used'[w] <=> s = first
  <2>1. basis[r] \in used'[w] /\ r # first
    BY <1>1, <1>2, <1>3, <1>10 DEF Chain
  <2>2. \A s \in used[w] : basis[s] \notin used'[w] <=> basis[s] \notin used[w]
    BY <1>2, <1>7
  <2> QED
    BY <2>1, <2>2, <1>2, <1>10
<1>12. ASSUME NEW s \in used'[w], NEW t \in used'[w], s # t, basis[s] \in used'[w]
       PROVE  basis[s] # basis[t]
  <2>1. \A x \in used[w] : basis[x] # basis[r] \/ x = r
    <3>1. ASSUME NEW x \in used[w] PROVE basis[x] # current[w]
      <4>1. x <= current[w] /\ x \in made
        BY <1>1 DEF Chain
      <4>2. basis[x] < x /\ basis[x] \in made \union {Nobody}
        BY <4>1 DEF MadeInOrder
      <4>3. x \in Nat /\ basis[x] \in Nat /\ current[w] \in Nat
        BY <4>1, <4>2, <1>4, <1>5 DEF Nobody
      <4> QED
        BY <4>1, <4>2, <4>3
    <3> QED
      BY <3>1, <1>3
  <2>2. CASE s \in used[w] /\ t \in used[w]
    <3>1. basis[s] \in used[w]
      BY <2>2, <1>2, <1>7, <1>12
    <3> QED
      BY <2>2, <3>1, <1>1, <1>12 DEF Chain
  <2>3. CASE s = r \/ t = r
    BY <2>1, <2>3, <1>2, <1>12
  <2> QED
    BY <2>2, <2>3, <1>2
<1>13. process'[w] = "serving" => pinned'[w] = {budgets'[current'[w]]}
  <2>1. pinned[w] \subseteq {budgets[r]}
    BY DEF Apply, Accepts, Valid
  <2> QED
    BY <2>1, <1>1, <1>2 DEF Chain
<1>14. used'[w] \subseteq made' /\ current'[w] \in used'[w]
  BY <1>1, <1>2 DEF Chain
<1> QED
  <2>1. \E a \in used'[w] : \A s \in used'[w] : basis'[s] \notin used'[w] <=> s = a
    BY <1>1, <1>2, <1>11
  <2> QED
    BY <2>1, <1>1, <1>2, <1>8, <1>9, <1>12, <1>13, <1>14 DEF Chain

(* Every chain stays one.                                                   *)
LEMMA ChainsKept ==
  ASSUME FleetInv, [Next]_vars
  PROVE  Chains'
<1> USE DEF FleetInv
<1>1. ASSUME NEW x \in Workers, process[x] # "down",
             UNCHANGED <<process[x], used[x], current[x], pinned[x]>>, made \subseteq made',
             \A m \in made : basis'[m] = basis[m] /\ budgets'[m] = budgets[m]
      PROVE  Chain(x)'
  <2>1. Chain(x) /\ used[x] \subseteq made /\ current[x] \in made
    BY <1>1 DEF Chains, Chain
  <2>2. \A m \in used[x] : basis'[m] = basis[m]
    BY <1>1, <2>1
  <2>3. /\ used'[x] = used[x] /\ current'[x] = current[x] /\ pinned'[x] = pinned[x]
        /\ process'[x] = process[x] /\ budgets'[current[x]] = budgets[current[x]]
    BY <1>1, <2>1
  <2>4. \E first \in used[x] : \A r \in used[x] : basis'[r] \notin used[x] <=> r = first
    BY <2>1, <2>2 DEF Chain
  <2>5. \A r, s \in used[x] : r # s /\ basis'[r] \in used[x] => basis'[r] # basis'[s]
    BY <2>1, <2>2 DEF Chain
  <2>6. \A r \in used[x] : /\ r <= current[x]
                           /\ r = current[x] \/ \E s \in used[x] : basis'[s] = r
    BY <2>1, <2>2 DEF Chain
  <2>7. used[x] \subseteq made'
    BY <1>1, <2>1
  <2> QED
    BY <2>1, <2>3, <2>4, <2>5, <2>6, <2>7 DEF Chain
<1>2. ASSUME NEW o \in Operators, Change(o) PROVE Chains'
  <2>1. /\ made \subseteq made'
        /\ \A m \in made : basis'[m] = basis[m] /\ budgets'[m] = budgets[m]
        /\ UNCHANGED <<process, current, used, pinned>>
    BY <1>2, ChangeDoes
  <2> QED
    BY <1>1, <2>1 DEF Chains
<1>3. ASSUME UNCHANGED <<made, basis, budgets, process, current, used, pinned>> PROVE Chains'
  BY <1>1, <1>3 DEF Chains
<1>4. ASSUME NEW o \in Operators, Decide(o) \/ Conflict(o) PROVE Chains'
  BY <1>3, <1>4 DEF Decide, Conflict, configVars, snapshotVars, processVars
<1>5. ASSUME NEW g \in Gates, NEW status \in Findings, Assess(g, status) PROVE Chains'
  BY <1>3, <1>5 DEF Assess, configVars, snapshotVars, processVars
<1>6. ASSUME NEW w \in Workers, UNCHANGED <<made, basis, budgets>>,
             process'[w] # "down" => Chain(w)',
             \A x \in Workers : x # w => UNCHANGED <<process[x], used[x], current[x], pinned[x]>>
      PROVE  Chains'
  <2> SUFFICES ASSUME NEW x \in Workers, process'[x] # "down" PROVE Chain(x)'
    BY DEF Chains
  <2>1. CASE x = w
    BY <1>6, <2>1
  <2>2. CASE x # w
    <3>1. UNCHANGED <<process[x], used[x], current[x], pinned[x]>>
      BY <1>6, <2>2
    <3> QED
      BY <1>1, <1>6, <3>1
  <2> QED
    BY <2>1, <2>2
<1>7. ASSUME NEW w \in Workers, NEW r \in Revisions, ApplyTo(w, r) PROVE Chains'
  <2>1. Apply(w, r, basis[r])
    BY <1>7 DEF ApplyTo
  <2>2. \A x \in Workers : x # w => UNCHANGED <<process[x], used[x], current[x], pinned[x]>>
    BY <2>1 DEF Apply, FleetTypeOK
  <2>3. UNCHANGED <<made, basis, budgets>>
    BY <2>1 DEF Apply, snapshotVars
  <2> QED
    BY <1>6, <2>1, <2>2, <2>3, ApplyKeeps
<1>8. ASSUME NEW w \in Workers, NEW r \in Revisions, BootWith(w, r) PROVE Chains'
  <2>1. /\ UNCHANGED <<made, basis, budgets>> /\ r \in made
        /\ \A x \in Workers : x # w => UNCHANGED <<process[x], used[x], current[x], pinned[x]>>
        /\ used'[w] = {r} /\ current'[w] = r /\ process'[w] = "ready"
    BY <1>8 DEF BootWith, Boot, snapshotVars, FleetTypeOK
  <2>2. basis[r] # r /\ r <= r
    BY <2>1, RevisionsAreNumbers DEF MadeInOrder, Nobody
  <2>3. IsFiniteSet({r}) /\ Cardinality({r}) <= HistoryLimit
    <3>1. IsFiniteSet({r}) /\ Cardinality({r}) = 1
      BY FS_Singleton
    <3> QED
      BY <3>1, ConfigurationAssumption
  <2>4. Chain(w)'
    BY <2>1, <2>2, <2>3 DEF Chain
  <2> QED
    BY <1>6, <2>1, <2>4
<1>9. ASSUME NEW w \in Workers, NEW r \in Revisions, NEW failed \in BOOLEAN,
             Deliver(w, r, failed)
      PROVE  Chains'
  BY <1>3, <1>9 DEF Deliver, configVars, snapshotVars, processVars
<1>10. ASSUME NEW w \in Workers, Start(w) PROVE Chains'
  <2>1. /\ UNCHANGED <<made, basis, budgets, current, used>> /\ process[w] # "down"
        /\ \A x \in Workers : x # w => UNCHANGED <<process[x], pinned[x]>>
        /\ pinned'[w] = {budgets[current[w]]}
    BY <1>10 DEF Start, snapshotVars, FleetTypeOK
  <2>2. Chain(w)'
    <3>1. Chain(w)
      BY <2>1 DEF Chains
    <3> QED
      BY <2>1, <3>1 DEF Chain
  <2> QED
    BY <1>6, <2>1, <2>2
<1>11. ASSUME NEW w \in Workers, Crash(w) PROVE Chains'
  <2>1. /\ UNCHANGED <<made, basis, budgets>> /\ process'[w] = "down"
        /\ \A x \in Workers : x # w => UNCHANGED <<process[x], used[x], current[x], pinned[x]>>
    BY <1>11 DEF Crash, snapshotVars, FleetTypeOK
  <2> QED
    BY <1>6, <2>1
<1>12. ASSUME NEW w \in Workers, CountRequest(w) PROVE Chains'
  BY <1>3, <1>12 DEF CountRequest, configVars, snapshotVars, processVars
<1>13. ASSUME Merge PROVE Chains'
  BY <1>3, <1>13 DEF Merge, configVars, snapshotVars, processVars
<1>14. CASE UNCHANGED vars
  BY <1>3, <1>14 DEF vars, configVars, snapshotVars, processVars
<1> QED
  BY <1>2, <1>4, <1>5, <1>7, <1>8, <1>9, <1>10, <1>11, <1>12, <1>13, <1>14 DEF Next, Process

(* A decision stays one that the evidence allows.                           *)
LEMMA DecidedKept ==
  ASSUME FleetInv, [Next]_vars
  PROVE  Decided'
<1> USE DEF FleetInv
<1>1. ASSUME UNCHANGED <<made, desired, evidence>>, had \subseteq had',
             \A o \in Operators : decided'[o] \subseteq decided[o]
      PROVE  Decided'
  <2>1. Evident => Evident'
    BY <1>1 DEF Evident
  <2> QED
    BY <1>1, <2>1 DEF Decided
<1>2. ASSUME NEW o \in Operators, Decide(o) PROVE Decided'
  <2>1. UNCHANGED <<made, desired, evidence, had>>
    BY <1>2 DEF Decide, configVars, snapshotVars, trackerVars
  <2>2. PICK d \in [epoch : Revisions, promotes : BOOLEAN] :
          /\ decided' = [decided EXCEPT ![o] = {d}] /\ d.epoch = desired
          /\ d.promotes => /\ R!Stable
                           /\ \E stage \in Stages, active, history \in BOOLEAN :
                                R!MayPromote(stage, desired, active, history)
    <3>1. desired \in Revisions
      BY DEF FleetTypeOK
    <3>2. CASE decided' = [decided EXCEPT ![o] = {[epoch |-> desired, promotes |-> FALSE]}]
      <4>1. [epoch |-> desired, promotes |-> FALSE] \in [epoch : Revisions, promotes : BOOLEAN]
        BY <3>1
      <4> QED
        BY <3>2, <4>1
    <3>3. CASE /\ R!Stable
               /\ \E stage \in Stages, active, history \in BOOLEAN :
                    R!MayPromote(stage, desired, active, history)
               /\ decided' = [decided EXCEPT ![o] = {[epoch |-> desired, promotes |-> TRUE]}]
      <4>1. [epoch |-> desired, promotes |-> TRUE] \in [epoch : Revisions, promotes : BOOLEAN]
        BY <3>1
      <4> QED
        BY <3>3, <4>1
    <3> QED
      BY <1>2, <3>2, <3>3 DEF Decide
  <2>3. d.promotes => Evident
    <3> SUFFICES ASSUME d.promotes PROVE Evident
      OBVIOUS
    <3>1. \A g \in Gates : \E item \in evidence[g] : item.epoch = desired
      BY <2>2 DEF R!MayPromote, R!Blocked
    <3>2. ASSUME NEW w \in Workers PROVE \E h \in had : h[1] = w /\ h[3] = desired
      <4>1. reports[w] # {} /\ \A r \in reports[w] : r = desired
        BY <2>2 DEF R!Stable, R!Missing, R!Mismatched
      <4> QED
        BY <4>1 DEF HadIsUsed
    <3> QED
      BY <3>1, <3>2 DEF Evident
  <2>4. desired \in made
    BY DEF MadeInOrder
  <2>5. Evident => Evident'
    BY <2>1 DEF Evident
  <2>6. \A x \in Operators : decided'[x] = IF x = o THEN {d} ELSE decided[x]
    BY <2>2 DEF FleetTypeOK
  <2>7. ASSUME NEW x \in Operators, NEW e \in decided'[x]
        PROVE  /\ e.epoch \in made' /\ \A f \in decided'[x] : f = e
               /\ e.promotes /\ e.epoch = desired' => Evident'
    <3>1. CASE x = o
      BY <2>1, <2>2, <2>3, <2>4, <2>5, <2>6, <3>1
    <3>2. CASE x # o
      BY <2>1, <2>5, <2>6, <3>2 DEF Decided
    <3> QED
      BY <3>1, <3>2
  <2> QED
    BY <2>7 DEF Decided
<1>3. ASSUME NEW o \in Operators, Change(o) PROVE Decided'
  <2>1. PICK r \in Revisions \ made :
           /\ made' = made \union {r} /\ desired' = r
           /\ decided'[o] = {} /\ \A x \in Operators : x # o => decided'[x] = decided[x]
    BY <1>3, ChangeDoes
  <2>2. ASSUME NEW x \in Operators, NEW e \in decided'[x]
        PROVE  e.epoch \in made /\ \A f \in decided'[x] : f = e
    <3>1. x # o /\ decided'[x] = decided[x]
      BY <2>1, <2>2
    <3> QED
      BY <2>2, <3>1 DEF Decided
  <2>3. \A x \in Operators : \A e \in decided'[x] : e.epoch \in made' /\ e.epoch # desired'
    BY <2>1, <2>2
  <2> QED
    BY <2>2, <2>3 DEF Decided
<1>4. ASSUME NEW o \in Operators, Conflict(o) PROVE Decided'
  <2>1. \A x \in Operators : decided'[x] \subseteq decided[x]
    BY <1>4 DEF Conflict, FleetTypeOK
  <2> QED
    BY <1>1, <1>4, <2>1 DEF Conflict, configVars, snapshotVars, trackerVars
<1>5. ASSUME NEW g \in Gates, NEW status \in Findings, Assess(g, status) PROVE Decided'
  <2>1. /\ UNCHANGED <<made, desired, had, decided>>
        /\ evidence' = [evidence EXCEPT ![g] = {[epoch |-> desired, status |-> status]}]
    BY <1>5 DEF Assess, R!Assess, R!trackerVars, configVars, snapshotVars, operatorVars
  <2>2. [epoch |-> desired, status |-> status].epoch = desired
    OBVIOUS
  <2>3. \A x \in Gates : \/ evidence'[x] = evidence[x]
                         \/ \E item \in evidence'[x] : item.epoch = desired
    BY <2>1, <2>2 DEF FleetTypeOK
  <2>4. Evident => Evident'
    BY <2>1, <2>3 DEF Evident
  <2> QED
    BY <2>1, <2>4 DEF Decided
<1>6. ASSUME NEW w \in Workers, NEW r \in Revisions, ApplyTo(w, r) PROVE Decided'
  BY <1>1, <1>6 DEF ApplyTo, Apply, snapshotVars, trackerVars
<1>7. ASSUME NEW w \in Workers, NEW r \in Revisions, BootWith(w, r) PROVE Decided'
  BY <1>1, <1>7 DEF BootWith, Boot, snapshotVars, trackerVars
<1>8. ASSUME NEW w \in Workers, NEW r \in Revisions, NEW failed \in BOOLEAN,
             Deliver(w, r, failed)
      PROVE  Decided'
  BY <1>1, <1>8 DEF Deliver, R!Report, configVars, snapshotVars, operatorVars
<1>9. ASSUME NEW w \in Workers, Process(w) PROVE Decided'
  BY <1>1, <1>9 DEF Process, Start, Crash, snapshotVars, trackerVars, operatorVars
<1>10. ASSUME NEW w \in Workers, CountRequest(w) PROVE Decided'
  BY <1>1, <1>10 DEF CountRequest, configVars, snapshotVars, trackerVars, operatorVars
<1>11. ASSUME Merge PROVE Decided'
  BY <1>1, <1>11 DEF Merge, configVars, snapshotVars, trackerVars, operatorVars
<1>12. CASE UNCHANGED vars
  BY <1>1, <1>12 DEF vars, configVars, snapshotVars, trackerVars, operatorVars
<1> QED
  BY <1>2, <1>3, <1>4, <1>5, <1>6, <1>7, <1>8, <1>9, <1>10, <1>11, <1>12 DEF Next

(* The books of a merge stay balanced.                                      *)
LEMMA BooksKept ==
  ASSUME FleetInv, [Next]_vars
  PROVE  Books'
<1> USE DEF FleetInv
<1>0. /\ \A w \in Workers : run[w] \in Nat /\ count[w] \in Nat /\ total[w] \in Nat
      /\ \A w \in Workers : run'[w] \in Nat /\ count'[w] \in Nat /\ total'[w] \in Nat
  BY FleetTypes DEF FleetTypeOK
<1>1. ASSUME base' = base,
             \A w \in Workers :
               /\ run[w] <= run'[w]
               /\ run'[w] = run[w] => count'[w] - count[w] = total'[w] - total[w]
      PROVE  Books'
  <2> SUFFICES ASSUME NEW b \in base
               PROVE  \E c, t \in [Workers -> Int] :
                        /\ b.counter = Sum(c) /\ b.total = Sum(t)
                        /\ \A w \in Workers : \E n \in Nat :
                             /\ b.generations[w] = {n} /\ n <= run'[w]
                             /\ run'[w] = n => count'[w] - c[w] = total'[w] - t[w]
    BY <1>1 DEF Books
  <2>1. PICK c \in [Workers -> Int], t \in [Workers -> Int] :
          /\ b.counter = Sum(c) /\ b.total = Sum(t)
          /\ \A w \in Workers : \E n \in Nat :
               /\ b.generations[w] = {n} /\ n <= run[w]
               /\ run[w] = n => count[w] - c[w] = total[w] - t[w]
    BY DEF Books
  <2>2. ASSUME NEW w \in Workers
        PROVE  \E n \in Nat :
                 /\ b.generations[w] = {n} /\ n <= run'[w]
                 /\ run'[w] = n => count'[w] - c[w] = total'[w] - t[w]
    <3>1. PICK n \in Nat : /\ b.generations[w] = {n} /\ n <= run[w]
                           /\ run[w] = n => count[w] - c[w] = total[w] - t[w]
      BY <2>1
    <3>2. run[w] \in Nat /\ run'[w] \in Nat /\ run[w] <= run'[w]
      BY <1>0, <1>1
    <3>3. n <= run'[w]
      BY <3>1, <3>2
    <3>4. ASSUME run'[w] = n PROVE count'[w] - c[w] = total'[w] - t[w]
      <4>1. run[w] = n /\ run'[w] = run[w]
        BY <3>1, <3>2, <3>4
      <4>2. /\ count[w] - c[w] = total[w] - t[w]
            /\ count'[w] - count[w] = total'[w] - total[w]
        BY <3>1, <4>1, <1>1
      <4>3. /\ count[w] \in Int /\ total[w] \in Int /\ count'[w] \in Int /\ total'[w] \in Int
            /\ c[w] \in Int /\ t[w] \in Int
        BY <1>0
      <4> QED
        BY <4>2, <4>3
    <3> QED
      BY <3>1, <3>3, <3>4
  <2> QED
    BY <2>1, <2>2
<1>2. ASSUME UNCHANGED <<base, run, count, total>> PROVE Books'
  BY <1>2 DEF Books
<1>3. ASSUME NEW o \in Operators, Decide(o) \/ Change(o) \/ Conflict(o) PROVE Books'
  <2>1. CASE Change(o)
    BY <1>2, <2>1, ChangeDoes DEF Change, metricVars
  <2>2. CASE Decide(o) \/ Conflict(o)
    BY <1>2, <2>2 DEF Decide, Conflict, configVars, processVars, metricVars
  <2> QED
    BY <1>3, <2>1, <2>2
<1>4. ASSUME NEW g \in Gates, NEW status \in Findings, Assess(g, status) PROVE Books'
  BY <1>2, <1>4 DEF Assess, configVars, processVars, metricVars
<1>5. ASSUME NEW w \in Workers, NEW r \in Revisions, ApplyTo(w, r) PROVE Books'
  BY <1>2, <1>5 DEF ApplyTo, Apply, metricVars
<1>6. ASSUME NEW w \in Workers, NEW r \in Revisions, BootWith(w, r) PROVE Books'
  <2>1. /\ base' = base /\ total' = total /\ count' = [count EXCEPT ![w] = 0]
        /\ run' = [run EXCEPT ![w] = @ + 1]
    BY <1>6 DEF BootWith, Boot
  <2>2. /\ run'[w] = run[w] + 1
        /\ \A x \in Workers : x # w => run'[x] = run[x] /\ count'[x] = count[x]
    BY <2>1 DEF FleetTypeOK
  <2>3. ASSUME NEW x \in Workers
        PROVE  /\ run[x] <= run'[x]
               /\ run'[x] = run[x] => count'[x] - count[x] = total'[x] - total[x]
    <3>1. CASE x = w
      BY <3>1, <2>2, <1>0
    <3>2. CASE x # w
      BY <3>2, <2>1, <2>2, <1>0
    <3> QED
      BY <3>1, <3>2
  <2> QED
    BY <1>1, <2>1, <2>3
<1>7. ASSUME NEW w \in Workers, NEW r \in Revisions, NEW failed \in BOOLEAN,
             Deliver(w, r, failed)
      PROVE  Books'
  BY <1>2, <1>7 DEF Deliver, configVars, processVars, metricVars
<1>8. ASSUME NEW w \in Workers, Process(w) PROVE Books'
  BY <1>2, <1>8 DEF Process, Start, Crash, metricVars
<1>9. ASSUME NEW w \in Workers, CountRequest(w) PROVE Books'
  <2>1. /\ base' = base /\ run' = run /\ count' = [count EXCEPT ![w] = @ + 1]
        /\ total' = [total EXCEPT ![w] = @ + 1]
    BY <1>9 DEF CountRequest, configVars, processVars
  <2>2. /\ count'[w] = count[w] + 1 /\ total'[w] = total[w] + 1
        /\ \A x \in Workers : x # w => count'[x] = count[x] /\ total'[x] = total[x]
    BY <2>1 DEF FleetTypeOK
  <2>3. ASSUME NEW x \in Workers
        PROVE  run[x] <= run'[x] /\ count'[x] - count[x] = total'[x] - total[x]
    <3>1. CASE x = w
      BY <3>1, <2>1, <2>2, <1>0
    <3>2. CASE x # w
      BY <3>2, <2>1, <2>2, <1>0
    <3> QED
      BY <3>1, <3>2
  <2> QED
    BY <1>1, <2>1, <2>3
<1>10. ASSUME Merge PROVE Books'
  <2>1. /\ base' = {[counter |-> Counter(Taken(Workers)), total |-> Sum(total),
                     generations |-> [w \in Workers |-> {run[w]}]]}
        /\ UNCHANGED <<run, count, total>>
    BY <1>10 DEF Merge, configVars, processVars
  <2>2. count \in [Workers -> Int] /\ total \in [Workers -> Int]
    BY DEF FleetTypeOK
  <2>3. Counter(Taken(Workers)) = Sum(count)
    BY <2>2, CounterIsSum
  <2>4. ASSUME NEW b \in base'
        PROVE  /\ b.counter = Sum(count) /\ b.total = Sum(total)
               /\ \A w \in Workers : b.generations[w] = {run[w]}
    BY <2>1, <2>3
  <2>5. \A w \in Workers : /\ run[w] \in Nat /\ run[w] <= run[w]
                           /\ count[w] - count[w] = total[w] - total[w]
    BY <1>0
  <2>6. ASSUME NEW b \in base'
        PROVE  \E c, t \in [Workers -> Int] :
                 /\ b.counter = Sum(c) /\ b.total = Sum(t)
                 /\ \A w \in Workers : \E n \in Nat :
                      /\ b.generations[w] = {n} /\ n <= run[w]
                      /\ run[w] = n => count[w] - c[w] = total[w] - t[w]
    BY <2>2, <2>4, <2>5
  <2> QED
    BY <2>1, <2>6 DEF Books
<1>11. CASE UNCHANGED vars
  BY <1>2, <1>11 DEF vars, configVars, processVars, metricVars
<1> QED
  BY <1>3, <1>4, <1>5, <1>6, <1>7, <1>8, <1>9, <1>10, <1>11 DEF Next

-----------------------------------------------------------------------------
(* Every step keeps the invariant of the fleet.                             *)
LEMMA FleetNextKeeps == FleetInv /\ [Next]_vars => FleetInv'
BY FleetTypes, OrderKept, HadKept, ChainsKept, DecidedKept, BooksKept DEF FleetInv

(* The invariant holds at every moment.                                     *)
LEMMA FleetInductive == Spec => []FleetInv
BY FleetInitHolds, FleetNextKeeps, PTL DEF Spec

(* Every variable of the fleet has its type.                                *)
THEOREM FleetTyped == Spec => []FleetTypeOK
BY FleetInductive, PTL DEF FleetInv

(* A change that every worker reported is in force, however late, often and *)
(* out of order the reports come: RevisionTracker.status() is true of the   *)
(* processes that run since.                                                *)
THEOREM Stability == Spec => []StableIsTrue
<1>1. FleetInv => StableIsTrue
  <2> SUFFICES ASSUME FleetInv, R!Stable, NEW w \in Workers
               PROVE  \E h \in had : /\ h[1] = w /\ h[3] = desired
                                     /\ h[2] = run[w] /\ process[w] # "down" =>
                                          current[w] = desired
    BY DEF StableIsTrue
  <2>1. reports[w] # {} /\ \A r \in reports[w] : r = desired
    BY DEF R!Stable, R!Missing, R!Mismatched
  <2>2. PICK h \in had : h[1] = w /\ h[3] = desired
    BY <2>1 DEF FleetInv, HadIsUsed
  <2>3. ASSUME h[2] = run[w], process[w] # "down" PROVE current[w] = desired
    <3>1. desired \in used[w] /\ Chain(w)
      BY <2>2, <2>3 DEF FleetInv, HadIsUsed, Chains
    <3>2. \A s \in used[w] : basis[s] # desired
      BY <3>1 DEF FleetInv, MadeInOrder, Chain
    <3> QED
      BY <3>1, <3>2 DEF Chain
  <2> QED
    BY <2>2, <2>3
<1> QED
  BY <1>1, FleetInductive, PTL

(* ConfigManager.apply() loses no change and applies none twice: what a     *)
(* process used since it started is one chain that ends at its snapshot.    *)
THEOREM Chaining == Spec => []ChangesAreChained
<1>1. FleetInv => ChangesAreChained
  <2> SUFFICES ASSUME FleetInv, NEW w \in Workers, process[w] # "down"
               PROVE
                 /\ current[w] \in used[w] /\ Cardinality(used[w]) <= HistoryLimit
                 /\ Cardinality({r \in used[w] : basis[r] \notin used[w]}) = 1
                 /\ \A r \in used[w] : basis[r] # current[w]
                 /\ \A r, s \in used[w] : r # s /\ basis[r] \in used[w] => basis[r] # basis[s]
                 /\ process[w] = "serving" => pinned[w] = {budgets[current[w]]}
    BY DEF ChangesAreChained
  <2>1. Chain(w)
    BY DEF FleetInv, Chains
  <2>2. PICK first \in used[w] : \A r \in used[w] : basis[r] \notin used[w] <=> r = first
    BY <2>1 DEF Chain
  <2>3. {r \in used[w] : basis[r] \notin used[w]} = {first}
    BY <2>2
  <2>4. Cardinality({r \in used[w] : basis[r] \notin used[w]}) = 1
    BY <2>3, FS_Singleton
  <2>5. ASSUME NEW r \in used[w] PROVE basis[r] # current[w]
    <3>1. r \in made /\ current[w] \in made /\ r <= current[w]
      BY <2>1 DEF Chain
    <3>2. basis[r] < r /\ basis[r] \in made \union {Nobody}
      BY <3>1 DEF FleetInv, MadeInOrder
    <3>3. r \in Nat /\ basis[r] \in Nat /\ current[w] \in Nat
      BY <3>1, <3>2, RevisionsAreNumbers DEF FleetInv, FleetTypeOK, Nobody
    <3> QED
      BY <3>1, <3>2, <3>3
  <2> QED
    BY <2>1, <2>4, <2>5 DEF Chain
<1> QED
  BY <1>1, FleetInductive, PTL

(* If a merge is complete against the one kept, the difference of their     *)
(* counters is what happened in between at any number of workers: a counter *)
(* that restarted from zero is never mistaken for one that went on.         *)
THEOREM Deltas == Spec => []DeltasAreTrue
<1>1. FleetInv => DeltasAreTrue
  <2> SUFFICES ASSUME FleetInv, NEW b \in base, NEW S \in SUBSET Workers,
                      Complete(Taken(S), Workers, b.generations)
               PROVE  Counter(Taken(S)) - b.counter = Sum(total) - b.total
    BY DEF DeltasAreTrue
  <2>1. S = Workers
    <3>1. \A s \in Taken(S) : s.worker \in S
      BY DEF Taken
    <3>2. ASSUME NEW w \in S PROVE \E s \in Taken(S) : s.worker = w
      <4> DEFINE snapshot == [worker |-> w, generation |-> run[w],
                              alive |-> process[w] # "down", counter |-> count[w]]
      <4>1. snapshot \in Taken(S) /\ snapshot.worker = w
        BY DEF Taken
      <4> QED
        BY <4>1
    <3>3. {s.worker : s \in Taken(S)} = S
      BY <3>1, <3>2
    <3> QED
      BY <3>3 DEF Complete
  <2>2. \A w \in Workers : b.generations[w] \subseteq {run[w]}
    BY <2>1 DEF Complete, Taken, SameGeneration
  <2>3. PICK c \in [Workers -> Int], t \in [Workers -> Int] :
          /\ b.counter = Sum(c) /\ b.total = Sum(t)
          /\ \A w \in Workers : \E n \in Nat :
               /\ b.generations[w] = {n} /\ n <= run[w]
               /\ run[w] = n => count[w] - c[w] = total[w] - t[w]
    BY DEF FleetInv, Books
  <2>4. \A w \in Workers : count[w] - c[w] = total[w] - t[w]
    BY <2>2, <2>3
  <2>5. count \in [Workers -> Int] /\ total \in [Workers -> Int]
    BY DEF FleetInv, FleetTypeOK
  <2>6. Sum(count) - Sum(c) = Sum(total) - Sum(t)
    BY <2>4, <2>5, SumBalance
  <2> QED
    BY <2>1, <2>3, <2>5, <2>6, CounterIsSum
<1> QED
  BY <1>1, FleetInductive, PTL

(* A promotion is made from the revision its evidence is about: for every   *)
(* gate of evaluate_promotion() and every worker, however many operators    *)
(* decide at the same time.                                                 *)
THEOREM Promotions == Spec => PromotionsAreCurrent
<1> DEFINE Good(o, d) ==
      d.promotes /\ desired' # desired /\ decided'[o] = {} =>
        /\ \A g \in Gates : \E item \in evidence[g] : item.epoch = desired
        /\ \A w \in Workers : \E h \in had : h[1] = w /\ h[3] = desired
<1>1. ASSUME FleetInv, [Next]_vars PROVE \A o \in Operators : \A d \in decided[o] : Good(o, d)
  <2> SUFFICES ASSUME NEW o \in Operators, NEW d \in decided[o],
                      d.promotes, desired' # desired, decided'[o] = {}
               PROVE  Evident
    BY DEF Evident
  <2>1. PICK p \in Operators : Change(p)
    BY <1>1, OthersLeave
  <2>2. PICK e \in decided[p] : /\ e.epoch = desired
                                /\ \A x \in Operators : x # p => decided'[x] = decided[x]
    BY <1>1, <2>1, ChangeDoes
  <2>3. o = p
    BY <2>2
  <2>4. d = e
    BY <1>1, <2>2, <2>3 DEF FleetInv, Decided
  <2> QED
    BY <1>1, <2>2, <2>4 DEF FleetInv, Decided
<1>2. FleetInv /\ [Next]_vars =>
        [\A o \in Operators : \A d \in decided[o] : Good(o, d)]_vars
  BY <1>1
<1> QED
  BY <1>2, FleetInductive, PTL DEF PromotionsAreCurrent, Spec

=============================================================================
