------------------------------- MODULE Coverage -------------------------------
(***************************************************************************)
(* CohortWindow and PipelineObservation (observability/coverage.py): the     *)
(* requests that started in one interval report the steps they pass, and the *)
(* cohort counts them and derives its ratios.                                *)
(*                                                                         *)
(* Any thread may make any call at any time.  A call holds the lock of its   *)
(* observation, and takes the lock of the cohort around what it does to it,  *)
(* so a call is one action; a call that raises, or that reports a step again,*)
(* changes nothing.                                                          *)
(*                                                                         *)
(* An operator whose name has a suffix after "_" is a plausible bug, used by *)
(* no definition: it stands for the operator it precedes when the properties *)
(* are tested against it.                                                    *)
(***************************************************************************)
EXTENDS Integers, FiniteSets

CONSTANT Observations      \* the requests that may be registered

ASSUME ObservationsAssumption == IsFiniteSet(Observations)

(* Eligible, selected, dispatched, terminal, comparable and stored; of the  *)
(* comparable ones, matched and different.                                  *)
Steps   == {"E", "S", "D", "T", "C", "W"}
Counted == Steps \union {"M", "X"}

(* The verdict of compared(); "unavailable" stands for those of an executed *)
(* request that could not be compared.                                      *)
Comparable == {"matched", "different"}
Results    == Comparable \union {"not_executed", "unavailable"}

VARIABLES
  seen,       \* _seen of each observation
  result,     \* _result of each observation, or "none"
  life,       \* "new", "open" (registered), and how finish() was called:
              \* "settled", "dropped", "unknown"
  counts,     \* counts of the cohort
  pending,    \* pending
  complete,   \* complete
  closed      \* closed

cohortVars == <<seen, result, life, counts, pending, complete, closed>>

-----------------------------------------------------------------------------
Finished == {"settled", "dropped", "unknown"}       \* _finished

CohortInit ==
  /\ seen = [o \in Observations |-> {}]
  /\ result = [o \in Observations |-> "none"]
  /\ life = [o \in Observations |-> "new"]
  /\ counts = [s \in Counted |-> 0]
  /\ pending = 0 /\ complete = TRUE /\ closed = FALSE

(* begin(): refused by a closed cohort.                                     *)
MayBegin_Always == TRUE

MayBegin == ~closed

Begin(o) ==
  /\ life[o] = "new" /\ MayBegin
  /\ life' = [life EXCEPT ![o] = "open"]
  /\ pending' = pending + 1
  /\ UNCHANGED <<seen, result, counts, complete, closed>>

(* _advance() reaching its end: the step is new, what it builds on was      *)
(* seen, the observation is open, and nothing is dispatched after the       *)
(* verdict.                                                                 *)
MayAdvance_NoPrerequisite(o, s, before) == s \notin seen[o] /\ life[o] = "open"

MayAdvance(o, s, before) ==
  /\ s \notin seen[o]
  /\ life[o] = "open" /\ before \subseteq seen[o]
  /\ s = "D" => result[o] = "none"

Advance(o, s, before) ==
  /\ MayAdvance(o, s, before)
  /\ seen' = [seen EXCEPT ![o] = @ \union {s}]
  /\ counts' = [counts EXCEPT ![s] = @ + 1]
  /\ UNCHANGED <<result, life, pending, complete, closed>>

(* eligible(), selected(), dispatched(), terminal().                        *)
Progress(o) ==
  \/ Advance(o, "E", {})    \/ Advance(o, "S", {"E"})
  \/ Advance(o, "D", {"S"}) \/ Advance(o, "T", {"D"})

(* compared(): the verdict is final, and fits what was executed.            *)
MayCompare_Twice(o, r) ==
  life[o] = "open" /\ IF r = "not_executed" THEN "D" \notin seen[o] ELSE "T" \in seen[o]

MayCompare(o, r) ==
  /\ result[o] = "none" /\ life[o] = "open"
  /\ "S" \in seen[o]
  /\ IF r = "not_executed" THEN "D" \notin seen[o] ELSE "T" \in seen[o]

(* The counts after it: C, and M or X, under one lock of the cohort.        *)
CountsAfter(r) ==
  [s \in Counted |->
     IF \/ s = "C" /\ r \in Comparable
        \/ s = "M" /\ r = "matched"
        \/ s = "X" /\ r = "different"
     THEN counts[s] + 1 ELSE counts[s]]

Compared(o, r) ==
  /\ MayCompare(o, r)
  /\ result' = [result EXCEPT ![o] = r]
  /\ seen' = [seen EXCEPT ![o] = IF r \in Comparable THEN @ \union {"C"} ELSE @]
  /\ counts' = CountsAfter(r)
  /\ UNCHANGED <<life, pending, complete, closed>>

(* stored(): only of an event with a verdict.                               *)
Stored(o) == result[o] # "none" /\ Advance(o, "W", {"S"})

(* finish(): what was dispatched has ended, and what was selected is stored *)
(* or lost, unless the caller does not know.                                *)
MayFinish_Undecided(o, how) == life[o] = "open"

MayFinish(o, how) ==
  /\ life[o] = "open"
  /\ how = "unknown" \/ "D" \notin seen[o] \/ "T" \in seen[o]
  /\ how # "settled" \/ "S" \notin seen[o] \/ "W" \in seen[o]

Finish(o, how) ==
  /\ MayFinish(o, how)
  /\ life' = [life EXCEPT ![o] = how]
  /\ pending' = pending - 1
  /\ complete' = (complete /\ how # "unknown")
  /\ UNCHANGED <<seen, result, counts, closed>>

MarkUnknown ==
  /\ complete
  /\ complete' = FALSE
  /\ UNCHANGED <<seen, result, life, counts, pending, closed>>

(* close(): once the interval is over and no observation is open.           *)
Close ==
  /\ ~closed /\ pending = 0
  /\ closed' = TRUE
  /\ UNCHANGED <<seen, result, life, counts, pending, complete>>

CohortNext ==
  \/ \E o \in Observations :
       \/ Begin(o) \/ Progress(o) \/ Stored(o)
       \/ \E r \in Results : Compared(o, r)
       \/ \E how \in Finished : Finish(o, how)
  \/ MarkUnknown \/ Close

CohortSpec == CohortInit /\ [][CohortNext]_cohortVars

-----------------------------------------------------------------------------
(* ratio() raises unless these hold of a numerator and a denominator.       *)
RatioDefined(n, d) == n >= 0 /\ d >= 0 /\ n <= d

(* The ratios of report(): numerator and denominator of each.               *)
Ratios == {<<"S", "E">>, <<"D", "S">>, <<"C", "S">>, <<"C", "E">>, <<"X", "C">>, <<"W", "S">>}

-----------------------------------------------------------------------------
(* Every variable has its type. *)
TypeOK ==
  /\ seen \in [Observations -> SUBSET Steps]
  /\ result \in [Observations -> Results \union {"none"}]
  /\ life \in [Observations -> {"new", "open"} \union Finished]
  /\ counts \in [Counted -> Nat]
  /\ pending \in Nat /\ complete \in BOOLEAN /\ closed \in BOOLEAN

(* The observations that a count stands for.                                *)
Behind(s) == {o \in Observations : CASE s = "M" -> result[o] = "matched"
                                     [] s = "X" -> result[o] = "different"
                                     [] OTHER   -> s \in seen[o]}

CountedOnce == \A s \in Counted : counts[s] = Cardinality(Behind(s))

(* A count is the number of observations that reached the step, each        *)
(* counted once, however often and by however many threads it is reported;  *)
(* and pending is the number of those registered and not finished.          *)
CountsAreExact ==
  /\ CountedOnce
  /\ pending = Cardinality({o \in Observations : life[o] = "open"})

(* docs/observability/coverage-and-analysis.md: E >= S >= D >= T >= C,      *)
(* C = M + X and 0 <= W <= S; at every moment, not only at the end.         *)
StepsAreNested ==
  /\ counts["E"] >= counts["S"] /\ counts["S"] >= counts["D"]
  /\ counts["D"] >= counts["T"] /\ counts["T"] >= counts["C"]
  /\ counts["C"] = counts["M"] + counts["X"]
  /\ 0 <= counts["W"] /\ counts["W"] <= counts["S"]

(* report() never raises: every ratio it computes is defined.               *)
ReportNeverRaises ==
  \A p \in Ratios : RatioDefined(counts[p[1]], counts[p[2]])

(* A closed cohort is final: none of its counts ever changes, and its       *)
(* completeness is only ever lost.                                          *)
ClosedIsFinal ==
  [][closed => UNCHANGED <<counts, pending>> /\ (complete' => complete)]_cohortVars

(* A closed cohort that is complete has no loose end: what was dispatched   *)
(* has ended, and every selected request is stored with its verdict, or is  *)
(* a known loss.                                                            *)
ClosedCompleteIsWhole ==
  closed /\ complete =>
    \A o \in Observations :
      /\ "D" \in seen[o] => "T" \in seen[o]
      /\ "S" \in seen[o] => \/ "W" \in seen[o] /\ result[o] # "none"
                            \/ life[o] = "dropped"
=============================================================================
