------------------------------- MODULE Fleet -------------------------------
(***************************************************************************)
(* A fleet of workers during a rollout: their configurations, the tracker    *)
(* and the promotion decisions, and their merged metrics.  No code in src/   *)
(* connects these parts; operators do, by the procedures in                  *)
(* docs/rollout/change-management.md, docs/routing/configuration.md and      *)
(* docs/observability/metrics.md, which are the environment here:            *)
(*                                                                         *)
(*   - an operator looks at the tracker, decides, and asks for a change      *)
(*     against the revision he saw, under a revision never used before;      *)
(*   - snapshots that were asked for are applied to workers in any order,    *)
(*     late or never, and a worker is restarted from a snapshot in its file; *)
(*   - reports of workers reach the tracker late, repeatedly, in any order,  *)
(*     or never;                                                             *)
(*   - metrics of some or all workers are taken and merged.                  *)
(***************************************************************************)
EXTENDS Configuration, WorkerMetrics

CONSTANTS
  Operators,     \* those who change the configuration
  Gates,         \* the gates of a promotion
  Comparing,     \* the gate that assesses the comparison
  Findings,      \* what they find when they assess a gate, a subset of Statuses
  Stages,        \* the stages operators aim at
  MaxHappenings  \* a bound: how often something is changed, counted or restarted

ASSUME FleetAssumption == IsFiniteSet(Workers) /\ Revisions # {}

VARIABLES
  desired, reports, failures, evidence,      \* see Rollout
  decided,    \* the decision of each operator: {} or a singleton
  had,        \* all <<w, n, r>>: w had the snapshot r in its n-th run
  count,      \* the counter of each worker, as far as it is known
  total,      \* what really happened at each worker in all its runs
  base        \* the last merge of all workers: {} or a singleton

trackerVars  == <<desired, reports, failures, evidence>>
operatorVars == <<decided, had>>
metricVars   == <<count, total, base>>
vars == <<configVars, trackerVars, operatorVars, metricVars>>

R == INSTANCE Rollout WITH Expected <- Workers

Sum(f) == MapThenSumSet(LAMBDA w : f[w], Workers)

Happenings == Cardinality(made) - 1 + Sum([w \in Workers |-> run[w] - 1]) + Sum(total)
Bounded    == Happenings < MaxHappenings

FirstRevision == CHOOSE r \in Revisions : \A s \in Revisions : r <= s

Init ==
  /\ \E b \in Budgets : ConfigInit(FirstRevision, b)
  /\ R!RolloutInit(FirstRevision)
  /\ decided = [o \in Operators |-> {}]
  /\ had = {<<w, 1, FirstRevision>> : w \in Workers}
  /\ count = [w \in Workers |-> 0] /\ total = [w \in Workers |-> 0]
  /\ base = {}

-----------------------------------------------------------------------------
(* An operator sees the tracker stable at a revision, the epoch, and finds  *)
(* that the evidence allows the next stage; or he only looks, to return.    *)
Decide(o) ==
  /\ decided[o] = {}
  /\ \/ decided' = [decided EXCEPT ![o] = {[epoch |-> desired, promotes |-> FALSE]}]
     \/ /\ R!Stable
        /\ \E stage \in Stages, active, history \in BOOLEAN :
             R!MayPromote(stage, desired, active, history)
        /\ decided' = [decided EXCEPT ![o] = {[epoch |-> desired, promotes |-> TRUE]}]
  /\ UNCHANGED <<configVars, trackerVars, had, metricVars>>

Change(o) ==
  /\ Bounded
  /\ \E d \in decided[o], r \in Revisions \ made, b \in Budgets :
       /\ \A s \in Revisions \ made : r <= s
       /\ R!RequestChange(d.epoch, r) /\ Prepare(r, d.epoch, b)
  /\ decided' = [decided EXCEPT ![o] = {}]
  /\ UNCHANGED <<had, metricVars>>

Conflict(o) ==
  /\ \E d \in decided[o] : ~R!IsCurrent(d.epoch)
  /\ decided' = [decided EXCEPT ![o] = {}]
  /\ UNCHANGED <<configVars, trackerVars, had, metricVars>>

(* A gate is assessed for the epoch of a stable revision.                   *)
Assess(g, status) ==
  /\ R!Stable /\ R!Assess(g, desired, status)
  /\ UNCHANGED <<configVars, operatorVars, metricVars>>

-----------------------------------------------------------------------------
ApplyTo(w, r) ==
  /\ Apply(w, r, basis[r])
  /\ had' = had \union {<<w, run[w], r>>}
  /\ UNCHANGED <<trackerVars, decided, metricVars>>

BootWith(w, r) ==
  /\ Bounded /\ Boot(w, r)
  /\ had' = had \union {<<w, run[w] + 1, r>>}
  /\ count' = [count EXCEPT ![w] = 0]
  /\ UNCHANGED <<trackerVars, decided, total, base>>

Process(w) ==
  /\ Start(w) \/ Crash(w)
  /\ UNCHANGED <<trackerVars, operatorVars, metricVars>>

Deliver(w, r, failed) ==
  /\ \E h \in had : h[1] = w /\ h[3] = r
  /\ R!Report(w, r, failed)
  /\ UNCHANGED <<configVars, operatorVars, metricVars>>

-----------------------------------------------------------------------------
CountRequest(w) ==
  /\ Bounded /\ process[w] = "serving"
  /\ count' = [count EXCEPT ![w] = @ + 1] /\ total' = [total EXCEPT ![w] = @ + 1]
  /\ UNCHANGED <<configVars, trackerVars, operatorVars, base>>

(* The metrics of some workers; the counters of a process that ended may    *)
(* still be found.  A merge is kept if it has all of them.                  *)
Taken(S) == {[worker |-> w, generation |-> run[w], alive |-> process[w] # "down",
              counter |-> count[w]] : w \in S}

Anything == [w \in Workers |-> {}]

Merge ==
  /\ Complete(Taken(Workers), Workers, Anything)
  /\ base' = {[counter |-> Counter(Taken(Workers)), total |-> Sum(total),
               generations |-> [w \in Workers |-> {run[w]}]]}
  /\ UNCHANGED <<configVars, trackerVars, operatorVars, count, total>>

-----------------------------------------------------------------------------
Next ==
  \/ \E o \in Operators : Decide(o) \/ Change(o) \/ Conflict(o)
  \/ \E g \in Gates, status \in Findings : Assess(g, status)
  \/ \E w \in Workers :
       \/ Process(w) \/ CountRequest(w)
       \/ \E r \in Revisions : \/ ApplyTo(w, r) \/ BootWith(w, r)
                               \/ \E failed \in BOOLEAN : Deliver(w, r, failed)
  \/ Merge

Spec == Init /\ [][Next]_vars

-----------------------------------------------------------------------------
(* Every variable has its type. *)
FleetTypeOK ==
  /\ made \in SUBSET Revisions
  /\ basis \in [Revisions -> Revisions \union {Nobody}] /\ budgets \in [Revisions -> Budgets]
  /\ process \in [Workers -> {"down", "ready", "serving"}]
  /\ current \in [Workers -> Revisions \union {Nobody}] /\ used \in [Workers -> SUBSET Revisions]
  /\ pinned \in [Workers -> SUBSET Budgets] /\ run \in [Workers -> Nat]
  /\ desired \in Revisions /\ reports \in [Workers -> SUBSET Revisions]
  /\ failures \in SUBSET Workers
  /\ evidence \in [Gates -> SUBSET [epoch : Revisions, status : Findings]]
  /\ decided \in [Operators -> SUBSET [epoch : Revisions, promotes : BOOLEAN]]
  /\ had \in SUBSET (Workers \X Nat \X Revisions)
  /\ count \in [Workers -> Nat] /\ total \in [Workers -> Nat]
  /\ base \in SUBSET [counter : Int, total : Int, generations : [Workers -> SUBSET Nat]]

(* A change that every worker reported is in force: each worker applied the *)
(* revision, and one that was not restarted since still runs it, although   *)
(* reports come late, repeatedly and in any order.                          *)
StableIsTrue ==
  R!Stable => \A w \in Workers :
    \E h \in had : /\ h[1] = w /\ h[3] = desired
                   /\ h[2] = run[w] /\ process[w] # "down" => current[w] = desired

(* Every snapshot a process got since it was started was prepared against   *)
(* the one it replaced, no change is lost or applied twice, and the budgets *)
(* of a process that serves are those it started with.                      *)
ChangesAreChained ==
  \A w \in Workers : process[w] # "down" =>
    /\ current[w] \in used[w] /\ Cardinality(used[w]) <= HistoryLimit
    /\ Cardinality({r \in used[w] : basis[r] \notin used[w]}) = 1
    /\ \A r \in used[w] : basis[r] # current[w]
    /\ \A r, s \in used[w] : r # s /\ basis[r] \in used[w] => basis[r] # basis[s]
    /\ process[w] = "serving" => pinned[w] = {budgets[current[w]]}

(* A promotion is made from the revision its evidence is about: every gate  *)
(* was assessed while that revision was the desired one, and every worker   *)
(* applied it, however many operators decide at the same time.              *)
PromotionsAreCurrent ==
  [][\A o \in Operators : \A d \in decided[o] :
       d.promotes /\ desired' # desired /\ decided'[o] = {} =>
         /\ \A g \in Gates : \E item \in evidence[g] : item.epoch = desired
         /\ \A w \in Workers : \E h \in had : h[1] = w /\ h[3] = desired]_vars

(* If a merge is complete against the one kept, their difference is what    *)
(* happened in between, whatever was restarted or missing meanwhile.        *)
DeltasAreTrue ==
  \A b \in base : \A S \in SUBSET Workers :
    Complete(Taken(S), Workers, b.generations) =>
      Counter(Taken(S)) - b.counter = Sum(total) - b.total
=============================================================================
