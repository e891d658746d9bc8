------------------------------ MODULE Rollout ------------------------------
(***************************************************************************)
(* The decisions of a rollout (rollout/policy.py): RevisionTracker, which    *)
(* watches a change reach every worker, and the evidence a promotion needs.  *)
(***************************************************************************)
EXTENDS Naturals

CONSTANTS
  Expected,      \* the workers the tracker knows
  Gates,         \* the gates of a promotion
  Comparing      \* the gate that assesses the comparison, G-03

VARIABLES
  desired,       \* _desired
  reports,       \* _reports: {} or a singleton for each worker
  failures,      \* _failures
  evidence       \* external: the last GateEvidence of each gate: {} or a singleton

trackerVars == <<desired, reports, failures>>
rolloutVars == <<trackerVars, evidence>>

RolloutInit(revision) ==
  /\ desired = revision
  /\ reports = [w \in Expected |-> {}] /\ failures = {}
  /\ evidence = [g \in Gates |-> {}]

(* request_change()                                                         *)
IsCurrent_Any(previous) == TRUE

IsCurrent(previous) == previous = desired

RequestChange(previous, next) ==
  /\ IsCurrent(previous) /\ next # previous
  /\ desired' = next /\ failures' = {}
  /\ UNCHANGED <<reports, evidence>>

Report(w, revision, failed) ==
  /\ w \in Expected
  /\ reports' = [reports EXCEPT ![w] = {revision}]
  /\ failures' = IF failed THEN failures \union {w} ELSE failures \ {w}
  /\ UNCHANGED <<desired, evidence>>

(* status()                                                                 *)
Missing_None == {}

Missing == {w \in Expected : reports[w] = {}}

Mismatched == {w \in Expected : \E r \in reports[w] : r # desired}

Stable == Missing = {} /\ Mismatched = {} /\ failures = {}

-----------------------------------------------------------------------------
Statuses == {"pass", "fail", "unknown", "excluded"}

Assess(gate, epoch, status) ==
  /\ evidence' = [evidence EXCEPT ![gate] = {[epoch |-> epoch, status |-> status]}]
  /\ UNCHANGED trackerVars

(* evaluate_promotion(): what keeps a rollout from the stage.               *)
Blocked(gate, epoch, active) ==
  ~\E item \in evidence[gate] :
      /\ item.epoch = epoch /\ item.status \in {"pass", "excluded"}
      /\ gate = Comparing => (item.status = "pass" <=> active)

StageFits(stage, active) ==
  /\ stage \in {"S5", "S6"} => ~active
  /\ stage = "S2" => active
  /\ stage \in {"S0", "S1"} => ~active

PlannedEnd(stage, active) == stage \in {"S5", "S6"} \/ (stage = "S4" /\ ~active)

MayPromote(stage, epoch, active, history) ==
  /\ StageFits(stage, active)
  /\ \A g \in Gates : ~Blocked(g, epoch, active)
  /\ PlannedEnd(stage, active) => history
=============================================================================
