---------------------------- MODULE Configuration ----------------------------
(***************************************************************************)
(* The configuration of worker processes: ConfigManager                      *)
(* (routing/configuration.py) with the validator of the runtime              *)
(* (proxy/runtime.py), which pins the resource budgets when it starts.       *)
(*                                                                         *)
(* A snapshot is known by its revision; of its content, the revision it was  *)
(* prepared against and its budgets are kept.  A process that ends forgets   *)
(* everything and starts again from the snapshot in its file.                *)
(***************************************************************************)
EXTENDS Naturals, FiniteSets

CONSTANTS
  Workers,       \* the worker processes
  Revisions,     \* the revisions of snapshots
  Budgets,       \* the values of their budgets
  HistoryLimit   \* history_limit of ConfigManager

ASSUME ConfigurationAssumption ==
  /\ Revisions \subseteq Nat \ {0} /\ HistoryLimit \in Nat \ {0}

Nobody == 0      \* no revision

VARIABLES
  made,      \* external: the snapshots that were prepared
  basis,     \* external: previous_revision of each
  budgets,   \* external: budgets of each
  process,   \* each process: "down", "ready" (not started yet), "serving"
  current,   \* _snapshot of each process
  used,      \* _used_revisions of each process
  pinned,    \* _initial_budgets of each process: {} or a singleton
  run        \* external: how many times each process was started

snapshotVars == <<made, basis, budgets>>
processVars  == <<process, current, used, pinned, run>>
configVars   == <<snapshotVars, processVars>>

(* Every process was started from the first snapshot.                       *)
ConfigInit(first, budget) ==
  /\ made = {first}
  /\ basis = [r \in Revisions |-> Nobody]
  /\ budgets = [r \in Revisions |-> budget]
  /\ process = [w \in Workers |-> "serving"] /\ current = [w \in Workers |-> first]
  /\ used = [w \in Workers |-> {first}] /\ pinned = [w \in Workers |-> {budget}]
  /\ run = [w \in Workers |-> 1]

(* Somebody prepares a new snapshot; revisions are not reused.              *)
Prepare(r, previous, budget) ==
  /\ r \in Revisions \ made
  /\ made' = made \union {r}
  /\ basis' = [basis EXCEPT ![r] = previous]
  /\ budgets' = [budgets EXCEPT ![r] = budget]
  /\ UNCHANGED processVars

-----------------------------------------------------------------------------
(* The validator of the runtime.                                            *)
Valid(w, r) == pinned[w] \subseteq {budgets[r]}

(* apply(): one critical section.                                           *)
UpToDate_Late(w, r, expected) == basis[r] = expected

UpToDate(w, r, expected) ==
  /\ current[w] = expected
  /\ current[w] # Nobody => basis[r] = current[w]

Accepts(w, r, expected) ==
  /\ UpToDate(w, r, expected)
  /\ r \notin used[w] /\ Cardinality(used[w]) < HistoryLimit
  /\ Valid(w, r)

Apply(w, r, expected) ==
  /\ process[w] # "down" /\ r \in made /\ Accepts(w, r, expected)
  /\ current' = [current EXCEPT ![w] = r]
  /\ used' = [used EXCEPT ![w] = @ \union {r}]
  /\ UNCHANGED <<snapshotVars, process, pinned, run>>

(* A process is started: ConfigManager(snapshot) and ProxyRuntime().        *)
Boot(w, r) ==
  /\ process[w] = "down" /\ r \in made
  /\ process' = [process EXCEPT ![w] = "ready"]
  /\ current' = [current EXCEPT ![w] = r]
  /\ used' = [used EXCEPT ![w] = {r}]
  /\ pinned' = [pinned EXCEPT ![w] = {}]
  /\ run' = [run EXCEPT ![w] = @ + 1]
  /\ UNCHANGED snapshotVars

(* start() of its runtime pins the budgets of the snapshot it finds.        *)
Start(w) ==
  /\ process[w] = "ready"
  /\ process' = [process EXCEPT ![w] = "serving"]
  /\ pinned' = [pinned EXCEPT ![w] = {budgets[current[w]]}]
  /\ UNCHANGED <<snapshotVars, current, used, run>>

(* The process ends.                                                        *)
Crash(w) ==
  /\ process[w] # "down"
  /\ process' = [process EXCEPT ![w] = "down"]
  /\ current' = [current EXCEPT ![w] = Nobody]
  /\ used' = [used EXCEPT ![w] = {}]
  /\ pinned' = [pinned EXCEPT ![w] = {}]
  /\ UNCHANGED <<snapshotVars, run>>
=============================================================================
