---------------------------- MODULE WorkerMetrics ----------------------------
(***************************************************************************)
(* merge_workers (observability/metrics.py): the counters of the worker      *)
(* processes as one, and whether they can be compared with those of an       *)
(* earlier merge.  One counter stands for all, and for the histograms, which *)
(* are summed in the same way; gauges are left out.                          *)
(***************************************************************************)
EXTENDS Naturals, FiniteSets, FiniteSetsExt

(* A snapshot is a record with its worker, generation, alive and counter.   *)
Counter(snapshots) == MapThenSumSet(LAMBDA s : s.counter, snapshots)

(* previous[w]: the generation of w in the earlier merge, {} or a singleton.*)
SameGeneration_Unchecked(snapshot, previous) == TRUE

SameGeneration(snapshot, previous) == previous[snapshot.worker] \subseteq {snapshot.generation}

Complete(snapshots, expected, previous) ==
  /\ {s.worker : s \in snapshots} = expected
  /\ \A s \in snapshots : s.alive /\ SameGeneration(s, previous)
=============================================================================
