---------------------------- MODULE MCCollector ----------------------------
(***************************************************************************)
(* Small instances of the collector for TLC.                                *)
(***************************************************************************)
EXTENDS CollectorProps, TLC

(* Instances whose payloads all have one byte: the events are interchangeable. *)
UnitWeight == [S \in SUBSET Events |-> Cardinality(S)]
Symmetry   == Permutations(Events)

(* Events of different sizes.                                               *)
Sizes      == [small |-> 1, large |-> 2]
SizeEvents == DOMAIN Sizes
SizeWeight ==
  [S \in SUBSET SizeEvents |->
     Cardinality({<<e, i>> \in S \X (1..2) : i <= Sizes[e]})]
=============================================================================
