------------------------------- MODULE MCFleet -------------------------------
(* Two interchangeable workers, and two interchangeable operators.          *)
EXTENDS Fleet, TLC

Interchangeable == Permutations(Workers) \union Permutations(Operators)
                     \union Permutations(Budgets)
=============================================================================
