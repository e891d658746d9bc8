----------------------------- MODULE MCCoverage -----------------------------
EXTENDS Coverage, TLC

Interchangeable == Permutations(Observations)
=============================================================================
