------------------------------ MODULE MCStorage ------------------------------
(***************************************************************************)
(* A small instance of the store for TLC: a write is repeated in part, as    *)
(* the collector's retries do; a query after a purge may see details.        *)
(***************************************************************************)
EXTENDS Storage

CONSTANTS e1, e2, e3, w1, w2, p1, q1, q2

Retried == [w \in Writes |-> IF w = w1 THEN Events ELSE {e3}]

ThreeCalls == {{w1, w2, p1}, {w1, w2, q2}, {w1, p1, q1}}

(* More events than either query shows; the oldest two expire.              *)
OneOrTwo == [q \in Queries |-> IF q = q1 THEN 1 ELSE 2]

InOrder == [e \in Events |-> CASE e = e1 -> 1 [] e = e2 -> 2 [] OTHER -> 3]

Everything == [q \in Queries |-> Events]
=============================================================================
