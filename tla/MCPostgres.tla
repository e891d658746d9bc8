------------------------------ MODULE MCPostgres ------------------------------
(***************************************************************************)
(* A small instance for TLC: two processes share the table; one of them     *)
(* repeats a part of a write, as the collector's retries do.                *)
(***************************************************************************)
EXTENDS PostgresProps

CONSTANTS e1, e2, e3, w1, w2, p1, p2, q1, one, two

TwoProcesses == [o \in Calls |-> IF o \in {w1, w2, p1} THEN one ELSE two]
Retried      == [w \in Writes |-> IF w = w1 THEN Events ELSE {e3}]
ThreeCalls   == {{w1, w2, q1}, {w1, w2, p1}, {w1, p1, p2}, {w1, p2, q1}}
InOrder      == [e \in Events |-> CASE e = e1 -> 1 [] e = e2 -> 2 [] OTHER -> 3]
FirstOnly    == [q \in Queries |-> 1]
Everything   == [q \in Queries |-> Events]
=============================================================================
