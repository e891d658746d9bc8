---------------------------- MODULE StoreContract ----------------------------
(***************************************************************************)
(* What an event store promises for the writes it is given, whatever else    *)
(* it does at the same time:                                                 *)
(*                                                                         *)
(*   - a write takes effect as a whole, once, or not at all;                 *)
(*   - it is acknowledged only after it took effect;                         *)
(*   - one that was refused never takes effect;                              *)
(*   - of a write whose caller left nothing is said: it may take effect later.*)
(*                                                                         *)
(* A definite store knows what became of a write when it answers: one that   *)
(* raised did not take effect and never will, and nothing takes effect after *)
(* the store was closed.  An indefinite one may raise although the write     *)
(* takes effect, which is why the collector calls such events unknown.       *)
(***************************************************************************)

CONSTANTS
  Writes,      \* the calls of write_batch
  Definite     \* the store knows what became of a write that raised

VARIABLES
  told,      \* told[w]: "new", "open", "acknowledged", "refused", "raised"
             \* or "left"
  wrote,     \* the writes that took effect
  shut       \* the store is closed

vars == <<told, wrote, shut>>

Init == /\ told = [w \in Writes |-> "new"]
        /\ wrote = {}
        /\ shut = FALSE

Begin(w, how) ==
  /\ told[w] = "new" /\ how \in {"open", "refused"}
  /\ told' = [told EXCEPT ![w] = how]
  /\ UNCHANGED <<wrote, shut>>

TakeEffect(w) ==
  /\ w \notin wrote
  /\ told[w] \in {"open", "left"} \union (IF Definite THEN {} ELSE {"raised"})
  /\ Definite => ~shut
  /\ wrote' = wrote \union {w}
  /\ UNCHANGED <<told, shut>>

Tell(w, how) ==
  /\ told[w] = "open"
  /\ \/ how = "acknowledged" /\ w \in wrote
     \/ how = "refused" /\ w \notin wrote
     \/ how = "raised" /\ (Definite => w \notin wrote)
     \/ how = "left"
  /\ told' = [told EXCEPT ![w] = how]
  /\ UNCHANGED <<wrote, shut>>

Shut == /\ ~shut /\ shut' = TRUE
        /\ UNCHANGED <<told, wrote>>

Next ==
  \/ \E w \in Writes : TakeEffect(w)
  \/ \E w \in Writes : \E how \in {"open", "acknowledged", "refused", "raised", "left"} :
       Begin(w, how) \/ Tell(w, how)
  \/ Shut

Spec == Init /\ [][Next]_vars
=============================================================================
