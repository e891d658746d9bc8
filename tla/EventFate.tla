----------------------------- MODULE EventFate -----------------------------
(***************************************************************************)
(* What the collector promises for the comparison events handed to it, with *)
(* no queue, worker, batch, retry or timer in sight:                        *)
(*                                                                         *)
(*   - an accepted event is given exactly one outcome, and keeps it;        *)
(*   - "stored" is only said of an event the store holds;                   *)
(*   - a "dropped" outcome is only given to an event the store does not     *)
(*     hold and can never come to hold;                                     *)
(*   - an event whose storage could not be determined is "ack_unknown", and *)
(*     from then on the collector no longer claims its counts are complete. *)
(***************************************************************************)

CONSTANT Events      \* ids of the comparison events

Dropped  == {"dropped_expired", "dropped_retry_exhausted", "dropped_shutdown"}
Outcomes == {"stored", "ack_unknown"} \union Dropped

VARIABLES
  life,       \* life[e]: "new", "open" (accepted, no outcome yet) or the outcome
  durable,    \* the events the store holds
  complete    \* completeness_known: do the counts account for every event?

vars == <<life, durable, complete>>

Init ==
  /\ life = [e \in Events |-> "new"]
  /\ durable = {}
  /\ complete = TRUE

Accept(e) ==
  /\ life[e] = "new"
  /\ life' = [life EXCEPT ![e] = "open"]
  /\ UNCHANGED <<durable, complete>>

(* The store may persist an event while it is open, and also long after the *)
(* collector gave up waiting for the write: never after it was dropped.     *)
Persist(S) ==
  /\ \A e \in S : life[e] \in {"open", "ack_unknown"}
  /\ durable' = durable \union S
  /\ UNCHANGED <<life, complete>>

(* One step of the collector settles any number of open events.             *)
Settle(S, outcome) ==
  /\ \A e \in S : /\ life[e] = "open"
                  /\ outcome[e] = "stored" => e \in durable
                  /\ outcome[e] \in Dropped => e \notin durable
  /\ life' = [e \in Events |-> IF e \in S THEN outcome[e] ELSE life[e]]
  /\ (\E e \in S : outcome[e] = "ack_unknown") => ~complete'
  /\ complete' \in {complete, FALSE}
  /\ UNCHANGED durable

Next ==
  \/ \E e \in Events : Accept(e)
  \/ \E S \in SUBSET Events : Persist(S)
  \/ \E S \in SUBSET Events : \E outcome \in [S -> Outcomes] : Settle(S, outcome)

Spec == Init /\ [][Next]_vars
=============================================================================
