---------------------------- MODULE PostgresProps ----------------------------
(***************************************************************************)
(* What must be true of the PostgreSQL store (collection/postgresql.py).    *)
(***************************************************************************)
EXTENDS PostgresStore

(* Every variable has its type. *)
TypeOK ==
  /\ closing \in [Stores -> {"no", "queued", "closed"}]
  /\ line \in [Stores -> Seq(Calls \union {Closer})]
  /\ conn \in [Stores -> {"none", "raw", "ready"}]
  /\ session \in [Stores -> SUBSET Calls]
  /\ at \in [Calls -> Running \union Over \union {"new", "waiting", "done"}]
  /\ txn \in [Calls -> {"none", "open", "sent", "committed", "aborted"}]
  /\ mine \in [Calls -> Parts] /\ asOf \in [Calls -> Views] /\ found \in [Calls -> Parts]
  /\ rows \in Parts /\ expired \in Parts

(* The connection serves one operation at a time, set up and with no open   *)
(* transaction of an earlier one: neither a timeout nor a cancellation in   *)
(* the middle of one leaves it half-way to the next, and close() leaves none.*)
ConnectionIsClean ==
  \A s \in Stores :
    LET holder == {o \in Calls : line[s] # <<>> /\ Head(line[s]) = o /\ at[o] # "waiting"}
    IN  /\ {o \in Calls : Home[o] = s /\ at[o] \in Running \union {"done"}} = holder
        /\ session[s] \subseteq holder
        /\ conn[s] = "raw" => \E o \in holder : at[o] = "configuring"
        /\ closing[s] = "closed" => conn[s] = "none"

Committed(C) == {o \in C : txn[o] = "committed"}

(* The events of the writes that are committed.                             *)
Written == UNION {Batch[w] : w \in Committed(Writes)}

(* The table is what the committed transactions made of it, each as a whole:*)
(* rows come from committed writes, only expired ones are gone, and the      *)
(* books balance: a row was inserted once more than purges, of whatever      *)
(* process, report its deletion, or as often if it is gone, although a write *)
(* may be repeated after a purge; and no detail is deleted once too often.   *)
RowsAreExact ==
  /\ rows.summary \subseteq Written
  /\ Written \ rows.summary \subseteq UNION {mine[p].summary : p \in Committed(Purges)}
  /\ rows.detail \subseteq rows.summary
  /\ \A p \in Committed(Purges) :
       /\ mine[p].summary \subseteq expired.summary
       /\ mine[p].detail \subseteq expired.detail
  /\ \A e \in Events :
       LET inserted == Cardinality({w \in Committed(Writes) : e \in mine[w].summary})
           deleted  == Cardinality({p \in Committed(Purges) : e \in mine[p].summary})
           stripped == Cardinality({p \in Committed(Purges) : e \in mine[p].detail})
       IN  /\ inserted = deleted + (IF e \in rows.summary THEN 1 ELSE 0)
           /\ stripped + (IF e \in rows.detail THEN 1 ELSE 0) <= inserted

(* The limit of the query q excludes the event e: it is reached by older    *)
(* events that q wants too, which it returns or which expired meanwhile.    *)
BeyondLimit(q, e) ==
  LET ranOut == (Written \intersect Wanted[q] \intersect expired.summary) \ asOf[q].expired.summary
  IN  \E page \in SUBSET (found[q].summary \union ranOut) :
        Cardinality(page) = Limit[q] /\ \A d \in page : Created[d] < Created[e]

(* A query returns, of what it wants, every event acknowledged before it was*)
(* called that has not expired by the time it answers, unless its limit      *)
(* excludes it, whichever processes wrote and purged meanwhile; what had     *)
(* expired before the call takes up no room.  It returns nothing that was    *)
(* never written, that it does not want or that had expired.                *)
QueriesSeeAcknowledged ==
  \A q \in Queries : at[q] \in {"done", "returned"} =>
    /\ \A e \in (asOf[q].acknowledged \intersect Wanted[q]) \ expired.summary :
         e \in found[q].summary \/ BeyondLimit(q, e)
    /\ Cardinality(found[q].summary) <= Limit[q]
    /\ found[q].summary \subseteq (Written \intersect Wanted[q]) \ asOf[q].expired.summary
    /\ found[q].detail \subseteq found[q].summary \ asOf[q].expired.detail

-----------------------------------------------------------------------------
Told == [w \in Writes |-> CASE at[w] \in {"new", "refused", "raised"} -> at[w]
                            [] at[w] = "returned" -> "acknowledged"
                            [] OTHER -> "open"]

Contract == INSTANCE StoreContract
              WITH Definite <- FALSE, told <- Told, wrote <- Committed(Writes),
                   shut <- Closable # {} /\ \A s \in Closable : closing[s] = "closed"

(* The store keeps the contract of an indefinite store: a write takes effect*)
(* as a whole and once, is acknowledged only then, and never takes effect   *)
(* if it was refused.                                                       *)
KeepsContract == Contract!Spec

(* Every call ends, and so does close(), even if the server never answers.  *)
CallsEnd ==
  /\ <>[](\A o \in Calls : at[o] \in Over \union {"new"})
  /\ \A s \in Stores : closing[s] = "queued" ~> closing[s] = "closed"
=============================================================================
