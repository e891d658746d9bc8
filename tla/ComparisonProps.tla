-------------------------- MODULE ComparisonProps --------------------------
(***************************************************************************)
(* What must be true of comparisons (comparison/engine.py).                 *)
(***************************************************************************)
EXTENDS Comparison

(* The first k names of a path.                                             *)
Upto(p, k) == SubSeq(p, 1, k)

(* The paths at which left and t are to be compared: all above them are     *)
(* containers of one kind in both, and no rule excludes what is below.      *)
Reached(t, ruled) ==
  {p \in DOMAIN left \union DOMAIN t :
     \A k \in 0..(Len(p) - 1) : /\ Nested(t, Upto(p, k)) /\ ~Ignored(ruled, Upto(p, k))
                                /\ Upto(p, k + 1) \in Kids(t, Upto(p, k))}

(* Of these, the paths at which they differ, by definition.                 *)
Differs(t, ruled, p) ==
  LET a == Node(left, p)
      b == Node(t, p)
  IN  /\ ruled => p \notin policy.ignored
      /\ \/ a.kind # b.kind
         \/ a.kind = "list" /\ Length(left, p) # Length(t, p)
         \/ /\ a.kind \notin Containers /\ a.leaf # b.leaf
            /\ ruled /\ a.kind = "number" => ~\E rule \in policy.tolerances :
                 /\ rule.path = p
                 /\ a.leaf - b.leaf \in (-rule.absolute)..rule.absolute

Differences(t, ruled) == {p \in Reached(t, ruled) : Differs(t, ruled, p)}

Before == Differences(given.v2.body, FALSE)
After  == Differences(right, TRUE)

(* The order of a document: a value comes before those in it, and all of one *)
(* child before all of the next.                                            *)
Earlier(t, p, q) ==
  \/ p # q /\ IsPrefix(p, q)
  \/ \E k \in 1..Len(p) : /\ k <= Len(q) /\ Upto(p, k - 1) = Upto(q, k - 1) /\ p[k] # q[k]
                          /\ Precedes(t, Upto(p, k), Upto(q, k))

(* The number of paths in S before p, and the path that has k before it.    *)
Rank(t, S, p) == Cardinality({q \in S : Earlier(t, q, p)})
Member(S)     == CHOOSE p \in S : TRUE
Nth(t, S, k)  == Member({p \in S : Rank(t, S, p) = k})

Least(a, b) == IF a < b THEN a ELSE b

One(b) == IF b THEN 1 ELSE 0

StatusDiffers(ruled) == ~SameStatus /\ ~(ruled /\ Equivalent)

OfMetadata(ruled) ==
  LET class  == given.v1.class # given.v2.class
      status == StatusDiffers(ruled)
      header == policy.header /\ ~(given.v1.header = given.v2.header /\ given.v1.header # 0)
  IN  [count |-> One(class) + One(status) + One(header),
       reason |-> CASE class -> "class"
                    [] ~class /\ status -> "status"
                    [] ~class /\ ~status /\ header -> "header"
                    [] OTHER -> "matched"]

(* What must be reported of the differences in a set D, after those m of the *)
(* metadata: as many as the limit allows are counted, in order, and of these *)
(* the first of the allowed paths are named.                                *)
Counted(t, D, m) == {p \in D : m.count + Rank(t, D, p) < policy.maxDifferences}
Named(t, S)      == [k \in 1..Least(Cardinality(S), policy.maxPaths) |-> Nth(t, S, k - 1)]

Tally(t, D, m) ==
  LET all     == m.count + Cardinality(D)
      count   == Least(all, policy.maxDifferences)
      allowed == Counted(t, D, m) \intersect policy.allowed
  IN  [count |-> count, limited |-> all > policy.maxDifferences, paths |-> Named(t, allowed),
       redacted |-> count - Cardinality(allowed),
       truncated |-> Cardinality(allowed) > policy.maxPaths,
       reason |-> IF m.count > 0 \/ D = {} THEN m.reason ELSE Mismatch(t, Nth(t, D, 0))]

(* The loop over the stack finds every difference once, in document order,  *)
(* and its counts, limits, reason and paths are those of the whole set,     *)
(* although it stops at the first difference beyond the limit; a path the   *)
(* policy does not allow is counted and never named.                        *)
DifferencesAreExact ==
  /\ stage = "raw" /\ WalkOver => found = Tally(given.v2.body, Before, OfMetadata(FALSE))
  /\ stage \in {"map", "final"} => raw = Tally(given.v2.body, Before, OfMetadata(FALSE))
  /\ stage = "final" /\ WalkOver => found = Tally(right, After, OfMetadata(TRUE))

(* A rule explains a difference it is about, and no other.                  *)
Explains(rule, path) ==
  CASE rule.rule = "ignore"    -> IsPrefix(rule.path, path)
    [] rule.rule = "tolerance" -> rule.path = path
    [] rule.rule = "mapping"   -> \E i \in DOMAIN policy.mappings :
         /\ policy.mappings[i].v1 = rule.path
         /\ \E end \in Ends(policy.mappings[i]) : IsPrefix(end, path)
    [] OTHER -> FALSE

(* A pair is only called matched or different if it was executed, captured  *)
(* and known to be comparable; and a difference only disappears because of  *)
(* a rule, recorded as applied, that is about its very path.  So a match    *)
(* with no applied rule is a match of the raw responses.                    *)
VerdictIsExplained ==
  result \in {"matched", "different"} =>
    /\ \A r \in Responses : r.outcome = "http_response" /\ r.whole
    /\ \A c \in {"request", "authority", "data"} : given.context[c] = "yes"
    /\ ~found.limited =>
         /\ result = "matched" <=> After = {} /\ OfMetadata(TRUE).count = 0
         /\ \A path \in Before \ After : \E rule \in applied : Explains(rule, path)
         /\ StatusDiffers(FALSE) /\ ~StatusDiffers(TRUE) =>
              \E rule \in applied : rule.rule = "status"
         /\ applied = {} => raw = found
=============================================================================
