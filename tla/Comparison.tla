----------------------------- MODULE Comparison -----------------------------
(***************************************************************************)
(* compare() (comparison/engine.py): whether a pair of responses can be      *)
(* compared at all, its differences before and after the rules of the        *)
(* policy, counted within limits, and the verdict.  The walk through two     *)
(* JSON values is a loop over a stack; each round of it is one step, and so  *)
(* is each mapping of a field.                                               *)
(*                                                                         *)
(* A JSON value is a function from the paths it has, sequences of names from *)
(* the root <<>>, to nodes: a kind, a leaf (the content of a scalar, a       *)
(* number) and its place among its siblings.  A name is the key of an object *)
(* or the index of a list.  Encodings and the syntax of JSON are left out: a *)
(* body that is not JSON, or gives a key twice, is of kind "broken".         *)
(*                                                                         *)
(* An operator whose name has a suffix after "_" is a plausible bug, used by *)
(* no definition: it stands for the operator it precedes when the properties *)
(* are tested against it.                                                    *)
(***************************************************************************)
EXTENDS Integers, Sequences, FiniteSets, SequencesExt

CONSTANT Cases    \* the calls of compare(): records of v1, v2, policy and context

Paths == Seq(STRING)

Containers == {"object", "list"}
Kinds == Containers \union {"null", "boolean", "number", "text", "empty", "broken"}

IsValue(t) ==
  /\ IsFiniteSet(DOMAIN t) /\ DOMAIN t \subseteq Paths /\ <<>> \in DOMAIN t
  /\ \A p \in DOMAIN t :
       /\ t[p] \in [kind : Kinds, leaf : Int, place : Nat] /\ t[p].place < Cardinality(DOMAIN t)
       /\ p # <<>> => Front(p) \in DOMAIN t /\ t[Front(p)].kind \in Containers
  /\ \A p, q \in DOMAIN t \ {<<>>} :
       Front(p) = Front(q) /\ t[p].place = t[q].place => p = q

Ends(mapping) == {mapping.v1, mapping.v2}

(* ComparisonPolicy.__post_init__(): the policies there can be.             *)
WellFormed(p) ==
  /\ {p.maxDepth, p.maxNodes, p.maxDifferences, p.maxPaths} \subseteq Nat \ {0}
  /\ p.maxDepth <= 128
  /\ \A t \in p.tolerances :
       t.absolute \in Nat /\ \A u \in p.tolerances : u.path = t.path => u = t
  /\ \A i, j \in DOMAIN p.mappings : \A e \in Ends(p.mappings[i]), f \in Ends(p.mappings[j]) :
       e \in Paths \ {<<>>} /\ (IsPrefix(e, f) => i = j /\ e = f)
  /\ \A i \in DOMAIN p.mappings : p.mappings[i].v1 # p.mappings[i].v2

ASSUME CasesAssumption == \A c \in Cases :
  /\ WellFormed(c.policy) /\ IsValue(c.v1.body) /\ IsValue(c.v2.body)
  /\ c.policy.mappings \in Seq([v1 : Paths, v2 : Paths])
  /\ DOMAIN c.context = {"request", "authority", "data"}

VARIABLES
  given,     \* the arguments of the call
  stage,     \* "judge", "raw", "map", "final", "done"
  pending,   \* pending of _walk: a stack of paths
  taken,     \* the mappings _map_fields has gone through
  right,     \* parsed[1], as mapped so far
  found,     \* the _Differences of the stage
  raw,       \* the _Differences before the rules
  applied,   \* applied: the rules that made a difference
  result     \* the verdict, "none" before it is made

compareVars == <<given, stage, pending, taken, right, found, raw, applied, result>>

policy  == given.policy
left    == given.v1.body
Matched == [count |-> 0, limited |-> FALSE, paths |-> <<>>, redacted |-> 0,
            truncated |-> FALSE, reason |-> "matched"]

CompareInit ==
  /\ given \in Cases
  /\ stage = "judge" /\ pending = <<>> /\ taken = 0 /\ right = given.v2.body
  /\ found = Matched /\ raw = Matched /\ applied = {} /\ result = "none"

-----------------------------------------------------------------------------
(* Preconditions                                                            *)
Responses == {given.v1, given.v2}

NotExecuted == \E r \in Responses : r.outcome = "not_dispatched"

Erroneous == \E r \in Responses :
  r.outcome \in {"timeout", "cancelled", "transport_error"} \/ r.class = "unexpected_error"

Kind(t) == t[<<>>].kind

Captured(r) ==
  /\ r.whole
  /\ \/ r.capture = "complete"
     \/ r.capture = "not_needed" /\ policy.empty /\ Kind(r.body) = "empty"

ContextHolds == \A c \in DOMAIN given.context : given.context[c] = "yes"

Comparable ==
  /\ \A r \in Responses : /\ r.outcome = "http_response"
                          /\ r.class \in {"success", "expected_rejection"}
                          /\ r.status # 0 /\ Captured(r)
  /\ ContextHolds

(* _parse(): limits of depth and nodes.                                     *)
Parses(t) ==
  /\ Kind(t) \notin {"empty", "broken"}
  /\ \A p \in DOMAIN t : t[p].kind \in Containers => Len(p) < policy.maxDepth
  /\ Cardinality(DOMAIN t) <= policy.maxNodes

Readable == \/ policy.empty /\ \A r \in Responses : Kind(r.body) = "empty"
            \/ \A r \in Responses : Parses(r.body)

Precluded == CASE NotExecuted -> "not_executed"
               [] ~NotExecuted /\ Erroneous -> "execution_error"
               [] OTHER -> "not_comparable"

-----------------------------------------------------------------------------
(* _Differences.add()                                                       *)
Full_TooLate(d) == d.count > policy.maxDifferences

Full(d) == d.count = policy.maxDifferences

Add(d, allowed, path, reason) ==
  IF Full(d) THEN [d EXCEPT !.limited = TRUE]
  ELSE LET room == Len(d.paths) < policy.maxPaths
       IN  [d EXCEPT !.count = @ + 1,
                     !.reason = IF d.count = 0 THEN reason ELSE @,
                     !.redacted = IF allowed THEN @ ELSE @ + 1,
                     !.paths = IF allowed /\ room THEN Append(@, path) ELSE @,
                     !.truncated = @ \/ (allowed /\ ~room)]

(* _compare_metadata(), with the rules or without them.  The policy allows   *)
(* paths in a body only, never to name a difference of this kind.           *)
AddIf(differs, d, reason) == IF differs THEN Add(d, FALSE, <<>>, reason) ELSE d

SameStatus == given.v1.status = given.v2.status
Equivalent == <<given.v1.status, given.v2.status>> \in policy.statuses

Metadata(ruled) ==
  LET class  == AddIf(given.v1.class # given.v2.class, Matched, "class")
      status == AddIf(~SameStatus /\ ~(ruled /\ Equivalent), class, "status")
      header == given.v1.header = 0 \/ given.v2.header = 0 \/ given.v1.header # given.v2.header
  IN  AddIf(policy.header /\ header, status, "header")

StatusRule == IF ~SameStatus /\ Equivalent THEN {[rule |-> "status", path |-> <<>>]} ELSE {}

-----------------------------------------------------------------------------
(* _walk()                                                                  *)
Absent == [kind |-> "missing", leaf |-> 0, place |-> 0]

Node(t, p)     == IF p \in DOMAIN t THEN t[p] ELSE Absent
Children(t, p) == {q \in DOMAIN t : q # <<>> /\ Front(q) = p}
Length(t, p)   == Cardinality(Children(t, p))

(* The children to compare, and the order they appear in.                   *)
Kids(t, p) == IF Node(t, p).kind = "list" THEN Children(left, p) \intersect Children(t, p)
              ELSE Children(left, p) \union Children(t, p)

Precedes(t, p, q) ==
  \/ {p, q} \subseteq DOMAIN left /\ left[p].place < left[q].place
  \/ p \in DOMAIN left /\ q \notin DOMAIN left
  \/ {p, q} \intersect DOMAIN left = {} /\ t[p].place < t[q].place

Orders(t, kids) ==
  {order \in [1..Cardinality(kids) -> kids] :
     \A i, j \in DOMAIN order : i < j => Precedes(t, order[i], order[j])}

Ruled        == stage = "final"
Ignored(ruled, p) == ruled /\ p \in policy.ignored
Distance(t, p) == IF left[p].leaf > t[p].leaf THEN left[p].leaf - t[p].leaf
                  ELSE t[p].leaf - left[p].leaf

Tolerated_Below(ruled, t, p) ==
  \E rule \in policy.tolerances :
    ruled /\ IsPrefix(rule.path, p) /\ Distance(t, p) <= rule.absolute

Tolerated(ruled, t, p) ==
  \E rule \in policy.tolerances : ruled /\ rule.path = p /\ Distance(t, p) <= rule.absolute

SameKind(t, p) == Node(left, p).kind = Node(t, p).kind
Nested(t, p)   == SameKind(t, p) /\ Node(t, p).kind \in Containers

Mismatch(t, p) ==
  CASE ~SameKind(t, p) /\ p \notin DOMAIN left \intersect DOMAIN t -> "field"
    [] ~SameKind(t, p) /\ p \in DOMAIN left \intersect DOMAIN t -> "type"
    [] SameKind(t, p) /\ Node(t, p).kind = "list" -> "length"
    [] OTHER -> "value"

Same(t, p) == /\ SameKind(t, p)
              /\ Node(t, p).kind = "list" => Length(left, p) = Length(t, p)
              /\ ~Nested(t, p) => Node(left, p).leaf = Node(t, p).leaf

Excused(ruled, t, p) ==
  SameKind(t, p) /\ ~Same(t, p) /\ Node(t, p).kind = "number" /\ Tolerated(ruled, t, p)

Walking == stage \in {"raw", "final"} /\ pending # <<>> /\ ~found.limited
Top     == Last(pending)

Apply(rule) ==
  /\ applied' = applied \union {[rule |-> rule, path |-> Top]}
  /\ pending' = Front(pending)
  /\ UNCHANGED <<given, stage, taken, right, found, raw, result>>

Ignore   == Walking /\ Ignored(Ruled, Top) /\ Apply("ignore")
Tolerate == Walking /\ ~Ignored(Ruled, Top) /\ Excused(Ruled, right, Top) /\ Apply("tolerance")

Visit ==
  /\ Walking /\ ~Ignored(Ruled, Top) /\ ~Excused(Ruled, right, Top)
  /\ found' = IF Same(right, Top) THEN found
              ELSE Add(found, Top \in policy.allowed, Top, Mismatch(right, Top))
  /\ IF Nested(right, Top)
     THEN \E order \in Orders(right, Kids(right, Top)) : pending' = Front(pending) \o Reverse(order)
     ELSE pending' = Front(pending)
  /\ UNCHANGED <<given, stage, taken, right, raw, applied, result>>

WalkOver == pending = <<>> \/ found.limited

-----------------------------------------------------------------------------
(* _map_fields()                                                            *)
Mapping == policy.mappings[taken + 1]

InObject(t, p) == Node(t, Front(p)).kind = "object"
HasField(t, p) == InObject(t, p) /\ p \in DOMAIN t

(* t with the node at the path "from", and all below it, at the path "to".  *)
Moved(t, from, to, place) ==
  LET stays  == {p \in DOMAIN t : ~IsPrefix(from, p)}
      Target(p) == to \o SubSeq(p, Len(from) + 1, Len(p))
      Source(p) == from \o SubSeq(p, Len(to) + 1, Len(p))
  IN  [p \in stays \union {Target(q) : q \in DOMAIN t \ stays} |->
         IF p = to THEN [t[from] EXCEPT !.place = place]
         ELSE IF p \in stays THEN t[p] ELSE t[Source(p)]]

(* A dict has its latest key last: after the places of all nodes there were, *)
(* and those of the earlier mappings.                                       *)
LastPlace == Cardinality(DOMAIN given.v2.body) + taken

AtMapping == stage = "map" /\ taken < Len(policy.mappings)

Conflicts == \/ HasField(right, Mapping.v1)
             \/ HasField(right, Mapping.v2) /\ ~InObject(right, Mapping.v1)

SkipMapping ==
  /\ AtMapping /\ ~Conflicts /\ ~HasField(right, Mapping.v2)
  /\ taken' = taken + 1
  /\ UNCHANGED <<given, stage, pending, right, found, raw, applied, result>>

MapField ==
  /\ AtMapping /\ ~Conflicts /\ HasField(right, Mapping.v2)
  /\ taken' = taken + 1
  /\ right' = Moved(right, Mapping.v2, Mapping.v1, LastPlace)
  /\ applied' = applied \union {[rule |-> "mapping", path |-> Mapping.v1]}
  /\ UNCHANGED <<given, stage, pending, found, raw, result>>

-----------------------------------------------------------------------------
(* compare()                                                                *)
Preclude ==
  /\ stage = "judge"
  /\ NotExecuted \/ Erroneous \/ ~Comparable \/ ~Readable
  /\ stage' = "done" /\ result' = Precluded
  /\ UNCHANGED <<given, pending, taken, right, found, raw, applied>>

Begin ==
  /\ stage = "judge"
  /\ ~NotExecuted /\ ~Erroneous /\ Comparable /\ Readable
  /\ stage' = "raw"
  /\ found' = Metadata(FALSE)
  /\ pending' = << <<>> >>
  /\ UNCHANGED <<given, taken, right, raw, applied, result>>

Collate ==
  /\ stage = "raw" /\ WalkOver
  /\ stage' = "map" /\ raw' = found /\ pending' = <<>>
  /\ UNCHANGED <<given, taken, right, found, applied, result>>

Conflict ==
  /\ AtMapping /\ Conflicts
  /\ stage' = "done" /\ result' = "not_comparable"
  /\ UNCHANGED <<given, pending, taken, right, found, raw, applied>>

Normalize ==
  /\ stage = "map" /\ taken = Len(policy.mappings)
  /\ stage' = "final"
  /\ applied' = applied \union StatusRule
  /\ found' = Metadata(TRUE)
  /\ pending' = << <<>> >>
  /\ UNCHANGED <<given, taken, right, raw, result>>

Conclude ==
  /\ stage = "final" /\ WalkOver
  /\ stage' = "done" /\ result' = IF found.count > 0 THEN "different" ELSE "matched"
  /\ pending' = <<>>
  /\ UNCHANGED <<given, taken, right, found, raw, applied>>

Returned == stage = "done" /\ UNCHANGED compareVars

CompareNext ==
  \/ Preclude \/ Begin \/ Ignore \/ Tolerate \/ Visit \/ Collate
  \/ SkipMapping \/ MapField \/ Conflict \/ Normalize \/ Conclude \/ Returned

CompareSpec == CompareInit /\ [][CompareNext]_compareVars
=============================================================================
