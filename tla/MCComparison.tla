---------------------------- MODULE MCComparison ----------------------------
(***************************************************************************)
(* Small comparisons for TLC: every pair of the bodies below under every    *)
(* policy, and every pair of responses that differ in all but the body.     *)
(***************************************************************************)
EXTENDS ComparisonProps

Value(kind, leaf) == [p \in {<<>>} |-> [kind |-> kind, leaf |-> leaf, place |-> 0]]

(* A value of the given kind with children, of the given names.             *)
Parent(kind, names, kids) ==
  LET position == [n \in Range(names) |-> CHOOSE i \in DOMAIN names : names[i] = n]
      below    == UNION {{<<names[i]>> \o p : p \in DOMAIN kids[i]} : i \in DOMAIN names}
      under(p) == LET i == position[Head(p)]
                  IN  IF Tail(p) = <<>> THEN [kids[i][<<>>] EXCEPT !.place = i] ELSE kids[i][Tail(p)]
  IN  [p \in {<<>>} \union below |->
         IF p = <<>> THEN [kind |-> kind, leaf |-> 0, place |-> 0] ELSE under(p)]

Num(n)           == Value("number", n)
Null             == Value("null", 0)
Object(ns, kids) == Parent("object", ns, kids)
List(kids)       == Parent("list", [i \in DOMAIN kids |-> <<"0", "1", "2">>[i]], kids)
Single(kid)      == Object(<<"a">>, <<kid>>)

Bodies ==
  {Value("empty", 0), Value("broken", 0), Null, Num(1),
   Single(Num(1)), Single(Num(2)), Single(Num(4)), Single(Null),
   Object(<<"a", "b">>, <<Num(1), Num(1)>>), Object(<<"b", "a">>, <<Num(1), Num(2)>>),
   Object(<<"a", "c">>, <<Num(1), Num(1)>>), Object(<<"c", "b", "a">>, <<Num(2), Num(1), Num(1)>>),
   Object(<<"a", "b", "c">>, <<Num(1), Null, Num(2)>>),
   Single(Single(Num(1))), Single(Object(<<"b">>, <<Num(1)>>)),
   Single(Object(<<"c", "d">>, <<Num(1), Num(2)>>)), Single(List(<<Num(1), Num(2)>>)),
   Single(List(<<Num(2), Num(1)>>)), Single(List(<<Num(1), Num(2), Null>>)),
   Single(List(<<Single(Num(1))>>)), Single(Single(Single(Num(1)))),
   List(<<Num(1), Num(4), Num(9)>>)}

Plain == [empty |-> FALSE, maxDepth |-> 3, maxNodes |-> 4, maxDifferences |-> 2, maxPaths |-> 1,
          allowed |-> {<<"a">>, <<"b">>, <<"a", "0">>}, statuses |-> {}, header |-> FALSE,
          ignored |-> {}, tolerances |-> {}, mappings |-> <<>>]

Policies ==
  {Plain, [Plain EXCEPT !.maxDepth = 2, !.maxNodes = 3],
   [Plain EXCEPT !.empty = TRUE, !.maxDifferences = 1],
   [Plain EXCEPT !.ignored = {<<"a">>}, !.maxDifferences = 3],
   [Plain EXCEPT !.ignored = {<<"a", "0">>, <<"b">>},
                 !.tolerances = {[path |-> <<"a">>, absolute |-> 1]}],
   [Plain EXCEPT !.tolerances = {[path |-> <<"a">>, absolute |-> 1],
                                 [path |-> <<"a", "1">>, absolute |-> 1]}],
   [Plain EXCEPT !.mappings = <<[v1 |-> <<"b">>, v2 |-> <<"c">>]>>, !.maxDifferences = 4],
   [Plain EXCEPT !.mappings = <<[v1 |-> <<"a", "b">>, v2 |-> <<"a", "c">>],
                                [v1 |-> <<"e">>, v2 |-> <<"a", "d">>]>>, !.maxPaths = 2]}

Fine == [outcome |-> "http_response", class |-> "success", status |-> 200, header |-> 1,
         whole |-> TRUE, capture |-> "complete", body |-> Single(Num(1))]

Variants ==
  {Fine, [Fine EXCEPT !.outcome = "not_dispatched", !.status = 0],
   [Fine EXCEPT !.outcome = "timeout", !.class = "unknown", !.status = 0],
   [Fine EXCEPT !.outcome = "unknown", !.class = "unknown"],
   [Fine EXCEPT !.class = "unexpected_error", !.status = 500],
   [Fine EXCEPT !.class = "expected_rejection", !.status = 404],
   [Fine EXCEPT !.class = "unknown"], [Fine EXCEPT !.status = 201, !.header = 2],
   [Fine EXCEPT !.header = 0], [Fine EXCEPT !.whole = FALSE], [Fine EXCEPT !.capture = "oversized"],
   [Fine EXCEPT !.capture = "not_needed", !.body = Value("empty", 0)]}

Context(request, authority, data) ==
  [request |-> request, authority |-> authority, data |-> data]

Sure == Context("yes", "yes", "yes")

Contexts == {Sure, Context("yes", "no", "yes"), Context("yes", "yes", "unknown")}

SmallCases ==
  [v1 : {[Fine EXCEPT !.body = b] : b \in Bodies}, v2 : {[Fine EXCEPT !.body = b] : b \in Bodies},
   policy : Policies, context : {Sure}]
  \union
  [v1 : Variants, v2 : Variants, context : Contexts,
   policy : {[Plain EXCEPT !.empty = TRUE, !.header = TRUE, !.statuses = {<<200, 201>>}, !.maxDifferences = d] :
               d \in {1, 3}}]
=============================================================================
