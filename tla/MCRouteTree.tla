----------------------------- MODULE MCRouteTree -----------------------------
(* Instances of RouteTree for TLC.  Routes share prefixes, have params in   *)
(* the same place under two names, end in a slash or in a wildcard.         *)
EXTENDS RouteTree

MCParams == {"{p}", "{q}"}
MCWilds  == {"{w:*}"}

MCFold == [c \in {"/", "a", "b", "A"} |-> IF c = "A" THEN "a" ELSE c]

\* Static routes with common prefixes, params and wildcards over them.
MCRoutes ==
    {<<"/">>, <<"/", "a">>, <<"/", "a", "/">>, <<"/", "a", "b">>, <<"/", "a", "a">>,
     <<"/", "{p}">>, <<"/", "{q}", "/">>, <<"/", "{p}", "/", "a">>,
     <<"/", "{q}", "/", "b">>, <<"/", "a", "/", "{p}">>, <<"/", "a", "{p}">>,
     <<"/", "{w:*}">>, <<"/", "a", "/", "{w:*}">>}

\* Every path of at most four characters that starts with a slash.
MCPaths ==
    {<<"/">> \o p : p \in UNION {[1..n -> {"/", "a", "b", "A"}] : n \in 0..3}}
=============================================================================
