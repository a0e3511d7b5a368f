-------------------------------- MODULE MCMux -------------------------------
(* Instances of Mux for TLC.                                                *)
EXTENDS Mux

MCParams   == {"{p}", "{q}"}
MCWilds    == {"{w:*}"}
MCOptional == [t \in {"{p?}"} |-> "{p}"]
MCFold     == [c \in {"/", "a", "b", "A", "*"} |-> IF c = "A" THEN "a" ELSE c]

MCPaths(n) ==
    {<<"/">> \o p : p \in UNION {[1..k -> {"/", "a", "b", "A"}] : k \in 0..n}}
Paths3 == MCPaths(2) \cup {<<"/", "*">>}

BaseB == <<"/", "b">>

\* Static, param, optional and wildcard routes over the same prefix.
DispatchRoutes ==
    {<<"/", "a">>, <<"/", "a", "/">>, <<"/", "{p}">>, <<"/", "a", "/", "{p?}">>,
     <<"/", "{w:*}">>}
GroupPrefixes == {<<"/", "b">>}
=============================================================================
