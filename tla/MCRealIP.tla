------------------------------ MODULE MCRealIP ------------------------------
(* An instance of RealIP for TLC.                                           *)
EXTENDS RealIP

CONSTANTS a, b, lo, app1, app2,
    MaxTokens, MaxLine      \* length of one line; of each of two lines

MCNetwork == [n \in {"net", "local"} |-> IF n = "net" THEN {b} ELSE {lo}]

Kind(apps, ips, nets, cap, entries) ==
    [apps |-> apps, ips |-> ips, nets |-> nets, cap |-> cap, entries |-> entries]

\* The health checks of two applications share an array with room for two
\* networks more, as six of eight in trusted_source.go.
MCKinds ==
    [k \in {"proxy", "healthz", "metrics"} |->
        CASE k = "proxy"   -> Kind({app1}, {a}, <<>>, 0, {"*", Junk, a, b, "net"})
          [] k = "healthz" -> Kind({app1, app2}, {}, <<"local">>, 3, {"*", a, "net", "local"})
          [] k = "metrics" -> Kind({app1, app2}, {a}, <<>>, 0, {"*", b, "net"})]

Both == <<"X-Real-IP", "X-Forwarded-For">>

MCConfigs ==
    {[address |-> <<a>>, headers |-> Both, limit |-> n] : n \in 0..3}
    \cup {[address |-> <<"net", Junk>>, headers |-> <<"X-Real-IP">>, limit |-> 1],
          [address |-> <<"*">>, headers |-> <<"X-Forwarded-For">>, limit |-> 2]}

Text(n) == BoundedSeq({a, b, "comma", "blank", Junk}, n)

\* Three addresses, with the blanks the header usually has.
Usual == {<<x, "comma", "blank", y, "comma", "blank", z>> : x, y, z \in {a, b}}

Req(r, real, values) ==
    [remote |-> r, headers |-> [h \in {"X-Real-IP"} |-> real], values |-> values]

MCRequests ==
    {Req(a, <<>>, <<t>>) : t \in Text(MaxTokens) \cup Usual}
    \cup {Req(a, <<>>, <<s, t>>) : s, t \in Text(MaxLine)}
    \cup {Req(r, real, <<<<b, "comma", a>>>>) : r \in {a, b, Nil}, real \in {<<>>, <<b>>, <<b, "comma", a>>}}
    \cup {Req(a, <<>>, <<>>)}
=============================================================================
