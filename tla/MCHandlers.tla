----------------------------- MODULE MCHandlers -----------------------------
(* Instances of Handlers for TLC.                                           *)
EXTENDS Handlers

CONSTANTS w1, w2

\* "", "b/", "/".
MCRaws == {<<>>, <<"b", Slash>>, <<Slash>>}

MCCallers == {w1, w2} \X {1, 2}

\* Two spellings of a host and of a key, and other names.
MCLower == [n \in {"h", "H", "other", "k", "K", "page", "per_page"} |->
                CASE n = "H" -> "h" [] n = "K" -> "k" [] OTHER -> n]

Req(trusted, proto, fhost, tls) ==
    [trusted |-> trusted, proto |-> proto, fhost |-> fhost, tls |-> tls, host |-> "h"]

Plain    == Req(FALSE, "https", "other", FALSE)     \* its headers do not count
Proxied  == Req(TRUE, "https", "other", FALSE)
Stripped == Req(TRUE, "http", None, TRUE)

Opt(is, value) == [is |-> is, value |-> value]
Default == Opt("default", None)

\* Options that contradict the defaults come after and before them.
Options ==
    { <<>>, <<Default>>,
      <<Default, Opt("path", <<Slash, "b">>), Opt("domain", "h"), Opt("secure", FALSE)>>,
      <<Opt("httpOnly", FALSE), Opt("maxAge", TRUE), Default>>,
      <<Opt("expires", TRUE), Opt("expires", FALSE), Default>>,
      <<Opt("path", <<>>), Opt("domain", "h")>> }

Cookie(op, opts, req) == [op |-> op, opts |-> opts, req |-> req]
Target(form, scheme, host, segs) == [form |-> form, scheme |-> scheme, host |-> host, segs |-> segs]
Targets ==
    {Target("path", None, None, s) : s \in {<<>>, <<"a">>, <<"a", "..", "..", "a">>, <<"..", ".", "b">>}}
    \cup {Target("absolute", s, h, <<"..", "a">>) : s \in {"http", "https"}, h \in {"H", "other"}}
    \cup {Target("other", None, None, <<>>)}

Going(target, req) == [op |-> "redirect", target |-> target, req |-> req, opts |-> <<>>]
Nothing == [op |-> "none"]

Grant(scope, level) == [scope |-> scope, level |-> level]
Texts == {<<Grant(<<"g", "x">>, "r")>>, <<Grant(<<"g">>, None)>>,
          <<Grant(<<"g">>, None), Grant(<<"h">>, "w")>>,
          <<Grant(<<"h">>, "w"), Grant(<<"g", "x">>, None)>>}
Values == {<<>>} \cup {<<t>> : t \in Texts} \cup {<<s, t>> : s, t \in Texts}
Signed(scope, value, names, other) ==
    [op |-> "user", id |-> None, scope |-> scope,
     claims |-> [n \in {"rights"} |-> value], names |-> names,
     other |-> [n \in {"scope"} |-> other]]

UserJobs ==
    {Signed(scope, value, names, <<>>) :
        scope \in {<<>>} \cup {<<t>> : t \in Texts}, value \in Values,
        names \in {ScopeNames, <<"rights">>}}

Part(is, v) == [is |-> is, v |-> v]
Num(n) == <<Part("number", n)>>
Pair(key, text) == [key |-> key, text |-> text]

\* Of one part, with and beyond the range of an int, and of two.
DataTexts == {Num(0), Num(1), Num(127), Num(128), <<Part("word", "true")>>, <<Part("word", "x")>>,
              Data!Empty, Num(1) \o Num(2)}

PairLists == {<<>>} \cup {<<Pair(k, t)>> : k \in {"k", "K"}, t \in DataTexts}
             \cup {<<Pair("K", Num(1)), Pair("k", t)>> : t \in DataTexts}

Reading(get, data, wrapped, marshals, ct, accept) ==
    [op |-> "read", get |-> get, key |-> "k", data |-> data, wrapped |-> wrapped,
     marshals |-> marshals, ct |-> ct, accept |-> accept]

Accepted ==
    { <<>>, <<"*/*">>, <<"app/*">>, <<"blank", "xml", "blank", "semicolon", "q">>, <<"json", "q">>,
      <<"html", "comma", "xml", "comma", "blank", "json", "semicolon", "q">>, <<"html", "semicolon", "xml">>, <<"xml", "comma">> }

\* Every getter, and every way to ask for the type of an error's body.
ReadJobs ==
    {Reading(get, [kind |-> kind, pairs |-> pairs], FALSE, {}, "text", <<"json">>) :
        get \in {"string", "values", "int", "param", "int?", "bool", "bool?"},
        kind \in {"query", "multipart", "nil"}, pairs \in PairLists}
    \cup {Reading("body", [body |-> b, media |-> m], wrapped, {}, ct, accept) :
        b \in {"nothing", "malformed", "invalid", "good"}, m \in {"json", "xml"},
        wrapped \in BOOLEAN, ct \in {"text", "xml"}, accept \in Accepted}
    \cup {Reading("own", [kind |-> "nil"], FALSE, marshals, ct, accept) :
        marshals \in SUBSET {"json", "xml"}, ct \in {"text", "json", "xml"}, accept \in Accepted}

Asking(page, size) == [kind |-> "query", pairs |-> <<Pair("page", page), Pair("per_page", size)>>]

\* The configured size may exceed the configured maximum.
PageJobs ==
    {[op |-> "page", data |-> Asking(page, size), sets |-> sets, conf |-> [size |-> s, max |-> m]] :
        page \in {Num(-1), Num(0), Num(3), Num(127), Num(128), Data!Empty},
        size \in {Num(-1), Num(0), Num(2), Num(127), Data!Empty},
        sets \in {<<>>, <<3>>, <<3, 0>>, <<0, 1>>}, s \in {1, 4}, m \in {2, 5}}

MCJobs ==
    {(w1 :> Cookie("set", o, r) @@ w2 :> Cookie("clear", p, s)) :
        o, p \in Options, r \in {Plain, Proxied}, s \in {Plain, Stripped}}
    \cup {(w1 :> Going(t, r) @@ w2 :> Cookie("set", <<Default>>, Proxied)) :
            t \in Targets, r \in {Plain, Proxied, Stripped}}
    \cup {(w1 :> j @@ w2 :> Nothing) : j \in UserJobs \cup ReadJobs \cup PageJobs}
=============================================================================
