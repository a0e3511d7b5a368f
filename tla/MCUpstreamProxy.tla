-------------------------- MODULE MCUpstreamProxy ---------------------------
(* Instances of UpstreamProxy for TLC.                                      *)
EXTENDS UpstreamProxy, TLC

Link(s, l) == [scheme |-> IF s = None THEN <<>> ELSE <<s, ":">>, place |-> <<"//">> \o l]

\* No upstreams; one at a host's port, one below a longer port that begins like it and
\* one on TLS; one on the proxy's own host, and one below the proxy itself.
Lists ==
    {<<>>,
     <<Link("http", <<"x", ":", "80">>), Link("http", <<"x", ":", "80", "80", "/", "v1">>),
       Link("https", <<"z">>)>>,
     <<Link("http", <<"proxy">>), Link("https", <<"proxy", "/", "app", "/", "v1">>)>>}

Elsewhere == Link("https", <<"proxy", "/", "app">>)

\* To every upstream, with its scheme, another or none; to hosts, ports and segments
\* that begin like an upstream; with an upstream in the query.
Links ==
    {Link("http", <<"x", ":", "80", "/", "p">>), Link(None, <<"x", ":", "80">>),
     Link("https", <<"x", ":", "80", "80", "/", "v1", "?", "q">>),
     Link("http", <<"x", ":", "80", "80", "/", "v1", "2">>), Link("http", <<"x">>),
     Link("https", <<"z", "/", "q">>), Link("https", <<"z", "2">>),
     Link("http", <<"y", "?", "http", ":", "//", "z">>), Link("http", <<"proxy", "/", "p">>),
     Link("https", <<"proxy", "/", "app", "/", "v1", "/", "p">>)}
\* Below the proxy this one is at the last upstream again.
Nested == Link("https", <<"proxy", "/", "app", "/", "v1", "/", "v1">>)

MCPieces == {"http", "https", ":", "//", "/", "?", "x", "y", "z", "80", "2", "proxy", "app", "v1", "p", "q"}

Cookie(n, s, d, m) == [name |-> n, secure |-> s, domain |-> d, malformed |-> m]
Cookies ==
    <<Cookie("a", TRUE, "x", FALSE), Cookie("b", FALSE, None, FALSE), Cookie("c", TRUE, "x", TRUE),
      Cookie("d", TRUE, "y", FALSE)>>
\* Two of one name, as when a cookie is cleared below two paths.
Namesakes ==
    <<Cookie("a", TRUE, "x", FALSE), Cookie("b", TRUE, None, FALSE), Cookie("a", TRUE, "y", FALSE)>>

Answer(links, rw, enc, coded, cookies) ==
    [links |-> links, rewritable |-> rw, encoding |-> enc, coded |-> coded, hop |-> TRUE,
     cookies |-> cookies]

MCAnswers ==
    {Answer(Links, TRUE, None, None, Cookies),
     Answer(Links \cup {Nested}, TRUE, "gzip", "gzip", Namesakes),
     Answer(Links, TRUE, "gzip", "corrupt", <<>>), Answer(Links, TRUE, "zstd", "zstd", <<>>),
     Answer(Links, FALSE, None, None, <<>>)}

Symmetry == Permutations(Reqs)
=============================================================================
