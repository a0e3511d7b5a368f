--------------------------- MODULE UpstreamProxy ----------------------------
(***************************************************************************)
(* The upstream proxy (upstream.go, internal/proxy): concurrent requests   *)
(* choose an upstream with one unlocked round-robin index, and rewrite the *)
(* cookies and the links of its answer.                                    *)
(*                                                                         *)
(* A text is a sequence of pieces (a host <<"x">> is the beginning of the  *)
(* host <<"x", "2">>).  The body of an answer is the set of its runs of    *)
(* text without blanks and quotes, each of them a link: its scheme, <<>>   *)
(* or <<"http", ":">>, and its place, host and path.  The rules for text   *)
(* and the forwarded path are left out.                                    *)
(***************************************************************************)
EXTENDS Naturals, Sequences, SequencesExt, FiniteSets

CONSTANTS
    Reqs,           \* requests
    Pieces,         \* the pieces of text
    Configured,     \* lists of upstreams an application gives; an upstream is the link
                    \* that is its BaseURL
    BaseURL,        \* a link: the proxy's own base URL and path, without a last slash
    Host,           \* the host a client asks for
    Answers,        \* what an upstream may answer: [links, rewritable, encoding, coded,
                    \* hop, cookies], where coded is what the body is, "corrupt" if it
                    \* cannot be decoded; a cookie is [name, secure, domain, malformed]
    None

IsLink(l) ==
    /\ l \in [scheme : Seq(Pieces), place : Seq(Pieces)]
    /\ Len(l.scheme) \in {0, 2}

\* A base URL has a scheme and a host.
IsAbsolute(l) ==
    IsLink(l) /\ l.place # <<>> /\ Len(l.scheme) = 2 /\ l.scheme[1] # ":" /\ l.scheme[2] = ":"

ASSUME ConfiguredAssumption ==
    /\ IsAbsolute(BaseURL)
    /\ \A list \in Configured :
        /\ Len(list) \in Nat
        /\ \A i \in 1..Len(list) : IsAbsolute(list[i])

IsCookie(c) ==
    c \in [name : {c.name}, secure : BOOLEAN, domain : {c.domain}, malformed : BOOLEAN]

ASSUME AnswersAssumption ==
    \A a \in Answers :
        /\ a # None
        /\ a \in [links : {a.links}, rewritable : BOOLEAN, encoding : {a.encoding},
                  coded : {a.coded}, hop : BOOLEAN, cookies : Seq(ToSet(a.cookies))]
        /\ \A l \in a.links : IsLink(l)
        /\ \A i \in DOMAIN a.cookies : IsCookie(a.cookies[i])

VARIABLES
    Upstream,   \* options.Upstream
    upstreamIndex,
    pc,         \* of every request: where it is
    tls,        \* of every request: ctx.IsTLS
    loaded,     \* of every request: the index it has read
    upstream,   \* of every request: the upstream it has chosen
    resp,       \* of every request: the response, with its links as texts, or None
    answer,     \* history, of every request: what the upstream answered
    turns       \* history: the last N upstreams chosen since choices overlapped

N == Len(Upstream)

choice == <<Upstream, upstreamIndex, loaded, upstream, turns>>
vars == <<choice, pc, tls, resp, answer>>

Init ==
    /\ Upstream \in Configured
    /\ upstreamIndex = 0
    /\ pc = [r \in Reqs |-> "idle"]
    /\ tls \in [Reqs -> BOOLEAN]
    /\ loaded = [r \in Reqs |-> 0]
    /\ upstream = [r \in Reqs |-> 0]
    /\ resp = [r \in Reqs |-> None]
    /\ answer = [r \in Reqs |-> None]
    /\ turns = <<>>

At(r, l) == pc[r] = l
Goto(r, l) == pc' = [pc EXCEPT ![r] = l]

\* 502 Bad Gateway.
BadGateway(r) ==
    /\ Goto(r, "done")
    /\ resp' = [resp EXCEPT ![r] = "502"]
-----------------------------------------------------------------------------
(* The choice: load, store and a second load of the index                  *)

Choosing == {r \in Reqs : pc[r] \in {"store", "pick"}}

NoUpstream(r) ==
    /\ At(r, "idle") /\ N = 0
    /\ BadGateway(r)
    /\ UNCHANGED <<choice, tls, answer>>

Load(r) ==
    /\ At(r, "idle") /\ N > 0
    /\ Goto(r, "store")
    /\ loaded' = [loaded EXCEPT ![r] = upstreamIndex]
    /\ turns' = IF Choosing = {} THEN turns ELSE <<>>
    /\ UNCHANGED <<Upstream, upstreamIndex, upstream, tls, resp, answer>>

\* A mutated Store that never reaches the last upstream.
StoreShort(r) ==
    /\ At(r, "store")
    /\ Goto(r, "pick")
    /\ upstreamIndex' = IF loaded[r] + 1 >= N - 1 THEN 0 ELSE loaded[r] + 1
    /\ UNCHANGED <<Upstream, loaded, upstream, turns, tls, resp, answer>>

\* A mutated Store that forgets the length of the list.
StoreUnbounded(r) ==
    /\ At(r, "store")
    /\ Goto(r, "pick")
    /\ upstreamIndex' = IF loaded[r] < N THEN loaded[r] + 1 ELSE 0
    /\ UNCHANGED <<Upstream, loaded, upstream, turns, tls, resp, answer>>

Store(r) ==
    /\ At(r, "store")
    /\ Goto(r, "pick")
    /\ upstreamIndex' = (loaded[r] + 1) % N
    /\ UNCHANGED <<Upstream, loaded, upstream, turns, tls, resp, answer>>

\* Upstream[upstreamIndex], as the index is by now.
Pick(r) ==
    /\ At(r, "pick")
    /\ Goto(r, "do")
    /\ upstream' = [upstream EXCEPT ![r] = upstreamIndex + 1]
    /\ turns' = IF Choosing # {r} THEN <<>>
                ELSE Append(IF Len(turns) < N THEN turns ELSE Tail(turns), upstreamIndex + 1)
    /\ UNCHANGED <<Upstream, upstreamIndex, loaded, tls, resp, answer>>
-----------------------------------------------------------------------------
(* The exchange, and what is done to the answer                            *)

\* A link as it stands in a body.
Text(l) == l.scheme \o l.place

Do(r) ==
    /\ At(r, "do")
    /\ Goto(r, "headers")
    /\ \E a \in Answers :
        /\ answer' = [answer EXCEPT ![r] = a]
        /\ resp' = [resp EXCEPT ![r] = [a EXCEPT !.links = {Text(l) : l \in a.links}]]
    /\ UNCHANGED <<choice, tls>>

DoFails(r) ==
    /\ At(r, "do")
    /\ BadGateway(r)
    /\ UNCHANGED <<choice, tls, answer>>

\* A mutated RewriteCookie that loses the test for TLS.
RewriteCookieSecure(secure, recycled, c) ==
    [c EXCEPT !.domain = IF c.domain = None /\ ~recycled THEN None ELSE Host]

\* The domain of a recycled fasthttp.Cookie is empty but not nil.
RewriteCookie(secure, recycled, c) ==
    [c EXCEPT !.secure = c.secure /\ secure,
              !.domain = IF c.domain = None /\ ~recycled THEN None ELSE Host]

\* fasthttp's SetCookie writes to the first cookie of the name.
SetCookie(cookies, c) ==
    [cookies EXCEPT ![SelectInSeq(cookies, LAMBDA d : d.name = c.name)] = c]

\* The cookies are read one by one from the list that is written; one that cannot
\* be parsed ends the loop.  recycled: for which of them the pool had an object.
RewriteCookies(secure, recycled, cookies) ==
    FoldLeftDomain(
        LAMBDA cs, i :
            IF \E j \in 1..i : cs[j].malformed THEN cs
            ELSE SetCookie(cs, RewriteCookie(secure, i \in recycled, cs[i])),
        cookies, cookies)

\* The hop-by-hop headers go.
StripHeaders(a) == [a EXCEPT !.hop = FALSE]

Headers(r) ==
    /\ At(r, "headers")
    /\ Goto(r, "body")
    /\ \E recycled \in SUBSET DOMAIN resp[r].cookies :
        LET a == StripHeaders(resp[r])
        IN  resp' = [resp EXCEPT ![r] =
                        [a EXCEPT !.cookies = RewriteCookies(tls[r], recycled, a.cookies)]]
    /\ UNCHANGED <<choice, tls, answer>>

OccursAt(text, part, i) ==
    i + Len(part) <= Len(text) + 1 /\ \A j \in 1..Len(part) : text[i + j - 1] = part[j]

\* bytes.ReplaceAll: every occurrence from the left that begins behind the last one.
BytesReplaceAll(text, from, to) ==
    FoldLeftDomain(
        LAMBDA s, i :
            IF i < s.next THEN s
            ELSE IF OccursAt(text, from, i)
            THEN [out |-> s.out \o to, next |-> i + Len(from)]
            ELSE [out |-> Append(s.out, text[i]), next |-> i + 1],
        [out |-> <<>>, next |-> 1], text).out

trimScheme(url) == SubSeq(url, SelectInSeq(url, LAMBDA t : t = ":") + 1, Len(url))

\* The base URL of upstream u is replaced with its scheme, then without.
RewriteText(u, text) ==
    BytesReplaceAll(BytesReplaceAll(text, Text(u), Text(BaseURL)),
               trimScheme(Text(u)), trimScheme(Text(BaseURL)))

\* getDecodedBody finds no links in a corrupt body, nor in the bytes of an
\* encoding it does not know.
Known == {None, "gzip", "deflate", "br"}
getDecodedBody(a) == IF a.coded \in Known THEN a.links ELSE {}

setEncodedBody(a, links) == [a EXCEPT !.links = links, !.coded = a.encoding]

\* RewriteResponse; rewritable is the content type's, and the option's.
RewriteResponse(a, u) ==
    LET body == getDecodedBody(a)
    IN  IF ~a.rewritable \/ body = {} THEN a
        ELSE setEncodedBody(a, {RewriteText(Upstream[u], t) : t \in body})

\* A mutated handler that looks the upstream up again.
BodyLookedUp(r) ==
    /\ At(r, "body")
    /\ Goto(r, "done")
    /\ resp' = [resp EXCEPT ![r] = RewriteResponse(@, upstreamIndex + 1)]
    /\ UNCHANGED <<choice, tls, answer>>

Body(r) ==
    /\ At(r, "body")
    /\ Goto(r, "done")
    /\ resp' = [resp EXCEPT ![r] = RewriteResponse(@, upstream[r])]
    /\ UNCHANGED <<choice, tls, answer>>

\* The goroutine takes the next request.
Again(r) ==
    /\ At(r, "done")
    /\ Goto(r, "idle")
    /\ resp' = [resp EXCEPT ![r] = None]
    /\ answer' = [answer EXCEPT ![r] = None]
    /\ loaded' = [loaded EXCEPT ![r] = 0]
    /\ upstream' = [upstream EXCEPT ![r] = 0]
    /\ UNCHANGED <<Upstream, upstreamIndex, turns, tls>>

Handler(r) ==
    \/ NoUpstream(r) \/ Load(r) \/ Store(r) \/ Pick(r) \/ Do(r) \/ DoFails(r) \/ Headers(r)
    \/ Body(r) \/ Again(r)

Next == \E r \in Reqs : Handler(r)

Spec == Init /\ [][Next]_vars
-----------------------------------------------------------------------------
(* Properties.                                                             *)

Answered(r) == At(r, "done") /\ answer[r] # None

\* Requests whose choices do not overlap go to the upstreams in turn: of N in
\* a row no two go to the same one, also after races that lost updates.
RoundRobin == \A i, j \in DOMAIN turns : turns[i] = turns[j] => i = j

\* The upstream a request uses exists, whatever the unlocked index does.
UpstreamExists ==
    /\ N > 0 => upstreamIndex \in 0..(N - 1)
    /\ \A r \in Reqs : pc[r] \in {"do", "headers", "body"} => upstream[r] \in 1..N

\* The link is to upstream u, or to a place below it.
Below(u, l) ==
    /\ IsPrefix(u.place, l.place)
    /\ Len(l.place) > Len(u.place) => l.place[Len(u.place) + 1] \in {"/", "?", "#"}

\* Where it should lead.
Target(u, l) ==
    IF ~Below(u, l) THEN l
    ELSE [scheme |-> IF l.scheme = u.scheme THEN BaseURL.scheme ELSE l.scheme,
          place |-> BaseURL.place \o SubSeq(l.place, Len(u.place) + 1, Len(l.place))]

Occurs(u, l) == {i \in 1..Len(Text(l)) : OccursAt(Text(l), u.place, i)}

\* The upstream's text is in the link, but not as the place it leads to: it ends in
\* the middle of a host, a port or a segment, or is a part of the path or query.
Stray(u, l) == ~(Occurs(u, l) \subseteq IF Below(u, l) THEN {Len(l.scheme) + 1} ELSE {})

\* The upstream's text is in the new place of the link again.
Twice(u, l) == Below(u, l) /\ l.scheme = u.scheme /\ Occurs(u, Target(u, l)) # {}

LinksRewritten(r) == Answered(r) /\ answer[r].rewritable /\ answer[r].coded \in Known
Targets(r, links) == {Text(Target(Upstream[upstream[r]], l)) : l \in links}

\* "ProxyUpstreamBodyReplaceURL replaces URL in the response body": a link to the
\* upstream that answered leads to the same place below the proxy, and a link to
\* another place, another upstream too, is left alone, unless the upstream's text
\* is elsewhere in the link or in its new place.  The body that is sent has the
\* encoding its header names, unless it came without it.
LinksToProxy ==
    \A r \in Reqs : Answered(r) =>
        /\ LinksRewritten(r) =>
            LET u    == Upstream[upstream[r]]
                fine == {l \in answer[r].links : ~Stray(u, l) /\ ~Twice(u, l)}
            IN  /\ Targets(r, fine) \subseteq resp[r].links
                /\ fine = answer[r].links => resp[r].links = Targets(r, fine)
        /\ answer[r].coded = answer[r].encoding => resp[r].coded = resp[r].encoding

\* A cookie the client may keep: for its own host, and not Secure without TLS.
Fits(r, c) == c.domain \in {None, Host} /\ (c.secure => tls[r])

SameName(cookies, i) == {j \in DOMAIN cookies : cookies[j].name = cookies[i].name}

\* "RewriteCookies rewrites cookies in the response": of the cookies before the
\* first one that cannot be parsed, the first of every name is for the client's
\* host only and not Secure without TLS, and one whose name no other has keeps
\* Secure with TLS; no cookie appears or disappears, and no hop-by-hop header passes.
CookiesRewritten ==
    \A r \in Reqs : Answered(r) =>
        LET sent == answer[r].cookies
            got  == resp[r].cookies
        IN  /\ ~resp[r].hop
            /\ DOMAIN got = DOMAIN sent /\ \A i \in DOMAIN sent : got[i].name = sent[i].name
            /\ \A i \in DOMAIN sent : (\A j \in 1..i : ~sent[j].malformed) =>
                /\ (\A j \in SameName(sent, i) : i <= j) => Fits(r, got[i])
                /\ SameName(sent, i) = {i} => got[i].secure = (sent[i].secure /\ tls[r])
-----------------------------------------------------------------------------
(* What the comments of the code say and the code does not do (README).    *)

\* Links are replaced once, also when their new place has the upstream's text.
EveryLinkToProxy ==
    \A r \in Reqs : LinksRewritten(r) =>
        Targets(r, {l \in answer[r].links : ~Stray(Upstream[upstream[r]], l)}) \subseteq resp[r].links

\* A link to another place is left alone, also when it begins like the upstream.
OtherLinksAlone ==
    \A r \in Reqs : LinksRewritten(r) =>
        {Text(l) : l \in {k \in answer[r].links : ~Below(Upstream[upstream[r]], k)}} \subseteq resp[r].links

\* Every cookie that can be parsed is rewritten, whatever stands before it.
EveryCookieRewritten ==
    \A r \in Reqs : Answered(r) =>
        \A i \in DOMAIN answer[r].cookies :
            (SameName(answer[r].cookies, i) = {i} /\ ~answer[r].cookies[i].malformed)
                => Fits(r, resp[r].cookies[i])

\* Every cookie is rewritten, also when another one has its name.
SameNameRewritten ==
    \A r \in Reqs : (Answered(r) /\ \A c \in ToSet(answer[r].cookies) : ~c.malformed)
        => \A c \in ToSet(resp[r].cookies) : Fits(r, c)

\* A cookie for the upstream's host alone has no domain to change.
HostOnlyKept ==
    \A r \in Reqs : Answered(r) =>
        \A i \in DOMAIN answer[r].cookies :
            (SameName(answer[r].cookies, i) = {i} /\ answer[r].cookies[i].domain = None)
                => resp[r].cookies[i].domain = None
=============================================================================
