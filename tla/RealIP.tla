------------------------------- MODULE RealIP -------------------------------
(***************************************************************************)
(* The RealIP middleware (middleware/realip.go): the list of the trusted   *)
(* proxies (TrustedSource) changes, and each request's remote address is   *)
(* replaced by the one its forwarding headers name.                        *)
(*                                                                         *)
(* A header's text is a sequence of tokens: "comma", "blank", an address,  *)
(* or anything else; an offset in it counts tokens.                        *)
(***************************************************************************)
EXTENDS TrustedSource

CONSTANTS
    Configs,        \* configurations: [address, headers, limit]
    Requests        \* [remote, headers, values]: headers has the text of the trusted
                    \* ones, <<>> if absent; values are the X-Forwarded-For lines

Tokens == {"comma", "blank", Junk} \cup Addresses

ASSUME RealIPAssumption ==
    /\ \A c \in Configs :
        /\ c.limit \in Nat
        /\ c.address \in Seq(ToSet(c.address)) /\ c.headers \in Seq(ToSet(c.headers))
    /\ \A r \in Requests :
        /\ r # Nil /\ r.values \in Seq(Seq(Tokens))
        /\ \A c \in Configs : \A h \in ToSet(c.headers) \ {"X-Forwarded-For"} :
            r.headers[h] \in Seq(Tokens)

VARIABLES
    trustedHeaders, forwardLimit,   \* of RouterOptions.Proxy
    req,                            \* the last request, or Nil
    addr                            \* the remote address RealIP gave it

realIPVars == <<lists, trustedHeaders, forwardLimit, req, addr>>

\* defaultProxyOptions, where ApplyConfig was not called: no header is trusted.
RealIPInit ==
    /\ InitLists
    /\ trustedHeaders = <<>> /\ forwardLimit = 1
    /\ req = Nil /\ addr = Nil

ClearList ==
    /\ req = Nil
    /\ \E a \in Apps : Clear(a)
    /\ UNCHANGED <<trustedHeaders, forwardLimit, req, addr>>

AddEntry ==
    /\ req = Nil
    /\ \E a \in Apps, entry \in Kinds[kind].entries : Add(a, entry)
    /\ UNCHANGED <<trustedHeaders, forwardLimit, req, addr>>

ApplyConfig ==
    /\ req = Nil
    /\ \E a \in Apps, c \in Configs :
        /\ Configure(a, c.address)
        /\ IF kind = "proxy" THEN trustedHeaders' = c.headers /\ forwardLimit' = c.limit
           ELSE UNCHANGED <<trustedHeaders, forwardLimit>>
    /\ UNCHANGED <<req, addr>>

\* The proxies of the application that has the request.
IsTrustedProxy(ip) == \E a \in Apps : IsTrusted(list[a], array, ip)
-----------------------------------------------------------------------------
(* The forwarding headers                                                  *)

\* net.ParseIP takes the whole text; a blank makes it invalid.
ParseIP(text) ==
    IF Len(text) = 1 /\ text[1] \in Addresses THEN text[1] ELSE Nil

\* Several lines are joined by ", ".
Join(values) ==
    IF values = <<>> THEN <<>>
    ELSE FoldLeft(LAMBDA text, v : text \o <<"comma", "blank">> \o v, Head(values), Tail(values))

\* How many blanks follow offset p.
Blanks(text, p) ==
    Max({n \in 0..(Len(text) - p) : \A i \in 1..n : text[p + i] = "blank"})

\* One round of the loop.  Its state: what is left of the header, the offset p
\* of the entry, and how many tokens c before p are its comma and blanks.
\* Mutated: the blanks are not counted in c.
CutComma(s) ==
    LET xff == IF s.p - s.c > 0 THEN SubSeq(s.xff, 1, s.p - s.c) ELSE s.xff
        k == SelectLastInSeq(xff, LAMBDA t : t = "comma")
    IN  IF k = 0 THEN [xff |-> xff, p |-> 0, c |-> s.c, break |-> TRUE]
        ELSE [xff |-> xff, p |-> k + Blanks(xff, k), c |-> 1, break |-> FALSE]

Cut(s) ==
    LET xff == IF s.p - s.c > 0 THEN SubSeq(s.xff, 1, s.p - s.c) ELSE s.xff
        k == SelectLastInSeq(xff, LAMBDA t : t = "comma")
        n == Blanks(xff, k)
    IN  IF k = 0 THEN [xff |-> xff, p |-> 0, c |-> s.c, break |-> TRUE]
        ELSE [xff |-> xff, p |-> k + n, c |-> 1 + n, break |-> FALSE]

\* Up to limit rounds.
Rounds(text, limit) ==
    LET state[i \in 0..limit] ==
            IF i = 0 THEN [xff |-> text, p |-> 0, c |-> 0, break |-> FALSE]
            ELSE IF state[i - 1].break THEN state[i - 1] ELSE Cut(state[i - 1])
    IN  state[limit]

forwardedFor(values, limit) ==
    LET s == Rounds(Join(values), limit)
        p == s.p + Blanks(s.xff, s.p)
    IN  ParseIP(SubSeq(s.xff, p + 1, Len(s.xff)))

realIP(r, header) == ParseIP(r.headers[header])

\* The first trusted header that names an address.
realIPOrForwardedFor(r) ==
    LET Named(h) == IF h = "X-Forwarded-For" THEN forwardedFor(r.values, forwardLimit)
                    ELSE realIP(r, h)
        found == SelectInSeq(trustedHeaders, LAMBDA h : Named(h) # Nil)
    IN  IF IsTrustedProxy(r.remote) /\ found # 0
        THEN Named(trustedHeaders[found]) ELSE r.remote

RealIP ==
    /\ kind = "proxy" /\ req = Nil
    /\ \E r \in Requests : req' = r /\ addr' = realIPOrForwardedFor(r)
    /\ UNCHANGED <<lists, trustedHeaders, forwardLimit>>

\* The handler returns.
Served ==
    /\ req # Nil
    /\ req' = Nil /\ addr' = Nil
    /\ UNCHANGED <<lists, trustedHeaders, forwardLimit>>

RealIPNext == ClearList \/ AddEntry \/ ApplyConfig \/ RealIP \/ Served

RealIPSpec == RealIPInit /\ [][RealIPNext]_realIPVars
-----------------------------------------------------------------------------
(* Properties.                                                             *)

\* Reference: an entry's place, counted from the right.
CommasAfter(text, i) == Cardinality({j \in (i + 1)..Len(text) : text[j] = "comma"})

\* Addresses separated by commas, with blanks only before an address.
WellFormed(text) ==
    /\ text # <<>> /\ Head(text) # "comma" /\ Last(text) \in Addresses
    /\ \A i \in 1..(Len(text) - 1) :
        CASE text[i] \in Addresses -> text[i + 1] = "comma"
          [] text[i] = "comma"     -> text[i + 1] \in Addresses \cup {"blank"}
          [] text[i] = "blank"     -> text[i + 1] \in Addresses \cup {"blank"}
          [] OTHER                 -> FALSE

Forwarded ==
    /\ req # Nil /\ IsTrustedProxy(req.remote)
    /\ "X-Forwarded-For" \in ToSet(trustedHeaders) /\ WellFormed(Join(req.values))
    /\ \A h \in ToSet(trustedHeaders) \ {"X-Forwarded-For"} : req.headers[h] = <<>>

\* RealIP never takes an address from an entry further left than ForwardLimit,
\* whatever the header's commas, blanks and junk are, nor from a header or a
\* peer that is not trusted.  From a well-formed header it takes the entry at
\* ForwardLimit, counted from the right, or the first one if there are fewer,
\* also from several lines.
RightEntry ==
    /\ (req # Nil /\ addr # req.remote) =>
        /\ IsTrustedProxy(req.remote)
        /\ \/ \E h \in ToSet(trustedHeaders) \ {"X-Forwarded-For"} : req.headers[h] = <<addr>>
           \/ /\ "X-Forwarded-For" \in ToSet(trustedHeaders)
              /\ LET text == Join(req.values)
                 IN  \E i \in DOMAIN text :
                        /\ text[i] = addr
                        /\ CommasAfter(text, i) < Max({forwardLimit, 1})
    /\ (Forwarded /\ forwardLimit > 0) =>
        LET text == Join(req.values)
            entries == {i \in DOMAIN text :
                            text[i] \in Addresses /\ CommasAfter(text, i) < forwardLimit}
        IN  addr = text[Min(entries)]

-----------------------------------------------------------------------------
(* What the comments of the code say and the code does not do (README).    *)

\* "Set to 0 to disable the limit": the first entry of a well-formed header is
\* then the client.
ZeroDisablesLimit ==
    (Forwarded /\ forwardLimit = 0) =>
        LET text == Join(req.values)
        IN  addr = text[Min({i \in DOMAIN text : text[i] \in Addresses})]
=============================================================================
