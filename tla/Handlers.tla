------------------------------ MODULE Handlers ------------------------------
(***************************************************************************)
(* What handlers do with their Context while the base path is still being  *)
(* worked out: cookies (cookie.go) and redirects (response.go) call        *)
(* BasePath twice each, other requests call it at the same time, and the   *)
(* answers of one site meet in a browser.  Other handlers make or restore  *)
(* a user (Users), or read values and refuse wrong ones (RequestData).     *)
(*                                                                         *)
(* All cookies have one name and all requests one path.  Outside this      *)
(* repository: fasthttp's Cookie, and a browser that follows RFC 6265bis.  *)
(***************************************************************************)
EXTENDS BasePath

INSTANCE Users

CONSTANTS
    Writers,        \* handlers
    Jobs,           \* what the handlers do: functions from Writers to jobs
    Lower,          \* of every host name and key: its lower-case form
    MaxInt,         \* the largest int
    MuxHost         \* RouterOptions.Host, or None

Data == INSTANCE RequestData

ASSUME HandlersAssumption ==
    /\ Callers = Writers \X {1, 2}
    /\ Raws \subseteq Seq({Slash, "b"})
    /\ MaxInt \in Nat \ {0}
    /\ None \notin Int \cup {"required", "malformed", "numeric", "validation", "own",
                            "json", "xml", "text"}

\* The value of a claim: sequences of texts, of grants, of groups.
IsValue(value) ==
    /\ value \in Seq(Range(value))
    /\ \A text \in Range(value) :
        /\ text \in Seq(Range(text)) /\ text # <<>>
        /\ \A g \in Range(text) :
            /\ g \in [scope : {g.scope}, level : {g.level}]
            /\ g.scope \in Seq(Range(g.scope)) /\ g.scope # <<>>

\* Configured page sizes are at least one, as config.Paging validates them.
ASSUME JobsAssumption ==
    \A f \in Jobs : \A w \in Writers : LET j == f[w] IN
        /\ j.op = "user" =>
            /\ \A n \in DOMAIN j.claims : IsValue(j.claims[n])
            /\ IsValue(j.scope) /\ (j.id # None => IsValue(j.id))
            /\ j.names \in Seq(Range(j.names))
        /\ j.op = "redirect" => j.target.segs \in Seq(Range(j.target.segs))
        /\ j.op = "read" => j.accept \in Seq(Range(j.accept))
        /\ j.op = "page" =>
            /\ j.conf.size \in Nat \ {0} /\ j.conf.max \in Nat \ {0}
            /\ j.sets \in Seq(Int)

VARIABLES
    dev,        \* Env().IsDevelopment()
    job,        \* of every handler: what it does
    out,        \* of every handler: what it answered, or None
    jar,        \* the browser's cookies: [prefix, domain, path]
    last        \* history: the handler whose answer came last

handlers == <<dev, job, out, jar, last>>

HandlersInit ==
    /\ Init
    /\ dev \in BOOLEAN
    /\ job \in Jobs
    /\ out = [w \in Writers |-> None]
    /\ jar = {}
    /\ last = None
-----------------------------------------------------------------------------
(* The request as the Context sees it                                      *)

IsTLS(r) ==
    IF r.trusted /\ r.proto # None THEN r.proto = "https" ELSE r.tls

Host(r) ==
    IF MuxHost # None THEN MuxHost
    ELSE IF r.trusted /\ r.fhost # None THEN r.fhost ELSE r.host

Scheme(r) == IF IsTLS(r) THEN "https" ELSE "http"
-----------------------------------------------------------------------------
(* Cookies                                                                 *)

IsCookie(j) == j.op \in {"set", "clear"}
DefaultSecurity(j) == \E i \in DOMAIN j.opts : j.opts[i].is = "default"
Secure(j) == DefaultSecurity(j) /\ (IsTLS(j.req) \/ ~dev)

\* SetPath: a path is never empty once it is set.
NonEmpty(path) == IF path = <<>> THEN <<Slash>> ELSE path

\* The value that the last option of a kind gives, as a sequence of one, or none.
Given(j, kind) ==
    LET at == {i \in DOMAIN j.opts : j.opts[i].is = kind}
    IN  IF at = {} THEN <<>> ELSE <<j.opts[Max(at)].value>>

Choice(j, kind, before) == IF Given(j, kind) = <<>> THEN before ELSE Given(j, kind)[1]

\* The options are applied in their order, each to an attribute of its own, so
\* the last one of a kind counts.  A Max-Age is given as "is positive", a time of
\* expiry as "has passed".
apply(c, j) ==
    [c EXCEPT !.path = IF Given(j, "path") = <<>> THEN @ ELSE NonEmpty(Given(j, "path")[1]),
              !.domain = Choice(j, "domain", @), !.maxAge = Choice(j, "maxAge", @),
              !.expired = Choice(j, "expires", @), !.secure = Choice(j, "secure", @),
              !.httpOnly = Choice(j, "httpOnly", @)]

\* The cookie before the options, and after them.
Setup(j, prefix) ==
    [prefix |-> prefix, domain |-> None, path |-> None, maxAge |-> FALSE, secure |-> FALSE,
     httpOnly |-> FALSE, expired |-> j.op = "clear"]

Enforce(c, j, basePath) ==
    [c EXCEPT !.path = NonEmpty(basePath), !.httpOnly = TRUE, !.domain = None,
              !.secure = @ \/ Secure(j)]

\* A mutated choice of the name that Clear does not make.
PrefixOnSet(j, basePath) ==
    IF ~Secure(j) \/ j.op = "clear" THEN "" ELSE IF basePath = <<>> THEN "__Host-" ELSE "__Secure-"

\* The first call of BasePath chooses the name.
Prefix(j, basePath) ==
    IF ~Secure(j) THEN "" ELSE IF basePath = <<>> THEN "__Host-" ELSE "__Secure-"

\* A mutated writeCookie that enforces the defaults before the options.
writeCookieOptionsLast(j, first, second) ==
    LET c == Setup(j, Prefix(j, first))
    IN  apply(IF DefaultSecurity(j) THEN Enforce(c, j, second) ELSE c, j)

writeCookie(j, first, second) ==
    LET c == apply(Setup(j, Prefix(j, first)), j)
    IN  IF DefaultSecurity(j) THEN Enforce(c, j, second) ELSE c

\* A browser refuses a cookie whose attributes do not fit its prefix.
Keeps(c) ==
    /\ c.prefix # "" => c.secure
    /\ c.prefix = "__Host-" => c.domain = None /\ c.path = <<Slash>>

\* Max-Age is written in place of Expires when there is one.
Received(c) ==
    LET id == [prefix |-> c.prefix, domain |-> c.domain, path |-> c.path]
    IN  IF ~Keeps(c) THEN jar
        ELSE IF c.expired /\ ~c.maxAge THEN jar \ {id} ELSE jar \cup {id}
-----------------------------------------------------------------------------
(* Redirects                                                               *)

\* A mutated path.Clean that only drops ".".
CleanDots(segs) == SelectSeq(segs, LAMBDA s : s # ".")

\* path.Clean of a rooted path.
Clean(segs) ==
    FoldLeft(LAMBDA path, s :
                CASE s = "."  -> path
                  [] s = ".." -> IF path = <<>> THEN path ELSE Front(path)
                  [] OTHER    -> Append(path, s),
             <<>>, segs)

\* The origin of BaseURL.
isCurrentOrigin(t, r) == t.scheme = Scheme(r) /\ Lower[t.host] = Lower[Host(r)]

\* A path has no origin of its own.
Location(origin, basePath, segs) == [origin |-> origin, base |-> basePath, segs |-> segs]

\* A target: "path" begins with one slash; "absolute" has a scheme and a host;
\* anything else, also "//host" and a text that cannot be parsed, is "other".
sanitizeRedirect(j, first, second) ==
    CASE j.target.form = "path" -> Location(<<>>, second, Clean(j.target.segs))
      [] j.target.form = "absolute" /\ isCurrentOrigin(j.target, j.req) ->
            Location(<<j.target.scheme, j.target.host>>, <<>>, Clean(j.target.segs))
      [] OTHER -> Location(<<>>, first, <<>>)
-----------------------------------------------------------------------------
(* The handlers                                                            *)

NeedsFirst(j) == Secure(j) \/ j.op = "redirect"
NeedsSecond(j) ==
    IF j.op = "redirect" THEN j.target.form # "other" ELSE DefaultSecurity(j)

Returned(w, n) == pc[<<w, n>>] = "done"

\* A step inside one of the two calls of BasePath.
CallBasePath(w) ==
    /\ out[w] = None /\ job[w].op \in {"set", "clear", "redirect"}
    /\ \/ NeedsFirst(job[w]) /\ Call(<<w, 1>>)
       \/ /\ NeedsFirst(job[w]) => Returned(w, 1)
          /\ NeedsSecond(job[w]) /\ Call(<<w, 2>>)
    /\ UNCHANGED handlers

Ready(w) ==
    /\ out[w] = None
    /\ NeedsFirst(job[w]) => Returned(w, 1)
    /\ NeedsSecond(job[w]) => Returned(w, 2)

Answer(w, o) ==
    /\ out' = [out EXCEPT ![w] = o]
    /\ last' = w
    /\ UNCHANGED <<vars, dev, job>>

WriteCookie(w) ==
    /\ IsCookie(job[w]) /\ Ready(w)
    /\ \E c \in {writeCookie(job[w], ret[<<w, 1>>], ret[<<w, 2>>])} :
        Answer(w, c) /\ jar' = Received(c)

Redirect(w) ==
    /\ job[w].op = "redirect" /\ Ready(w)
    /\ Answer(w, sanitizeRedirect(job[w], ret[<<w, 1>>], ret[<<w, 2>>]))
    /\ UNCHANGED jar

\* A handler makes a user, and restores one from its JSON: into a new variable,
\* or into the user it has.
MakeUser(w) ==
    /\ job[w].op = "user" /\ out[w] = None
    /\ \E u \in {NewIdentity(job[w].id, job[w].scope, job[w].claims, job[w].names)} :
        Answer(w, [new |-> u, zero |-> UnmarshalJSON(NoUser, MarshalJSON(u)),
                   into |-> UnmarshalJSON(u, job[w].other)])
    /\ UNCHANGED jar

\* The getter the handler calls, or an error of its own.
Read(j) ==
    CASE j.get = "string"  -> Data!String(j.data, j.key)
      [] j.get = "values"  -> Data!Got(Data!Values(j.data, j.key))
      [] j.get = "int"     -> Data!Int64(j.data, j.key)
      [] j.get = "param"   -> Data!ParamsInt64(j.data, j.key)
      [] j.get = "int?"    -> Data!Int64Optional(j.data, j.key)
      [] j.get = "bool"    -> Data!Bool(j.data, j.key)
      [] j.get = "bool?"   -> Data!BoolOptional(j.data, j.key)
      [] j.get = "body"    -> Data!Body(j.data.body, j.data.media)
      [] OTHER             -> Data!Fail("own")

\* A handler reads a value and passes the error, if there is one, to ctx.Error.
ReadData(w) ==
    /\ job[w].op = "read" /\ out[w] = None
    /\ \E r \in {Read(job[w])} :
        LET e == [error |-> r.error, wrapped |-> job[w].wrapped, marshals |-> job[w].marshals]
        IN  Answer(w, [value |-> r.value, error |-> r.error,
                       status |-> IF r.error = None THEN 200 ELSE Data!StatusCode(e),
                       media |-> IF r.error = None THEN None
                                 ELSE Data!ErrorBody(e, job[w].ct, job[w].accept)])
    /\ UNCHANGED jar

\* A handler calls SetMaxPageSize any number of times, and Paging.
ReadPaging(w) ==
    /\ job[w].op = "page" /\ out[w] = None
    /\ LET stored == IF job[w].sets = <<>> THEN None
                     ELSE Data!SetMaxPageSize(Last(job[w].sets), job[w].conf)
       IN  Answer(w, Data!Paging(job[w].data, stored, job[w].conf))
    /\ UNCHANGED jar

Done(w) == out[w] # None \/ job[w].op = "none"

HandlersFinished == (\A w \in Writers : Done(w)) /\ UNCHANGED <<vars, handlers>>

HandlersNext ==
    \/ \E w \in Writers : \/ CallBasePath(w) \/ WriteCookie(w) \/ Redirect(w)
                           \/ MakeUser(w) \/ ReadData(w) \/ ReadPaging(w)
    \/ (\E s \in Raws : SetOption(s)) /\ UNCHANGED handlers
    \/ HandlersFinished

HandlersSpec == HandlersInit /\ [][HandlersNext]_<<vars, handlers>>
-----------------------------------------------------------------------------
(* Properties.                                                             *)

\* A cookie with CookieDefaultSecurity is kept by the browser under its prefix,
\* is for the whole site and hidden from scripts, whatever the other options
\* say and whoever fills the cache of the base path between the choice of the
\* prefix and that of the path, as long as the option does not change.
DefaultSecurityHolds ==
    \A w \in Writers :
        (out[w] # None /\ IsCookie(job[w]) /\ DefaultSecurity(job[w]) /\ changes = 0) =>
            /\ Keeps(out[w]) /\ out[w].httpOnly /\ out[w].domain = None
            /\ Secure(job[w]) => out[w].prefix # "" /\ out[w].secure
            /\ out[w].path = IF Normalized(option) = <<>> THEN <<Slash>> ELSE Normalized(option)

Lasts(j) == Given(j, "maxAge") # <<>> \/ Given(j, "expires") # <<>>

\* c is given the options of s, over a connection that is as secure, and no
\* time to live.
Undoes(c, s) ==
    /\ DefaultSecurity(c) <=> DefaultSecurity(s)
    /\ \A k \in {"path", "domain", "secure"} : Given(c, k) = Given(s, k)
    /\ IsTLS(c.req) = IsTLS(s.req) \/ ~dev
    /\ ~Lasts(c)

\* Clear, given the Path, Domain and security that Set was given, or a Clear
\* that gave the cookie a time to live, leaves the browser without the cookie:
\* both find the same prefix and path, also when they race to fill the cache of
\* the base path.
ClearRemoves ==
    \A w \in Writers :
        ( /\ last = w /\ job[w].op = "clear" /\ changes = 0
          /\ \A v \in Writers :
                (job[v].op = "set" \/ (job[v].op = "clear" /\ Lasts(job[v]))) =>
                    Undoes(job[w], job[v]) ) => jar = {}

\* A redirect goes to the origin of the request, as the trusted proxy names it,
\* or to a path on it, which begins with the base path.
StaysOnOrigin(l, r) ==
    IF l.origin = <<>> THEN changes = 0 => l.base = Normalized(option)
    ELSE l.origin[1] = Scheme(r) /\ Lower[l.origin[2]] = Lower[Host(r)]

\* Redirect stays on the origin of the request, as the trusted proxy names it,
\* and a path stays below the base path, whatever dots it has.
RedirectStaysHome ==
    \A w \in Writers : (out[w] # None /\ job[w].op = "redirect") =>
        ".." \notin Range(out[w].segs) /\ StaysOnOrigin(out[w], job[w].req)

Grants(texts) == UNION {Range(t) : t \in Range(texts)}

\* The claim that counts: no name before it has one.
Counting(u) ==
    UNION {{u.claims[u.names[i]]} : i \in {k \in DOMAIN u.names :
        u.names[k] \in DOMAIN u.claims /\ \A j \in 1..(k - 1) : u.names[j] \notin DOMAIN u.claims}}

\* The scopes of u are granted by the claim that counts, and it has every one
\* that the claim lists as separate values or in a single one.
OfItsClaims(u) ==
    /\ \A s \in DOMAIN u.scopes : \A l \in u.scopes[s] \ {"comma"} :
        \E texts \in Counting(u) : [scope |-> s, level |-> l] \in Grants(texts)
    /\ \A texts \in Counting(u) :
        (Len(texts) = 1 \/ \A t \in Range(texts) : Len(t) = 1) =>
            \A g \in Grants(texts) :
                HasScopeLevel(u, g.scope, g.level) /\ HasScopeGroup(u, <<g.scope[1]>>)

\* A user has no scope at a level that its claims do not grant, also after it
\* was restored from JSON into a new variable; and has every one that a claim
\* lists as separate values or in a single one.
ScopesAreGranted ==
    \A w \in Writers : (out[w] # None /\ job[w].op = "user") =>
        OfItsClaims(out[w].new) /\ DOMAIN out[w].zero.scopes \subseteq DOMAIN out[w].new.scopes

\* Reference: the Accept header h has an entry for the type or for its group.
Names(h, type) ==
    \E i \in DOMAIN h :
        /\ h[i] \in {type, "app/*"}
        /\ \E k \in 0..(i - 1) :
            (k = 0 \/ h[k] = "comma") /\ \A m \in (k + 1)..(i - 1) : h[m] = "blank"
        /\ \E k \in (i + 1)..(Len(h) + 1) :
            /\ k = Len(h) + 1 \/ h[k] \in {"comma", "semicolon"}
            /\ \A m \in (i + 1)..(k - 1) : h[m] = "blank"

\* The answer o to an error in the job j.
FitsClient(j, o) ==
    LET asked == {t \in {"json", "xml"} : j.ct = t \/ Names(j.accept, t)}
    IN  /\ o.error # "own" => o.status \in 400..499
        /\ o.media \in {"json", "xml"} =>
            o.media \in asked \/ (asked = {} /\ o.media \in j.marshals)
        /\ o.media = "text" => asked = {}
        /\ o.media = None => o.error = "own" \/ j.wrapped

\* What a client sent wrongly is answered by a status 4xx, also when the handler
\* wraps the error; the body is of a type that the client or the handler asked
\* for and is text only if they asked for neither of the two; only an error that
\* is wrapped or is the handler's own has none.
RefusalFitsClient ==
    \A w \in Writers : (out[w] # None /\ job[w].op = "read" /\ out[w].error # None) =>
        FitsClient(job[w], out[w])

\* The page o that the job j is given.
FitsLimit(j, o) ==
    LET limit == IF j.sets = <<>> \/ Last(j.sets) <= 0 THEN j.conf.max ELSE Last(j.sets)
    IN  /\ o.size \in 1..limit /\ o.page \in 1..MaxInt
        /\ o.page * o.size <= MaxInt => o.total = o.page * o.size

\* Whatever the query, the configuration and earlier calls of SetMaxPageSize are,
\* a page has between one item and the limit that counts, and the total is that
\* of full pages up to this one unless it exceeds an int.
PageWithinLimit ==
    \A w \in Writers : (out[w] # None /\ job[w].op = "page") => FitsLimit(job[w], out[w])

-----------------------------------------------------------------------------
(* What the comments of the code say and the code does not do (README).    *)

\* "Pass the same Path and Domain options that were used when setting the
\* cookie" to clear it: these two are enough.
ClearedWithPathAndDomain ==
    \A w, v \in Writers :
        ( /\ last = w /\ job[w].op = "clear" /\ job[v].op = "set" /\ changes = 0
          /\ \A k \in {"path", "domain"} : Given(job[w], k) = Given(job[v], k) ) => jar = {}

\* "UnmarshalJSON implements json.Unmarshaler": what MarshalJSON wrote is
\* restored, and what the variable held before is replaced.
JSONRestores ==
    \A w \in Writers : (out[w] # None /\ job[w].op = "user") =>
        /\ out[w].zero.scopes = out[w].new.scopes
        /\ out[w].into.scopes = New(job[w].other, job[w].names).scopes

\* String "gets the first value associated with the given key", and Values "all
\* values associated with the given key", of which it is the first.
StringIsFirstValue ==
    \A w \in Writers : (out[w] # None /\ job[w].op = "read" /\ job[w].get = "string") =>
        LET all == Data!Values(job[w].data, job[w].key)
        IN  (all # <<>> /\ all[1] # Data!Empty) => out[w].value = all[1]

\* "Valid values ar "true", "false", "1" and "0"": another one is refused, as
\* that of a number is.
BoolRefusesInvalid ==
    \A w \in Writers :
        (out[w] # None /\ job[w].op = "read" /\ job[w].get = "bool" /\ out[w].error = None) =>
            LET text == Data!Value(job[w].data, job[w].key)
            IN  Len(text) = 1 /\ (\/ text[1].is = "word" /\ text[1].v \in {"true", "false"}
                                  \/ text[1].is = "number" /\ text[1].v \in {0, 1})
=============================================================================
