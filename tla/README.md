# A TLA+ model of azugo

azugo is a Go framework for web services on top of fasthttp: a router, pooled
request contexts, a standard middleware chain, an HTTP client, an upstream
proxy, embedded static content and WS-Federation sign-in. This directory holds
TLA+ specifications of its stateful parts, TLC configurations that check them
on small instances, and TLAPS proofs of the most important results.

Paths such as `mux.go:154` are relative to the repository (`src/`).

    tlc -workers 2 -config Request.cfg MCRequestLifecycle   # one run
    tlapm RequestLifecycleProofs.tla                        # one module of proofs

`PROJECT.json` lists the runs, the source lines behind every definition, the
mutants that show each property can fail, and the hazards.

## 1. Inventory of the system

| Component | State it keeps | Operations | Hard behaviour | What makes it correct |
|---|---|---|---|---|
| Request lifecycle (`request.go`, `mux.go` WrapHandler/Recv/HandleError, `header.go`, `logger.go`, `user.go`, `response.go`) | `App.ctxPool`; a Context's user, effective context, form, log fields, cached logger, always-headers with a recycled backing array | acquireCtx, the methods of Context, error rendering, recovery, reset, Put | concurrent requests recycle objects; panics at any step between deferred calls; errors rendered twice | no sharing, no data of an earlier request, current logger, preserved headers, nothing kept open |
| Radix tree (`internal/radix`) | nodes with handlers, redirect marks, wildcards | Add, Get, FindCaseInsensitivePath | splits in every registration order, backtracking | right handler, static first, sound redirects |
| Router and groups (`mux.go`, `route_group.go`, `internal/router/path.go`) | a tree per method, middleware lists, cached method list | Handle, Use, UsePriority, Group, Proxy, Mutable, Handler | redirects of two trees, derived caches | handlers of matching routes, usable Allow, no redirect circle |
| Base path (`mux.go:76`) | cached normalized option | BasePath | lock upgrade, several writes under the lock | returns a normalized value of the option |
| HTTP client (`http_client.go`) | cached client, options | HTTPClient, AddHTTPClientOption | lock upgrade, panic under the lock | current client, balanced locks, calls return |
| Start and stop (`app.go`) | server, listeners, connections | Start, Stop | Stops that race, late listeners, timeouts | one Stop takes the server, waits, everything returns |
| Server chain (`server/`, `middleware/`, `healthz/`) | limiter built on first use | RealIP, RequestLogger, Metrics, CORS, RateLimit | double-checked construction, order of middlewares, panics that skip the second half | one limiter, the client's address, CORS on errors, an answer |
| Real IP (`middleware/realip.go`, `proxy.go`, `router.go`) | trusted headers, limit | ApplyConfig, RealIP | limits and offsets in a loop over header text | the right entry, never beyond the limit |
| Trusted lists of proxies, health checks and metrics (`proxy.go`, `trusted_source.go`, `metrics_options.go`, `app.go`) | addresses and networks, per application, first on a shared array | Clear, Add, ApplyConfig, IsTrusted | applications append to one array | what an application configured, nothing else |
| Cookies and redirects (`cookie.go`, `response.go`) | the response; the browser's cookies | Set, Clear, Redirect | two calls of BasePath per operation, while its cache is filled | kept by the browser, removable, on this site |
| Users (`user/`, `token/claim.go`) | claims and the scopes parsed from them | New, NewIdentity, UnmarshalJSON, HasScope | scopes parsed once, texts split or not | the scopes that were granted |
| Request data and errors (`query.go`, `form.go`, `params.go`, `body.go`, `request.go`, `errors.go`, `mux.go` HandleError) | the limit of a page | typed getters, Paging, SetMaxPageSize, Accepts, NewErrorResponse | numbers beyond an int or a limit, header text, wrapped errors | pages within the limit, refusals the client can read |
| Static content (`static.go`) | cache of replaced and compressed files | handler, compression goroutine | shared cache, keys by concatenation | right file, encoding and values |
| Upstream proxy (`upstream.go`, `internal/proxy`) | unlocked round-robin index | choice, rewriting of links, cookies, headers | unlocked load/store/load, decode and encode | existing upstream, turns, rewritten answer |
| Nonce store (`token/nonce`) | cache, entropy source | Create, Verify | two calls per Verify, unlocked entropy | a nonce is used once |
| WS-Federation (`wsfed/`, `internal/wsfed`) | metadata, certificate store, ready | check, RefreshMetadata, Ready, URLs, ReadResponse, Parse | fields read without the lock, rotation, failures half-way | only the provider's tokens, one version, calls return |

Interactions: the router's `WrapHandler` starts and ends a request lifecycle and
calls the chain that `server.New` installed; the chain calls RealIP, which asks
the trusted proxies; CORS uses the always-headers of the lifecycle; the proxy
and static content are handlers; `RouteGroup.Proxy` registers routes; the nonce
store is called by WS-Federation's Parse. `Mux` is built on `RadixTree`
(EXTENDS); `HTTPClient` and `BasePath` on `RWMutex`, `RealIP` on
`TrustedSource`, and `Handlers` on `BasePath`, `Users` and `RequestData`.
`ServerChain` composes the
middlewares and takes the outcome of the address parsing that `RealIP` details;
`WSFederation` takes the outcome of a nonce's Verify as a choice.

## 2. Modules

**RequestLifecycle** (`MCRequestLifecycle`, `RequestLifecycleProofs`).
Several goroutines, one per request, each at a program counter in WrapHandler.
`ctx` holds the contents of every Context object, `pool` is ctxPool, `own` the
Context a goroutine has. Because a goroutine owns its Context, a whole method
is one action; the deferred calls (FinishSpan, Recv, Reset, Put) are separate
ones, as other requests run between them. Data is tagged with the request that
produced it. `slots` of a Context model the backing array of `alwaysHeaders`,
which survives recycling, with `alen` its length. The handler may panic at any
point, the instrumenter on start, and the error handler while it renders; a
panic nobody recovers ends the process (`down`). The pool may drop objects.

**RadixTree, RouteTree** (`MCRouteTree`). RadixTree translates the tree's
functions: Split, SetHandler, Insert, InsertWildcard, SortNode, GetFrom,
FindNode. A path is a sequence of tokens, a character or a whole `{name}`.
RouteTree registers routes in every order and compares what the tree answers
with `Match`, which defines what a route matches without a tree.

**Mux** (`MCMux`). Registration operations in every order, one tree per method;
`Dispatch` is what Handler does with a request: a handler, a redirect, an
OPTIONS answer, 405 or 404. A handler remembers its routes, method and the
chain of middlewares around it.

**BasePath, HTTPClient, RWMutex, OptionCache** (`AppProofs`). RWMutex is
Go's lock: Lock announces itself, which keeps new readers out, then waits for
readers to leave. Both components upgrade by RUnlock, Lock; every step under the
lock is an action. A client is the number of options it was built with.
OptionCache is the abstract specification: no lock and no cache, a call begins,
and replies in one step with a version that was current during the call, unless
the component has halted. HTTPClient implements it (`KeepsPromise`) under the
mapping: the version is the number of options, a call has begun when its program
counter has left "idle" and has replied when it is at "done", and the component
has halted when the process is gone or Config has panicked under the lock.

**Handlers, Users, RequestData** (`MCHandlers`, `HandlersProofs`). Handlers extends BasePath: a
handler that sets or clears a cookie or redirects calls BasePath up to twice,
each call with all its steps, and answers when both have returned; the browser's
cookies are `jar`, and the handlers of one instance talk to one browser. Options
of a cookie are applied in order, so the last one of a kind counts. What a
handler does is its `job`. Other jobs make a user and restore one from JSON
(Users), read a value and pass its error to ctx.Error, or ask for a page
(RequestData); these are single steps, as they touch nothing shared. Texts are
sequences of parts joined by a separator, the Accept header is a sequence of
tokens, and an int has the range `MaxInt` gives it. `Names` and the limit in
`PageWithinLimit` are definitions of their own that the code's are compared
with.

**AppLifecycle** (`AppProofs`). Start goes through the core application, the
publication of the server, two listener goroutines and the wait; Stop takes the server, shuts
HTTP/2 down, closes listeners, drains, stops the core. fasthttp's Server and the
core application are external, as `app.go` uses them.

**ServerChain** (`MCServerChain`, `ServerChainProofs`). A middleware is a step before `next` and,
where it has one, a step after it, which a panic skips. `getLimiter` is cut into
its load, lock, second look and build.

**TrustedSource, RealIP** (`MCRealIP`, `ProxyProofs`). TrustedSource has the lists of every
application for one kind of list, chosen at the start. New copies a default
struct, so the slice of its networks shares the default's array until append
finds no room or Clear makes a new one; `array` is that array. The lists of
`proxy.go` have the same operations. `added` and `overwritten` are history. In
RealIP, a request has the remote address, the text of each trusted header and the
lines of X-Forwarded-For; text is a sequence of tokens (comma, blank, address,
junk), and `Rounds` is the loop with its offsets. The names of this module and of
AppLifecycle that every specification has carry a prefix (`RealIPSpec`,
`AppSpec`, `FairAppSpec`), as their proofs share a module with other components.

**Induction** has no state: it holds the lemmas the proof modules share about
numbers, folds and recursive functions (section 4).

**StaticContent** (`MCStaticContent`, `StaticContentProofs`). A content names its file and the hash
whose values are in it; hashes and paths of files are sequences of tokens, and
cache keys are the concatenations of the code. Each read and write of the cache
is a step.

**UpstreamProxy** (`MCUpstreamProxy`, `ProxyProofs`). The load, store and second
load of the index are three steps. A text is a sequence of pieces, so that one
host, port or segment can be the beginning of another, and `BytesReplaceAll`
replaces every occurrence wherever it stands, as the code does. A body is the set
of its links, each a text of a scheme and a place. Cookies are rewritten one by
one into the list they are read from: `SetCookie` writes to the first cookie of
the name. The objects of fasthttp's pool differ in one thing, the domain of a
recycled one is empty but not nil, so which cookies get a recycled object is a
choice.

**NonceStore**. A draw of the entropy source is two steps (advance, copy), as it
has no lock; the cache's calls may fail and entries may expire.

**WSFederation** (`MCWSFederation`, `WSFederationProofs`). Every field `check` writes is a step, since
Parse and the URLs read them without the lock. Certificate stores are versions
in `roots`: the code replaces the store object and then fills it, and a parser
keeps the object it read.

## 3. Runs

Each property has a mutant of a mapped definition that breaks it under the same
configuration. Deadlock is checked in all runs: a process that stops half-way
would be reported.

| Run | Instance | Shows |
|---|---|---|
| Request | 2 requests, 2 Contexts, 1 header, all methods, 2 calls per handler, form none or multipart | PooledClean, OwnDataOnly, LoggerCurrent, AlwaysHeadersKept, PanicRendersError, ReleasedResources |
| RouteTree | 13 routes, any 3 in any order, mutable or not; all 85 paths of up to 4 characters | GetSound, MissOnlyInsideRoute, FindSound |
| Mux | 3 registration operations of 9 kinds, 5 methods with a custom one and `*`, 5 routes, a base path, a group, a middleware | HandlerOfMatchingRoute, AllowedMethodsWork, OneTreeNeverSendsBack |
| HTTPClient | 3 callers, 2 adders | ReturnedClientHasOptions, LocksBalanced, and KeepsPromise: OptionCache with its liveness is implemented |
| Handlers | 2 handlers with up to 4 calls of BasePath, 3 forms of the option, 1 change; 36 pairs of lists of cookie options, requests with and without a trusted proxy, 9 redirect targets; users of 21 values of a claim; 7 getters of 8 texts, 8 Accept headers; ints of 8 bits | ReturnsOption, DefaultSecurityHolds, ClearRemoves, RedirectStaysHome, ScopesAreGranted, RefusalFitsClient, PageWithinLimit |
| NonceConsume | 1 Create, 2 Verify | violation of ConsumesNonce, section 6 |
| StaticContent | 2 requests, 2 files of which one is below the other, 2 hashes, a replacer that leaves one file alone, gzip | EncodingMatchesBody, OwnValuesOnly |
| AppLifecycle | 2 listeners, 2 Stops, 2 connections | ConnectionsFirst, CallsReturn |
| ServerChain | 2 requests of every kind in `Pairs`, a proxy, 2 clients | OneLimiter, ByClient, CORSKept, Answered |
| WSFederation | a parser, a caller of URLs or Ready, a refresher; 2 versions of the metadata, 8 tokens | AcceptedFromProvider, OneVersion, RefusedForCause, CallsReturn |
| RealIP | every header of up to 5 tokens, two lines of up to 2, three addresses with blanks; limits 0 to 3; every sequence of Clear, Add, ApplyConfig on the lists of proxies (one application), health checks and metrics (two) | RightEntry, TrustIsConfigured |
| UpstreamProxy | 2 goroutines that take request after request; no upstream; three, the text of one being the beginning of another's; or two, one on the proxy's own host and one below the proxy itself; 5 answers with up to 11 links, some only begin like an upstream or have one in their query, and with cookies that cannot be parsed or share a name | UpstreamExists, RoundRobin, LinksToProxy, CookiesRewritten |

Why the bounds are enough. Sharing and leaking through a pool need two holders
and a recycled object: two requests on two Contexts reach both, and the proofs
lift the result to any number. Two calls per handler let a value be set and
then changed, a logger be cached and go stale, and a header be captured by two
error renderings. Three routes are needed for a split whose parts both get
siblings; every known fault of the tree shows with three. A lock upgrade needs
a second writer between RUnlock and Lock and a third caller that waits. Round
robin with a lost update needs two goroutines; they repeat, so the run is not
bounded in length. The limits of RealIP are exceeded by headers of three
entries; two applications with room for two more networks in the shared array
reach an overwritten entry and, past the room, a copy. Two calls of BasePath by
each of two handlers fill the cache before, between and after the calls of the
other. Eight bits are enough for a product that exceeds an int. One parser is enough for WSFederation because the asker and the
refresher run the same `check`. RequestLifecycle and UpstreamProxy use symmetry
for identical requests, and check no temporal property.

Fairness. AppLifecycle: goroutines of a started application run, a Stop that was
called goes on, its timeout passes; a client need not close its connection.
HTTPClient and ServerChain: a call or request, once begun, is a goroutine that
the runtime schedules; OptionCache asks only that a call replies. WSFederation: likewise, and an exchange with the provider
ends, with an answer or an error; this is assumed of the HTTP client library. Weak fairness suffices everywhere; a
writer of a Go RWMutex is not starved, which the announcement in RWMutex models.
A
job of Handlers needs none, as all its properties are about what was answered.
The other runs assume none.

## 4. Proofs

`RequestLifecycleProofs`, from `ConstantsAssumption` (`None` is no value in use,
the options are what they are called), for any number of requests, Contexts,
headers, values and calls: `TypeCorrect`, `PoolSafety`, `Isolation`,
`LoggerNeverStale`, `AlwaysHeaders`. The properties are not inductive: that a
pooled Context is clean needs to know that it was cleaned before Put, which
needs to know who holds which object; that the response carries the preserved
headers needs to know that the Context's slots up to `alen` name exactly the
headers the request registered, although the array is recycled. The invariant
`IInv == OwnershipInv /\ ResponseInv /\ FlagsOK` says this: a goroutine holds a
Context from acquireCtx to Put (`HoldsWhileServing`), it is the request's own
and registers its headers while it is served, and clean between reset and Put
(`ServedWithOwn`). Lemmas about the operators (Attach, Materialize,
WithLogField, Preserve, Capture, Apply, Clear) are stated over a single Context; the
steps of the invariant are one lemma per group of actions. On top of it,
`PanicAnswered` (PanicRendersError) and `NothingLeftBehind` (ReleasedResources)
follow from `EndInv`, which says at which places of WrapHandler a panic may be
under way and what is still to be released there. That reset removes the right
files needs IInv: the files of a request belong to the form of the Context it
holds, and nobody else holds that Context. `NonInterference` is an action property
over the same invariant: a step of another goroutine never changes what a request
holds (`Undisturbed`), since acquireCtx takes a Context from nobody, a method
writes the Context of its own request, and the Context that reset clears is
attached to the request that resets it.

`AppProofs` is about two components. HTTPClient, from `ProcsAssumption`, for any
number of goroutines:
`CacheCurrent`, `ClientFresh`, `LockUpgradeSafe`, and `Refinement`, which says
that Spec implements OptionCache's safety part. `IInv == TypeOK /\ LockInv /\
CallInv /\ CachedClientCurrent`: LockInv ties `readers` and `writer` to the
program counters, CallInv says what a call knows about the options while the
lock is given up, and that its client is no newer than the options. For the
refinement every step is shown to be a step of OptionCache or to leave its
variables alone (`Stutter`, `CallerRefines`, `AdderRefines`): Begin is Begin,
the return is Reply, with the client's version as its witness, which CallInv
places between the version at the beginning and the present one, AppendOption is
AddOption, and a panic under the lock is Halt.

AppLifecycle, from `LifecycleAssumption`, for any number of Stops and
connections: `StopOrder`. ConnectionsFirst needs to know that no connection is
open when the Stop finds no listener to close, and that what listens after it
has closed them is late. `AppIInv == AppTypeOK /\ StartInv /\ StopInv /\
ListenInv /\ ConnectionsFirst`: StartInv says nothing exists before Start makes
it, StopInv that only the Stop that took the server shuts it down, ListenInv which
listeners a connection may have before and after that Stop closed them.

`Induction` replaces the library's induction theorems, which the provers cannot
instantiate. `SetInduction`: a set of naturals that has 0, and with every number
the next one, is Nat. It follows from WFMin, applied to the numbers that are
missing. To prove something of every n one takes the set of the n it holds for.
`FoldExists` and `ChainExists` construct in this way the function that a FoldLeft
or a recursive function on an interval chooses, one step longer each time, so that
`FoldChain`, `IteratesIn` and `Steps` say what it is at every index.

`ProxyProofs` is about two components. RealIP and TrustedSource, from the
assumptions of these modules (networks are sets of addresses, punctuation and
`*` are not addresses, limits are natural numbers, a request has a text for every
header that may be trusted), for every text, limit,
number of applications and sequence of operations on the lists:

- `TrustConfigured` (TrustIsConfigured). `ListsInv`: an application's networks are
  a part of its own array or of the shared one (`InArray`), and of an application
  whose entries nobody has overwritten they are exactly what it added (`Holds`).
  Adding keeps this for the application that adds; for another one it does too,
  unless the entry lands on a place the other has in use, and then it is recorded
  in `overwritten`. ApplyConfig is a fold of Add over the entries, so its step is
  the invariant of a chain.
- `RightForwardedEntry` (RightEntry). `Loop` is the invariant of the loop over the
  header: what is left of the text is a beginning of it, and the offset is at the
  start, behind a comma and blanks, or the loop has ended without a comma.
  `Found` adds, for a well-formed header, that what is left ends in an address and
  that as many commas are behind it as rounds have passed (`CommasAfter`). So after
  the last round the address is the one that RightEntry counts from the right.
  That several lines are joined to a well-formed text is proved by a fold again
  (`JoinSeq`). `RealIPInv == ListsInv /\ HeadersInv /\ RightEntry`, with the type of
  the request: the answer stays right while nothing that it depends on changes.

UpstreamProxy, from `ConfiguredAssumption` (a list has a length, and the base URL
of the proxy and of every upstream a scheme and a place) and `AnswersAssumption`
(what an answer consists of), for any number of requests, upstreams, links and
cookies: `IndexInList`, `TakesTurns`, `LinksLeadToProxy`, `CookiesFitClient`.
IndexInList needs that a request past its first load has an upstream to choose
from. For RoundRobin, `TurnsInv` says that any two turns are as far apart in the
list as in the history, around its end (`InOrder`), and where the index stands,
or is about to be stored, after the last turn (`LastAt`), as long as one request
chooses at a time. For the answers, `AnswerInv` says exactly which rewritings the
response has had at each place, and two lemmas on folds say what these do.

- `ReplaceOnce`: BytesReplaceAll of a part that is nowhere in a text but at one
  place replaces it there and nothing else; its invariant follows the loop over
  the text before, at and behind that place. `RewriteTextTarget` uses it for both
  replacements. LinksToProxy therefore has two exceptions, and both are needed:
  `Stray`, the upstream's text is somewhere else in the link, be it the beginning
  of a longer host, port or segment (`http://x:80` in `http://x:8080/v1`) or a part
  of the query; and `Twice`, it is in the new place of the link again, which the
  second replacement then hits (`https://proxy/app/v1/v1` with the upstream
  `https://proxy/app/v1` below the proxy). Both are instances of the run.
- `CookiesBecome`: after every round of the loop, before the first cookie that
  cannot be parsed, the first cookie of every name that has been read fits the
  client, one that shares its name with no other is Secure if it was and TLS is on,
  and the cookies behind are as they came. So CookiesRewritten claims
  the first cookie of a name and not the second one, which SetCookie never
  reaches.

`ServerChainProofs`, from `ChainAssumption` and `InputsAssumption` (monitors are
clients, a proxy is no client), for any number of requests: `SharedLimiter`,
`ChainByClient`, `CORSOnEveryWayOut`. `IInv == TypeOK /\ MutexInv /\ AddressInv
/\ PreflightInv`: the mutex is held by exactly the request between its lock and
its unlock and the limiter is built at most once, under it; the address is the
client's from RealIP on; a request that passed CORS has its header preserved,
and a preflight that passed has been flagged.

`WSFederationProofs`, from `WSFederationAssumption` (a version of the metadata
has an issuer), for any number of parsers, askers, refreshers, versions and
tokens: `TypeCorrect`, `OnlyTheProviderSigns`, `FieldsOfOneVersion`,
`RefreshSuffices`. The invariant has a part per concern: LockInv (whoever writes
the fields holds the lock), FieldsInv (a certificate that was ever in a store was
published, and the first one comes after the issuer), WriterInv (how far the call
that writes is: the store and what is still to be added are the certificates of
the version it fetched), VersionInv (when nobody writes and the last writer came
to `ready`, the fields are of one version), ParserInv (what a parser relies on
after it looked), QuietInv (a parser that no other writer disturbed sees, after
its refresh, the published version). The two properties about accepted and
refused tokens are part of it, since a result stays when the fields change again.

`HandlersProofs`, from `BasePathAssumption`, `HandlersAssumption` and
`JobsAssumption` (the shape of a claim, a header and a request; page sizes are at
least one, as config.Paging validates), for any number of handlers, options,
claims, headers and for every width of an int: `BasePathNormalized`,
`DefaultSecurityKept`, `ClearLeavesNone`, `RedirectsHome`, `ScopesOfClaims`,
`RefusalFitting`, `PageInLimit`. BaseInv is about BasePath: the lock, the value
that is written in several steps under it, and ReturnsOption. CookieInv says
that, as long as the option does not change, a handler sends `Ideal`, the cookie
it would send alone, although its two calls of BasePath may find the cache empty,
being filled or full, and that the browser holds such cookies only.
AnswersInv gives the answer of the jobs that touch nothing shared; the lemmas
below it compare the code's operators with definitions of their own: the Accept
parser with `Names` (`ExplicitIsNamed`, `NamedIsExplicit`), the product of a page
with the limit (`PagingFits`), the scopes of a user with the grants of its claims
(`NewOfItsClaims`). For `RedirectsHome` (RedirectStaysHome) the path of the
location has no dots left, however many the target begins with: `CleanNoDots`
shows it with an invariant of the fold over the segments.

`StaticContentProofs`, from `StaticAssumption` (a hash, which the application's
ReplacerFunc gives, is not empty, not `*` and does not begin with `gz:`; and no
hash and path make the key of another pair, as the hash `/a` with the file `/b`
would that of `/a/b`), for any
number of requests, files and hashes: `EncodingRight`, `ValuesOwn`. Keys are
concatenations, so the lemmas `KeyShape` and `GzKeyShape` show first that a key
determines its file, hash and form. Then `IInv == Types /\ CacheInv /\ RequestInv
/\ EncodingMatchesBody /\ OwnValuesOnly`: every entry of the cache is what its key
says, and an entry without a hash is there only if some replacer left its file
alone.

Only model-checked:

- liveness (fairness is out of the prover's reach): CallsReturn, Answered and
  the liveness part of KeepsPromise;
- RadixTree, RouteTree and Mux: the tree's operations call themselves on the
  children of a node, with the backtracking of the code. They are RECURSIVE
  operators, and modules that reach one lose the SMT backend. The lemmas of
  Induction are about numbers and do not replace this recursion over nested
  nodes.

ConsumesNonce is refuted, not proved (section 6).

The type invariants of RequestLifecycle and WSFederation are proved
(`TypeCorrect`) and in no run.

## 5. Abstractions

A name, a value or a message is a token. Formatting, log text and status codes
are reduced to what the properties tell apart. Regular expressions in routes and
several params in one segment are left out of the tree. The chain takes the
outcome of origin checks and of the limiter as inputs; `ServerChain` leaves
invalid origins, requests that skip the log and `https` to larger instances.
An upstream of the proxy is an absolute URL; a cookie without `=`, the rules for
text and the forwarded path are left out. That the hashes of an application's
replacers keep the cache keys of static files apart is an assumption, which the
code does not check. `internal/wsfed` and the XML signature library are
reduced to the set of certificates and the issuer a version publishes;
RefusedForCause relies on the library reporting an unknown certificate as
ErrInvalidSignature, the only error that makes Parse refresh. The two reads of
the issuer at `wsfed/token.go:149-150` are one step: a step between them can only
make Parse refuse a token.

Cookies have one name and requests one path; SameSite and the values are left
out, and a cookie's options are the ones that decide whether a browser keeps it.
A redirect target is a path, an absolute URL or anything else; its query is left
out. Users have the default separators. Route parameters have no text with a
separator. `Handlers` takes the trust in the proxy as an input, which RealIP
details.

Not modelled: the decoding of JSON, XML and forms and the files of a form beyond
their release (libraries); the CORS options (setters of strings and of one set
of origins, whose outcome is an input of ServerChain); configuration binding
(its values are CONSTANTS); the exposition of metrics and health status
(formatting of what a library counts); App.SetRouterSwitch, which chooses a mux
by code of the application before Handler; the methods of Context that delegate
to the effective context; test helpers and the example.

## 6. Where the code does not do what its comments say

`NonceConsume` is kept as a run: Verify (`token/nonce/memory.go:45`) reads and
deletes in two calls of the cache, so two overlapping calls both accept, while
line 43 says "Verify checks and consumes a nonce from the cache."

The following are stated as definitions at the end of their modules. TLC refutes
them when they are added to the module's configuration, with the change named in
the last column where the instance does not reach them. The properties of
section 3 state what holds beside them, with these cases excluded explicitly.

| Definition | Code | What happens, and what is said | Instance |
|---|---|---|---|
| NilErrorHarmless | `mux.go:348` | With a custom ErrorHandler, HandleError calls err.Error() before it looks whether err is nil, so Context.Error(nil) panics; mux.go:356 says "If there is no error, we don't need to do anything". |  |
| AlwaysHeadersOnNotFound | `response.go:134` | Context.NotFound resets the response without capturing the preserved headers, so a 404 loses the CORS headers; header.go:96-98 says "SetAlways sets the response header like Set, and additionally re-applies it if the response is later reset to render an error." |  |
| MatchingRouteFound | `internal/radix/node.go:345` | Get returns without trying the siblings when a static child equals the path but has no handler, so a route that matches is not found; router.go:159-160 says NotFound "is called when no matching route is found", internal/radix/tree.go:70 "Get returns the handle registered with the given path (key)." |  |
| StaticRouteKept | `internal/radix/node.go:149` | With /a/{p}, /a/ and then /a registered, setHandler of /a marks the "/" child as a redirect although it has a handler, and Get looks at the mark first: the registered route /a/ answers with a redirect; internal/radix/tree.go:70 says "Get returns the handle registered with the given path (key)." |  |
| TSROnlyIfHandleExists | `internal/radix/node.go:361` | For the path // and the route /{p}, getFromChild enters the param with an empty value and finds the redirect mark below it: a redirect to a path that no handle serves; internal/radix/tree.go:72-74 says "a TSR (trailing slash redirect) recommendation is made if a handle exists with an extra (without the) trailing slash for the given path." |  |
| FindComplete | `internal/radix/node.go:430` | find on a node that equals the path looks at the node's redirect mark and handler but not at its wildcard, so /A/ does not find the catch-all below /a/; router.go:133-135 says "Afterwards the router does a case-insensitive lookup of the cleaned path. If a handle can be found for this route, the router makes a redirection". |  |
| DuplicateRefused | `internal/radix/node.go:297` | A route below a param of another name than the first param child is inserted without looking at the other children, so with /{p} registered the same /{q}/b is accepted twice; the test at internal/radix/node_test.go:262 fails with "no panic while inserting duplicate route". |  |
| RedirectEnds | `mux.go:637` | The tree of a method and the tree for any method redirect to each other's path form; router.go:134-136 says "If a handle can be found for this route, the router makes a redirection to the corrected path", which has no handle. | add `<<"/", "a", "{q}">>` to DispatchRoutes |
| RedirectOnlyIfUnmatched | `mux.go:637` | Handler tries the redirect of the method's tree before the routes for any method; router.go:123-124 says "Enables automatic redirection if the current route can't be matched". |  |
| GlobalAllowedComplete | `mux.go:187` | Handle refreshes globalAllowed only when it makes the tree of a standard method: a custom method's tree is appended first and the refresh is skipped; mux.go:34 calls the field "Cached value of global (*) allowed methods". |  |
| MiddlewareRunsOnce | `route_group.go:116` | RouteGroup.Proxy wraps the handler in the group's middlewares and passes it to Any, whose Handle wraps it again, so each runs twice; route_group.go:43-46 says "Use appends a middleware to the specified route group. Middlewares will be executed in the order they were added." |  |
| NeverFatal | `http_client.go:12` | If Config panics between Lock and Unlock, the deferred RUnlock runs on a mutex locked for writing: a fatal error that cannot be recovered, or a lock nobody releases; app.go:168 says of Config only "Panics if configuration is not loaded." |  |
| FollowsOption | `mux.go:80` | originalBasePath is the address of the option's field, so the comparison *originalBasePath != BasePath compares the field with itself and a changed option is not noticed after the first request; mux.go:36-37 says the field is "Pointer to the originally set base path in RouterOptions". |  |
| CreatesNewNonce | `token/nonce/memory.go:30` | Create draws from an unlocked ulid.MonotonicEntropy (App uses ulid.LockedMonotonicReader, app.go:88-90), so two overlapping calls may return the same nonce; token/nonce/memory.go:28 says "Create creates a new nonce and stores it in the cache." | two Creators |
| ReplacedAsAsked | `static.go:128` | Content that one hash's replacer did not change is cached under the path alone, and every later request finds it before its own replacer is asked; static.go:48 says "StaticContentReplacer is a function that will be called to replace values in the content of all files." |  |
| StoppedForGood | `app.go:222` | Stop takes the server that Start has published; a goroutine that has not called ListenAndServe yet opens its listener after Stop has returned; app.go:273 says "Stop web application and its services waiting for active connections to finish." |  |
| EveryStopWaits | `app.go:295` | A second Stop finds no server and stops the core application at once, while the first one waits for connections; app.go:273 says "Stop web application and its services waiting for active connections to finish." |  |
| EveryRequestLogged | `middleware/request_logger.go:39` | The line is written after next returns, which a panic skips, as Recv recovers outside the chain; middleware/request_logger.go:24 says "RequestLogger is a middleware that logs HTTP requests." |  |
| ProxyProtoUsed | `request.go:246` | RealIP replaces the remote address by the client's, and IsTLS asks IsTrustedProxy about that address; request.go:244 says "If the request comes from trusted proxy it will use X-Forwarded-Proto header." | Inputs with `https` |
| GoodTokenAccepted | `wsfed/response.go:59` | decodeResponse reads the certificate store without the lock: a check of another call replaces the store by an empty one between the refresh of Parse and its second decodeResponse, and a token whose certificate is in every version of the metadata is refused with ErrTokenSignatureInvalid; wsfed/token.go:124 says "Parse parses and validates a WS-Federation token." |  |
| SigninNeverPanics | `wsfed/urls.go:49` | check reports no error and sets ready for metadata without a security token service role, which leaves IDPEndpoint nil, and SigninURL dereferences it; wsfed/urls.go:43 says "SigninURL returns the signin URL." | a version with `role` FALSE |
| ZeroDisablesLimit | `middleware/realip.go:55` | With ForwardLimit 0 the loop does not run and the whole header is parsed as one address, so a header with two entries is ignored; proxy.go:10-11 says "ForwardLimit limits the number of entries in the headers that will be processed. The default value is 1. Set to 0 to disable the limit." |  |
| EntryStaysAdded | `trusted_source.go:61` | New copies defaultHealthzTrustedSource (app.go:98), whose six networks lie in an array of eight: the network a second application adds overwrites the one the first has added, which then is not trusted while a network of the other one is; trusted_source.go:46 says "Add adds an IP address or CIDR network to the trusted list." |  |
| ClearedWithPathAndDomain | `cookie.go:202` | A cookie set with CookieDefaultSecurity has a prefix in its name, which Clear finds only if it is given that option too, and a CookieMaxAge among its options is written in place of the expiry; cookie.go:201 says "Pass the same Path and Domain options that were used when setting the cookie." |  |
| JSONRestores | `user/basic.go:49` | parseScopes leaves scopes alone that are set, so UnmarshalJSON into a used value keeps the old scopes, and a new value has no claim names, so it has no scopes at all; user/marshal.go:13 says "UnmarshalJSON implements json.Unmarshaler for Basic." |  |
| StringIsFirstValue | `query.go:51` | String compares the key exactly and does not split, Values ignores case and splits at commas, so for K=v the first finds nothing and the second v; query.go:48 says "String gets the first value associated with the given key in query" and query.go:23 "Values returns all values associated with the given key in query." |  |
| BoolRefusesInvalid | `internal/utils/convert.go:20` | Bool takes every text but true and 1 for false and reports no error, where Int64 reports ParamInvalidError; query.go:129 says "Valid values ar "true", "false", "1" and "0"." |  |
| EveryLinkToProxy | `internal/proxy/rewriter.go:190` | The second ReplaceAll, without the scheme, also hits what the first one has just written when that is below the upstream again, as with a proxy whose base URL begins with the upstream's host and path: http://x/p becomes https://x/app/app/p; upstream.go:63 says "ProxyUpstreamBodyReplaceURL replaces URL in the response body." |  |
| OtherLinksAlone | `internal/proxy/rewriter.go:189` | ReplaceAll also hits text that only begins like the upstream's URL: with the upstream http://x:80 a link to http://x:8080/v1, another upstream even, becomes one below the proxy's base URL with `80` appended to it; upstream.go:63 says "ProxyUpstreamBodyReplaceURL replaces URL in the response body." |  |
| EveryCookieRewritten | `internal/proxy/cookie.go:17` | A cookie that cannot be parsed ends RewriteCookies, so the cookies after it keep the upstream's domain and Secure; internal/proxy/cookie.go:8 says "RewriteCookies rewrites cookies in the response." |  |
| SameNameRewritten | `internal/proxy/cookie.go:28` | SetCookie replaces the first cookie of the name, so of two cookies of one name the first becomes the second and the second keeps the upstream's domain and Secure; internal/proxy/cookie.go:8 says "RewriteCookies rewrites cookies in the response." |  |
| HostOnlyKept | `internal/proxy/cookie.go:24` | The domain of a recycled fasthttp.Cookie is empty but not nil, so a cookie without a domain is given the client's host; internal/proxy/cookie.go:23 says "Change cookie domain", which this one does not have. |  |

## 7. Plan

Done: all modules above; the proof modules; the refinement of OptionCache.

1. Extend the model: composition of WSFederation with NonceStore in place of the
   choice; App.SetRouterSwitch in Mux; BasePath as an implementation of
   OptionCache for an option that does not change; origins in ServerChain.
2. Prove more: a tree as a set of nodes with paths in place of nested nodes, over
   which Get is a loop, and GetSound of it; action properties of other
   components, like NonInterference (the limiter is never replaced, a token's
   verdict is never revised).
