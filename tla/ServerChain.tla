----------------------------- MODULE ServerChain ----------------------------
(***************************************************************************)
(* The middlewares server.New installs (server/server.go, middleware/),    *)
(* for concurrent requests that share the rate limiter: RealIP and         *)
(* RequestLogger first, then Metrics, CORS and RateLimit, then the         *)
(* application's handler or the health check.                              *)
(*                                                                         *)
(* A middleware is the step before next and, for Metrics and RequestLogger,*)
(* the step after it, which a panic of the handler skips.  Only the        *)
(* limiter is shared, so only getLimiter is cut into smaller steps.        *)
(***************************************************************************)
EXTENDS Naturals, Sequences

CONSTANTS
    Reqs,           \* requests
    Proxies,        \* addresses of trusted proxies
    Clients,        \* addresses of clients
    Inputs,         \* the requests of this instance
    Monitors,       \* addresses MetricsOptions and HealthzOptions trust
    None            \* nil

ASSUME ChainAssumption ==
    /\ None \notin Reqs \cup Proxies \cup Clients
    /\ Monitors \subseteq Clients
    /\ Proxies \cap Clients = {}

\* What a request brings: the address it comes from, the client its trusted
\* headers name, its Origin, whether it is a preflight, its path, and what
\* X-Forwarded-Proto says.
Request ==
    [remote : Proxies \cup Clients, forwarded : Clients \cup {None},
     origin : {"none", "valid", "invalid"}, preflight : BOOLEAN,
     path : {"api", "skipped", "metrics", "healthz"}, https : BOOLEAN]

ASSUME InputsAssumption == Inputs \subseteq Request

VARIABLES
    limiter,    \* rateLimitMiddleware.limiter: the number of the limiter
    mu,         \* rateLimitMiddleware.mu
    built,      \* limiters built so far
    req, pc,    \* of every request: what it is; where it is in the chain
    addr,       \* its RemoteAddr now
    flagged,    \* its user value __cors_preflight
    skipLog,    \* ~__log_request
    skipMetrics,\* __skip_metrics, or Metrics returns right after next
    used, key,  \* the limiter that decided on it, and under which key
    status,     \* of the response
    always,     \* headers set with SetAlways: they survive an error
    tls,        \* what IsTLS told the handler
    counted, logged \* history: Metrics counted it; the source.ip logged

vars == <<limiter, mu, built, req, pc, addr, flagged, skipLog, skipMetrics, used, key,
          status, always, tls, counted, logged>>
shared  == <<limiter, mu, built>>
flags   == <<flagged, skipLog, skipMetrics>>
limits  == <<used, key>>
records == <<counted, logged>>

\* A mutated server.New that takes the client's address last.
ChainRealIPLast == <<"RequestLogger", "Metrics", "CORS", "RateLimit", "RealIP", "handler">>

\* New: the priority middlewares around the others.
Chain == <<"RealIP", "RequestLogger", "Metrics", "CORS", "RateLimit", "handler">>

\* The step that next(ctx) leads to.
After(m) == Chain[1 + CHOOSE i \in 1..(Len(Chain) - 1) : Chain[i] = m]

Init ==
    /\ limiter = None /\ mu = None /\ built = 0
    /\ req = [r \in Reqs |-> None]
    /\ pc = [r \in Reqs |-> "idle"]
    /\ addr = [r \in Reqs |-> None]
    /\ flagged = [r \in Reqs |-> FALSE]
    /\ skipLog = [r \in Reqs |-> FALSE]
    /\ skipMetrics = [r \in Reqs |-> FALSE]
    /\ used = [r \in Reqs |-> None] /\ key = [r \in Reqs |-> None]
    /\ status = [r \in Reqs |-> "none"]
    /\ always = [r \in Reqs |-> {}]
    /\ tls = [r \in Reqs |-> FALSE]
    /\ counted = [r \in Reqs |-> FALSE] /\ logged = [r \in Reqs |-> None]

Goto(r, from, to) == pc[r] = from /\ pc' = [pc EXCEPT ![r] = to]
Set(f, r, v)      == [f EXCEPT ![r] = v]

Receive(r, q) ==
    /\ Goto(r, "idle", Chain[1])
    /\ req' = Set(req, r, q)
    /\ addr' = Set(addr, r, q.remote)
    /\ UNCHANGED <<shared, flags, limits, status, always, tls, records>>
-----------------------------------------------------------------------------
(* RealIP, IsTrustedProxy, IsTLS                                           *)

IsTrustedProxy(r) == addr[r] \in Proxies

RealIP(r) ==
    /\ Goto(r, "RealIP", After("RealIP"))
    /\ addr' = Set(addr, r, IF IsTrustedProxy(r) /\ req[r].forwarded # None
                            THEN req[r].forwarded ELSE addr[r])
    /\ UNCHANGED <<shared, req, flags, limits, status, always, tls, records>>

\* The connection from the proxy is not TLS.
IsTLS(r) == IsTrustedProxy(r) /\ req[r].https
-----------------------------------------------------------------------------
(* RequestLogger and Metrics before next, CORS                             *)

RequestLogger(r) ==
    /\ Goto(r, "RequestLogger", After("RequestLogger"))
    /\ skipLog' = Set(skipLog, r, FALSE)
    /\ UNCHANGED <<shared, req, addr, flagged, skipMetrics, limits, status, always, tls,
                   records>>

\* The metrics path is served to the addresses it trusts; the others, and the
\* SkipPaths, go on and are not counted.
Metrics(r) ==
    /\ pc[r] = "Metrics"
    /\ IF req[r].path = "metrics" /\ addr[r] \in Monitors
       THEN /\ pc' = Set(pc, r, "log")
            /\ status' = Set(status, r, "metrics")
            /\ skipLog' = Set(skipLog, r, TRUE)
            /\ UNCHANGED skipMetrics
       ELSE /\ pc' = Set(pc, r, After("Metrics"))
            /\ skipMetrics' = Set(skipMetrics, r, req[r].path \in {"metrics", "skipped"})
            /\ UNCHANGED <<status, skipLog>>
    /\ UNCHANGED <<shared, req, addr, flagged, limits, always, tls, records>>

\* A mutated CORS that sets its headers with Set.
CORSPlainSet(r) ==
    /\ Goto(r, "CORS", After("CORS"))
    /\ flagged' = Set(flagged, r, req[r].origin = "valid" /\ req[r].preflight)
    /\ UNCHANGED <<shared, req, addr, skipLog, skipMetrics, limits, status, always, tls,
                   records>>

CORS(r) ==
    /\ Goto(r, "CORS", After("CORS"))
    /\ IF req[r].origin = "valid"
       THEN /\ always' = Set(always, r, always[r] \cup {"cors"})
            /\ flagged' = Set(flagged, r, req[r].preflight)
       ELSE UNCHANGED <<always, flagged>>
    /\ UNCHANGED <<shared, req, addr, skipLog, skipMetrics, limits, status, tls, records>>
-----------------------------------------------------------------------------
(* RateLimit                                                               *)

\* The response of ctx.Error: what was set with SetAlways stays.
Unchanged(r) == UNCHANGED <<req, addr, flags, always, tls, records>>

RateLimitPreflight(r) ==
    /\ Goto(r, "RateLimit", After("RateLimit"))
    /\ flagged[r]
    /\ Unchanged(r)
    /\ UNCHANGED <<shared, limits, status>>

\* getLimiter: the atomic pointer, first without the mutex.
Load(r) ==
    /\ Goto(r, "RateLimit", IF limiter = None THEN "lock" ELSE "allow")
    /\ ~flagged[r]
    /\ used' = Set(used, r, limiter)
    /\ Unchanged(r)
    /\ UNCHANGED <<shared, key, status>>
Lock(r) ==
    /\ mu = None
    /\ Goto(r, "lock", "recheck")
    /\ mu' = r
    /\ Unchanged(r)
    /\ UNCHANGED <<limiter, built, limits, status>>

\* A mutated getLimiter that does not look again under the mutex.
RecheckNot(r) ==
    /\ Goto(r, "recheck", "build")
    /\ Unchanged(r)
    /\ UNCHANGED <<shared, limits, status>>
Recheck(r) ==
    /\ Goto(r, "recheck", IF limiter = None THEN "build" ELSE "allow")
    /\ used' = Set(used, r, limiter)
    /\ mu' = IF limiter = None THEN mu ELSE None
    /\ Unchanged(r)
    /\ UNCHANGED <<limiter, built, key, status>>

\* config.New, Store, and the deferred Unlock.
Build(r) ==
    /\ Goto(r, "build", "allow")
    /\ built' = built + 1
    /\ limiter' = built + 1
    /\ used' = Set(used, r, built + 1)
    /\ mu' = None
    /\ Unchanged(r)
    /\ UNCHANGED <<key, status>>

\* A mutated getLimiter that does not unlock on the error path.
BuildFailsLocked(r) ==
    /\ Goto(r, "build", "metrics")
    /\ status' = Set(status, r, "error")
    /\ Unchanged(r)
    /\ UNCHANGED <<shared, limits>>
BuildFails(r) ==
    /\ Goto(r, "build", "metrics")
    /\ mu' = None
    /\ status' = Set(status, r, "error")
    /\ Unchanged(r)
    /\ UNCHANGED <<limiter, built, limits>>

\* AllowLimit under the client's key; setHeaders; 429 or next.
Allow(r, allowed) ==
    /\ Goto(r, "allow", IF allowed THEN After("RateLimit") ELSE "metrics")
    /\ key' = Set(key, r, addr[r])
    /\ always' = Set(always, r, always[r] \cup {"ratelimit"})
    /\ status' = IF allowed THEN status ELSE Set(status, r, "toomany")
    /\ UNCHANGED <<shared, req, addr, flags, used, tls, records>>

\* The limiter's cache fails.
AllowFails(r) ==
    /\ Goto(r, "allow", "metrics")
    /\ key' = Set(key, r, addr[r])
    /\ status' = Set(status, r, "error")
    /\ Unchanged(r)
    /\ UNCHANGED <<shared, used>>

RateLimit(r) ==
    \/ RateLimitPreflight(r) \/ Load(r) \/ Lock(r) \/ Recheck(r) \/ Build(r) \/ BuildFails(r)
    \/ (\E ok \in BOOLEAN : Allow(r, ok)) \/ AllowFails(r)
-----------------------------------------------------------------------------
(* The handler, and the middlewares after next                             *)

\* The application's handler, which may ask IsTLS, answers, reports an error or
\* calls ctx.NotFound, which resets the response.
Handler(r, s) ==
    /\ Goto(r, "handler", "metrics")
    /\ req[r].path # "healthz"
    /\ tls' = Set(tls, r, IsTLS(r))
    /\ status' = Set(status, r, s)
    /\ always' = IF s = "notfound" THEN Set(always, r, {}) ELSE always
    /\ UNCHANGED <<shared, req, addr, flags, limits, records>>

\* It panics: Recv, outside the chain, renders the error.
HandlerPanics(r) ==
    /\ Goto(r, "handler", "done")
    /\ status' = Set(status, r, "error")
    /\ Unchanged(r)
    /\ UNCHANGED <<shared, limits>>

\* healthz.Handler: NotFound, which resets the response, for the others.
Healthz(r, s) ==
    /\ Goto(r, "handler", "metrics")
    /\ req[r].path = "healthz"
    /\ skipLog' = Set(skipLog, r, TRUE)
    /\ skipMetrics' = Set(skipMetrics, r, TRUE)
    /\ IF addr[r] \in Monitors
       THEN status' = Set(status, r, s) /\ UNCHANGED always
       ELSE status' = Set(status, r, "notfound") /\ always' = Set(always, r, {})
    /\ UNCHANGED <<shared, req, addr, flagged, limits, tls, records>>

MetricsAfter(r) ==
    /\ Goto(r, "metrics", "log")
    /\ counted' = Set(counted, r, ~skipMetrics[r] /\ status[r] # "notfound")
    /\ UNCHANGED <<shared, req, addr, flags, limits, status, always, tls, logged>>

LogAfter(r) ==
    /\ Goto(r, "log", "done")
    /\ logged' = IF skipLog[r] THEN logged ELSE Set(logged, r, addr[r])
    /\ UNCHANGED <<shared, req, addr, flags, limits, status, always, tls, counted>>

Step(r) ==
    \/ RealIP(r) \/ RequestLogger(r) \/ Metrics(r) \/ CORS(r) \/ RateLimit(r)
    \/ (\E s \in {"ok", "error"} : Handler(r, s) \/ Healthz(r, s)) \/ Handler(r, "notfound") \/ HandlerPanics(r)
    \/ MetricsAfter(r) \/ LogAfter(r)

Finished == (\A r \in Reqs : pc[r] = "done") /\ UNCHANGED vars

Next ==
    \/ \E r \in Reqs : (\E q \in Inputs : Receive(r, q)) \/ Step(r)
    \/ Finished

Spec == Init /\ [][Next]_vars

\* The goroutine of a request runs.
FairSpec == Spec /\ \A r \in Reqs : WF_vars(Step(r))
-----------------------------------------------------------------------------
(* Properties.                                                             *)

Done(r) == pc[r] = "done"

\* The client a request stands for: the one a trusted proxy names.
Client(r) ==
    IF req[r].remote \in Proxies /\ req[r].forwarded # None
    THEN req[r].forwarded ELSE req[r].remote

\* Requests that race for the first use share one limiter: never two that
\* would count separately.
OneLimiter ==
    \A r, q \in Reqs : (used[r] # None /\ used[q] # None) => used[r] = used[q]

\* The order of the middlewares: requests behind a proxy are limited, logged and
\* trusted by the address of their client, not by the proxy's; a preflight that
\* CORS accepted is never counted against a limit, and every other request that
\* reaches the handler was.
ByClient ==
    \A r \in Reqs :
        /\ pc[r] \in {"handler", "done"} =>
            /\ (req[r].preflight /\ req[r].origin = "valid") => key[r] = None
            /\ (key[r] = None /\ pc[r] = "handler") => req[r].preflight /\ req[r].origin = "valid"
        /\ key[r] # None => key[r] = Client(r)
        /\ logged[r] # None => logged[r] = Client(r)
        /\ status[r] = "metrics" => Client(r) \in Monitors

\* Every response but the metrics page and the 404 of ctx.NotFound has the
\* CORS headers a valid origin needs, also an error, a 429 and a panic's.
CORSKept ==
    \A r \in Reqs :
        (Done(r) /\ req[r].origin = "valid" /\ status[r] \notin {"metrics", "notfound"}) =>
            "cors" \in always[r]

\* A request that was received is answered: the mutex of getLimiter is
\* released on every path.
Answered == \A r \in Reqs : pc[r] = "RateLimit" ~> Done(r)

-----------------------------------------------------------------------------
(* What the comments of the code say and the code does not do (README).    *)

\* RequestLogger "logs HTTP requests": every one that did not ask to be
\* skipped is in the log once it is answered.
EveryRequestLogged ==
    \A r \in Reqs : (Done(r) /\ ~skipLog[r]) => logged[r] # None

\* IsTLS: "If the request comes from trusted proxy it will use
\* X-Forwarded-Proto header."
ProxyProtoUsed ==
    \A r \in Reqs :
        (Done(r) /\ status[r] = "ok" /\ req[r].path = "api" /\ req[r].remote \in Proxies) =>
            tls[r] = req[r].https
=============================================================================
