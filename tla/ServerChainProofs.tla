-------------------------- MODULE ServerChainProofs -------------------------
(***************************************************************************)
(* Proofs about ServerChain, for any number of requests, proxies, clients  *)
(* and monitors, and any set of requests that they send.                   *)
(***************************************************************************)
EXTENDS ServerChain, TLAPS

\* Where a request is before CORS saw it, between CORS and the handler, and on
\* its way out.
Early   == {"RealIP", "RequestLogger", "Metrics", "CORS"}
Limiting == {"RateLimit", "lock", "recheck", "build", "allow"}
Leaving == {"metrics", "log", "done"}
PC      == {"idle"} \cup Early \cup Limiting \cup {"handler"} \cup Leaving

Statuses == {"none", "metrics", "error", "toomany", "ok", "notfound"}
Addrs    == Proxies \cup Clients

\* The variables that decide on a response have their types, and there is one
\* limiter at most: what a request used is the shared one.
TypeOK ==
    /\ mu \in Reqs \cup {None} /\ built \in Nat
    /\ pc \in [Reqs -> PC]
    /\ req \in [Reqs -> Request \cup {None}]
    /\ addr \in [Reqs -> Addrs \cup {None}]
    /\ flagged \in [Reqs -> BOOLEAN]
    /\ used \in [Reqs -> {None, limiter}] /\ key \in [Reqs -> Addrs \cup {None}]
    /\ status \in [Reqs -> Statuses]
    /\ always \in [Reqs -> SUBSET {"cors", "ratelimit"}]
    /\ logged \in [Reqs -> Addrs \cup {None}]

\* The mutex is held where getLimiter looks again, and whoever builds a limiter
\* knows that there is none.
MutexInv ==
    \A r \in Reqs :
        /\ mu = r <=> pc[r] \in {"recheck", "build"}
        /\ pc[r] = "build" => limiter = None

AcceptedPreflight(r) == req[r].preflight /\ req[r].origin = "valid"

\* Whose address a request has on its way through the chain, and what was
\* written under it.
AddressInv ==
    \A r \in Reqs :
        /\ pc[r] = "idle" => addr[r] = None
        /\ pc[r] # "idle" => req[r] \in Request /\ addr[r] # None
        /\ pc[r] = "RealIP" => addr[r] = req[r].remote
        /\ pc[r] \notin {"idle", "RealIP"} => addr[r] = Client(r)
        /\ pc[r] \in {"idle"} \cup Early \cup Limiting => key[r] = None /\ status[r] = "none"
        /\ key[r] # None => key[r] = Client(r)
        /\ pc[r] # "done" => logged[r] = None
        /\ logged[r] # None => logged[r] = Client(r)
        /\ status[r] = "metrics" => Client(r) \in Monitors

\* What CORS found out reaches RateLimit and the response.
PreflightInv ==
    \A r \in Reqs :
        /\ pc[r] \in {"idle"} \cup Early => ~flagged[r]
        /\ pc[r] \in Limiting \cup {"handler"} => (flagged[r] <=> AcceptedPreflight(r))
        /\ pc[r] \in {"lock", "recheck", "build", "allow"} => ~AcceptedPreflight(r)
        /\ pc[r] = "handler" => (key[r] = None <=> AcceptedPreflight(r))
        /\ key[r] # None => ~AcceptedPreflight(r)
        /\ pc[r] \in Limiting \cup {"handler"} =>
            (req[r].origin = "valid" => "cors" \in always[r])
        /\ (pc[r] \in Leaving /\ req[r].origin = "valid"
            /\ status[r] \notin {"metrics", "notfound"}) => "cors" \in always[r]

\* The inductive invariant.
IInv == TypeOK /\ MutexInv /\ AddressInv /\ PreflightInv
-----------------------------------------------------------------------------
\* Where next(ctx) leads to from every middleware of server.New.
LEMMA AfterChain ==
    /\ Chain[1] = "RealIP"
    /\ After("RealIP") = "RequestLogger" /\ After("RequestLogger") = "Metrics"
    /\ After("Metrics") = "CORS" /\ After("CORS") = "RateLimit"
    /\ After("RateLimit") = "handler"
<1>1. /\ Len(Chain) = 6 /\ Chain[1] = "RealIP" /\ Chain[2] = "RequestLogger"
      /\ Chain[3] = "Metrics" /\ Chain[4] = "CORS" /\ Chain[5] = "RateLimit"
      /\ Chain[6] = "handler"
    BY DEF Chain
<1>2. \A i \in 1..5 : i = 1 \/ i = 2 \/ i = 3 \/ i = 4 \/ i = 5
    OBVIOUS
<1>3. After("RealIP") = "RequestLogger"
    <2>1. (CHOOSE i \in 1..(Len(Chain) - 1) : Chain[i] = "RealIP") = 1
        BY <1>1, <1>2
    <2> QED BY <1>1, <2>1 DEF After
<1>4. After("RequestLogger") = "Metrics"
    <2>1. (CHOOSE i \in 1..(Len(Chain) - 1) : Chain[i] = "RequestLogger") = 2
        BY <1>1, <1>2
    <2> QED BY <1>1, <2>1 DEF After
<1>5. After("Metrics") = "CORS"
    <2>1. (CHOOSE i \in 1..(Len(Chain) - 1) : Chain[i] = "Metrics") = 3
        BY <1>1, <1>2
    <2> QED BY <1>1, <2>1 DEF After
<1>6. After("CORS") = "RateLimit"
    <2>1. (CHOOSE i \in 1..(Len(Chain) - 1) : Chain[i] = "CORS") = 4
        BY <1>1, <1>2
    <2> QED BY <1>1, <2>1 DEF After
<1>7. After("RateLimit") = "handler"
    <2>1. (CHOOSE i \in 1..(Len(Chain) - 1) : Chain[i] = "RateLimit") = 5
        BY <1>1, <1>2
    <2> QED BY <1>1, <2>1 DEF After
<1> QED BY <1>1, <1>3, <1>4, <1>5, <1>6, <1>7

LEMMA InitIInv == Init => IInv
<1> SUFFICES ASSUME Init PROVE IInv
    OBVIOUS
<1> USE ChainAssumption DEF Init
<1>1. TypeOK BY DEF TypeOK, PC, Statuses, Addrs
<1>2. MutexInv BY DEF MutexInv
<1>3. AddressInv BY DEF AddressInv, Early, Limiting
<1>4. PreflightInv BY DEF PreflightInv, Early, Limiting, Leaving
<1> QED BY <1>1, <1>2, <1>3, <1>4 DEF IInv

\* CORS leaves a Boolean in the user value.
LEMMA CORSFlag ==
    ASSUME NEW r \in Reqs, TypeOK, AddressInv, CORS(r) PROVE flagged' \in [Reqs -> BOOLEAN]
<1>1. flagged \in [Reqs -> BOOLEAN] BY DEF TypeOK
<1>2. req[r].preflight \in BOOLEAN BY DEF AddressInv, CORS, Goto, Request
<1>3. flagged' = [flagged EXCEPT ![r] = req[r].preflight] \/ flagged' = flagged
    BY DEF CORS, Set
<1> QED BY <1>1, <1>2, <1>3, Zenon

\* The step of a middleware of r before the limiter.
LEMMA EarlyStep ==
    ASSUME IInv, NEW r \in Reqs,
           (\E q \in Inputs : Receive(r, q)) \/ RealIP(r) \/ RequestLogger(r) \/ Metrics(r)
               \/ CORS(r) \/ RateLimitPreflight(r)
    PROVE  IInv'
<1> USE ChainAssumption, InputsAssumption, AfterChain
    DEF IInv, TypeOK, MutexInv, AddressInv, PreflightInv, Goto, Set, PC, Statuses, Addrs,
        Early, Limiting, Leaving, AcceptedPreflight, Client, Request, shared, flags, limits,
        records, Unchanged
<1>1. ASSUME NEW q \in Inputs, Receive(r, q) PROVE IInv' BY <1>1 DEF Receive
<1>2. CASE RealIP(r) BY <1>2 DEF RealIP, IsTrustedProxy
<1>3. CASE RequestLogger(r) BY <1>3 DEF RequestLogger
<1>4. CASE Metrics(r)
    <2>1. TypeOK' BY <1>4 DEF Metrics
    <2>2. MutexInv' BY <1>4 DEF Metrics
    <2>3. AddressInv' BY <1>4 DEF Metrics
    <2>4. PreflightInv' BY <1>4 DEF Metrics
    <2> QED BY <2>1, <2>2, <2>3, <2>4
<1>5. CASE CORS(r)
    <2>1. TypeOK'
        <3>1. CASE req[r].origin = "valid"
            <4>2. flagged' \in [Reqs -> BOOLEAN] BY <1>5, CORSFlag
            <4>3. always' \in [Reqs -> SUBSET {"cors", "ratelimit"}] BY <1>5, <3>1 DEF CORS
            <4> QED BY <1>5, <4>2, <4>3 DEF CORS
        <3>2. CASE req[r].origin # "valid" BY <1>5, <3>2 DEF CORS
        <3> QED BY <3>1, <3>2
    <2>2. MutexInv' BY <1>5 DEF CORS
    <2>3. AddressInv' BY <1>5 DEF CORS
    <2>4. PreflightInv' BY <1>5 DEF CORS
    <2> QED BY <2>1, <2>2, <2>3, <2>4
<1>6. CASE RateLimitPreflight(r) BY <1>6 DEF RateLimitPreflight
<1> QED BY <1>1, <1>2, <1>3, <1>4, <1>5, <1>6

\* A step of getLimiter and of RateLimit after it.
LEMMA LimiterStep ==
    ASSUME IInv, NEW r \in Reqs, RateLimit(r) PROVE IInv'
<1> USE ChainAssumption, InputsAssumption, AfterChain
    DEF IInv, TypeOK, MutexInv, AddressInv, PreflightInv, Goto, Set, PC, Statuses, Addrs,
        Early, Limiting, Leaving, AcceptedPreflight, Client, Request, shared, flags, limits,
        records, Unchanged
<1>1. CASE RateLimitPreflight(r) BY <1>1, EarlyStep
<1>2. CASE Load(r) BY <1>2 DEF Load
<1>3. CASE Lock(r) BY <1>3 DEF Lock
<1>4. CASE Recheck(r) BY <1>4 DEF Recheck
<1>5. CASE Build(r) BY <1>5 DEF Build
<1>6. CASE BuildFails(r) BY <1>6 DEF BuildFails
<1>7. ASSUME NEW ok \in BOOLEAN, Allow(r, ok) PROVE IInv'
    <2>1. TypeOK' BY <1>7 DEF Allow
    <2>2. MutexInv' BY <1>7 DEF Allow
    <2>3. AddressInv' BY <1>7 DEF Allow
    <2>4. PreflightInv' BY <1>7 DEF Allow
    <2> QED BY <2>1, <2>2, <2>3, <2>4
<1>8. CASE AllowFails(r) BY <1>8 DEF AllowFails
<1> QED BY <1>1, <1>2, <1>3, <1>4, <1>5, <1>6, <1>7, <1>8 DEF RateLimit

\* A step of the handler, and of the middlewares after next.
LEMMA HandlerStep ==
    ASSUME IInv, NEW r \in Reqs,
           \/ \E s \in {"ok", "error", "notfound"} : Handler(r, s) \/ Healthz(r, s)
           \/ HandlerPanics(r) \/ MetricsAfter(r) \/ LogAfter(r)
    PROVE  IInv'
<1> USE ChainAssumption, InputsAssumption, AfterChain
    DEF IInv, TypeOK, MutexInv, AddressInv, PreflightInv, Goto, Set, PC, Statuses, Addrs,
        Early, Limiting, Leaving, AcceptedPreflight, Client, Request, shared, flags, limits,
        records, Unchanged
<1>1. ASSUME NEW s \in {"ok", "error", "notfound"}, Handler(r, s) PROVE IInv'
    BY <1>1 DEF Handler
<1>2. ASSUME NEW s \in {"ok", "error", "notfound"}, Healthz(r, s) PROVE IInv'
    <2>1. TypeOK' BY <1>2 DEF Healthz
    <2>2. MutexInv' BY <1>2 DEF Healthz
    <2>3. AddressInv' BY <1>2 DEF Healthz
    <2>4. PreflightInv' BY <1>2 DEF Healthz
    <2> QED BY <2>1, <2>2, <2>3, <2>4
<1>3. CASE HandlerPanics(r) BY <1>3 DEF HandlerPanics
<1>4. CASE MetricsAfter(r) BY <1>4 DEF MetricsAfter
<1>5. CASE LogAfter(r) BY <1>5 DEF LogAfter
<1> QED BY <1>1, <1>2, <1>3, <1>4, <1>5

LEMMA NextIInv == IInv /\ [Next]_vars => IInv'
<1> SUFFICES ASSUME IInv, [Next]_vars PROVE IInv'
    OBVIOUS
<1>1. ASSUME NEW r \in Reqs, NEW q \in Inputs, Receive(r, q) PROVE IInv'
    BY <1>1, EarlyStep
<1>2. ASSUME NEW r \in Reqs, Step(r) PROVE IInv'
    BY <1>2, EarlyStep, LimiterStep, HandlerStep DEF Step
<1>3. CASE UNCHANGED vars
    BY <1>3 DEF vars, IInv, TypeOK, MutexInv, AddressInv, PreflightInv, AcceptedPreflight,
                Client
<1> QED BY <1>1, <1>2, <1>3 DEF Next, Finished

\* The invariant holds in every reachable state.
THEOREM Invariance == Spec => []IInv
<1>1. Init => IInv BY InitIInv
<1>2. IInv /\ [Next]_vars => IInv' BY NextIInv
<1> QED BY <1>1, <1>2, PTL DEF Spec

\* getLimiter of ratelimit.go makes one limiter for all requests, however many
\* race for it: the second look at the pointer, under the mutex, is enough.
THEOREM SharedLimiter == Spec => []OneLimiter
<1>1. IInv => OneLimiter BY DEF IInv, TypeOK, OneLimiter
<1> QED BY <1>1, Invariance, PTL

\* The chain of server.New limits, logs and serves metrics by the address of the
\* client that a trusted proxy names, and exempts only preflights that CORS
\* accepted, for any requests of any clients.
THEOREM ChainByClient == Spec => []ByClient
<1>1. IInv => ByClient
    BY DEF IInv, AddressInv, PreflightInv, AcceptedPreflight, ByClient
<1> QED BY <1>1, Invariance, PTL

\* What cors.go set with SetAlways is in every response but the metrics page
\* and a 404 of NotFound, on every way out of the chain.
THEOREM CORSOnEveryWayOut == Spec => []CORSKept
<1>1. IInv => CORSKept
    BY DEF IInv, PreflightInv, CORSKept, Done, Leaving
<1> QED BY <1>1, Invariance, PTL
=============================================================================
