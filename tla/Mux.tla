--------------------------------- MODULE Mux --------------------------------
(***************************************************************************)
(* The router (mux.go, route_group.go): registration of routes, groups and *)
(* middlewares, one radix tree per method, and the dispatch of a request   *)
(* to a handler, a redirect, an OPTIONS answer, 405 or 404.                *)
(***************************************************************************)
EXTENDS RadixTree

CONSTANTS
    Methods,        \* standard methods, "*" (MethodWild) and custom ones
    Custom,         \* the methods MethodIndexOf has no case for
    RouteDefs,      \* routes an application registers, optional params allowed
    Optional,       \* function from a token "{name?}" to "{name}"
    ProxyWild,      \* the token "{path:*}" of Proxy's second route
    GroupPaths,       \* path prefixes of route groups
    Middlewares,    \* middlewares an application uses, each one once
    Ops,            \* the registration operations of this application
    Paths,          \* request paths (PathOriginal)
    BasePath,       \* RouterOptions.BasePath, normalized
    RedirectTrailingSlash, RedirectFixedPath,
    HandleMethodNotAllowed, HandleOPTIONS,
    MaxOps          \* bound: registration operations

Wild == "*"
OpNames == {"Handle", "Use", "UsePriority", "Group", "GroupUse", "GroupHandle",
            "Proxy", "GroupProxy", "Mutable"}

ASSUME MuxAssumption ==
    /\ Custom \subseteq Methods
    /\ {Wild, "OPTIONS"} \subseteq Methods \ Custom
    /\ Ops \subseteq OpNames
    /\ MaxOps \in Nat
    /\ {RedirectTrailingSlash, RedirectFixedPath, HandleMethodNotAllowed,
        HandleOPTIONS} \subseteq BOOLEAN

VARIABLES
    trees,          \* mux.trees, by method; NoTree is nil
    registered,     \* keys of mux.registeredPaths
    globalAllowed,  \* mux.globalAllowed
    middlewares, priority,  \* mux.middlewares, mux.priorityMiddlewares
    groups,         \* the RouteGroups made so far
    treeMutable,    \* mux.treeMutable
    handlers,       \* history: [method, routes, chain] of every registration
    ops,            \* registration operations so far
    panicked        \* a registration panicked: the program ends

vars == <<trees, registered, globalAllowed, middlewares, priority, groups,
          treeMutable, handlers, ops, panicked>>

NoTree == [EmptyTree EXCEPT !.nType = "nil"]
-----------------------------------------------------------------------------
(* Registration.                                                           *)

\* GetOptionalPaths: for every optional param the path before it and the
\* path that ends with it.
GetOptionalPaths(route) ==
    LET plain == [i \in DOMAIN route |->
                    IF route[i] \in DOMAIN Optional THEN Optional[route[i]] ELSE route[i]]
        Step(acc, i) ==
            IF route[i] \notin DOMAIN Optional THEN acc
            ELSE LET before == Take(plain, i - 2)
                     with == IF before = <<>> THEN Append(acc, <<Slash>>)
                             ELSE IF before \in Range(acc) THEN acc
                             ELSE Append(acc, before)
                 IN  Append(with, Take(plain, i))
    IN  FoldLeft(Step, <<>>, [i \in DOMAIN route |-> i])

\* The paths Handle adds to the tree.
PathsOf(route) ==
    LET paths == GetOptionalPaths(route) IN IF paths = <<>> THEN <<route>> ELSE paths

\* Chain: outermost first, priority middlewares around the others.
Chain(inner) == priority \o middlewares \o inner

\* Allowed("*", ""): every registered method, and OPTIONS.
AllowedAnywhere(methods) ==
    IF methods \ {"OPTIONS"} = {} THEN {} ELSE methods \cup {"OPTIONS"}

\* The paths of every route, each with its handler: that of the i-th is n + i.
Entries(paths, n) ==
    FlattenSeq([i \in DOMAIN paths |->
        [j \in DOMAIN paths[i] |-> [path |-> paths[i][j], h |-> n + i]]])

\* One tree.Add of Handle's loop: an error panics, and ends it.
AddEntry(r, e) ==
    IF r.err # "none" THEN r ELSE TreeAdd(r.node, e.path, e.h, treeMutable)

\* mux.Handle for each of defs, with the middlewares inner already around the
\* handler.  The cache is refreshed when a standard method gets its tree; the
\* tree of a custom method is appended without that.
HandleWith(method, defs, inner) ==
    \E paths \in {[i \in DOMAIN defs |-> PathsOf(defs[i])]} :
    \E r \in {FoldLeft(AddEntry,
                       Ok(IF trees[method] = NoTree THEN EmptyTree ELSE trees[method]),
                       Entries(paths, Len(handlers)))} :
        /\ registered' = registered \cup {method}
        /\ globalAllowed' = IF trees[method] = NoTree /\ method \notin Custom
                            THEN AllowedAnywhere(registered') ELSE globalAllowed
        /\ handlers' = handlers \o
               [i \in DOMAIN defs |-> [method |-> method, routes |-> paths[i],
                                      chain |-> Chain(inner)]]
        /\ panicked' = (r.err # "none")
        /\ trees' = [trees EXCEPT ![method] = IF r.err = "none" THEN r.node ELSE @]

Init ==
    /\ trees = [m \in Methods |-> NoTree]
    /\ registered = {}
    /\ globalAllowed = {}
    /\ middlewares = <<>> /\ priority = <<>>
    /\ groups = <<>>
    /\ treeMutable = FALSE
    /\ handlers = <<>>
    /\ ops = 0
    /\ panicked = FALSE

Registers(op) ==
    /\ op \in Ops
    /\ ~panicked
    /\ ops < MaxOps
    /\ ops' = ops + 1

Handle(method, route) ==
    /\ Registers("Handle")
    /\ HandleWith(method, <<route>>, <<>>)
    /\ UNCHANGED <<middlewares, priority, groups, treeMutable>>

\* A middleware an application uses once.
Unused(mw) ==
    mw \notin Range(middlewares) \cup Range(priority)
              \cup UNION {Range(groups[g].middlewares) : g \in DOMAIN groups}

Use(mw) ==
    /\ Registers("Use") /\ Unused(mw)
    /\ middlewares' = Append(middlewares, mw)
    /\ UNCHANGED <<trees, registered, globalAllowed, priority, groups, treeMutable,
                   handlers, panicked>>
UsePriority(mw) ==
    /\ Registers("UsePriority") /\ Unused(mw)
    /\ priority' = Append(priority, mw)
    /\ UNCHANGED <<trees, registered, globalAllowed, middlewares, groups, treeMutable,
                   handlers, panicked>>

\* mux.Group (parent is NoGroup), RouteGroup.Group: a subgroup starts with a
\* copy of its parent's middlewares.
NoGroup == [prefix |-> <<>>, middlewares |-> <<>>]
Group(parent, prefix) ==
    /\ Registers("Group")
    /\ groups' = Append(groups, [parent EXCEPT !.prefix = @ \o prefix])
    /\ UNCHANGED <<trees, registered, globalAllowed, middlewares, priority, treeMutable,
                   handlers, panicked>>
GroupUse(g, mw) ==
    /\ Registers("GroupUse") /\ Unused(mw)
    /\ groups' = [groups EXCEPT ![g].middlewares = Append(@, mw)]
    /\ UNCHANGED <<trees, registered, globalAllowed, middlewares, priority, treeMutable,
                   handlers, panicked>>
GroupHandle(g, method, route) ==
    /\ Registers("GroupHandle")
    /\ HandleWith(method, <<groups[g].prefix \o route>>, groups[g].middlewares)
    /\ UNCHANGED <<middlewares, priority, groups, treeMutable>>

\* Proxy registers the path and everything below it.
ProxyRoutes(prefix, route) ==
    LET slash == IF route # <<>> /\ Last(route) # Slash THEN <<Slash>> ELSE <<>>
    IN  <<prefix \o route, prefix \o route \o slash \o <<ProxyWild>>>>

Proxy(route) ==
    /\ Registers("Proxy")
    /\ HandleWith(Wild, ProxyRoutes(<<>>, route), <<>>)
    /\ UNCHANGED <<middlewares, priority, groups, treeMutable>>

\* RouteGroup.Proxy: chain wraps the handler here, and again in
\* RouteGroup.Handle.
GroupProxy(g, route) ==
    /\ Registers("GroupProxy")
    /\ HandleWith(Wild, ProxyRoutes(groups[g].prefix, route),
                  groups[g].middlewares \o groups[g].middlewares)
    /\ UNCHANGED <<middlewares, priority, groups, treeMutable>>

Mutable(v) ==
    /\ Registers("Mutable")
    /\ treeMutable' = v
    /\ UNCHANGED <<trees, registered, globalAllowed, middlewares, priority, groups,
                   handlers, panicked>>

\* Registration is over, or has failed.
Registered == (panicked \/ ops = MaxOps) /\ UNCHANGED vars

Next ==
    \/ \E m \in Methods, r \in RouteDefs : Handle(m, r)
    \/ \E r \in RouteDefs : Proxy(r)
    \/ \E mw \in Middlewares : Use(mw) \/ UsePriority(mw)
    \/ \E parent \in Range(groups) \cup {NoGroup}, p \in GroupPaths : Group(parent, p)
    \/ \E g \in DOMAIN groups :
        \/ \E mw \in Middlewares : GroupUse(g, mw)
        \/ \E m \in Methods, r \in RouteDefs : GroupHandle(g, m, r)
        \/ \E r \in RouteDefs : GroupProxy(g, r)
    \/ \E v \in BOOLEAN : Mutable(v)
    \/ Registered

Spec == Init /\ [][Next]_vars
-----------------------------------------------------------------------------
(* Dispatch: mux.Handler on the registrations made so far.                 *)

\* Handler strips the base path, wherever the path starts with its letters.
StripBase(path) ==
    IF BasePath = <<>> \/ path = <<>> THEN path
    ELSE LET l == IF Len(BasePath) > Len(path) THEN Len(path) ELSE Len(BasePath)
             rest == Drop(path, l)
         IN  IF ~EqualFold(BasePath, Take(path, l)) THEN path
             ELSE IF rest = <<>> \/ rest[1] # Slash THEN <<Slash>> \o rest
             ELSE rest

\* fasthttp's URI.Path(): repeated slashes are one.
Normalize(path) ==
    FoldLeft(LAMBDA acc, t : IF t = Slash /\ acc # <<>> /\ Last(acc) = Slash
                             THEN acc ELSE Append(acc, t), <<>>, path)

To(path)      == [kind |-> "redirect", to |-> path]
NoAnswer      == [kind |-> "none"]

\* rejectInvalidQuery: a QUERY body needs a media type.
HandledBy(h, q) ==
    IF q.method = "QUERY" /\ q.untyped THEN [kind |-> "badquery"]
    ELSE [kind |-> "handler", h |-> h]

\* TryRedirect: the trailing slash first, then the corrected path.  The
\* corrected path is looked up with the base path still in place.
TryRedirect(tree, tsr, path, original) ==
    IF tsr /\ RedirectTrailingSlash THEN To(Toggle(path))
    ELSE LET f == FindCaseInsensitivePath(tree, Normalize(original), RedirectTrailingSlash)
         IN  IF RedirectFixedPath /\ f.found THEN To(f.buf) ELSE NoAnswer

\* One tree's answer: its handler, else a redirect.
Ask(tree, q, path) ==
    IF tree = NoTree THEN NoAnswer
    ELSE LET g == Get(tree, path)
         IN  IF g.h # NoHandler THEN HandledBy(g.h, q)
             ELSE IF q.method # "CONNECT" /\ path # <<Slash>>
             THEN TryRedirect(tree, g.tsr, path, q.path)
             ELSE NoAnswer

ServerWide == {<<"*">>, <<Slash, "*">>}

\* A mutated Allowed that takes a redirect for a handler.
AllowedWithTSR(path, method) ==
    LET others == {m \in registered \ {method, "OPTIONS"} : Answers(Get(trees[m], path))}
    IN  IF others = {} THEN {} ELSE others \cup {"OPTIONS"}

\* Allowed for a request: the cached list server-wide, else the methods whose
\* tree has a handler for the path.
Allowed(path, method) ==
    LET others == {m \in registered \ {method, "OPTIONS"} :
                        Get(trees[m], path).h # NoHandler}
    IN  IF path \in ServerWide THEN globalAllowed
        ELSE IF others = {} THEN {} ELSE others \cup {"OPTIONS"}

\* The end of Handler: OPTIONS, 405, 404.
Unhandled(method, allow) ==
    IF HandleOPTIONS /\ method = "OPTIONS"
    THEN IF allow # {} THEN [kind |-> "options", allow |-> allow]
         ELSE [kind |-> "notfound"]
    ELSE IF HandleMethodNotAllowed /\ allow # {}
    THEN [kind |-> "notallowed", allow |-> allow]
    ELSE [kind |-> "notfound"]

Else(a, b) == IF a # NoAnswer THEN a ELSE b

\* Handler: the method's tree, the wild tree, then the answers without one.
Dispatch(q) ==
    LET path == StripBase(q.path)
    IN  Else(Ask(trees[q.method], q, path),
             Else(Ask(trees[Wild], q, path),
                  Unhandled(q.method, Allowed(path, q.method))))
-----------------------------------------------------------------------------
(* Properties.                                                             *)

Requests == [method : Methods \ {Wild}, path : Paths, untyped : {FALSE}]
            \cup [method : Methods \cap {"QUERY"}, path : Paths, untyped : {TRUE}]

Redirected(q) == Dispatch(q).kind = "redirect"
Follow(q)     == [q EXCEPT !.path = Dispatch(q).to]

RouteMatches(h, path) ==
    \E i \in DOMAIN handlers[h].routes : Match(handlers[h].routes[i], path) # {}

\* A handler serves the method and a path its routes match.
Serves(d, method, path) ==
    d.kind = "handler" /\ handlers[d.h].method = method /\ RouteMatches(d.h, path)

MatchesRoute(q, d) ==
    d.kind = "handler" => \E m \in {q.method, Wild} : Serves(d, m, StripBase(q.path))

\* A request reaches the handler of a route of its own method, or of any
\* method, that matches its path below the base path.
HandlerOfMatchingRoute ==
    ~panicked => \A q \in Requests : MatchesRoute(q, Dispatch(q))

\* A retry of q with a method the answer d allows.
RetriesWork(q, d) ==
    d.kind \in {"notallowed", "options"} =>
        \A m \in d.allow \ {"OPTIONS"} :
            Serves(Dispatch([q EXCEPT !.method = m, !.untyped = FALSE]), m,
                   StripBase(q.path))

\* Every method the Allow header of a 405 or of an automatic OPTIONS answer
\* names reaches a handler of that method when the client retries with it;
\* the cached list that "OPTIONS /*" answers with names methods that have a
\* route only, and every standard one of them.
AllowedMethodsWork ==
    /\ ~panicked => \A q \in Requests :
           StripBase(q.path) \notin ServerWide => RetriesWork(q, Dispatch(q))
    /\ AllowedAnywhere(registered \ Custom) \subseteq globalAllowed
    /\ globalAllowed \subseteq AllowedAnywhere(registered)

RedirectsTo(d, path) == d.kind = "redirect" /\ d.to = path

\* q, answered with d, is redirected to another path, and from there back.
SentBack(q, d) ==
    /\ d.kind = "redirect" /\ d.to # q.path
    /\ RedirectsTo(Dispatch([q EXCEPT !.path = d.to]), q.path)

\* When only one tree serves a method, a client that follows a redirect is
\* never sent back to where it was: the trailing slash redirects of a tree
\* and its case corrections never undo each other.
OneTreeNeverSendsBack ==
    ~panicked => \A q \in Requests :
        (trees[q.method] = NoTree \/ trees[Wild] = NoTree) => ~SentBack(q, Dispatch(q))

-----------------------------------------------------------------------------
(* What the comments of the code say and the code does not do (README).    *)

\* globalAllowed is the "cached value of global (*) allowed methods", custom
\* ones too.
GlobalAllowedComplete == globalAllowed = AllowedAnywhere(registered)

\* A redirect leads to a path that is not redirected again.
RedirectEnds ==
    ~panicked => \A q \in Requests : Redirected(q) => ~Redirected(Follow(q))

\* A redirect happens only when no route matches the request.
RedirectOnlyIfUnmatched ==
    ~panicked => \A q \in Requests : Redirected(q) =>
        Get(IF trees[Wild] = NoTree THEN EmptyTree ELSE trees[Wild],
            StripBase(q.path)).h = NoHandler

\* A middleware that was added once runs once for a request.
MiddlewareRunsOnce ==
    \A h \in DOMAIN handlers : IsInjective(handlers[h].chain)
=============================================================================
