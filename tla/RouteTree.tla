------------------------------ MODULE RouteTree -----------------------------
(***************************************************************************)
(* The tree of one method while an application registers its routes, and   *)
(* what Get and FindCaseInsensitivePath then answer for every path.        *)
(***************************************************************************)
EXTENDS RadixTree

CONSTANTS
    Routes,         \* the routes an application may register
    Paths,          \* the request paths looked up
    MaxRoutes       \* bound: registrations

ASSUME RoutesAssumption ==
    /\ MaxRoutes \in Nat
    /\ \A r \in Routes : Head(r) = Slash

VARIABLES
    tree,       \* Tree.root
    mutable,    \* Tree.Mutable
    routes,     \* history: the routes added; a handler is an index of it
    panicked    \* Tree.Add panicked: the program ends

vars == <<tree, mutable, routes, panicked>>

Init ==
    /\ tree = EmptyTree
    /\ mutable = FALSE
    /\ routes = <<>>
    /\ panicked = FALSE

Add(path) ==
    LET r == TreeAdd(tree, path, Len(routes) + 1, mutable)
    IN  /\ ~panicked
        /\ Len(routes) < MaxRoutes
        /\ routes' = Append(routes, path)
        /\ panicked' = (r.err # "none")
        /\ tree' = IF r.err = "none" THEN r.node ELSE tree
        /\ UNCHANGED mutable

\* mux.Mutable.
SetMutable(v) ==
    /\ ~panicked
    /\ mutable' = v
    /\ UNCHANGED <<tree, routes, panicked>>

\* Registration is over, or has failed.
Registered == (panicked \/ Len(routes) = MaxRoutes) /\ UNCHANGED vars

Next ==
    \/ \E path \in Routes : Add(path)
    \/ \E v \in BOOLEAN : SetMutable(v)
    \/ Registered

Spec == Init /\ [][Next]_vars
-----------------------------------------------------------------------------
\* The index of the last registration of route i.
Latest(i) == Len(routes) + 1 - First({j \in 1..Len(routes) : routes[Len(routes) + 1 - j] = routes[i]})

\* The path ends in a slash that directly follows where a param would be:
\* the param is empty.
EmptyParam(path) ==
    /\ Last(path) = Slash
    /\ \E i \in DOMAIN routes : \E k \in DOMAIN routes[i] :
        /\ routes[i][k] \in Params
        /\ Match(Take(routes[i], k - 1), Front(path)) # {}

Reaches(path) == Get(tree, path).h # NoHandler
Matching(path) == {i \in DOMAIN routes : Match(routes[i], path) # {}}
-----------------------------------------------------------------------------
(* Properties.                                                             *)

\* Get never answers with a handler of a route that does not match the path,
\* the values it saves are the ones the route's params stand for, and it
\* recommends a trailing slash redirect only when a registered route matches
\* the path with, or without, the slash.  Exception: a path that leaves a
\* param empty.  A route without params is reached by its own path, by its latest
\* handler, whatever params and wildcards beside it match the path as well,
\* unless the path with, or without, the trailing slash is registered too.
GetSound ==
    /\ \A path \in Paths : LET g == Get(tree, path) IN
        /\ g.h # NoHandler => g.params \in Match(routes[g.h], path)
        /\ g.tsr => Matching(Toggle(path)) # {} \/ EmptyParam(path)
    /\ ~panicked => \A i \in DOMAIN routes :
        (Static(routes[i]) /\ \A j \in DOMAIN routes : routes[j] # Toggle(routes[i])) =>
            Get(tree, routes[i]) = Hit(Latest(i), {})

\* When no handler and no redirect is found although a route matches, some
\* registered route goes on beyond the path: only a dead end inside the tree
\* can hide a matching route.
MissOnlyInsideRoute ==
    \A path \in Paths :
        (~panicked /\ Matching(path) # {} /\ ~Answers(Get(tree, path))) =>
            \E i \in DOMAIN routes : \E k \in 0..(Len(routes[i]) - 1) :
                Match(Take(routes[i], k), path) # {}

\* The case-insensitive lookup corrects case and the trailing slash only, the
\* latter only when asked to, and never without a route for the result, with
\* the same exception.
FindSound ==
    \A path \in Paths, fix \in BOOLEAN :
        LET f == FindCaseInsensitivePath(tree, path, fix) IN
        f.found => /\ EqualFold(f.buf, IF f.tsr THEN Toggle(path) ELSE path)
                   /\ f.tsr => fix
                   /\ Matching(f.buf) # {} \/ EmptyParam(Append(f.buf, Slash))

-----------------------------------------------------------------------------
(* What the comments of the code say and the code does not do (README).    *)

\* Get "returns the handle registered with the given path": a path some
\* registered route matches is answered.
MatchingRouteFound ==
    \A path \in Paths : (~panicked /\ Matching(path) # {}) => Answers(Get(tree, path))

\* Get returns the handle registered with the path: no later registration
\* takes a static route's handler away.
StaticRouteKept ==
    ~panicked => \A i \in DOMAIN routes : Static(routes[i]) => Reaches(routes[i])

\* "A TSR recommendation is made if a handle exists with an extra (without
\* the) trailing slash for the given path."
TSROnlyIfHandleExists ==
    \A path \in Paths : Get(tree, path).tsr => Reaches(Toggle(path))

\* A path that has no answer, but differs in case only from one that has a
\* handler, is corrected.
FindComplete ==
    \A path, other \in Paths :
        (~Answers(Get(tree, path)) /\ EqualFold(path, other) /\ Reaches(other)) =>
            FindCaseInsensitivePath(tree, path, TRUE).found

\* Adding a route a second time to a tree that is not mutable panics.
DuplicateRefused ==
    [][\A path \in Routes :
        (Add(path) /\ ~mutable /\ path \in Range(routes)) => panicked']_vars
=============================================================================
