SPECIFICATION Spec
CONSTANTS
    Params <- MCParams
    Wilds <- MCWilds
    Fold <- MCFold
    Optional <- MCOptional
    ProxyWild = "{w:*}"
    Methods = {"GET", "QUERY", "OPTIONS", "COPY", "*"}
    Custom = {"COPY"}
    RouteDefs <- DispatchRoutes
    GroupPaths <- GroupPrefixes
    Middlewares = {"m1"}
    Ops = {"Handle", "Use", "UsePriority", "Group", "GroupUse", "GroupHandle", "Proxy", "GroupProxy", "Mutable"}
    Paths <- Paths3
    BasePath <- BaseB
    RedirectTrailingSlash = TRUE
    RedirectFixedPath = TRUE
    HandleMethodNotAllowed = TRUE
    HandleOPTIONS = TRUE
    MaxOps = 3
INVARIANTS
    HandlerOfMatchingRoute
    AllowedMethodsWork
    OneTreeNeverSendsBack
