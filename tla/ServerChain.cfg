SPECIFICATION FairSpec
CONSTANTS
    Reqs = {r1, r2}
    Proxies = {p1}
    Clients = {c1, c2}
    Monitors = {c1}
    None = None
    Inputs <- Pairs
INVARIANTS
    OneLimiter
    ByClient
    CORSKept
PROPERTY Answered
