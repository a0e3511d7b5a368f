SPECIFICATION RealIPSpec
CONSTANTS
    a = a
    b = b
    lo = lo
    app1 = app1
    app2 = app2
    MaxTokens = 5
    MaxLine = 2
    Addresses = {a, b, lo}
    Network <- MCNetwork
    Kinds <- MCKinds
    Junk = Junk
    Configs <- MCConfigs
    Requests <- MCRequests
    Nil = Nil
INVARIANTS
    RightEntry
    TrustIsConfigured
