SPECIFICATION FairSpec
CONSTANTS
    Callers = {g1, g2, g3}
    Adders = {a1, a2}
    None = None
INVARIANTS
    ReturnedClientHasOptions
    LocksBalanced
PROPERTY KeepsPromise
