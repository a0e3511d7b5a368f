SPECIFICATION HandlersSpec
CONSTANTS
    w1 = w1
    w2 = w2
    Writers = {w1, w2}
    Callers <- MCCallers
    Raws <- MCRaws
    MaxChanges = 1
    Jobs <- MCJobs
    Lower <- MCLower
    MaxInt = 127
    MuxHost = None
    None = None
INVARIANTS
    ReturnsOption
    DefaultSecurityHolds
    ClearRemoves
    RedirectStaysHome
    ScopesAreGranted
    RefusalFitsClient
    PageWithinLimit
