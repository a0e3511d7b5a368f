SPECIFICATION Spec
CONSTANTS
    Req = {r1, r2}
    Ctx = {c1, c2}
    Hdr = {h1}
    Val = {v1}
    Methods <- MethodNames
    Forms = {"nil", "multipart"}
    HasErrorHandler = TRUE
    HasInstrumenter = TRUE
    MaxOps = 2
    None = None
    Anonymous = Anonymous
    AppLog = AppLog
SYMMETRY Symmetry
INVARIANTS
    PooledClean
    OwnDataOnly
    LoggerCurrent
    AlwaysHeadersKept
    PanicRendersError
    ReleasedResources
