SPECIFICATION Spec
CONSTANTS
    Params <- MCParams
    Wilds <- MCWilds
    Fold <- MCFold
    Routes <- MCRoutes
    Paths <- MCPaths
    MaxRoutes = 3
INVARIANTS
    GetSound
    MissOnlyInsideRoute
    FindSound
