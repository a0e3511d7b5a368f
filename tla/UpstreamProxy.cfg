SPECIFICATION Spec
CONSTANTS
    Reqs = {r1, r2}
    Pieces <- MCPieces
    Configured <- Lists
    BaseURL <- Elsewhere
    Host = "proxy"
    Answers <- MCAnswers
    None = None
SYMMETRY Symmetry
INVARIANTS
    UpstreamExists
    RoundRobin
    LinksToProxy
    CookiesRewritten
