SPECIFICATION FairSpec
CONSTANTS
    Parsers = {p1}
    Askers = {a1}
    Refreshers = {f1}
    Metadata <- Rotation
    Tokens <- MCTokens
    Checks = {"iss", "aud", "iat", "exp", "nbf"}
    Audience = "app"
    Now = 5
    ClockSkew = 1
    None = None
INVARIANTS
    AcceptedFromProvider
    OneVersion
    RefusedForCause
PROPERTY CallsReturn
