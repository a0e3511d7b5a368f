SPECIFICATION Spec
CONSTANTS
    Reqs = {r1, r2}
    Files <- MCFiles
    Hashes <- MCHashes
    Changing <- OneChanges
    Gzip = TRUE
    None = None
INVARIANTS
    EncodingMatchesBody
    OwnValuesOnly
