SPECIFICATION FairAppSpec
CONSTANTS
    Enabled = {"http", "https"}
    Stops = {s1, s2}
    Conns = {c1, c2}
    Nil = Nil
INVARIANTS
    ConnectionsFirst
PROPERTIES
    CallsReturn
