SPECIFICATION Spec
CONSTANTS
    Rows = {c1, c2}
    Grants = {g1, g2}
    Calls = {r1, r2, r3}
    Processes = {p1, p2}
    None = None
    Providers = {"github", "google_drive"}
    MaxCalls = 5
    MaxStops = 1
SYMMETRY Interchangeable
INVARIANT OneOfEach
PROPERTIES RevokedForGood KeptTokensLast
CHECK_DEADLOCK FALSE
