SPECIFICATION Spec
CONSTANTS
    Members = {m1, m2, m3}
    People = {u1, u2, u3}
    Requests = {r1, r2}
    Nobody = Nobody
    Roles = {"owner", "admin", "member"}
    MaxCalls = 3
SYMMETRY Interchangeable
INVARIANT OnlyOwnersCircle
PROPERTIES OwnerKept AcceptedOnce
CHECK_DEADLOCK FALSE
