\* Two requests put a mission on the queue and two workers race for its jobs.
SPECIFICATION Spec
CONSTANTS
    Works = {w1}
    Jobs = {j1, j2}
    Workers = {k1, k2}
    Callers = {c1, c2}
    Reasons = {requested}
    None = None
    MaxAttempts = 2
    Concurrency = 1
    CandidateLimit = 1
    MaxBeats = 2
    MaxFaults = 1
SYMMETRY Symmetry
INVARIANT QueueInv OneWriter
PROPERTY WritesInClaimOrder LiveLeaseKept SettledByItsHolder
