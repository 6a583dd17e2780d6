\* Two missions and a worker that executes both at once, and may crash.
SPECIFICATION FairSpec
CONSTANTS
    Works = {w1, w2}
    Jobs = {j1, j2}
    Workers = {k1}
    Callers = {c1}
    Reasons = {requested}
    None = None
    MaxAttempts = 2
    Concurrency = 2
    CandidateLimit = 2
    MaxBeats = 2
    MaxFaults = 1
PROPERTY EveryJobSettles ImplementsMissionQueue
