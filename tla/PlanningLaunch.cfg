SPECIFICATION FairSpec
CONSTANTS
    Requests = {c1, c2}
    Worker = Worker
    Ops = {"launch", "prepare", "plan", "start", "retry", "cancel"}
    Origins = {"person", "schedule"}
    PlanSize = 2
    Throws = {"model", "recheck", "create", "finish", "record"}
    MaxAttempts = 2
    Apart = TRUE
    SlowPlans = FALSE
    Patient = TRUE
    MaxRequests = 3
    MaxFaults = 2
INVARIANT OneWholePlan
PROPERTIES  PlanningEnds
CHECK_DEADLOCK FALSE
