SPECIFICATION FairSpec
CONSTANTS
    first = first
    second = second
    Tasks = {first, second}
    Deps <- Chain
    Asks = {second}
    MayBeRefused = {first}
    Approvals = {p1, p2, p3, p4, p5, p6, p7, p8}
    Requests = {c1}
    Ops = {"start", "approve", "reject", "retry", "cancel"}
    None = None
    MaxAttempts = 2
    MaxConcurrentTasks = 4
    Patient = TRUE
    MaxRequests = 4
    MaxFaults = 3
    MaxLostWrites = 0
    MaxUnrecorded = 1
    Cuttable = {"start", "retry"}
    MaxCuts = 1
    MaxChanges = 0
INVARIANTS NothingRunsUndecided EngineRunsInTurn SomeoneToAsk
PROPERTIES CancelledForGood JobAgreesWithMission JobsSettle GrantedStepsGoOn
CHECK_DEADLOCK FALSE
