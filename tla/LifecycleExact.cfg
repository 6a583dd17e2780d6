SPECIFICATION Spec
CONSTANTS
    first = first
    second = second
    Tasks = {first, second}
    Deps <- Chain
    Asks = {second}
    MayBeRefused = {first}
    Approvals = {p1, p2, p3, p4, p5, p6, p7, p8}
    Requests = {c1}
    Ops = {"start", "approve", "reject", "retry", "cancel"}
    None = None
    MaxAttempts = 2
    MaxConcurrentTasks = 4
    Patient = TRUE
    MaxRequests = 6
    MaxFaults = 0
    MaxLostWrites = 1
    MaxUnrecorded = 1
    Cuttable = {"start", "approve", "reject", "retry", "cancel"}
    MaxCuts = 1
    MaxChanges = 2
INVARIANTS RunsWhatWasApproved EndedIsWhole StuckMeansUnresolved QueuedMissionsHaveJobs
PROPERTIES CompletedStepsKept
CHECK_DEADLOCK FALSE
