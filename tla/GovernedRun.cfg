SPECIFICATION Spec
CONSTANTS
    Policies = {p1, p2}
    Authors = {a1}
    Rules <- FourRules
    read = read
    write = write
    Tools = {read, write}
    Writes = {write}
    RequiredSets <- Needs
    None = None
    MaxToolCalls = 2
    MaxEdits = 2
    MaxFaults = 1
PROPERTIES WritesWereApproved StandingDeniesHold RunsEnd
CHECK_DEADLOCK FALSE
