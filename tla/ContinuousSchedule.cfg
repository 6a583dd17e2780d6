SPECIFICATION FairSpec
CONSTANTS
    Schedulers = {s1, s2}
    Requests = {c1}
    Ops = {"pause", "resume", "cancel", "run", "cancel work", "retry work"}
    None = None
    Period = 2
    FailureLimit = 1
    Ties = FALSE
    MaxTime = 4
    Races = FALSE
    MaxEvents = 2
INVARIANT ScheduleIsKept
PROPERTIES StartsOnlyWhenItMay DueIsAnswered StartedRunsAreQueued
CHECK_DEADLOCK FALSE
