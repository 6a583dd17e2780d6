SPECIFICATION Spec
CONSTANTS
    Listeners = {l1, l2}
    Lookback = 1
    Drifts <- AheadAndBehind
    BatchLimit = 3
    SeenCapacity = 3
    MaxInWindow = 2
    MaxEvents = 4
    MaxTime = 2
INVARIANT ListenersAreRead
PROPERTIES EveryEventOnce
CHECK_DEADLOCK FALSE
