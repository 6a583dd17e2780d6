SPECIFICATION Spec
CONSTANTS
    Hour = 2
    Zones <- WorldZones
    Schedules <- WorldSchedules
    None = None
    Horizon = 330
    MaxLate = 50
INVARIANT AsChosen
PROPERTIES OnceEach NonePassedOver
CHECK_DEADLOCK FALSE
