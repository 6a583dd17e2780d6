--------------------------- MODULE MCScheduleClock ---------------------------
(* ScheduleClock for TLC: half-hour ticks, a little under a week.          *)
EXTENDS ScheduleClock

At(cadence, minute, hour, day) == [cadence |-> cadence, minute |-> minute, hour |-> hour, dayOfWeek |-> day]

Jump(before, after, hoursUTC) == [before |-> before, after |-> after, jump |-> 3 * Day + hoursUTC * Hour]

(* New York in autumn and spring, Berlin in autumn and spring, Kolkata,    *)
(* Lord Howe in autumn, whose clocks go half an hour, and a spring jump at *)
(* midnight.                                                               *)
WorldZones == {Jump(-8, -10, 6), Jump(-10, -8, 7), Jump(4, 2, 1), Jump(2, 4, 1), Jump(11, 11, 0),
               Jump(22, 21, -9), Jump(4, 6, -2)}

Berlin == {Jump(4, 2, 1)}

WorldSchedules ==
    {At("hourly", 1, None, None), At("daily", 1, 2, None), At("daily", 1, 1, None), At("daily", 0, 0, None),
     At("daily", 0, 23, None),     At("weekdays", 0, 9, None), At("weekly", 1, 2, 3), At("weekly", 0, 23, 6),
     At("weekly", 0, 9, None), At("hourly", 0, 9, None)}

HalfPastTwo == {At("daily", 1, 2, None)}
=============================================================================
