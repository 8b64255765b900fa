CONSTANTS
    t1 = t1
    t2 = t2
    Timers <- MCTimers
    MaxValue = 2
    MaxTicks = 4

SPECIFICATION Spec

INVARIANT TypeOK
INVARIANT ScheduleKept
PROPERTY TickVisitsAll
PROPERTY QuitHonoured

CHECK_DEADLOCK FALSE
