CONSTANTS
    t1 = t1
    t2 = t2
    Timers <- MCTimers
    MaxValue = 2
    MaxTicks = 2

SPECIFICATION Spec

PROPERTY ClockFailureSurfaced

CHECK_DEADLOCK FALSE
