CONSTANTS
    t1 = t1
    t2 = t2
    Timers <- MCTimers
    MaxValue = 2
    MaxTicks = 3

SPECIFICATION Spec

INVARIANT OneShotFiresOnce

CHECK_DEADLOCK FALSE
