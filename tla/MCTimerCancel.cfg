CONSTANTS
    t1 = t1
    t2 = t2
    Timers <- MCTimers
    Intervals <- MCIntervals
    Hour = 1
    Base = 1
    MaxClock = 4
    MaxBack = 1
    Modulus = 16
SPECIFICATION Spec
INVARIANT CancelFinal
