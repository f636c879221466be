\* The documented effect of PrepareNextState on the counter.
SPECIFICATION Spec
CONSTANTS
    Period = 2
    TimerPeriod = 3
    Mod = 4
    Samples = 0
    Early = 0
    MaxElapsed = 4
INVARIANT ResetsCounter
CHECK_DEADLOCK FALSE
