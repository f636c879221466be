\* The service thread, the real-time thread, the state machine and the destructor.
SPECIFICATION Spec
CONSTANTS
    Period = 2
    TimerPeriod = 3
    Mod = 4
    Samples = 1
    Early = 1
    MaxElapsed = 4
INVARIANTS
    TypeOK
    SleepShorterThanPeriod
    CyclesCountedOnce
    WordsAtMostOneCycleOld
    ResetUnlessLost
    TimerFollowsCounter
PROPERTIES
    NoCycleConsumedTwice
    WaiterReleased
CHECK_DEADLOCK FALSE
