\* Up to two GAMs, and any initial value of adcSamplesPerCycle.
SPECIFICATION Spec
CONSTANTS
    NotSet = NotSet
    Configurations <- MCConfigurations
    Uninitialised = {0, 2, 3}
    TimerFrequency = 20
    UsecPerSecond = 10
    Resolution = 2
    Float32s <- MCFloat32s
    DefaultADCFrequency = 6
INVARIANTS
    TypeOK
    BuffersFit
    SamplesKeepPace
CHECK_DEADLOCK FALSE
