\* Blocks of one to five samples, the time and up to two signals; the times reach the
\* upper half of a word.
SPECIFICATION Spec
CONSTANTS
    Configurations <- MCConfigurations
    NotSet = NotSet
    Word = 32
    TimeStep = 1
    MicrosPerSecond = 3
    UnitsPerSecond = 16
    Float32s <- MCFloat32s
    MaxCycles = 20
INVARIANTS
    TypeOK
    StreamedInOrder
    TimesFollowSamples
    PendingKept
CHECK_DEADLOCK FALSE
