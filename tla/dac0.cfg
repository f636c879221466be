\* Three values of the sine and up to two interrupts.
CONSTANTS
    Repetitions = 3
    MaxInterrupts = 2
SPECIFICATION Spec
INVARIANTS
    TypeOK
    NoSessionLeft
    CrashesIfInterrupted
    OutputLeftAtZero
CHECK_DEADLOCK FALSE
