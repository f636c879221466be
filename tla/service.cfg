\* Up to four calls of the callback, of which main waits for three, and words of eight values.
CONSTANTS
    maxCounter = 3
    Word = 8
    MaxCalls = 4
SPECIFICATION ServiceSpec
INVARIANTS
    DriftBounded
PROPERTIES
    MainEnds
CHECK_DEADLOCK FALSE
