\* Two nodes with every data management and timebase; configurations to reject.
SPECIFICATION Spec
CONSTANTS
    Nodes = {n1, n2}
    Configurations <- MCConfigurations
    NotSet = NotSet
    StartTime <- MCStartTime
    Period = 2
    Printed = 2
    MaxCycles = 5
INVARIANTS
    TypeOK
    InterpolationEncloses
    ClosestSampleHeld
    EndNotifiedOnce
PROPERTIES
    EndIsFinal
CHECK_DEADLOCK FALSE
