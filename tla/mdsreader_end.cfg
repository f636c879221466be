\* What a node holds after its last sample.
SPECIFICATION Spec
CONSTANTS
    Nodes = {n1}
    Configurations <- MCConfigurations
    NotSet = NotSet
    StartTime <- MCStartTime
    Period = 2
    Printed = 2
    MaxCycles = 5
INVARIANT ZeroAfterLastSample
CHECK_DEADLOCK FALSE
