\* Five trips through two signals whose values wrap at three, and up to three faults.
CONSTANTS
    Signals = 2
    Memory <- MCMemory
    NaNSets <- MCNaNSets
    Trips = 5
    OldValues <- MCOldValues
    MaxFaults = 3
    Nothing = Nothing
SPECIFICATION Spec
INVARIANTS
    TypeOK
    TripsReal
    OthersOneTripBehind
PROPERTIES
    TestCompletes
    ImplementsRoundTrips
CHECK_DEADLOCK FALSE
