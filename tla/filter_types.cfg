\* The documented checks of Setup.
SPECIFICATION Spec
CONSTANTS
    Scale = 4
    Word = 64
    MaxInput = 1
    Alphas = {2}
    Configurations <- MCConfigurations
INVARIANT AllInputsVerified
CHECK_DEADLOCK FALSE
