\* Scale is 2^2, Word 2^6 and the inputs have two bits.
SPECIFICATION Spec
CONSTANTS
    Scale = 4
    Word = 64
    MaxInput = 2
    Alphas <- MCAlphas
    Configurations <- MCConfigurations
INVARIANTS
    TypeOK
    NoOverflow
    MovesTowardsInput
CHECK_DEADLOCK FALSE
