CONSTANTS
    HEAD = 12189696
    BUF = 1048576
    Sizes = {13238271}
    OtherWriter = FALSE
    MaxRuns = 1
SPECIFICATION Spec
INVARIANT
    SuccessMeansComplete
