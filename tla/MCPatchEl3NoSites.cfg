CONSTANTS
    Dumps <- MCDumps
    MaxCalls = 1
SPECIFICATION Spec
INVARIANT
    SuccessMeansPatched
