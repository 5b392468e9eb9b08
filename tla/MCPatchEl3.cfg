CONSTANTS
    Dumps <- MCDumps
    MaxCalls = 2
SPECIFICATION FairSpec
INVARIANTS
    TypeOK
    EverySiteCallsStub
    OnlyIntendedBytes
    FailureChangesNothing
    SecondCallRefused
PROPERTY
    Terminates
