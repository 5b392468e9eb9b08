CONSTANT
    ModeLists <- MCModeLists
SPECIFICATION Spec
INVARIANTS
    BestModeSet
    GivesUpOnlyWithoutModes
