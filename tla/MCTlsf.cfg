SPECIFICATION Spec
CONSTANTS
    ALIGN_SIZE_LOG2 = 3
    SL_INDEX_COUNT_LOG2 = 2
    FL_INDEX_MAX = 8
    SIZE_WIDTH = 10
    ARENA = 8
    Bytes = 224
    Extra <- MCExtra
    Sizes = {0, 1, 64, 72, 1016}
    Aligns = {32}
    Garbage = {0, 7}
    Data = 7
    MaxHeld = 3
INVARIANTS
    HeapSound
    RefusesOnlyWhenFull
PROPERTY ImplementsHeap
