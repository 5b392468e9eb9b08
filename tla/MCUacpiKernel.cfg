SPECIFICATION Spec
CONSTANTS
    Slots = {1, 2}
    ConfigTables <- MCConfigTables
    CNTFRQ = 3
    NS = 10
    WIDTH = 7
    MaxTicks = 14
    MaxArenas = 3
INVARIANTS
    NoArenaLost
    HeapOutlivesPointers
PROPERTY
    ClockMonotone
