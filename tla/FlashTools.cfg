CONSTANTS
    HEAD = 12189696
    BUF = 1048576
    Sizes = {0, 12189695, 12189696, 12189701, 13238270, 13238272, 13238273, 16777216}
    OtherWriter = TRUE
    MaxRuns = 3
    FLASH = 16777216
    CHUNK = 2097152
    MaxDumps = 2
SPECIFICATION ToolsSpec
INVARIANTS
    SuccessMeansComplete
    ImageOfFlash
PROPERTIES
    NeverOverwrites
    Terminates
