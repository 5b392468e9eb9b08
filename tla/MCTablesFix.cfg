CONSTANTS
    Machines <- MCMachines
    TableLists <- MCTableLists
    Device = {}
    SmbiosFails = TRUE
    SdtFails = TRUE
    Uint8Values = 4
    MaxScan = 3
    MaxRuns = 3
SPECIFICATION FairSpec
INVARIANTS
    TypeOK
    FirmwareTablesKept
    PcctOnlyOnSingleCpu
    PcctFoundWhereverItIs
    NoDuplicateTables
    ReportsTruthful
    FailuresStayLocal
PROPERTIES
    Converges
    Terminates
