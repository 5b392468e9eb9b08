CONSTANTS
    MAX_SOCKET = 2
    MAX_CHANNEL = 2
    MAX_DIMM = 2
    Device <- MCDevice
    Path <- MCPath
    Namespaces <- MCNamespaces
    HobEnvs <- MCHobEnvs
    AllocFails = FALSE
    UacpiFails = FALSE
    MaxRuns = 3
    Kinds0 = {"at00", "at01", "zero", "nonzero", "crserr", "noaddr"}
    Kinds1 = {"plain", "bare", "at11", "staerr"}
SPECIFICATION FairSpec
INVARIANTS
    HidUnique
    OneSsdtPerBoot
PROPERTY
    Terminates
