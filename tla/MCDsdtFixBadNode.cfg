CONSTANTS
    MAX_SOCKET = 2
    MAX_CHANNEL = 2
    MAX_DIMM = 2
    Device <- MCDevice
    Path <- MCPath
    Namespaces <- MCNamespaces
    HobEnvs <- MCHobEnvs
    AllocFails = FALSE
    UacpiFails = TRUE
    MaxRuns = 1
    Kinds0 = {"at00"}
    Kinds1 = {"plain"}
SPECIFICATION Spec
INVARIANT
    BadNodeSkipped
