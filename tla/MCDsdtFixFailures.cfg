CONSTANTS
    MAX_SOCKET = 2
    MAX_CHANNEL = 2
    MAX_DIMM = 2
    Device <- MCDevice
    Path <- MCPath
    Namespaces <- MCNamespaces
    HobEnvs <- MCHobEnvs
    AllocFails = TRUE
    UacpiFails = TRUE
    MaxRuns = 2
    Kinds0 = {"at00", "noaddr"}
    Kinds1 = {"plain", "at11"}
SPECIFICATION Spec
INVARIANTS
    TypeOK
    DisablesOnlyOffline
    HidOnlyOnce
    CompleteFix
    ResourcesReleased
PROPERTY
    KeepsContract
