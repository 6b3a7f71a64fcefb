SPECIFICATION Spec
CONSTANTS
    Systems = {"debian", "redhat", "otherLinux", "macos", "windows"}
    MaxRuns = 4
    MaxFaults = 3
INVARIANTS
    TypeOK
    PairLoads
    SignsTrusted
    UninstallClean
PROPERTIES
    AuthorityKept
    ServiceReturns
CHECK_DEADLOCK FALSE
