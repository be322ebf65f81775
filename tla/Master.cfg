SPECIFICATION FairSpec
CONSTANTS
    NumWorkers = 2
    MaxReloads = 1
    MaxCrashes = 2
    MaxForkFailures = 1
INVARIANTS
    PidsAreChildren
    UntrackedDrains
    CurrentConfig
    NoneServesAfterStop
PROPERTIES
    ShutdownCompletes
    CrashRepaired
