SPECIFICATION FairSpec
CONSTANTS
    NumWorkers = 1
    MaxReloads = 1
    MaxCrashes = 0
    MaxForkFailures = 0
PROPERTIES
    OldWorkersEnd
