SPECIFICATION Spec
CONSTANTS
    IP = {ip1, ip2, ip3}
    MaxEntries = 2
    EntryTTL = 1
    TicksPerSecond = 2
    Token = 2
    Rate = 1
    ConfiguredBurst = 3
    CleanupInterval = 2
    Epoch = 1000
    MaxTime = 6
    MaxSpent = 6
PROPERTY
    ExpireOnlyIdle
