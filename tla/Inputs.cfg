SPECIFICATION InputSpec
CONSTANTS
    Subjects = {"lists", "config", "requests"}
    AddrBytes = 2
    ByteBits = 2
    V4Bytes = 1
    V4Prefix <- MCV4Prefix
    MaxLines = 2
    Settings <- MCSettings
    ConfigLine <- MCConfigLine
    SIZE_MAX = 7
    INT_MAX = 3
    CHAIN_NOT_SET = "NOT_SET"
    NoConfig = NoConfig
    MaxConfigLines = 4
    MaxLoads = 2
    Conns = {c1}
    Streams = {s1}
    Paths <- MCPaths
    Views = {63, 64, 67, 101}
    MaxRequests = 2
INVARIANTS
    ContainsListed
    VerdictSound
    LoadedAsWritten
    UsableInForce
    RefusalJustified
    OneVerdict
    CountedOnce
    CountedAsSent
CHECK_DEADLOCK FALSE
