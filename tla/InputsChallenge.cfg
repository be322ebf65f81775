SPECIFICATION InputSpec
CONSTANTS
    Subjects = {"requests"}
    AddrBytes = 2
    ByteBits = 2
    V4Bytes = 1
    V4Prefix <- MCV4Prefix
    MaxLines = 2
    Settings <- MCSettings
    ConfigLine <- MCConfigLine
    SIZE_MAX = 7
    INT_MAX = 3
    CHAIN_NOT_SET = "NOT_SET"
    NoConfig = NoConfig
    MaxConfigLines = 4
    MaxLoads = 2
    Conns = {c1}
    Streams = {s1}
    Paths <- MCPaths
    Views = {63, 64, 67, 101}
    MaxRequests = 2
PROPERTY ChallengeServed
CHECK_DEADLOCK FALSE
