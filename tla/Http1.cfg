CONSTANTS
    Requests <- MCRequests
    MaxChunk = 3
    Pipelines = TRUE
    READ_TIMEOUT_SEC = 3
    THROUGHPUT_CHECK_INTERVAL_SEC = 2
    MIN_BYTES_PER_CHECK = 2
    MAX_REQUEST_TIME_SEC = 4
    max_buffer_size = 6
    MaxBuffered = 7
    MaxTime = 9
    MaxRequests = 1
SPECIFICATION Http1Spec
INVARIANT RequestBounded
PROPERTIES HeaderKillJustified CompleteIsAnswered
CHECK_DEADLOCK FALSE
