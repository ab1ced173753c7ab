SPECIFICATION MCTcpSpec
CONSTANTS
    SourceByte <- MCBytes
    MaxFaults = 1
    WireBytes = 1
    MaxBytes = 2
    SinkRingBytes = 1
    MaxSinkSpan = 2
    SourceRingBytes = 2
    IdlePolls = 1
    MaxSourceSpan = 1
INVARIANTS DeliveredInOrder
PROPERTIES BytesAccounted StopsReturn PairReconnects
CHECK_DEADLOCK FALSE
