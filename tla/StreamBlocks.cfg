SPECIFICATION StreamBlocksSpec
CONSTANTS
    RingFrames = 2
    MaxSegments = 2
    MaxSamples = 7
    TagAt <- MCTags
    RateAt <- MCRates
    PortMinimum = 1
    MaxItems = 2
    MaxMessageBytes = 3
    SinkQueueBytes = 10
    StatedRate = 5
    MayRefuse = TRUE
    MaxStalls = 3
    MaxSinkStarts = 2
    Refused = {"long", "empty"}
    Unreadable = {"mixed"}
    MaxPieces = 2
    MaxPeers = 2
    MaxRead = 3
    QueueDepth = 2
    IdleTicks = 1
    BodyTicks = 2
    MaxStarts = 2
    Failures = TRUE
    SampleBytes = 2
    QueueBytes = 5
    MaxReceived = 4
    MaxPayload = 3
    MaxLink = 1
    MaxSpan = 1
    MaxPolled = 6
    MaxChunk = 3
    RingSize = 3
    TagRingSize = 2
    MinRequired = 1
    MaxRequired = 2
    MaxChanges = 1
    MaxWindowed = 7
    PreSamples = 2
    PostSamples = 2
    MaxWindow = 3
    Delays = {0, 2}
    Ports = {"a", "b"}
    Events = {10, 20}
    MaxStream = 4
    MaxRoom = 3
    MaxHistory = 2
    Tolerance = 2
    MaxTime = 5
    MaxCaptured = 2
    MaxOutput = 1
    Holes = {TRUE, FALSE}
    MaxOpens = 2
    ShortTime = 3
INVARIANTS SinkSound PositionsTrue SamplesConserved TagsCarriedOnce
INVARIANTS ReaderTrue SlotIsBounded ConsumersTrue CaptureTrue SyncTrue StreamSourceTrue
PROPERTIES RingIsFifo
CHECK_DEADLOCK FALSE
