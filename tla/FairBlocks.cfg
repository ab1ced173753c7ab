SPECIFICATION FairBlocksSpec
CONSTANTS
    Sizes = {1, 3, 4}
    MaxMessageBytes = 3
    QueueMessages = 2
    QueueBytes = 2
    PlaneSize = 1
    MaxNumbered = 3
    MaxSinkRuns = 2
    MaxSourceRuns = 2
    MaxSamples = 3
    ChunkSize = 2
    StagingSize = 3
    MaxUnderflow = 2
    StallBudget = 2
    MaxRuns = 2
    Tapered = TRUE
    Blocks = {"rx", "tx"}
    Overlapped = FALSE
    Readers = {"r"}
    Cells = {"v", "w", "count"}
    MaxPublications = 3
    DeviceSamples = 1
    MaxChanges = 2
    Negotiates <- MCNegotiates
    StagingSamples = 2
    MaxStaged = 2
INVARIANTS MessagesTrue BurstsTrue AudioSinkTrue
PROPERTIES DeviceTrue ImplementsRegister ThreadsGoOn SourceLives
CHECK_DEADLOCK FALSE
