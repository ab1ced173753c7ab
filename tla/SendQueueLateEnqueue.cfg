SPECIFICATION Spec
CONSTANTS
    QueueMessages = 2
    QueueBytes = 3
    Backpressure = FALSE
    Pattern = "pub"
    StopWhileWorking = TRUE
    Sizes = {1, 2}
    MaxEnvelopes = 2
    MaxStarts = 2
INVARIANT Conservation
