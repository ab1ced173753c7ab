SPECIFICATION Spec
CONSTANTS
    MaxStarts = 1
    Failures = FALSE
    QueueMessages = 2
    QueueBytes = 4
    MaxRoom = 2
    Lens <- OneSample
    Rates <- OneRate
    TaggedAt <- EverySample
    NoteOnEmpty = FALSE
    SizeModulus = 100
    CarriedGaps = TRUE
    MaxPackets = 3
    MaxEpochs = 1
INVARIANT GapsAnnounced
