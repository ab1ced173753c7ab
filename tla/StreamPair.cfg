SPECIFICATION PairSpec
CONSTANTS
    MaxStarts = 1
    Failures = FALSE
    QueueMessages = 2
    QueueBytes = 4
    MaxRoom = 2
    Lens <- MCLens
    Rates <- OneRate
    TaggedAt <- OneTag
    NoteOnEmpty = FALSE
    SizeModulus = 100
    CarriedGaps = FALSE
    MaxPackets = 3
    MaxEpochs = 2
    LinkSamples = 3
    LinkTags <- OneTag
    LinkRates <- NoRates
    LinkMinimum = 2
    LinkItems = 2
    LinkMessageBytes = 3
    LinkRate = 1
    LinkMessages = 1
    LinkBytes = 3
    LinkRefuses = FALSE
    LinkPattern = "pub"
    LinkStalls = 1
    LinkEnvelopes = 4
    FarMessages = 1
    FarBytes = 3
    FarRoom = 1
INVARIANTS SamplesComeThrough QueueBounds GapsAnnounced SamplesAccounted TagsInPlace ErrorOnlyWhenDry RateStated
PROPERTIES KeepsTheirPromise QuietAfterStop
