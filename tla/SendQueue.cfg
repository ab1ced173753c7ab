SPECIFICATION QueueSpec
CONSTANTS
    QueueMessages = 2
    QueueBytes = 3
    Backpressure = FALSE
    Pattern = "pub"
    StopWhileWorking = FALSE
    Sizes <- MCSizes
    MaxEnvelopes = 4
    MaxStarts = 2
    Sinks = {"a", "b"}
    Pollers = {"p", "q"}
    Setups <- MCSetups
    Attached <- MCAttached
    MaxCalls <- MCMaxCalls
    SamplesPerCall = 2
    RingSize = 2
INVARIANTS QueueBounds Conservation WireInOrder ConsumersServed
PROPERTIES FreshRuns NothingWaits NothingAfterFinished StopsReturn
