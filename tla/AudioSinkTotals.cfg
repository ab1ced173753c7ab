SPECIFICATION AudioSinkSpec
CONSTANTS
    DeviceSamples = 1
    MaxChanges = 2
    MaxSinkRuns = 2
    Negotiates <- MCNegotiates
    StagingSamples = 2
    MaxStaged = 2
INVARIANT TotalsAccounted
CHECK_DEADLOCK FALSE
