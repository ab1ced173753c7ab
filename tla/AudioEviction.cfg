SPECIFICATION AudioSpec
CONSTANTS
    Holes = {TRUE, FALSE}
    RingFrames = 2
    MaxSegments = 2
    MaxTime = 4
    MaxChunk = 2
    MaxTake = 1
    MaxOpens = 2
INVARIANT EvictionsCounted
