SPECIFICATION ActivationSpec
CONSTANTS
    Blocks = {"rx", "tx"}
    MaxRuns = 2
    Overlapped = TRUE
INVARIANT CallbackReleased
CHECK_DEADLOCK FALSE
