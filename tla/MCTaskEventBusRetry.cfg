SPECIFICATION FairSpec
CONSTANTS
    MaxRetry = 1
    MaxProgress = 3
    Faults = {}
INVARIANT WaitMeansFinished
CHECK_DEADLOCK FALSE
