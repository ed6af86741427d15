SPECIFICATION FairSpec
CONSTANTS
    MaxRetry = 1
    MaxProgress = 3
    Faults = {"leave", "db"}
INVARIANTS TypeOK StreamIsPrefix WaitMeansSettled
PROPERTIES WaiterIsAnswered SleeperIsWoken TopicIsReleased
CHECK_DEADLOCK FALSE
