SPECIFICATION FairSpec
CONSTANTS
    t1 = t1  t2 = t2
    Task = {t1}
    MaxRetry <- MCRetryFirst
    WebhookTasks = {t1}
    MaxMishaps = 2
    Faults = {"crash", "db", "webhook", "late"}
INVARIANTS TypeOK UnfinishedIsHeld
PROPERTIES FinishedSurvivesRestart ResultLossIsBlamed EveryTaskSettles
CHECK_DEADLOCK FALSE
