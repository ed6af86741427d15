SPECIFICATION FairSpec
CONSTANTS
    t1 = t1  t2 = t2  t3 = t3
    c1 = c1  c2 = c2  c3 = c3
    q1 = q1  q2 = q2
    b1 = b1  b2 = b2
    NoTask = NoTask
    NoConn = NoConn
    Task = {t1, t2}
    Conn = {c1, c2}
    Queue = {q1, q2}
    Bucket = {b1, b2}
    TaskQueue <- MCTwoQueues
    ConnQueues <- MCAllQueues
    BucketOf <- MCTwoBuckets
    MaxRetry <- MCRetryFirst
    InitialTasks = {t1}
    WebhookTasks = {t1}
    WebhookLosses = 1
    CancelTasks = {}
    QueueCap = 2
    Faults = {"webhook"}

PROPERTY EveryTaskFinishes
CHECK_DEADLOCK FALSE
