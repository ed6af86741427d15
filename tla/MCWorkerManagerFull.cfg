SPECIFICATION FairSpec
CONSTANTS
    t1 = t1  t2 = t2  t3 = t3
    c1 = c1  c2 = c2  c3 = c3
    q1 = q1  q2 = q2
    b1 = b1  b2 = b2
    NoTask = NoTask
    NoConn = NoConn
    Task = {t1, t2, t3}
    Conn = {c1}
    Queue = {q1}
    Bucket = {b1}
    TaskQueue <- MCOneQueue
    ConnQueues <- MCAllQueues
    BucketOf <- MCOneBucket
    MaxRetry <- MCNoRetry
    InitialTasks = {}
    WebhookTasks = {}
    WebhookLosses = 0
    CancelTasks = {}
    QueueCap = 1
    Faults = {}

PROPERTY RequeueReturns
CHECK_DEADLOCK FALSE
