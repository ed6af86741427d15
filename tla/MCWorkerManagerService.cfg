SPECIFICATION Spec
CONSTANTS
    t1 = t1  t2 = t2  t3 = t3
    c1 = c1  c2 = c2  c3 = c3
    q1 = q1  q2 = q2
    b1 = b1  b2 = b2
    NoTask = NoTask
    NoConn = NoConn
    Task = {t1, t2}
    Conn = {c1, c2}
    Queue = {q1, q2}
    Bucket = {b1, b2}
    TaskQueue <- MCTwoQueues
    ConnQueues <- MCAllQueues
    BucketOf <- MCTwoBuckets
    MaxRetry <- MCRetryFirst
    InitialTasks = {}
    WebhookTasks = {}
    WebhookLosses = 0
    CancelTasks = {t2}
    QueueCap = 2
    Faults = {"drop", "write", "register", "reconnect", "lag", "convert"}
SYMMETRY MCSymmetry
CHECK_DEADLOCK FALSE
INVARIANTS TypeOK SessionAgreement SingleCustody AttemptBudget
PROPERTIES FinishedIsFinal ImplementsTaskService
