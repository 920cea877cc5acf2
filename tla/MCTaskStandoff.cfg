\* A video_reserved account whose slots are all kept for video (concurrency 1, slots 1).
SPECIFICATION Spec
CONSTANTS
    a1 = a1
    a2 = a2
    k1 = k1
    k2 = k2
    w1 = w1
    w2 = w2
    NoAccount = NoAccount
    Tasks = {1, 2}
    Accounts = {a1}
    Keys = {k1}
    KeyOf <- OneKey
    VideoTasks = {2}
    Concurrency <- Ones
    QueueCapacity <- Ones
    VideoReserved = {a1}
    VideoReservedSlots <- Ones
    KeyLimit <- KeyTwos
    KeyQueueMultiplier = 1
    MaxExecuting = 1
    Workers = {w1}
    Events = {"aging"}
    QueueDeadlines = TRUE
    UpstreamDeadlines = FALSE
    MaxAttempts = 1
    MaxRecovery = 1
    FaultAttempts = 2
INVARIANTS
    IdleAccountServesQueue
CHECK_DEADLOCK FALSE
