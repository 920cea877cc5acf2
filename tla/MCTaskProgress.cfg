\* An image and a video task compete for one execution of a video_reserved account that
\* keeps one of its two slots; faults hit the first attempts; no deadline ends a task.
SPECIFICATION FairSpec
CONSTANTS
    a1 = a1
    a2 = a2
    k1 = k1
    k2 = k2
    w1 = w1
    w2 = w2
    NoAccount = NoAccount
    Tasks = {1, 2}
    Accounts = {a1}
    Keys = {k1}
    KeyOf <- OneKey
    VideoTasks = {2}
    Concurrency <- Twos
    QueueCapacity <- Ones
    VideoReserved = {a1}
    VideoReservedSlots <- Ones
    KeyLimit <- KeyTwos
    KeyQueueMultiplier = 1
    MaxExecuting = 1
    Workers = {w1}
    Events = {"error", "lease", "aging"}
    QueueDeadlines = FALSE
    UpstreamDeadlines = FALSE
    MaxAttempts = 2
    MaxRecovery = 1
    FaultAttempts = 2
INVARIANTS
    IdleAccountServesQueue
PROPERTIES
    EventuallySettled
CHECK_DEADLOCK FALSE
