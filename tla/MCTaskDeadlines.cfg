\* One task, every fault and event: deadlines and leases end it.
SPECIFICATION FairSpec
CONSTANTS
    a1 = a1
    a2 = a2
    k1 = k1
    k2 = k2
    w1 = w1
    w2 = w2
    NoAccount = NoAccount
    Tasks = {1}
    Accounts = {a1}
    Keys = {k1}
    KeyOf <- OneKey
    VideoTasks = {}
    Concurrency <- Ones
    QueueCapacity <- Ones
    VideoReserved = {}
    VideoReservedSlots <- Zeros
    KeyLimit <- KeyOnes
    KeyQueueMultiplier = 1
    MaxExecuting = 1
    Workers = {w1}
    Events = {"reject", "retry", "crash", "error", "lease", "enqueue", "health", "pause",
              "rule"}
    QueueDeadlines = TRUE
    UpstreamDeadlines = TRUE
    MaxAttempts = 2
    MaxRecovery = 1
    FaultAttempts = 3
PROPERTIES
    EventuallySettled
CHECK_DEADLOCK FALSE
