\* Three requests against the global limits, while the administrator drains, pauses and
\* resumes the system.
SPECIFICATION Spec
CONSTANTS
    a1 = a1
    a2 = a2
    k1 = k1
    k2 = k2
    i1 = i1
    i2 = i2
    i3 = i3
    NoAccount = NoAccount
    Tasks = {1, 2, 3}
    Accounts = {a1, a2}
    Keys = {k1, k2}
    KeyOf <- SecondKey
    VideoTasks = {}
    Concurrency <- Ones
    QueueCapacity <- Ones
    VideoReserved = {}
    VideoReservedSlots <- Zeros
    KeyLimit <- KeyTwos
    KeyQueueMultiplier = 1
    MaxExecuting = 1
    Idem <- OwnIdem
    Cost <- CostOnes
    InitialBalance <- Tens
    Protected <- Zeros
    MaxQueued = 2
    QueueHighWatermark = 1
    QueueResumeWatermark = 0
    UncertainAccountLimit = 1
    UncertainProviderLimit = 2
    HealthChanges = FALSE
    BalanceChanges = FALSE
    ConfigChanges = TRUE
INVARIANTS
    SystemWithinLimits
CHECK_DEADLOCK FALSE
