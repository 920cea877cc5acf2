\* Two queued tasks of an account with one execution slot are claimed at the same time.
SPECIFICATION Spec
CONSTANTS
    a1 = a1
    a2 = a2
    k1 = k1
    k2 = k2
    i1 = i1
    i2 = i2
    i3 = i3
    NoAccount = NoAccount
    Tasks = {1, 2}
    Accounts = {a1}
    Keys = {k1}
    KeyOf <- OneKey
    VideoTasks = {}
    Concurrency <- Ones
    QueueCapacity <- Ones
    VideoReserved = {}
    VideoReservedSlots <- Zeros
    KeyLimit <- KeyTwos
    KeyQueueMultiplier = 1
    MaxExecuting = 2
    Idem <- OwnIdem
    Cost <- CostOnes
    InitialBalance <- Tens
    Protected <- Zeros
    MaxQueued = 3
    QueueHighWatermark = 3
    QueueResumeWatermark = 1
    UncertainAccountLimit = 1
    UncertainProviderLimit = 2
    HealthChanges = FALSE
    BalanceChanges = FALSE
    ConfigChanges = FALSE
INVARIANTS
    ExecutingWithinConcurrency
CHECK_DEADLOCK FALSE
