\* Two queued tasks reach the high watermark; the third request is refused.
SPECIFICATION Spec
CONSTANTS
    a1 = a1
    a2 = a2
    k1 = k1
    k2 = k2
    i1 = i1
    i2 = i2
    i3 = i3
    NoAccount = NoAccount
    Tasks = {1, 2, 3}
    Accounts = {a1}
    Keys = {k1}
    KeyOf <- OneKey
    VideoTasks = {}
    Concurrency <- Ones
    QueueCapacity <- Twos
    VideoReserved = {}
    VideoReservedSlots <- Zeros
    KeyLimit <- KeyTwos
    KeyQueueMultiplier = 1
    MaxExecuting = 1
    Idem <- OwnIdem
    Cost <- CostOnes
    InitialBalance <- Tens
    Protected <- Zeros
    MaxQueued = 2
    QueueHighWatermark = 2
    QueueResumeWatermark = 1
    UncertainAccountLimit = 1
    UncertainProviderLimit = 2
    HealthChanges = FALSE
    BalanceChanges = FALSE
    ConfigChanges = FALSE
PROPERTIES
    OverloadLasts
CHECK_DEADLOCK FALSE
