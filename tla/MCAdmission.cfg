\* Two requests and a retry of the first race for two accounts that hold one or two tasks,
\* while balances change and tasks end, yield and are rerouted.
SPECIFICATION Spec
CONSTANTS
    a1 = a1
    a2 = a2
    k1 = k1
    k2 = k2
    i1 = i1
    i2 = i2
    i3 = i3
    NoAccount = NoAccount
    Tasks = {1, 2, 3}
    Accounts = {a1, a2}
    Keys = {k1}
    KeyOf <- OneKey
    VideoTasks = {}
    Concurrency <- Ones
    QueueCapacity <- Zeros
    VideoReserved = {}
    VideoReservedSlots <- Zeros
    KeyLimit <- KeyTwos
    KeyQueueMultiplier = 1
    MaxExecuting = 2
    Idem <- SharedIdem
    Cost <- CostOnes
    InitialBalance <- TwoAndOne
    Protected <- Zeros
    MaxQueued = 3
    QueueHighWatermark = 3
    QueueResumeWatermark = 1
    UncertainAccountLimit = 1
    UncertainProviderLimit = 2
    HealthChanges = FALSE
    BalanceChanges = TRUE
    ConfigChanges = FALSE
INVARIANTS
    TypeOK
    RetriesGetTheirTask
PROPERTIES
    AdmissionFits
CHECK_DEADLOCK FALSE
