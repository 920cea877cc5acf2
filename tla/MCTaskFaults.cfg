\* One task, two goroutines, two accounts, every fault and event of one task.
SPECIFICATION Spec
CONSTANTS
    a1 = a1
    a2 = a2
    k1 = k1
    k2 = k2
    w1 = w1
    w2 = w2
    NoAccount = NoAccount
    Tasks = {1}
    Accounts = {a1, a2}
    Keys = {k1}
    KeyOf <- OneKey
    VideoTasks = {}
    Concurrency <- Ones
    QueueCapacity <- Ones
    VideoReserved = {}
    VideoReservedSlots <- Zeros
    KeyLimit <- KeyOnes
    KeyQueueMultiplier = 1
    MaxExecuting = 1
    Workers = {w1, w2}
    Events = {"reject", "upload", "retry", "circuit", "enqueue", "stall", "error", "crash",
              "lease", "admin", "reservation", "health"}
    QueueDeadlines = TRUE
    UpstreamDeadlines = TRUE
    MaxAttempts = 2
    MaxRecovery = 1
    FaultAttempts = 3
SYMMETRY WorkerSymmetry
INVARIANTS
    TypeOK
    AtMostOneSubmission
    CreditsFollowGeneration
    SettledWithTask
    NoLostTask
PROPERTIES
    OnlyLeaseHolderWrites
    ImplementsPaidTask
CHECK_DEADLOCK FALSE
