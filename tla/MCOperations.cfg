SPECIFICATION FairSpec
CONSTANTS
    MaxOps = 2
    Capabilities = {storage, custom}
    Asks <- StorageThenCustom
    Granted = {storage, custom}
    Notifiable = {storage}
    QueueCapacity = 1
    CompletionCapacity = 1
    MaxInFlight = 1
    MaxRetained = 1
    CmdCapacity = 1
    storage = storage
    custom = custom
INVARIANTS
    RegistryConsistent
    ResultsReachable
    NoLostWakeup
PROPERTIES
    KeepsPromise
    TasksFinish
CHECK_DEADLOCK FALSE
