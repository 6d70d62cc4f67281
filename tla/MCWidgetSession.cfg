SPECIFICATION FairSpec
CONSTANTS
    Values = {0}
    CommandCap = 1
    UpdateCap = 1
    EventCap = 1
    EventBatch = 1
    MaxActive = 1
    MaxPerWindow = 1
    MaxRate = 1
    MaxTimers = 1
    MaxUpdates = 2
    MaxCompletions = 1
CONSTRAINT Inputs
INVARIANTS
    SessionConsistent
    CancelledInTimeIsSilent
PROPERTIES
    KeepsLifecycle
    EveryoneIsAnswered
    AcknowledgedIsShown
CHECK_DEADLOCK FALSE
