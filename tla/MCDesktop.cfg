SPECIFICATION Spec
CONSTANTS
    Host = "host"
    Openers = {"host"}
    SchemaVersion = 3
    Alters = {2}
    Found = {0, 4}
    MaxOpens = 2
    Platforms = {"windows", "x11", "wayland"}
    Topologies <- MCTopologies
    Positions <- MCPositions
    MinWidth = 1
    MaxWidth = 2
    Width = 2
    Candidates = 1
    MaxRetries = 2
    MaxMoves = 2
    MaxInputs = 2
    MaxMishaps = 1
    None = None
INVARIANTS
    OpensUnlessNewer
    ClickThroughHasWayBack
    Settled
PROPERTIES
    RestoredOnMonitor
CHECK_DEADLOCK FALSE
