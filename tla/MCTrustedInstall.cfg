SPECIFICATION FairSpec
CONSTANTS
    v1 = v1
    v1b = v1b
    v2 = v2
    Procs = {p1}
    Packages = {v1, v1b, v2}
    VersionOf <- MCVersionOf
    Modes = {"trusted", "unsigned"}
    MaxTx = 3
    MaxCrashes = 3
    None = None
INVARIANTS
    DirectoriesConsistent
    MarkIsSound
PROPERTIES
    WatermarkRises
    JournalDrains
CHECK_DEADLOCK FALSE
