SPECIFICATION Spec
CONSTANTS
    one = one
    two = two
    other = other
    alien = alien
    folder = folder
    twins = twins
    bomb = bomb
    bare = bare
    dotted = dotted
    foreign = foreign
    nested = nested
    huge = huge
    broad = broad
    unnamed = unnamed
    k1 = k1
    k2 = k2
    c1 = c1
    c0 = c0
    widget = widget
    Empty = c0
    None = None
    Bundles = {one, two, other, alien, folder, twins, bomb, bare, dotted, foreign, nested, huge, broad, unnamed}
    Archive <- MCArchive
    Versions <- MCVersions
    Lower <- MCLower
    Hidden = {".git"}
    Backslashed = {}
    UiNames = {"widget.ftui"}
    LogicNames = {"plugin.wasm"}
    MaxArchive = 8
    MaxEntries = 6
    MaxEntry = 4
    MaxTotal = 12
    MaxRatio = 2
    MaxSchemaBytes = 1
    MaxSchemaDepth = 2
    Contract = contract
    Host = {widget}
    Keys = {k1}
    Configs = {c0, c1}
    MaxIds = 2
    Editors = {cli, panel}
    Commands = {"create", "configure", "start", "stop", "delete", "rollback"}
    MaxTime = 1
    MaxGen = 2
    MaxEdits = 3
    MaxChanges = 1
    MaxStarts = 3
CONSTRAINT Inputs
SYMMETRY AnyEditor
INVARIANTS
    AcceptedLoads
    ReadyIsSound
    PlanIsolates
PROPERTIES
    GenerationsGrow
    UpdatesAreKept
    RollbackAsPlanned
CHECK_DEADLOCK FALSE
