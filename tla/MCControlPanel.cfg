SPECIFICATION FairPanelSpec
CONSTANTS
    j = j
    k = k
    none = none
    MaxIds = 1
    Editors = {panel, cli}
    Panel = panel
    Commands = {"create", "configure", "start", "stop", "delete", "rollback"}
    Configs <- MCConfigs
    Versions = {1, 2}
    MaxTime = 0
    MaxGen = 1
    MaxEdits = 2
    None = None
    Keys = {j, k}
    Values <- MCValues
    MaxInteger = 2
    MaxExact = 1
    Nearest <- MCNearest
    EmptyString <- MCEmptyString
    Fits <- MCFits
    SchemaOf <- MCSchemaOf
    NoSchema = NoSchema
    CommandQueue = 1
    SnapshotQueue = 1
    MaxMishaps = 1
    MaxInputs = 3
    Root = Root
    Malformed = Malformed
CONSTRAINT Interference
INVARIANTS
    SavesOwnForm
    UneditedSaveKeeps
PROPERTIES
    ShownCatchesUp
CHECK_DEADLOCK FALSE
