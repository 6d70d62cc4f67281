SPECIFICATION DocumentSpec
CONSTANTS
    MaxStateDepth = 3
    Unlimited = Unlimited
    Conforms <- validate_value
    ShallowSchema <- check_schema_depth
    Resolve <- resolve
    At <- value_at
    MergePatch <- merge_patch
    Weight <- weight
    Walk <- validate_component
    MaxIrBytes = 1
    MaxNodes = 12
    MaxTreeDepth = 6
    MaxBindings = 3
    MaxEventDecls = 1
    MaxAssetRefs = 1
    MaxListItems = 2
    MaxChartPoints = 2
    Words <- MCWords
    Docs <- MCDocs
    Patches <- MCPatches
    MaxPatch = 12
    MaxState = 25
    UpdateRate = 2
    UpdateCapacity = 1
    UiMinor = 6
    DerivedMaxLength = 2
    DerivedMaxItems = 2
INVARIANTS
    ProjectsEveryState
    ShownIsLatest
PROPERTIES
    PatchesByPath
CHECK_DEADLOCK FALSE
