SPECIFICATION Spec
CONSTANTS
    MaxConns = 1
    Instances = {inst}
    Refs = {ra, rb}
    Requests = {balance, usage}
    Probed = {"revoked"}
    Cached = {balance}
    Lenient = {usage}
    MaxRetries = 1
    RateMax = 1
    MaxGen = 1
    MaxTime = 1
    MaxOps = 2
    MaxEdits = 4
    None = None
INVARIANTS
    CompositionIsSound
    AnswersOwnRequest
PROPERTIES
    NeverRegresses
CHECK_DEADLOCK FALSE
