SPECIFICATION FairSpec
CONSTANTS
    MaxIds = 1
    Editors = {editor}
    Commands = {"create", "configure", "start", "stop", "delete"}
    Configs = {c1, c2}
    Versions = {only}
    MaxTime = 0
    MaxGen = 3
    MaxEdits = 3
    QueueCap = 2
    CommandCap = 1
    MaxRetries = 1
    None = None
INVARIANTS
    SessionsMatch
    PlansMatch
PROPERTIES
    Settles
CHECK_DEADLOCK FALSE
