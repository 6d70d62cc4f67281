SPECIFICATION MigrationsSpec
CONSTANTS
    Openers = {shell, cli}
    SchemaVersion = 8
    Alters = {2}
    Found = {0}
    MaxOpens = 2
PROPERTIES
    VersionNeverFalls
CHECK_DEADLOCK FALSE
