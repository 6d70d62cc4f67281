SPECIFICATION Spec
CONSTANTS
    a = a
    b = b
    ill = ill
    acme = acme
    other = other
    Packages <- MCPackages
    Versions = {1, 2, 3}
    Instances = {i1}
    Names = {a, b}
    Default <- MCDefault
    Least <- MCLeast
    Most <- MCMost
    MaxOrigins = 2
    OriginOf <- MCOriginOf
    Sizes = {1, 2}
    MaxInstalls = 3
    Omitted = Omitted
    NoParams = NoParams
    Invalid = Invalid
INVARIANTS
    AllowedWasApproved
    AdmittedRuns
    QuotaHolds
PROPERTIES
    RollbackNarrows
CHECK_DEADLOCK FALSE
