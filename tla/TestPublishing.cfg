SPECIFICATION FairSpec
CONSTANTS
    Requests = {r1, r2}
    Builds = {b1}
    Workers = {w1}
    Quantities = {1}
    PoolSize = 3
    MalwareScanBypass = TRUE
    NoOne = NoOne
    NoBuild = NoBuild
    MaxJobRuns = 1
    MaxFaults = 1
    MCRacer = r2
CHECK_DEADLOCK FALSE
ACTION_CONSTRAINT MCRoles
ACTION_CONSTRAINT MCFewContents
INVARIANT PublishedIsComplete
PROPERTY PublishedIsFinal
PROPERTY ProcessingSettlesOrRan
