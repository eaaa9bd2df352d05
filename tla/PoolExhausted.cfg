SPECIFICATION AwaitsReturn
CONSTANTS
    Requests = {r1, r2}
    Builds = {b1}
    Workers = {w1}
    Quantities = {1}
    PoolSize = 2
    MalwareScanBypass = TRUE
    NoOne = NoOne
    NoBuild = NoBuild
    MaxJobRuns = 1
    MaxFaults = 0
    MCRacer = r2
CHECK_DEADLOCK FALSE
PROPERTY LockIsReleased
