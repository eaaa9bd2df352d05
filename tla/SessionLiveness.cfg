SPECIFICATION FairSpec
CONSTANTS
    Users = {u1}
    Tests = {t1}
    Requests = {r1}
    Workers = {w1}
    NoSession = NoSession
    MCEager = {}
    MCPlaying = {u1}
    Sweepers = {sw}
    MCStarts = 1
    Parts <- MCParts
    Sessions <- MCSessions
    UserOf <- MCUserOf
    TestOf <- MCTestOf
    PartOf <- MCPartOf
    SlotsTotal <- MCTwoSlots
    MaxJobRuns = 2
    MaxFaults = 3
ACTION_CONSTRAINT MCReduction
PROPERTY ClosedIsValidated
PROPERTY SilentCloses
