SPECIFICATION Spec
CONSTANTS
    Users = {u1, u2}
    Tests = {t1}
    Requests = {r1, r2}
    Workers = {w1}
    NoSession = NoSession
    MCEager = {u1}
    MCPlaying = {u1}
    Sweepers = {}
    MCStarts = 2
    Parts <- MCParts
    Sessions <- MCSessions
    UserOf <- MCUserOf
    TestOf <- MCTestOf
    PartOf <- MCPartOf
    PartId <- MCPartId
    SlotsTotal <- MCTwoSlots
    MaxJobRuns = 2
    MaxFaults = 0
SYMMETRY Symmetry
CHECK_DEADLOCK FALSE
ACTION_CONSTRAINT MCReduction
INVARIANT SlotsCountRows
INVARIANT OneSessionPerParticipation
INVARIANT RewardedExactlyOnce
INVARIANT PlayerScreensAgree
PROPERTY ImplementsLedger
