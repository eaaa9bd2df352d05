SPECIFICATION Spec
CONSTANTS
    Users = {u1}
    Tests = {t1}
    Requests = {r1, r2}
    Workers = {w1}
    NoSession = NoSession
    MCEager = {u1}
    MCPlaying = {u1}
    Sweepers = {}
    MCStarts = 1
    Parts <- MCParts
    Sessions <- MCSessions
    UserOf <- MCUserOf
    TestOf <- MCTestOf
    PartOf <- MCPartOf
    SlotsTotal <- MCTwoSlots
    MaxJobRuns = 2
    MaxFaults = 0
CHECK_DEADLOCK FALSE
PROPERTY CompletedTakesNoSlot
