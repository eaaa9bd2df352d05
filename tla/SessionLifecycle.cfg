SPECIFICATION Spec
CONSTANTS
    Users = {u1}
    Tests = {t1}
    Requests = {r1, r2}
    Workers = {w1, w2}
    NoSession = NoSession
    MCEager = {}
    MCPlaying = {u1}
    Sweepers = {sw}
    MCStarts = 1
    Parts <- MCParts
    Sessions <- MCSessions
    UserOf <- MCUserOf
    TestOf <- MCTestOf
    PartOf <- MCPartOf
    PartId <- MCPartId
    SlotsTotal <- MCTwoSlots
    MaxJobRuns = 2
    MaxFaults = 1
SYMMETRY Symmetry
ACTION_CONSTRAINT MCReduction
INVARIANT StatusesAgree
INVARIANT ParticipationReadsAlike
PROPERTY OutcomesStay
