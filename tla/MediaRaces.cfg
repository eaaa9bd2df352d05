SPECIFICATION Spec
CONSTANTS
    Keys = {k1}
    MCRows = 2
    Recs <- MCRecs
    KeyOf <- MCKeyOf
    Files = {"video", "huge"}
    Requests = {r1, r2}
    Workers = {w1}
    NoRec = NoRec
    MaxJobRuns = 1
    MaxFaults = 0
SYMMETRY Symmetry
ACTION_CONSTRAINT MCRaces
INVARIANT ObjectsMatchRows
