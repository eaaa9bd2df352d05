SPECIFICATION FairSpec
CONSTANTS
    Keys = {k1}
    MCRows = 1
    Recs <- MCRecs
    KeyOf <- MCKeyOf
    Files = {"video", "junk"}
    Requests = {r1}
    Workers = {w1, w2}
    NoRec = NoRec
    MaxJobRuns = 2
    MaxFaults = 2
ACTION_CONSTRAINT MCSettles
PROPERTY RecordingSettles
INVARIANT FailsForCause
