SPECIFICATION MCSpec
CONSTANTS
    Requests = {r1, r2}
    Members = {m1, m2, m3}
    Founder = m1
    Keys = {"c1", "c2", "s1"}
    KindOf <- MCKindOf
    Unique = {"cover"}
    MaxRows = 3
    Groups = {g}
    Users = {u}
    Games = {1, 2, 3}
    Statuses = {"draft", "active"}
    Limit = 2
    FeedMaxItems = 3
SYMMETRY MCSymmetry
ACTION_CONSTRAINT MCFewMembers
ACTION_CONSTRAINT MCFewUploads
ACTION_CONSTRAINT MCGamesInOrder
CHECK_DEADLOCK FALSE
PROPERTY OwnerSurvivesCount
INVARIANT RowHasObject
INVARIANT ShownIsLatest
INVARIANT AccessIsOneList
INVARIANT FeedShowsEachOnce
