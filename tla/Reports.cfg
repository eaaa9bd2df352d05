SPECIFICATION MCSpec
CONSTANTS
    Sessions = {s1}
    Writers = {w1, w2}
    Readers = {d1}
    NoSession = NoSession
    Ttl <- MCTtl
    FillTime = 1
    MaxClock = 3
    MaxRows = 3
    MaxLimit = 2
    Users = {"u1", "u2"}
    Games = {"g1", "g2"}
    Tests = {"t1", "t2", "t3"}
    Parts = {1, 2, 3}
    Published = {"t1"}
    SinceDay = 10
    Questions = {"scale", "nps", "pick"}
    MaxRating = 3
    NoDay <- MCNoDay
    Days <- MCDays
    UserOf <- MCUserOf
    TestOf <- MCTestOf
    GameOf <- MCGameOf
    StartDay <- MCStartDay
    Profile <- MCProfile
    QuestionsOf <- MCQuestionsOf
    QuestionOf <- MCQuestionOf
    Forms <- MCForms
CHECK_DEADLOCK FALSE
SYMMETRY MCSymmetry
ACTION_CONSTRAINT MCFewFills
ACTION_CONSTRAINT MCJudgedAtFirst
ACTION_CONSTRAINT MCFewRows
INVARIANT StalenessBounded
INVARIANT StaleForCause
INVARIANT RatingAgrees
PROPERTY RejectionStays
INVARIANT BlocksAddUp
INVARIANT HomeAgrees
INVARIANT WalkSeesEachOnce
