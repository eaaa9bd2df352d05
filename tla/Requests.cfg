SPECIFICATION MCSpec
CONSTANTS
    Users = {u1}
    Passwords = {p1, p2}
    Requests = {r1, r2, r3}
    FirstPassword = p1
    MCFamilies = 1
    MCChain = 3
    MCLinks = 2
    Families <- MCFamilySet
    Tokens <- MCTokens
    Links <- MCLinkSet
    UserOf <- MCUserOf
    FamilyOf <- MCFamilyOf
    LinkFor <- MCLinkFor
    Handlers = {h1, h2}
    Clients = {"t1", "t2"}
    SocketUser <- MCSocketUser
    Messages = {"hello"}
    Unknown = Unknown
    MaxCount = 3
SYMMETRY MCSymmetry
ACTION_CONSTRAINT MCIdsInOrder
ACTION_CONSTRAINT MCFewRounds
INVARIANT OneLivePerFamily
INVARIANT InvitedStaysOut
PROPERTY EndedStays
PROPERTY LinkWorksOnce
INVARIANT RoomAgrees
INVARIANT PresenceAgrees
INVARIANT LimitRunsOut
