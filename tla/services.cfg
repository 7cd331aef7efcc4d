SPECIFICATION ServicesSpec

CONSTANTS
    a1 = a1
    r1 = r1
    r2 = r2
    Clients = {a1}
    Requests = {r1, r2}
    ClientOf <- MCClientOf
    Burst = 2
    Idle = 3
    Slots = {r1, r2}
    Users = {u1, u2}
    Keys = {k1, k2}
    Conns = {c1, c2, c3}
    Ids = {d1, d2}
    Clicks = {e1, e2}
    MaxDelay = 1
    MaxLimiters = 3
    MaxTime = 9
    u1 = u1
    u2 = u2
    k1 = k1
    k2 = k2
    Cleaner = Cleaner
    NoUser = NoUser
    NoKey = NoKey
    Second = 2
    TTL = 2
    MaxAge = 2
    MaxFails = 1
    c1 = c1
    c2 = c2
    c3 = c3
    d1 = d1
    d2 = d2
    e1 = e1
    e2 = e2
    NoConn = NoConn
    NoId = NoId
    MaxEnding = 1
    Handlers = {h1, h2, h3}
    h1 = h1
    h2 = h2
    h3 = h3
    NoRow = NoRow

INVARIANTS
    ServicesTypeOK
    HeldIsCurrent
    RateBounded
    PresenceAgrees
    ConnsAreListed
    LoggedOutIsCut
    AnsweredOnce
    WinsOnOwnRow

PROPERTIES
    ActsAsBucket
    SessionsStayDead
    IdleUsersLeave

CHECK_DEADLOCK FALSE
