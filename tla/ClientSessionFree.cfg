SPECIFICATION FairSpec
CONSTANTS
    r1 = r1  r2 = r2  r3 = r3
    u1 = u1  u2 = u2  h1 = h1  h2 = h2
    t0 = t0  t1 = t1
    Empty = Empty
    Req <- Req2
    User <- OneUser
    Host <- OneHost
    Token <- MCToken
    Stored <- MCStored
    SerialAuth = FALSE
CHECK_DEADLOCK FALSE
INVARIANT
    NoStaleSession
PROPERTIES
    NoStaleToken
    RequestsComplete
    CloseReturns
