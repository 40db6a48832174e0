SPECIFICATION Spec
CONSTANTS
    r1 = r1  r2 = r2  r3 = r3
    u1 = u1  u2 = u2  h1 = h1  h2 = h2
    t0 = t0  t1 = t1
    Empty = Empty
    Req <- Req3
    User <- MCUser
    Host <- MCHost
    Token <- MCToken
    Stored <- MCStored
    SerialAuth = TRUE
CHECK_DEADLOCK FALSE
SYMMETRY Symmetry
INVARIANTS
    TypeOK
    SessionPublished
    RequestsCoherent
PROPERTIES
    ClearsInvalidToken
    ImplementsSession
