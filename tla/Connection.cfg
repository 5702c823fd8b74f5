SPECIFICATION FairSpec
CONSTANTS
    home = home
    other = other
    t1 = t1
    t2 = t2
    Workspace = {home, other}
    NoWorkspace = NoWorkspace
    Token = {t1, t2}
    NoToken = NoToken
    TeamsOf <- BothAndOther
    Pinned = home
    InitialToken = t1
    Call = {c1}
    Admin = {a1, a2}
    Budget <- Everything
INVARIANTS
    TypeOK
    TokenFitsWorkspace
PROPERTIES
    MarkedOnlyAfterRefusal
    RevocationSurfaces
CHECK_DEADLOCK FALSE
