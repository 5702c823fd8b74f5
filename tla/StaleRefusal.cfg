SPECIFICATION Spec
CONSTANTS
    home = home
    other = other
    t1 = t1
    t2 = t2
    Workspace = {home, other}
    NoWorkspace = NoWorkspace
    Token = {t1, t2}
    NoToken = NoToken
    TeamsOf <- SameAccount
    Pinned = home
    InitialToken = t1
    Call = {c1}
    Admin = {a1}
    Budget <- RevokedOnce
PROPERTIES
    ReconnectedIsSpared
CHECK_DEADLOCK FALSE
