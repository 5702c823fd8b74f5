SPECIFICATION Spec
CONSTANTS
    i1 = i1
    i2 = i2
    acme = acme
    lobby = lobby
    Client = {c1}
    Site = {s1, s2}
    Feedback = {v1}
    None = None
    ClientId = {acme}
    Name = {lobby}
    Admin = {a1}
    Import = {i1, i2}
    Remover = {r1}
    RowsOf <- Files
    MAX_CREATE_ATTEMPTS = 2
    MaxFailures = 1
INVARIANTS
    TypeOK
    CollisionsNeedCreations
    ImportsReuseSites
    CountersFitRows
    AbortsOnlyIfDisturbed
CHECK_DEADLOCK FALSE
