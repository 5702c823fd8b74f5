SPECIFICATION Spec
CONSTANTS
    root = root
    staff = staff
    troot = troot
    tstaff = tstaff
    User = {root, staff}
    NoUser = NoUser
    Root = root
    Initially = {root}
    Email = {"root@", "staff@"}
    EmailOf <- OneAddress
    Token = {troot, tstaff}
    NoToken = NoToken
    OwnerOf <- Owners
    TTL = 2
    Request = {r1, r2}
    Cron = Cron
    Budget <- EachOnce
INVARIANTS
    TypeOK
    AdminRemains
    StaleOnlyIfOverlapped
    OrphansComeFromFailures
SYMMETRY Symmetry
