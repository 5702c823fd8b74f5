SPECIFICATION FairSpec
CONSTANTS
    root = root
    staff = staff
    troot = troot
    tstaff = tstaff
    User = {root, staff}
    NoUser = NoUser
    Root = root
    Initially = {root, staff}
    Email = {"root@", "staff@"}
    EmailOf <- OneAddress
    Token = {troot, tstaff}
    NoToken = NoToken
    OwnerOf <- Owners
    TTL = 2
    Request = {r1, r2}
    Cron = Cron
    Budget <- FailuresOnce
PROPERTIES
    StaleAccessEnds
    ActiveGetIn
