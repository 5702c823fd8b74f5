SPECIFICATION FairSpec
CONSTANTS
    f1 = f1
    f2 = f2
    Feedback = {f1}
    Title = {f1, f2}
    TitleOf <- OwnTitles
    Ticket = {t1, t2, t3, t4, t5, t6, t7, t8}
    NoTicket = NoTicket
    NoFeedback = NoFeedback
    Tick = {k1, k2}
    Admin = {a1}
    MAX_DELIVERY_ATTEMPTS = 3
    BATCH_SIZE = 2
    MaxRequests = 1
    Budget <- Unreliable
INVARIANTS
    JobMirrorsSubmission
    AttemptBudget
PROPERTIES
    EveryJobSettles
    DeletionInClickupPropagates
CHECK_DEADLOCK FALSE
