SPECIFICATION Spec
CONSTANTS
    f1 = f1
    f2 = f2
    Feedback = {f1}
    Title = {f1, f2}
    TitleOf <- OwnTitles
    Ticket = {t1, t2, t3}
    NoTicket = NoTicket
    NoFeedback = NoFeedback
    Tick = {k1}
    Admin = {a1}
    MAX_DELIVERY_ATTEMPTS = 3
    BATCH_SIZE = 2
    MaxRequests = 1
    Budget <- TwoOutages
INVARIANTS
    AtMostOneTicket
CHECK_DEADLOCK FALSE
