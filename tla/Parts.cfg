SPECIFICATION Spec
CONSTANTS
    acme = acme
    other = other
    Item = {i1}
    Value = {v1, v2}
    Editor = {e1, e2}
    NoItem = NoItem
    MAX_HISTORY_ROWS = 2
    MaxUpdates = 5
    Submission = {f1}
    File <- Files
    Remover = {r1, r2}
    NoSubmission = NoSubmission
    MAX_ATTACHMENTS = 4
    MAX_IMAGE_BYTES = 2
    MAX_VIDEO_BYTES = 10
    MAX_TOTAL_BYTES = 12
    MAX_VIDEOS_PER_SUBMISSION = 1
    MaxMediaFailures = 1
    TicketClient = {k1}
    ClientName = {acme, other}
    Company = {d1, d2}
    NoCompany = NoCompany
    Linker = {c1, c2}
    NO_MATCH_CACHE_TTL = 2
    PAGE_SIZE = 1
    MaxEdits = 1
    MaxLinkFailures = 1
    Result = {qr, usage}
    Expiring = {usage}
    Caller = {q1, q2, q3}
    NoResult = NoResult
    USAGE_CACHE_TTL = 2
    MaxFlightFailures = 3
INVARIANTS
    InventoryTypeOK
    HistoryNearLimit
    HistoryIsTrail
    AttachmentTypeOK
    StoredWithinLimits
    RefusedOnlyIfNoRoom
    ReasonsFit
    RowsAndAssetsAgree
    CompanyTypeOK
    MatchIsTheOnlyOne
    MissWasRight
    FlightTypeOK
    OneMakingAtATime
PROPERTIES
    LastingMatchIsFound
    AskedForIsMade
CHECK_DEADLOCK FALSE
