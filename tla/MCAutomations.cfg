SPECIFICATION FairSpec
CONSTANTS
    a1 = a1
    a2 = a2
    r1 = r1
    k1 = k1
    cam = cam
    None = None
    Worker = worker
    Detectors = {t1, t2}
    Requests = {q1}
    AutoOrder <- MCOrder
    Drafts <- MCDrafts
    StartRows <- MCRows
    Events <- MCEvents
    Devices = {r1}
    Coverings = {k1}
    Asked = {"toggle"}
    AlertCooldown = 1
    MaxAge = 1
    MaxHeld = 1
    QueueSize = 1
    MaxSeconds = 1
    MaxEvents = 2
    MaxOthers = 1
INVARIANTS
    TypeOK
    RowTellsRelay
    RevertPending
PROPERTIES
    AlertsLimited
    PutBack
    Answered
