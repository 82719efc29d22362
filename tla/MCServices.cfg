SPECIFICATION FairSpec
CONSTANTS
    c1 = c1
    c2 = c2
    cam = cam
    k1 = k1
    k2 = k2
    h264 = h264
    h265 = h265
    None = None
    Coverings = {c1, c2}
    Positions = {0, 100}
    Silent = {c2}
    FirstPosition = 0
    Clients = {t1}
    Poller = poller
    Addressed = {c1}
    Groups = {{c2}}
    Asked = {"command", "group", "rule", "poll", "refresh", "discover"}
    Commands = {100, Stop}
    Stop = Stop
    Refused = Refused
    BACKOFF_AFTER = 1
    BACKOFF_PASSES = 2
    MaxDisturbances = 2
    Cameras = {cam}
    Rows <- MCRows
    Hevc = {h265}
    Absent = Absent
    Editors = {e1, e2}
    Supervisor = supervisor
    Main = main
    HEALTH_FAIL_THRESHOLD = 2
    MaxEdits = 3
    MaxMishaps = 2
    Smart = {cam}
    Detectable = {k1, k2}
    MaxEdges = 2
    MaxSettings = 2
INVARIANTS
    TypeOK
    OwnMotor
    NothingStale
    OneEventPerEdge
PROPERTIES
    PositionSettles
    ServesTable
CHECK_DEADLOCK FALSE
