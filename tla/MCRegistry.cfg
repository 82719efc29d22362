SPECIFICATION Spec
CONSTANTS
    None = None
    r1 = r1
    r2 = r2
    Requests <- MCRequests
    Known <- MCKnown
    Free <- MCFree
    Motors <- MCMotors
    Addresses <- MCAddresses
    Orders <- MCOrders
    StartTables <- MCStartTables
    MaxCrashes = 1
SYMMETRY MCSymmetry
CHECK_DEADLOCK FALSE
INVARIANTS
    TypeOK
    SessionsRevoked
    NoOrphans
    NoConflict
    OneOrder
PROPERTY AdminKept
