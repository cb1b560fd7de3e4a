SPECIFICATION Spec
CONSTANTS
    Conns = {c1, c2, c3}
    NoConn = NoConn
    OtaTypes = {"UPGRADE", "VERCHECK", "MD5", "UPGBOOT"}
    Sector = 4
    MaxChunk = 6
    FwMax = 10
    VerMax = 3
    Md5Len = 2
    MaxStarts = 3
    QuietStart = FALSE
SYMMETRY ConnSymmetry
INVARIANTS
    TypeOK
    TimerHasAttempt
    OwnConnAllocated
    LockedExactlyWhileUpdating
    OkMeansStored
    ErasedOnlyAnnounced
    Accounted
PROPERTIES
    StaleDisconnectEndsNothing
    ServiceSpec
CHECK_DEADLOCK FALSE
