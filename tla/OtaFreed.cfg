SPECIFICATION Spec
CONSTANTS
    Conns = {c1, c2}
    NoConn = NoConn
    OtaTypes = {"UPGRADE"}
    Sector = 4
    MaxChunk = 6
    FwMax = 6
    VerMax = 3
    Md5Len = 2
    MaxStarts = 2
    QuietStart = FALSE
INVARIANT NoConnectionOnFreedBlock
CHECK_DEADLOCK FALSE
