\* The host starts an update only after the previous connection is released.
SPECIFICATION FairSpec
CONSTANTS
    Conns = {c1, c2}
    NoConn = NoConn
    OtaTypes = {"UPGRADE", "MD5"}
    Sector = 4
    MaxChunk = 6
    FwMax = 6
    VerMax = 3
    Md5Len = 2
    MaxStarts = 3
    QuietStart = TRUE
PROPERTY EveryAttemptEnds
CHECK_DEADLOCK FALSE
