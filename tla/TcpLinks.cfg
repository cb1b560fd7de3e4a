SPECIFICATION FairSpec
CONSTANTS
    Links = {0, 1}
    Blocks = {1, 2}
    Peers <- TwoHosts
    None = None
    MaxConn = 1
    MaxSpoiled = 1
INVARIANTS
    TypeOK
    LinksMatch
    CountRight
    OwedExactly
PROPERTIES
    StartAnswered
CHECK_DEADLOCK FALSE
