\* scheduled processes, one peer that may be silent for ever
CONSTANTS
    k1 = k1
    k2 = k2
    p1 = p1
    p2 = p2
    Cut = Cut
    DUMP = DUMP
    ListConn = ListConn
    BeaconConn = BeaconConn
    Junk = Junk
    Page404 = Page404
    Null = Null
    Keys <- MCKeys
    Peers <- MCOnePeer
    Backlog = 2
    FdLimit = 5
    DbmFds = 1
SPECIFICATION FairSpec
PROPERTIES
    RequestIsSettled
    ResetEndsClient
