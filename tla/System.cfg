\* a server that may be killed and restarted, a client, two peers
CONSTANTS
    k1 = k1
    k2 = k2
    p1 = p1
    p2 = p2
    Cut = Cut
    DUMP = DUMP
    ListConn = ListConn
    BeaconConn = BeaconConn
    Junk = Junk
    Page404 = Page404
    Null = Null
    Keys <- MCKeys
    Peers <- MCPeers
    Backlog = 2
    FdLimit = 11
    DbmFds = 1
SYMMETRY MCSymmetry
SPECIFICATION Spec
INVARIANTS
    TypeOK
    AnswerIsForAsker
    AcknowledgedIsListed
    PickedBeaconIsShown
PROPERTIES
    ClientMeetsItsEnvironment
