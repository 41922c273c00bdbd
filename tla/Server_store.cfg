\* every call may fail but the reads of the data base and of html/
CONSTANTS
    k1 = k1
    k2 = k2
    v1 = v1
    v2 = v2
    about = about
    missing = missing
    DUMP = DUMP
    Junk = Junk
    Page404 = Page404
    Null = Null
    Keys <- MCKeys
    Values <- MCValues
    Overrun = {}
    PageNames <- MCPageNames
    Pages <- MCPages
    Requests <- MCAllRequests
    Conns = {c1, c2}


    FdLimit = 7
    DbmFds = 2
    MaxListed = 2
    Faults <- MCNoLies
SPECIFICATION Spec
INVARIANTS
    NotFoundIsAbsent
PROPERTIES
    ImplementsBeaconStore
