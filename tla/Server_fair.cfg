\* every call may fail, few requests, weak fairness of the process
CONSTANTS
    k1 = k1
    k2 = k2
    v1 = v1
    v2 = v2
    about = about
    missing = missing
    DUMP = DUMP
    Junk = Junk
    Page404 = Page404
    Null = Null
    Keys <- MCKeys
    Values <- MCValues
    Overrun = {k2}
    PageNames <- MCPageNames
    Pages <- MCPages
    Requests <- MCFewRequests
    Conns = {c1, c2}


    FdLimit = 7
    DbmFds = 2
    MaxListed = 2
    Faults <- MCAllFaults
SPECIFICATION FairSpec
PROPERTIES
    RequestIsAnsweredOrServerEnds
    ErrorEndsServer
