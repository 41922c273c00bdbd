\* every call may fail, one value may be read past its end
CONSTANTS
    k1 = k1
    k2 = k2
    v1 = v1
    v2 = v2
    about = about
    missing = missing
    DUMP = DUMP
    Junk = Junk
    Page404 = Page404
    Null = Null
    Keys <- MCKeys
    Values <- MCValues
    Overrun = {k2}
    PageNames <- MCPageNames
    Pages <- MCPages
    Requests <- MCAllRequests
    Conns = {c1, c2}


    FdLimit = 7
    DbmFds = 2
    MaxListed = 2
    Faults <- MCAllFaults
SYMMETRY MCSymmetry
SPECIFICATION Spec
INVARIANTS
    TypeOK
    AnswerGoesToSender
    AcknowledgedPostIsStored
    FoundIsStored
    NoAcceptAfterError
    MissedOnlyOnError
    LifetimeBound
    ServerErrorIsNeverReported
