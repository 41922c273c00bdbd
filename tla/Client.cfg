\* every call may fail, answers come in pieces, the server may end
CONSTANTS
    k1 = k1
    k2 = k2
    k3 = k3
    Cut = Cut
    DUMP = DUMP
    Null = Null
    Keys <- MCKeys
    LongNames = {k2}
    Faults <- MCAllFaults
SPECIFICATION FairSpec
INVARIANTS
    TypeOK
    ShownAnswersSelection
    NothingShownAfterError
PROPERTIES
    WaitEndsWithServer
    WholeDatumIsShown
CHECK_DEADLOCK FALSE
