\* nothing fails, the user presses 2
CONSTANTS
    k1 = k1
    k2 = k2
    k3 = k3
    Cut = Cut
    DUMP = DUMP
    Null = Null
    Keys <- MCKeys
    LongNames = {k2}
    Faults = {}
SPECIFICATION FairSpec
INVARIANTS
    AddIsNotAskingForList
CHECK_DEADLOCK FALSE
