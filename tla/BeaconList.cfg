\* lists of up to three names, buffers that can be overrun
CONSTANTS
    a = a
    b = b
    CR = CR
    LF = LF
    NUL = NUL
    Chars <- MCChars
    Listings <- MCListings
    Typed <- MCTyped
    DumpSize = 18
    CopySize = 6
    RowSize = 6
    Rows = 3
SPECIFICATION FairSpec
INVARIANTS
    TypeOK
    LoopFindsEndOfLine
    ChosenIsListedOrCut
    AllButLastCanBeChosen
    EveryRowIsCounted
PROPERTIES
    LoopsStayInside
    PromptIsReached
CHECK_DEADLOCK FALSE
