\* the same lists, the claim of the prompt
CONSTANTS
    a = a
    b = b
    CR = CR
    LF = LF
    NUL = NUL
    Chars <- MCChars
    Listings <- MCListings
    Typed <- MCTyped
    DumpSize = 18
    CopySize = 6
    RowSize = 6
    Rows = 3
SPECIFICATION FairSpec
INVARIANTS
    RefusedDoesNotExist
CHECK_DEADLOCK FALSE
