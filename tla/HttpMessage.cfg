\* requests and answers cut anywhere, with stray characters behind copies
CONSTANTS
    Chars <- MCChars
    Queries <- MCQueries
    Data <- MCData
    Lists <- MCLists
    Pages <- MCPages
    Strays <- MCStrays
SPECIFICATION Spec
INVARIANTS
    TypeOK
    QueryArrives
    UrlThatFitsIsRead
    ArrayHoldsData
    WholeDatumGetsThrough
    ShownIsDatum
    ListKeepsEmptyLine
CHECK_DEADLOCK FALSE
