SPECIFICATION Spec
CONSTANTS
    Calls <- MCCalls
    Word <- MCWord
    Marks <- MCMarks
    Depth = 2
    Truth <- MCTruth
    Value <- MCValue
    Rooms = {TRUE, FALSE}
    Capacity = 2
    Hash <- MCHash
INVARIANTS
    TypeOK
    RendersAsNested
    NeverReadsBeforeInput
    CrashesOnlyOnTagInTag
    SymbolsStoredOnce
    LeftOpenOnlyIfEmpty
PROPERTY
    ScanEnds
CHECK_DEADLOCK FALSE
