SPECIFICATION MemSpec
CONSTANTS
    Slot <- MCSlot
    Keys <- MCKeys
    Hash <- MCHash
    Buckets <- MCBuckets
    MaxSize <- MCMaxSize
    BodySizes = {1}
    CacheSizes = {9, 20}
    MaxBlock = 2
    AppFreesOutput = FALSE
INVARIANT
    AllocatesFromMemoryWhenFull
CHECK_DEADLOCK FALSE
