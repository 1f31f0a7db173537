SPECIFICATION MemSpec
CONSTANTS
    Slot <- MCSlot
    Keys <- MCKeys
    Hash <- MCHash
    Buckets <- MCBuckets
    MaxSize <- MCMaxSize
    BodySizes = {1}
    CacheSizes = {9, 20}
    MaxBlock = 2
    AppFreesOutput = FALSE
INVARIANTS
    MemTypeOK
    ReferencedBlocksApart
    SiteOutlivesRequests
    StaleForgotten
    LeaksOnlyKnown
    NothingFreedTwice
CHECK_DEADLOCK FALSE
