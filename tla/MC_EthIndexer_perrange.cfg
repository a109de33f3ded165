\* Ingest paused while a Clean runs; a statement of the second range fails.
CONSTANTS
    h1 = h1
    h2 = h2
    Headers <- MCHeaders
    BlockNumber <- MCBlockNumber
    Present <- MCPresent
    MhKey <- DisjointMhKey
    RangeLists <- MCRangeLists
    CleanTypes <- DataTypes
    Workers = {w1}
    NoPayload = NoPayload
    MaxValidated = 1
    PauseIngestDuringClean = TRUE
SPECIFICATION Spec
PROPERTIES
    EarlierRangesStayCleaned
