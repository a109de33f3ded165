\* Ingest paused while a Clean runs: what Clean vacuums before returning nil.
CONSTANTS
    h1 = h1
    h2 = h2
    Headers <- MCHeaders
    BlockNumber <- MCBlockNumber
    Present <- MCPresent
    MhKey <- DisjointMhKey
    RangeLists <- MCRangeLists
    CleanTypes <- DataTypes
    Workers = {w1}
    NoPayload = NoPayload
    MaxValidated = 1
    PauseIngestDuringClean = TRUE
SPECIFICATION Spec
PROPERTIES
    CleanedTablesVacuumed
