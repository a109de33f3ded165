\* Ingest paused while a Clean runs; the state nodes of both blocks share a blob.
CONSTANTS
    h1 = h1
    h2 = h2
    Headers <- MCHeaders
    BlockNumber <- MCBlockNumber
    Present <- MCPresent
    MhKey <- SharedMhKey
    RangeLists <- MCRangeLists
    CleanTypes <- DataTypes
    Workers = {w1}
    NoPayload = NoPayload
    MaxValidated = 1
    PauseIngestDuringClean = TRUE
SPECIFICATION Spec
INVARIANTS
    BlobBeforeRow
