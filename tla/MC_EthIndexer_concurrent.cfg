\* Ingest runs concurrently with Clean; no two rows share a blob.
CONSTANTS
    h1 = h1
    h2 = h2
    Headers <- MCHeaders
    BlockNumber <- MCBlockNumber
    Present <- MCPresent
    MhKey <- DisjointMhKey
    RangeLists <- MCRangeLists
    CleanTypes <- DataTypes
    Workers = {w1}
    NoPayload = NoPayload
    MaxValidated = 1
    PauseIngestDuringClean = FALSE
SPECIFICATION Spec
INVARIANTS
    BlobBeforeRow
