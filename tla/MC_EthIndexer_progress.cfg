\* Ingest runs concurrently with Clean: a worker waiting on the cleaner's
\* uncommitted deletes is released.  MaxValidated = 2 lets an indexed block
\* be delivered again (live and back-fill), the payload that can wait.
CONSTANTS
    h1 = h1
    h2 = h2
    Headers <- MCHeaders
    BlockNumber <- MCBlockNumber
    Present <- MCPresent
    MhKey <- DisjointMhKey
    RangeLists <- MCProgressRangeLists
    CleanTypes <- MCProgressTypes
    Workers = {w1}
    NoPayload = NoPayload
    MaxValidated = 2
    PauseIngestDuringClean = FALSE
SPECIFICATION Spec
PROPERTIES
    IndexNotBlockedForever
