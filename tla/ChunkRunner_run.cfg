SPECIFICATION ChunkSpec
CONSTANTS
    SessionIds = {s1, s2, s3}
    MaxChunks = 4
    MaxRetired = 2
    MayWakeSpuriously = TRUE
INVARIANTS
    ChunkTypeOK
    ResultsInChunkOrder
    DrainedOnReturn
    SessionsExclusive
    ParksOnlyAfterRetirement
    ParkedAwaitsBusySession
    FailureStopsNewChunks
PROPERTIES
    BatchSpec
