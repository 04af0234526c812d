SPECIFICATION ChunkSafeSpec
CONSTANTS
    SessionIds = {s1, s2}
    MaxChunks = 3
    MaxRetired = 2
    MayWakeSpuriously = FALSE
INVARIANTS
    ParkedAwaitsBusySession
