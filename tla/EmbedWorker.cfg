SPECIFICATION Spec
CONSTANTS
    a = a
    b = b
    d = d
    Callers = {c1, c2}
    Gone = Gone
    NoVec = NoVec
    Items <- MCItems
    Vectors <- MCVectors
    Embedding <- MCEmbedding
    Payloads <- MCPayloads
    BatchSetting = 0
    SessionSetting = 3
    MaxOrphans = 3
    CacheSetting = 2
    EngineMayFallShort = TRUE
INVARIANTS
    TypeOK
    OwnVectors
    CacheConsistent
    OneJobPerCaller
    BatchBounded
PROPERTIES
    WorkerSurvives
    HitsOutliveIdleEntries
    NoOvertaking
    ServiceSpec
