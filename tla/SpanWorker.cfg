SPECIFICATION Spec
CONSTANTS
    a = a
    b = b
    d = d
    Callers = {c1, c2, c3}
    Gone = Gone
    Items <- MCItems
    Scores <- MCScores
    Score <- MCScore
    Payloads <- MCPayloads
    BatchSetting = 2
    SessionSetting = 2
    MaxOrphans = 1
INVARIANTS
    TypeOK
    OwnScores
    SpansCoverBatch
PROPERTIES
    ServiceSpec
