SPECIFICATION ClaimSpec
CONSTANTS
    Daemons = {d1, d2, d3}
    Ports = {p1, p2}
    Absent = Absent
    Stale = Stale
INVARIANTS
    ClaimTypeOK
    ServingIsReachable
    DrainingIsReachable
PROPERTIES
    RefusedOnlyForLiveDaemon
    StaleFileNeverBlocks
