SPECIFICATION ClaimSafeSpec
CONSTANTS
    Daemons = {d1, d2}
    Ports = {p1, p2}
    Absent = Absent
    Stale = Stale
INVARIANTS
    NeverEvicted
