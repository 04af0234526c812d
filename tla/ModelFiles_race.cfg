SPECIFICATION Spec
CONSTANTS
    graph = graph
    tokenizer = tokenizer
    e5 = e5
    fraud = fraud
    old = old
    pinned = pinned
    wrong = wrong
    Cut = Cut
    Absent = Absent
    Torn = Torn
    None = None
    Paths <- MCPaths
    Catalog = 1
    Names <- MCNames
    NameOf <- MCNameOf
    HandWritten = {3}
    Listed <- MCListed
    ReadOrder <- MCReadOrder
    Contents <- MCContents
    Pin = pinned
    Upstream <- MCUpstream
    Cores = 2
    SessionCounts = {3}
    Setups <- MCCatalogOnly
INVARIANT ServesVerifiedFiles
