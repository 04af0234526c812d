SPECIFICATION Spec
CONSTANTS
    m = m
    n = n
    wide = wide
    wrong = wrong
    undeclared = undeclared
    absent = absent
    x = x
    y = y
    ragged = ragged
    huge = huge
    c1 = c1
    Clients = {c1}
    Models <- MCModels
    Served <- MCServed
    Items <- MCItems
    Blocks <- MCBlocks
    Size <- MCSize
    Features <- MCFeatures
    Dim <- MCDim
    Width <- MCWidth
    MaxFrame = 3
    NoFrame = NoFrame
    Garbled = Garbled
INVARIANTS
    TypeOK
    OwnRows
PROPERTIES
    BlocksEnd
    RestartsRiddenOut
