SPECIFICATION Spec
CONSTANTS
    Callers = {c1, c2}
    Base = 8
    MaxFrame = 50
    BodyLimit = 40
    NotText = {7}
    Replacement <- MCReplacement
    MaxGroups = 4
    Malformed = Malformed
    Failed = Failed
    None = None
    Model <- MCModel
    DefaultMaxTokens = 3
    StubDim = 1
    FloatMod = 64
    Configs <- MCConfigs
    Requests <- MCRequests
INVARIANTS
    TypeOK
    OwnAnswers
    HeardAsAsked
    ChannelsAgree
    ProbeSuffices
