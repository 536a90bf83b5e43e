SPECIFICATION FairSpec
CONSTANTS
    Topics <- MCTwoTopics
    Payloads = {v1}
    NoTopic = NoTopic
    InName = InName
    Unsure = Unsure
    NoData = NoData
    LongMax = 4
    Cts = {0}
    NoCt = NoCt
    BadCt = BadCt
    Links <- MCLinks
    Ages = {0, 1, 4}
    NoAge = NoAge
    PsEnding <- MCPsEnding
    KeyOf <- MCDistinctKeys
    MaxClock = 3
INVARIANTS
    TypeOK
    BoundsAreLower
PROPERTIES
    OnlyMemoryParts
    MonitorsMissNothing
    NothingLostEarly
    ImplementsStore
    ExpiredTopicsGo
