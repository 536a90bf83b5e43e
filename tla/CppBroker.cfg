SPECIFICATION Spec
CONSTANTS
    Topics <- MCTopics
    PsEnding <- MCPsEnding
    Payloads = {v}
    NoData = NoData
    NoTopic = NoTopic
    Cts = {0}
    NoCt = NoCt
    BadCt = BadCt
    Ages = {0, 2, 5}
    NoAge = NoAge
    Unsure = Unsure
    IntMax = 2
    LongMax = 3
    MaxClock = 2
INVARIANTS TypeOK ResourcesMatchDB
PROPERTIES ImplementsStore
