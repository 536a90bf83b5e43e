SPECIFICATION Spec
CONSTANTS
    Topics <- MCOneTopic
    Payloads = {v1}
    NoTopic = NoTopic
    InName = InName
    Unsure = Unsure
    NoData = NoData
    LongMax = 1000
    Cts = {0}
    NoCt = NoCt
    BadCt = BadCt
    Links <- MCLinks
    Ages = {0, 1}
    NoAge = NoAge
    PsEnding <- MCPsEnding
    KeyOf <- MCDistinctKeys
    MaxClock = 3
INVARIANT
    NewResourceFreedOnce
