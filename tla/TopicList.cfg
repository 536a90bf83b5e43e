SPECIFICATION Spec
CONSTANTS
    Topics = {a, b}
    Payloads = {v}
    NoTopic = NoTopic
    NoData = NoData
    LongMax = 2
    Main = main
    Mqtt = mqtt
    Cells = {c1, c2}
    Deadlines = {1}
    MainCalls = {"clone", "add", "renew", "put", "delete", "data_monitor", "topic_monitor"}
    Null = Null
    Dangling = Dangling
SYMMETRY ListSymmetry
INVARIANTS TypeOK ListIntact LocksReturned MainKeepsNodes
PROPERTIES FindsWhatStays ImplementsDB
