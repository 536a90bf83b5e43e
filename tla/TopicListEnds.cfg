SPECIFICATION FairSpec
CONSTANTS
    Topics = {a, b}
    Payloads = {v}
    NoTopic = NoTopic
    NoData = NoData
    LongMax = 2
    Main = main
    Mqtt = mqtt
    Cells = {c1, c2}
    Deadlines = {1}
    MainCalls = {"add", "delete", "data_monitor"}
    Null = Null
    Dangling = Dangling
PROPERTIES CallsEnd
