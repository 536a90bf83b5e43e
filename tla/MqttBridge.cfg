SPECIFICATION Spec
CONSTANTS
    Topics = {t1, t2}
    Payloads = {v1, v2}
    NoData = NoData
    NoTopic = NoTopic
    MaxPublish = 2
SYMMETRY BridgeSymmetry
INVARIANTS
    TypeOK
PROPERTIES
    OnlyTheseDivide
    PurgeSparesTheLiving
    
CHECK_DEADLOCK FALSE
