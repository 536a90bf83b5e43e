SPECIFICATION Spec
CONSTANTS
    Topics = {t1}
    Payloads = {v1, v2}
    NoData = NoData
    NoTopic = NoTopic
    MaxPublish = 2
INVARIANT
    ChangeToldOrDirty
CHECK_DEADLOCK FALSE
