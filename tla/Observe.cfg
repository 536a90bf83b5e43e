SPECIFICATION Spec
CONSTANTS
    Topics = {t1, t2}
    Observers = {w1}
    Payloads = {v1, v2}
    NoData = NoData
    COAP_OBS_MAX_NON = 1
    MaxObserve = 3
INVARIANTS
    TypeOK
    
    QueuedResetEnds
    ObserversDistinct
    DirtyFlagged
PROPERTY
    NumbersIncrease
