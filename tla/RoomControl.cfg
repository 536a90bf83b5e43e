SPECIFICATION Spec
CONSTANTS
    Readings = {4, 5}
    Threshold = 5
    ThresholdType = "off"
    Pwm = FALSE
    Outputs = {1}
    internal = internal
    external = external
    NoTopic = NoTopic
    NoData = NoData
    NoNote = NoNote
    MaxLate = 1
    MaxRestarts = 1
INVARIANTS TypeOK SetUpIsComplete StaleOnce
