SPECIFICATION DeviceSpec
CONSTANTS
    MaximumPriorityBurst = 4
    MaxBufferedBytes = 5
    Lengths = {1, 2}
INVARIANT SurvivesBackpressure
CHECK_DEADLOCK FALSE
