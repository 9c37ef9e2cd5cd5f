SPECIFICATION DeviceSpec
CONSTANTS
    MaximumPriorityBurst = 4
    MaxBufferedBytes = 5
    Lengths = {1, 2}
INVARIANTS
    NoStarvation StreamExact ClosesOwed Whole AddressMeansName Routed Released
    NothingOrphaned
CHECK_DEADLOCK FALSE
