\* An acknowledgement overtaken by the next update.
SPECIFICATION Spec
CONSTANTS
    a = a
    b = b
    Endpoints = {a, b}
    Nonces = {n1}
    MaxDrainWindow = 0
    MaxKeyPhase = 2
    MaxAge = 1
    None = none
    ControlReservedPackets = 2
    MaxBurst = 1
    Settings <- OnlyTwice
INVARIANTS LateAckIsHarmless
