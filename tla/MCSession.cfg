\* Crossing updates, superseding updates and priorities.
SPECIFICATION Spec
CONSTANTS
    a = a
    b = b
    Endpoints = {a, b}
    Nonces = {n1}
    MaxDrainWindow = 0
    MaxKeyPhase = 2
    MaxAge = 1
    None = none
    ControlReservedPackets = 2
    MaxBurst = 1
    Settings <- All
INVARIANTS NonceUnique KeysAgree NoReplay DrainsTimed
PROPERTIES OnlyLateAckFails
