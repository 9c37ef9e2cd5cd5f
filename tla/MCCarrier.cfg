SPECIFICATION Spec
CONSTANTS
    Client = Client
    Relay = Relay
    QueueLimit = 1
    WireLimit = 1
INVARIANTS
    
    CarrierReleased
    SessionOwned
PROPERTIES
    Returns
CHECK_DEADLOCK FALSE
