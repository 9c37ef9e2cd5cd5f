\* Every connection may end for good: the runtime may stop.
SPECIFICATION Spec
CONSTANTS
    t1 = t1
    t2 = t2
    u1 = u1
    None = None
    TCPFlows = {t1, t2}
    UDPFlows = {u1}
    Settings <- AllSettings
SYMMETRY Symmetry
INVARIANTS DrainDelivers DrainOwned
CHECK_DEADLOCK FALSE
