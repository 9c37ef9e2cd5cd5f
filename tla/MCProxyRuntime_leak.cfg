\* A local write fails while its flow drains.
SPECIFICATION Spec
CONSTANTS
    t1 = t1
    t2 = t2
    u1 = u1
    None = None
    TCPFlows = {t1, t2}
    UDPFlows = {u1}
    Settings <- Alone
SYMMETRY Symmetry
INVARIANT PumpEndReleases
CHECK_DEADLOCK FALSE
