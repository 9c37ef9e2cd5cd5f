\* Two opens over one packet-number space whose ring wraps, while its
\* protectors are replaced, forgotten and destroyed.
SPECIFICATION Spec
CONSTANTS
    Openers = {o1, o2}
    Spaces = {s1}
    PacketNumbers <- MCPacketNumbers
    MaxPacketNumber = 4
    WindowSize = 2
    Materials = {m1, m2}
    Protectors = {p1, p2}
    Base = base
    None = none
SYMMETRY Symmetry
INVARIANTS AcceptedOnce PinnedNotErased
PROPERTIES ImplementsWindow
