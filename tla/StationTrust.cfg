\* TLC configuration of MCStationTrust.
SPECIFICATION Spec
CONSTANTS
    c1 = c1
    c2 = c2
    k1 = k1
    k2 = k2
    Clients = {c1, c2}
    Addresses = {home, away}
    Keys = {k1, k2}
    NoKey = NoKey
INVARIANTS
    PinsAreAccepted
SYMMETRY Symmetry
