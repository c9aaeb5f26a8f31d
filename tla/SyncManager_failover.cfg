SPECIFICATION OrderlySpec
CONSTANTS
    Peer = {p1, p2, p3, p4}
    Edu = {e1}
    Source = {r1}
    MaxLsn = 1
    MaxFaults = 1
INVARIANT AckedByEnough
SYMMETRY Sym
