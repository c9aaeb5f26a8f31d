SPECIFICATION FairSpec
CONSTANTS
    Peer = {p1, p2}
    Edu = {e1}
    Source = {r1}
    MaxLsn = 2
    MaxFaults = 1
PROPERTY WaitersAnswered
INVARIANTS TypeOK AckedByEnough ListsAreWaiters NoHopelessWaiter
