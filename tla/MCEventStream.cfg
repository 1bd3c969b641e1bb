SPECIFICATION FairSpec
CONSTANTS
    p1 = p1
    w1 = w1
    Nobody = Nobody
    Pages = {p1}
    Waiters = {w1}
    Buffer = 2
    MaxMessages = 2
    MaxCuts = 1
INVARIANTS
    HubAgrees NoHoles SentInOrder
PROPERTIES
     NoLostWakeup
