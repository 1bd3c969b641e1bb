SPECIFICATION Spec
CONSTANTS
    Agents = {a1, a2}
    Keys = {k1, k2, k3, k4, k5}
    Nobody = Nobody
    NoHash = NoHash
    MaxActive = 3
    MaxListed = 3
    HasShadow = TRUE
INVARIANTS
    TypeOK
    LastKeyStays
    RevokedStaysRevoked
    KeysBelongToTheirAgent
    ActiveIsListed
    StartIsNeverRefused
