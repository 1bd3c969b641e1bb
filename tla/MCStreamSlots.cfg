SPECIFICATION FairSpec
CONSTANTS
    r1 = r1
    r2 = r2
    r3 = r3
    a1 = a1
    i1 = i1
    i2 = i2
    NoAgent = NoAgent
    Requests = {r1, r2, r3}
    Agents = {a1}
    Addresses = {i1, i2}
    StreamsPerClient = 2
    MaxExports = 2
    ExportShare = 1
INVARIANTS
    CountersAgree ServedHoldAll SharesHold
PROPERTIES
    SlotsComeBack
