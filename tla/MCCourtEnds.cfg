SPECIFICATION FairSpec
CONSTANTS
    a1 = a1
    a2 = a2
    NoAgent = NoAgent
    Agents = {a1, a2}
    Creator = a1
    Supports = {NoAgent}
    AllowedModes = {"moderator", "hybrid"}
    RoundCounts = {1}
    PrepTimes = {TRUE, FALSE}
    MaxParticipants = 2
    Budget = 0
    Overhead = 1
    Costs = {1}
    Billing = {"reported", "lost"}
    Faulty = {"turn", "read", "write", "charge"}
    PromptLaunch = TRUE
    PromptSweep = TRUE
    MaxPasses = 2
    MaxFaults = 1
    MaxCrashes = 1
    PaidCap = 1
INVARIANTS
    UncountedIsBounded
PROPERTIES
    EndsEventually
