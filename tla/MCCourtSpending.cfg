SPECIFICATION Spec
CONSTANTS
    a1 = a1
    a2 = a2
    NoAgent = NoAgent
    Agents = {a1, a2}
    Creator = a1
    Supports = {NoAgent}
    AllowedModes = {"moderator"}
    RoundCounts = {2}
    PrepTimes = {FALSE}
    MaxParticipants = 2
    Budget = 8
    Overhead = 1
    Costs = {1}
    Billing = {"unreported"}
    Faulty = {"write", "charge"}
    PromptLaunch = TRUE
    PromptSweep = TRUE
    MaxPasses = 2
    MaxFaults = 1
    MaxCrashes = 1
    PaidCap = 2
INVARIANTS
    SpendIsBounded
    UncountedIsBounded
