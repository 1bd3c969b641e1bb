SPECIFICATION Spec
CONSTANTS
    a1 = a1
    a2 = a2
    NoAgent = NoAgent
    Agents = {a1, a2}
    Creator = a1
    Supports = {a1}
    AllowedModes = {"hybrid"}
    RoundCounts = {2}
    PrepTimes = {FALSE, TRUE}
    MaxParticipants = 2
    Budget = 0
    Overhead = 1
    Costs = {1}
    Billing = {"reported"}
    Faulty = {"write"}
    PromptLaunch = TRUE
    PromptSweep = TRUE
    MaxPasses = 2
    MaxFaults = 1
    MaxCrashes = 0
    PaidCap = 10
INVARIANTS
    NoticesAreKept OutcomeIsExplained ExportConforms TurnInvariant
PROPERTIES
    ImplementsProtocol
