SPECIFICATION Spec
CONSTANTS
    a1 = a1
    a2 = a2
    NoAgent = NoAgent
    Agents = {a1, a2}
    Creator = a1
    Supports = {NoAgent}
    AllowedModes = {"moderator"}
    RoundCounts = {2}
    PrepTimes = {FALSE}
    MaxParticipants = 2
    Budget = 0
    Overhead = 1
    Costs = {1}
    Billing = {"reported"}
    Faulty = {"read", "write"}
    PromptLaunch = TRUE
    PromptSweep = TRUE
    MaxPasses = 2
    MaxFaults = 1
    MaxCrashes = 0
    PaidCap = 10
INVARIANTS
    TypeOK TurnOrder NoAmbiguousRound VerdictCloses
    NoticesAreKept OutcomeIsExplained OnePass OneConclusion
    PassInvariant ResultInvariant ExportConforms
PROPERTIES
    ConcludedIsFinal ImplementsProtocol
