SPECIFICATION Spec
CONSTANTS
    a1 = a1
    a2 = a2
    a3 = a3
    ip = ip
    r1 = r1
    r2 = r2
    Requests = {r1, r2}
    Tables <- MCTables
    KeysOf <- MCOneAgent
    Burst <- MCBurst
    Period <- MCPeriod
    MaxTracked = 2
    PromptSpend = TRUE
    MaxTime = 3
INVARIANTS
    RefusalsAreFree
