----------------------------- MODULE MCRateLimit ------------------------------
EXTENDS RateLimit, TLC

CONSTANTS a1, a2, a3, ip, r1, r2

\* A request of an agent is charged to the agent and to its address.
MCTables == <<"agent", "ip">>
MCKeysOf == [agent |-> {a1, a2, a3}, ip |-> {ip}]
MCOneAgent == [agent |-> {a1}, ip |-> {ip}]

\* Both refill in an hour of two ticks.
MCBurst == [agent |-> 1, ip |-> 2]
MCPeriod == [agent |-> 2, ip |-> 2]

Symmetry == Permutations({a1, a2, a3}) \cup Permutations({r1, r2})
===============================================================================
