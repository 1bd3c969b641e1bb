---------------------------- MODULE DebateProtocol ----------------------------
(***************************************************************************)
(* What a debate promises to those who take part in it (SPEC.md and the    *)
(* lifecycle in README.md): phases, turns, rounds and an outcome.  There   *)
(* is no store, no moderator model, no goroutine and no failure here.      *)
(***************************************************************************)
EXTENDS Integers, Sequences

CONSTANTS Agents, RoundCounts, MaxParticipants

VARIABLES
    phase,
    order,      \* who takes part, in turn order
    limit,      \* the number of rounds
    round,
    next,       \* position of the turn in the order; 0 when nobody has it
    said,       \* the arguments: who has spoken in which round
    outcome     \* whether consensus was reached

vars == <<phase, order, limit, round, next, said, outcome>>

Init ==
    /\ phase = "none" /\ order = <<>> /\ limit = 0 /\ round = 0 /\ next = 0
    /\ said = {} /\ outcome = FALSE

\* The creator may take part or look on.
Create ==
    /\ phase = "none"
    /\ phase' = "open"
    /\ limit' \in RoundCounts
    /\ order' \in {<<>>} \cup {<<a>> : a \in Agents}
    /\ UNCHANGED <<round, next, said, outcome>>

Join ==
    /\ phase = "open"
    /\ Len(order) < MaxParticipants
    /\ \E a \in Agents : (\A i \in DOMAIN order : order[i] # a) /\ order' = Append(order, a)
    /\ UNCHANGED <<phase, limit, round, next, said, outcome>>

Prepare ==
    /\ phase = "open" /\ Len(order) >= 2
    /\ phase' = "preparing"
    /\ UNCHANGED <<order, limit, round, next, said, outcome>>

Begin ==
    /\ phase \in {"open", "preparing"} /\ Len(order) >= 2
    /\ phase' = "running" /\ round' = 1 /\ next' = 1
    /\ UNCHANGED <<order, limit, said, outcome>>

\* The turn goes to the next participant; after the last one the round is moderated.
TurnPasses ==
    /\ phase = "running"
    /\ IF next < Len(order)
       THEN next' = next + 1 /\ phase' = phase
       ELSE next' = 0 /\ phase' = "moderating"
    /\ UNCHANGED <<order, limit, round, outcome>>

\* Only who has the turn speaks, once, and gives it away by speaking.
Speak ==
    /\ TurnPasses
    /\ LET argument == [agent |-> order[next], round |-> round]
       IN  argument \notin said /\ said' = said \cup {argument}

Skip == TurnPasses /\ UNCHANGED said

OpenNextRound ==
    /\ phase = "moderating" /\ round < limit
    /\ phase' = "running" /\ round' = round + 1 /\ next' = 1
    /\ UNCHANGED <<order, limit, said, outcome>>

Conclude ==
    /\ phase = "moderating"
    /\ phase' = "concluded"
    /\ outcome' \in BOOLEAN
    /\ UNCHANGED <<order, limit, round, next, said>>

Delete ==
    /\ phase \notin {"none", "deleted"}
    /\ phase' = "deleted" /\ order' = <<>> /\ round' = 0 /\ next' = 0
    /\ said' = {} /\ outcome' = FALSE
    /\ UNCHANGED limit

Next ==
    \/ Create \/ Join \/ Prepare \/ Begin \/ Speak \/ Skip
    \/ OpenNextRound \/ Conclude \/ Delete

Spec == Init /\ [][Next]_vars
===============================================================================
