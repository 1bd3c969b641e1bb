------------------------------ MODULE StreamSlots -----------------------------
(***************************************************************************)
(* The slots that long-lived requests hold (internal/ratelimit, the stream *)
(* table; internal/api, the ceiling of exports; internal/mcp): who gets    *)
(* one, and in which order they are taken and given back.                  *)
(*                                                                         *)
(* A request holds a set of slots.  It takes them in the order of Taking   *)
(* and gives them back in the order of Giving, one table lock at a time,   *)
(* so other requests come in between any two of these steps.               *)
(***************************************************************************)
EXTENDS Integers, FiniteSets

CONSTANTS
    Requests,       \* the requests being served
    Agents,
    NoAgent,        \* the agent of a request without a key
    Addresses,
    StreamsPerClient,   \* streams of an address, or of an agent
    MaxExports,         \* MaxConcurrentExports
    ExportShare         \* exportsPerAddress

ASSUME StreamSlotsAssumption ==
    /\ IsFiniteSet(Requests)
    /\ NoAgent \notin Agents \cup Addresses
    /\ StreamsPerClient \in Nat \ {0} /\ MaxExports \in Nat /\ ExportShare \in Nat

VARIABLES
    taken,          \* the counters: of each slot, how many are taken
    req             \* the requests

vars == <<taken, req>>

Kinds == {"turn", "events", "export", "mcp"}

Tables == {"ceiling", "share", "ip", "agent"}

Slot(table, key) == [table |-> table, key |-> key]
Process == NoAgent      \* the key of the ceiling, of which there is one

Slots ==
    {Slot("ceiling", Process)} \cup {Slot("agent", a) : a \in Agents}
        \cup [table : {"ip", "share"}, key : Addresses]

Limit(table) == [ceiling |-> MaxExports, share |-> ExportShare,
                 ip |-> StreamsPerClient, agent |-> StreamsPerClient][table]

\* The order in which slots are taken, and given back: an agent's streams give the
\* address back first, an export gives back in the opposite order.
Taking == [ip |-> 1, agent |-> 2, share |-> 2, ceiling |-> 3]

\* Mutant of Giving: an export gives its share back before the ceiling.
Giving_ShareFirst == [share |-> 1, ceiling |-> 2, ip |-> 3, agent |-> 4]

Giving == [ceiling |-> 1, share |-> 2, ip |-> 3, agent |-> 4]

Idle == [pc |-> "idle", kind |-> "events", agent |-> NoAgent, ip |-> NoAgent, held |-> {}]

\* What a request is served with.  An MCP request of an agent is at first one of
\* its address alone.
Needed(r) ==
    {Slot("ip", req[r].ip)}
        \cup (IF req[r].agent = NoAgent THEN {} ELSE {Slot("agent", req[r].agent)})
        \cup (IF req[r].kind # "export" THEN {}
              ELSE {Slot("share", req[r].ip), Slot("ceiling", Process)})

First(order, slots) ==
    {s \in slots : \A o \in slots : order[s.table] <= order[o.table]}

-------------------------------------------------------------------------------
\* A turn poll has passed authentication; a stream of events and an export know
\* only the address; an MCP request is yet to be authenticated.
Arrive(r, kind, agent, ip) ==
    /\ req[r].pc = "idle"
    /\ kind = "turn" <=> agent # NoAgent
    /\ req' = [req EXCEPT ![r] = [pc |-> "acquiring", kind |-> kind, agent |-> agent,
                                  ip |-> ip, held |-> {}]]
    /\ UNCHANGED taken

\* Mutant of Free: a slot too many.
Free_OneMore(slot) == taken[slot] <= Limit(slot.table)

Free(slot) == taken[slot] < Limit(slot.table)

\* What follows the last slot: an MCP request that is not yet known is authenticated.
Complete(r) ==
    IF req[r].kind = "mcp" /\ req[r].agent = NoAgent THEN "authenticating" ELSE "served"

\* Mutant of AfterRefusal: an agent that loses the race for a slot is served all the same.
AfterRefusal_FailOpen(r) == IF req[r].kind = "mcp" THEN "served" ELSE "releasing"

AfterRefusal(r) == "releasing"

\* One slot, or the refusal that begins to give back the others.
Acquire(r) ==
    /\ req[r].pc = "acquiring"
    /\ \E slot \in First(Taking, Needed(r) \ req[r].held) :
          IF Free(slot)
          THEN LET held == req[r].held \cup {slot}
               IN  /\ taken' = [taken EXCEPT ![slot] = @ + 1]
                   /\ req' = [req EXCEPT ![r].held = held,
                                  ![r].pc = IF held = Needed(r) THEN Complete(r) ELSE "acquiring"]
          ELSE /\ req' = [req EXCEPT ![r].pc = AfterRefusal(r)]
               /\ UNCHANGED taken

\* An MCP request without a key goes on as nobody; with a wrong one it is refused.
Anonymous(r) ==
    /\ req[r].pc = "authenticating"
    /\ req' = [req EXCEPT ![r].pc = "served"]
    /\ UNCHANGED taken

Unauthorized(r) ==
    /\ req[r].pc = "authenticating"
    /\ req' = [req EXCEPT ![r].pc = "releasing"]
    /\ UNCHANGED taken

\* With a good key the address is given back, and it and the agent are asked for;
\* other requests may be quicker.
Authenticated(r, agent) ==
    /\ req[r].pc = "authenticating"
    /\ taken' = [taken EXCEPT ![Slot("ip", req[r].ip)] = @ - 1]
    /\ req' = [req EXCEPT ![r] = [@ EXCEPT !.agent = agent, !.pc = "acquiring", !.held = {}]]

\* The client has its answer, or goes.
Finish(r) ==
    /\ req[r].pc = "served"
    /\ req' = [req EXCEPT ![r].pc = "releasing"]
    /\ UNCHANGED taken

\* Mutant of HasDeadline: an export is written for as long as the client likes.
HasDeadline_NoWriteTimeout(kind) == kind \in {"turn", "mcp"}

\* What bounds a request that its client abandons: wait_sec, the duration of an MCP
\* request, the deadline for writing an export.  A stream of events has no bound.
HasDeadline(kind) == kind \in {"turn", "mcp", "export"}

Expire(r) ==
    /\ req[r].pc = "served"
    /\ HasDeadline(req[r].kind)
    /\ req' = [req EXCEPT ![r].pc = "releasing"]
    /\ UNCHANGED taken

\* The deferred releases, one at a time.
Release(r) ==
    /\ req[r].pc = "releasing"
    /\ IF req[r].held = {}
       THEN req' = [req EXCEPT ![r] = Idle] /\ UNCHANGED taken
       ELSE \E slot \in First(Giving, req[r].held) :
               /\ taken' = [taken EXCEPT ![slot] = @ - 1]
               /\ req' = [req EXCEPT ![r].held = @ \ {slot}]

-------------------------------------------------------------------------------
Init ==
    /\ taken = [s \in Slots |-> 0]
    /\ req = [r \in Requests |-> Idle]

Step(r) ==
    \/ Acquire(r) \/ Anonymous(r) \/ Unauthorized(r)
    \/ \E agent \in Agents : Authenticated(r, agent)
    \/ Expire(r) \/ Release(r)

Next ==
    \E r \in Requests :
        \/ \E kind \in Kinds, agent \in Agents \cup {NoAgent}, ip \in Addresses :
              Arrive(r, kind, agent, ip)
        \/ Step(r) \/ Finish(r)

\* A handler runs on and its deadlines pass; a client need do nothing.
Fairness == \A r \in Requests : WF_vars(Step(r))

Spec == Init /\ [][Next]_vars
FairSpec == Spec /\ Fairness

-------------------------------------------------------------------------------
(* Properties *)

Holders(slot) == {r \in Requests : slot \in req[r].held}

\* The counters are right: whatever was refused, released or asked for again on the
\* way, a slot is taken by exactly the requests that hold it, and never by more than
\* its limit.
CountersAgree ==
    \A s \in Slots :
        /\ taken[s] = Cardinality(Holders(s))
        /\ taken[s] <= Limit(s.table)

\* No request is served on less than it needs: not an MCP request that lost the race
\* for the slot it gave back, and not an export that has only its share.
ServedHoldAll ==
    \A r \in Requests : req[r].pc \in {"served", "authenticating"} => req[r].held = Needed(r)

Exporting(ip) == {r \in Requests : req[r].ip = ip /\ Slot("ceiling", Process) \in req[r].held}

\* One address cannot fill the ceiling of exports, at no moment of taking and giving
\* back (exportsPerAddress: "a share of the ceiling").
SharesHold == \A ip \in Addresses : Cardinality(Exporting(ip)) <= ExportShare

\* Slots come back from every request that has a deadline, however its client ends.
SlotsComeBack ==
    \A r \in Requests :
        (req[r].pc # "idle" /\ req[r].kind # "events") ~> req[r].pc = "idle"
===============================================================================
