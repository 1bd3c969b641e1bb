--------------------------- MODULE StreamSlotsProofs ---------------------------
(***************************************************************************)
(* The slots of long-lived requests, for any number of requests, agents,   *)
(* addresses and slots: the counters agree with what is held, nobody is    *)
(* served on less than it needs, and no address takes more than its share  *)
(* of the exports.                                                         *)
(***************************************************************************)
EXTENDS StreamSlots, FiniteSetTheorems, TLAPS

\* Where a request may be.
States == {"idle", "acquiring", "authenticating", "served", "releasing"}

\* A request for a stream.
RequestRecords ==
    [pc : States, kind : Kinds, agent : Agents \cup {NoAgent},
     ip : Addresses \cup {NoAgent}, held : SUBSET Slots]

\* The types.
SlotTypes == taken \in [Slots -> Nat] /\ req \in [Requests -> RequestRecords]

\* A request holds nothing it does not need, and everything once it is served.
HoldsWhatItNeeds ==
    \A r \in Requests :
        /\ req[r].held \subseteq Needed(r)
        /\ req[r].pc = "idle" => req[r].held = {}
        /\ req[r].pc # "idle" => req[r].ip \in Addresses
        /\ req[r].pc = "authenticating" => req[r].kind = "mcp" /\ req[r].agent = NoAgent
        /\ req[r].pc \in {"served", "authenticating"} => req[r].held = Needed(r)

\* The ceiling is taken after the share and given back before it.
CeilingWithinShare ==
    \A r \in Requests :
        Slot("ceiling", Process) \in req[r].held => Slot("share", req[r].ip) \in req[r].held

\* The inductive invariant.
SlotsInvariant == SlotTypes /\ CountersAgree /\ HoldsWhatItNeeds /\ CeilingWithinShare

-------------------------------------------------------------------------------
(* Sets of slots *)

\* What a request of known agent and address needs are slots.
LEMMA NeededAreSlots ==
    ASSUME SlotTypes, NEW r \in Requests, req[r].ip \in Addresses
    PROVE  Needed(r) \in SUBSET Slots
BY DEF SlotTypes, RequestRecords, Needed, Slots, Slot, Process

\* A slot's limit is a number.
LEMMA LimitIsNat == ASSUME NEW s \in Slots PROVE Limit(s.table) \in Nat
BY StreamSlotsAssumption DEF Limit, Slots, Slot, Process

\* Finitely many requests hold a slot.
LEMMA HoldersAreFinite == ASSUME NEW s PROVE IsFiniteSet(Holders(s))
<1>1. Holders(s) \subseteq Requests BY DEF Holders
<1>2. QED BY <1>1, FS_Subset, StreamSlotsAssumption

\* A request that takes a free slot is one holder more of it, and of no other.
LEMMA OneHolderMore ==
    ASSUME SlotTypes, CountersAgree, NEW r \in Requests, NEW slot \in Slots,
           slot \notin req[r].held, Free(slot),
           req'[r].held = req[r].held \cup {slot},
           \A q \in Requests \ {r} : req'[q].held = req[q].held,
           taken' = [taken EXCEPT ![slot] = @ + 1]
    PROVE  CountersAgree'
<1> SUFFICES ASSUME NEW s \in Slots
             PROVE  taken'[s] = Cardinality(Holders(s)') /\ taken'[s] <= Limit(s.table)
    BY DEF CountersAgree
<1>1. CASE s = slot
  <2>1. Holders(s)' = Holders(s) \cup {r} BY <1>1 DEF Holders
  <2>2. r \notin Holders(s) BY <1>1 DEF Holders
  <2>3. Cardinality(Holders(s) \cup {r}) = Cardinality(Holders(s)) + 1
    BY <2>2, HoldersAreFinite, FS_AddElement
  <2>4. taken'[s] = taken[s] + 1 BY <1>1 DEF SlotTypes
  <2>5. taken[s] = Cardinality(Holders(s)) BY DEF CountersAgree
  <2>6. taken[s] \in Nat BY DEF SlotTypes
  <2>7. taken[s] < Limit(s.table) BY <1>1 DEF Free
  <2>8. Limit(s.table) \in Nat BY LimitIsNat
  <2> QED BY <2>1, <2>3, <2>4, <2>5, <2>6, <2>7, <2>8
<1>2. CASE s # slot
  <2>1. Holders(s)' = Holders(s) BY <1>2 DEF Holders
  <2>2. taken'[s] = taken[s] BY <1>2 DEF SlotTypes
  <2> QED BY <2>1, <2>2 DEF CountersAgree
<1> QED BY <1>1, <1>2

\* A request that gives a slot back is one holder less of it, and of no other.
LEMMA OneHolderLess ==
    ASSUME SlotTypes, CountersAgree, NEW r \in Requests, NEW slot \in Slots,
           slot \in req[r].held,
           req'[r].held = req[r].held \ {slot},
           \A q \in Requests \ {r} : req'[q].held = req[q].held,
           taken' = [taken EXCEPT ![slot] = @ - 1]
    PROVE  CountersAgree' /\ taken' \in [Slots -> Nat]
<1>1. \A s \in Slots \ {slot} : taken'[s] = taken[s] /\ Holders(s)' = Holders(s)
    BY DEF SlotTypes, Holders
<1>2. Holders(slot)' = Holders(slot) \ {r} BY DEF Holders
<1>3. r \in Holders(slot) BY DEF Holders
<1>4. Cardinality(Holders(slot) \ {r}) = Cardinality(Holders(slot)) - 1
    BY <1>3, HoldersAreFinite, FS_RemoveElement
<1>5. IsFiniteSet(Holders(slot) \ {r}) BY HoldersAreFinite, FS_Subset
<1>6. Cardinality(Holders(slot) \ {r}) \in Nat BY <1>5, FS_CardinalityType
<1>7. taken'[slot] = taken[slot] - 1 BY DEF SlotTypes
<1>8. taken[slot] = Cardinality(Holders(slot)) /\ taken[slot] <= Limit(slot.table)
    BY DEF CountersAgree
<1>9. taken[slot] \in Nat /\ Limit(slot.table) \in Nat BY LimitIsNat DEF SlotTypes
<1>10. taken'[slot] \in Nat /\ taken'[slot] = Cardinality(Holders(slot)')
    BY <1>2, <1>4, <1>6, <1>7, <1>8
<1>11. taken'[slot] <= Limit(slot.table) BY <1>7, <1>8, <1>9
<1>12. CountersAgree'
  <2> SUFFICES ASSUME NEW s \in Slots
               PROVE  taken'[s] = Cardinality(Holders(s)') /\ taken'[s] <= Limit(s.table)
      BY DEF CountersAgree
  <2>1. CASE s = slot BY <2>1, <1>10, <1>11
  <2>2. CASE s # slot BY <2>2, <1>1 DEF CountersAgree
  <2> QED BY <2>1, <2>2
<1>13. taken' \in [Slots -> Nat] BY <1>1, <1>10 DEF SlotTypes
<1> QED BY <1>12, <1>13

\* A step that moves no slot leaves the counters right.
LEMMA SameHolders ==
    ASSUME CountersAgree, UNCHANGED taken,
           \A q \in Requests : req'[q].held = req[q].held
    PROVE  CountersAgree'
<1> SUFFICES ASSUME NEW s \in Slots
             PROVE  taken'[s] = Cardinality(Holders(s)') /\ taken'[s] <= Limit(s.table)
    BY DEF CountersAgree
<1>1. Holders(s)' = Holders(s) BY DEF Holders
<1> QED BY <1>1 DEF CountersAgree

\* A step of one request that keeps to the rules keeps the rules of all.
LEMMA OthersKeepTheRules ==
    ASSUME SlotTypes, HoldsWhatItNeeds, CeilingWithinShare, NEW r \in Requests,
           NEW new \in RequestRecords, req' = [req EXCEPT ![r] = new],
           new.held \subseteq Needed(r)',
           new.pc = "idle" => new.held = {},
           new.pc # "idle" => new.ip \in Addresses,
           new.pc = "authenticating" => new.kind = "mcp" /\ new.agent = NoAgent,
           new.pc \in {"served", "authenticating"} => new.held = Needed(r)',
           Slot("ceiling", Process) \in new.held => Slot("share", new.ip) \in new.held
    PROVE  /\ req' \in [Requests -> RequestRecords]
           /\ HoldsWhatItNeeds' /\ CeilingWithinShare'
<1>1. req' \in [Requests -> RequestRecords] BY DEF SlotTypes
<1>2. req'[r] = new BY DEF SlotTypes
<1>3. \A q \in Requests \ {r} : req'[q] = req[q] BY DEF SlotTypes
<1>4. \A q \in Requests \ {r} : Needed(q)' = Needed(q) BY <1>3 DEF Needed
<1>5. HoldsWhatItNeeds'
  <2> SUFFICES ASSUME NEW q \in Requests
      PROVE  /\ req'[q].held \subseteq Needed(q)'
             /\ req'[q].pc = "idle" => req'[q].held = {}
             /\ req'[q].pc # "idle" => req'[q].ip \in Addresses
             /\ req'[q].pc = "authenticating" => req'[q].kind = "mcp" /\ req'[q].agent = NoAgent
             /\ req'[q].pc \in {"served", "authenticating"} => req'[q].held = Needed(q)'
      BY DEF HoldsWhatItNeeds
  <2>1. CASE q = r BY <2>1, <1>2
  <2>2. CASE q # r BY <2>2, <1>3, <1>4 DEF HoldsWhatItNeeds
  <2> QED BY <2>1, <2>2
<1>6. CeilingWithinShare'
  <2> SUFFICES ASSUME NEW q \in Requests
      PROVE  Slot("ceiling", Process) \in req'[q].held => Slot("share", req'[q].ip) \in req'[q].held
      BY DEF CeilingWithinShare, Slot, Process
  <2>1. CASE q = r BY <2>1, <1>2
  <2>2. CASE q # r BY <2>2, <1>3 DEF CeilingWithinShare
  <2> QED BY <2>1, <2>2
<1> QED BY <1>1, <1>5, <1>6

-------------------------------------------------------------------------------
(* The actions *)

\* The invariant holds at the start.
LEMMA InitHolds == Init => SlotsInvariant
<1> SUFFICES ASSUME Init PROVE SlotsInvariant OBVIOUS
<1>1. SlotTypes BY DEF Init, SlotTypes, RequestRecords, Idle, States, Kinds
<1>2. \A r \in Requests : req[r].held = {} /\ req[r].pc = "idle" BY DEF Init, Idle
<1>3. CountersAgree
  <2> SUFFICES ASSUME NEW s \in Slots
               PROVE  taken[s] = Cardinality(Holders(s)) /\ taken[s] <= Limit(s.table)
      BY DEF CountersAgree
  <2>1. Holders(s) = {} BY <1>2 DEF Holders
  <2>2. taken[s] = 0 BY DEF Init
  <2>3. Limit(s.table) \in Nat BY LimitIsNat
  <2> QED BY <2>1, <2>2, <2>3, FS_EmptySet
<1>4. HoldsWhatItNeeds BY <1>2 DEF HoldsWhatItNeeds
<1>5. CeilingWithinShare BY <1>2 DEF CeilingWithinShare
<1> QED BY <1>1, <1>3, <1>4, <1>5 DEF SlotsInvariant

\* A step that changes only how far a request is.
LEMMA OnlyThePlace ==
    ASSUME SlotsInvariant, NEW r \in Requests, NEW place \in States,
           req[r].pc # "idle", place \notin {"idle", "authenticating"},
           place = "served" => req[r].held = Needed(r),
           req' = [req EXCEPT ![r].pc = place], UNCHANGED taken
    PROVE  SlotsInvariant'
<1> DEFINE new == [req[r] EXCEPT !.pc = place]
<1>1. req[r] \in RequestRecords BY DEF SlotsInvariant, SlotTypes
<1>2. new \in RequestRecords BY <1>1 DEF RequestRecords
<1>3. req' = [req EXCEPT ![r] = new] OBVIOUS
<1>4. /\ new.held = req[r].held /\ new.ip = req[r].ip /\ new.kind = req[r].kind
      /\ new.agent = req[r].agent /\ new.pc = place
    BY <1>1 DEF RequestRecords
<1>5. req'[r] = new BY <1>3 DEF SlotsInvariant, SlotTypes
<1>6. Needed(r)' = Needed(r) BY <1>4, <1>5 DEF Needed
<1>7. \A q \in Requests : req'[q].held = req[q].held
    BY <1>3, <1>4 DEF SlotsInvariant, SlotTypes
<1> HIDE DEF new
<1>8. CountersAgree' BY <1>7, SameHolders DEF SlotsInvariant
<1>9. /\ req[r].held \subseteq Needed(r) /\ req[r].ip \in Addresses
      /\ Slot("ceiling", Process) \in req[r].held => Slot("share", req[r].ip) \in req[r].held
    BY DEF SlotsInvariant, HoldsWhatItNeeds, CeilingWithinShare
<1>10. /\ new.held \subseteq Needed(r)' /\ new.ip \in Addresses
       /\ new.pc # "idle" /\ new.pc # "authenticating"
       /\ new.pc \in {"served", "authenticating"} => new.held = Needed(r)'
       /\ Slot("ceiling", Process) \in new.held => Slot("share", new.ip) \in new.held
    BY <1>4, <1>6, <1>9
<1>11. /\ req' \in [Requests -> RequestRecords]
       /\ HoldsWhatItNeeds' /\ CeilingWithinShare'
    BY <1>2, <1>3, <1>10, OthersKeepTheRules DEF SlotsInvariant
<1> QED BY <1>8, <1>11 DEF SlotsInvariant, SlotTypes

\* An arrival keeps the invariant.
LEMMA ArriveKeeps ==
    ASSUME SlotsInvariant, NEW r \in Requests, NEW kind \in Kinds,
           NEW agent \in Agents \cup {NoAgent}, NEW ip \in Addresses,
           Arrive(r, kind, agent, ip)
    PROVE  SlotsInvariant'
<1> DEFINE new == [pc |-> "acquiring", kind |-> kind, agent |-> agent, ip |-> ip, held |-> {}]
<1>1. new \in RequestRecords BY DEF RequestRecords, States
<1>2. req' = [req EXCEPT ![r] = new] /\ taken' = taken BY DEF Arrive
<1>3. new.held = {} /\ new.pc = "acquiring" /\ new.ip = ip OBVIOUS
<1>4. req[r].held = {} BY DEF Arrive, SlotsInvariant, HoldsWhatItNeeds
<1>5. \A q \in Requests : req'[q].held = req[q].held
    BY <1>2, <1>3, <1>4 DEF SlotsInvariant, SlotTypes
<1> HIDE DEF new
<1>6. CountersAgree' BY <1>2, <1>5, SameHolders DEF SlotsInvariant
<1>7. /\ req' \in [Requests -> RequestRecords]
      /\ HoldsWhatItNeeds' /\ CeilingWithinShare'
    BY <1>1, <1>2, <1>3, OthersKeepTheRules DEF SlotsInvariant
<1> QED BY <1>2, <1>6, <1>7 DEF SlotsInvariant, SlotTypes

\* The ceiling is the last slot an export takes.
LEMMA CeilingIsLast ==
    ASSUME SlotsInvariant, NEW r \in Requests, req[r].ip \in Addresses,
           Slot("ceiling", Process) \in First(Taking, Needed(r) \ req[r].held)
    PROVE  Slot("share", req[r].ip) \in req[r].held
<1>1. Slot("share", req[r].ip) \in Needed(r) BY DEF First, Needed, Slot
<1>2. Slot("ceiling", Process).table = "ceiling" /\ Slot("share", req[r].ip).table = "share"
    BY DEF Slot
<1>3. Taking["ceiling"] = 3 /\ Taking["share"] = 2 BY DEF Taking
<1> QED BY <1>1, <1>2, <1>3 DEF First

\* Taking a slot keeps the invariant.
LEMMA AcquireKeeps ==
    ASSUME SlotsInvariant, NEW r \in Requests, Acquire(r) PROVE SlotsInvariant'
<1>1. PICK slot \in First(Taking, Needed(r) \ req[r].held) :
          IF Free(slot)
          THEN /\ taken' = [taken EXCEPT ![slot] = @ + 1]
               /\ req' = [req EXCEPT ![r].held = req[r].held \cup {slot},
                             ![r].pc = IF req[r].held \cup {slot} = Needed(r)
                                       THEN Complete(r) ELSE "acquiring"]
          ELSE /\ req' = [req EXCEPT ![r].pc = AfterRefusal(r)]
               /\ UNCHANGED taken
    BY Zenon DEF Acquire
<1>2. CASE ~Free(slot)
  <2>1. req' = [req EXCEPT ![r].pc = "releasing"] /\ UNCHANGED taken
      BY <1>1, <1>2 DEF AfterRefusal
  <2>2. req[r].pc = "acquiring" BY DEF Acquire
  <2> QED BY <2>1, <2>2, OnlyThePlace DEF States
<1>3. CASE Free(slot)
  <2> DEFINE held == req[r].held \cup {slot}
             place == IF held = Needed(r) THEN Complete(r) ELSE "acquiring"
             new == [req[r] EXCEPT !.held = held, !.pc = place]
  <2>1. req[r] \in RequestRecords /\ req[r].pc = "acquiring"
      BY DEF SlotsInvariant, SlotTypes, Acquire
  <2>2. /\ req[r].held \subseteq Needed(r) /\ req[r].ip \in Addresses
        /\ Slot("ceiling", Process) \in req[r].held => Slot("share", req[r].ip) \in req[r].held
      BY <2>1 DEF SlotsInvariant, HoldsWhatItNeeds, CeilingWithinShare
  <2>3. slot \in Needed(r) /\ slot \notin req[r].held BY DEF First
  <2>4. held \subseteq Needed(r) BY <2>2, <2>3
  <2>5. held \in SUBSET Slots /\ slot \in Slots
      BY <2>2, <2>3, <2>4, NeededAreSlots DEF SlotsInvariant
  <2>6. place \in States BY DEF Complete, States
  <2>7. new \in RequestRecords BY <2>1, <2>5, <2>6 DEF RequestRecords
  <2>8. taken' = [taken EXCEPT ![slot] = @ + 1] BY <1>1, <1>3
  <2>9. req' = [req EXCEPT ![r] = new] BY <1>1, <1>3
  <2>10. /\ new.held = held /\ new.pc = place /\ new.ip = req[r].ip
         /\ new.kind = req[r].kind /\ new.agent = req[r].agent
      BY <2>1 DEF RequestRecords
  <2>11. req'[r] = new BY <2>9 DEF SlotsInvariant, SlotTypes
  <2>12. Needed(r)' = Needed(r) BY <2>10, <2>11 DEF Needed
  <2>13. /\ place # "idle"
         /\ place = "authenticating" => req[r].kind = "mcp" /\ req[r].agent = NoAgent
         /\ place \in {"served", "authenticating"} => held = Needed(r)
      BY DEF Complete
  <2>14. Slot("ceiling", Process) \in held => Slot("share", req[r].ip) \in held
    <3>1. CASE Slot("ceiling", Process) \in req[r].held BY <3>1, <2>2
    <3>2. CASE Slot("ceiling", Process) = slot BY <3>2, <2>2, CeilingIsLast
    <3> QED BY <3>1, <3>2
  <2>15. \A q \in Requests \ {r} : req'[q].held = req[q].held
      BY <2>9 DEF SlotsInvariant, SlotTypes
  <2>16. req'[r].held = req[r].held \cup {slot} BY <2>10, <2>11
  <2>17. CountersAgree'
      BY <1>3, <2>3, <2>5, <2>8, <2>15, <2>16, OneHolderMore DEF SlotsInvariant
  <2>18. taken' \in [Slots -> Nat] BY <2>5, <2>8 DEF SlotsInvariant, SlotTypes
  <2> HIDE DEF held, place, new
  <2>19. /\ req' \in [Requests -> RequestRecords]
         /\ HoldsWhatItNeeds' /\ CeilingWithinShare'
      BY <2>2, <2>4, <2>7, <2>9, <2>10, <2>12, <2>13, <2>14, OthersKeepTheRules
         DEF SlotsInvariant
  <2> QED BY <2>17, <2>18, <2>19 DEF SlotsInvariant, SlotTypes
<1> QED BY <1>2, <1>3

\* The answer of authentication keeps the invariant.
LEMMA AuthenticatedKeeps ==
    ASSUME SlotsInvariant, NEW r \in Requests, NEW agent \in Agents, Authenticated(r, agent)
    PROVE  SlotsInvariant'
<1> DEFINE slot == Slot("ip", req[r].ip)
           new == [req[r] EXCEPT !.agent = agent, !.pc = "acquiring", !.held = {}]
<1>1. req[r] \in RequestRecords /\ req[r].pc = "authenticating"
    BY DEF SlotsInvariant, SlotTypes, Authenticated
<1>2. /\ req[r].ip \in Addresses /\ req[r].kind = "mcp" /\ req[r].agent = NoAgent
      /\ req[r].held = Needed(r)
    BY <1>1 DEF SlotsInvariant, HoldsWhatItNeeds
<1>3. req[r].held = {slot} BY <1>2 DEF Needed
<1>4. slot \in Slots BY <1>2 DEF Slots, Slot
<1>5. new \in RequestRecords BY <1>1 DEF RequestRecords, States
<1>6. /\ new.held = {} /\ new.pc = "acquiring" /\ new.ip = req[r].ip
    BY <1>1 DEF RequestRecords
<1>7. req' = [req EXCEPT ![r] = new] /\ taken' = [taken EXCEPT ![slot] = @ - 1]
    BY DEF Authenticated
<1> HIDE DEF slot, new
<1>8. req'[r].held = req[r].held \ {slot} BY <1>3, <1>6, <1>7 DEF SlotsInvariant, SlotTypes
<1>9. \A q \in Requests \ {r} : req'[q].held = req[q].held
    BY <1>7 DEF SlotsInvariant, SlotTypes
<1>10. CountersAgree' /\ taken' \in [Slots -> Nat]
    BY <1>3, <1>4, <1>7, <1>8, <1>9, OneHolderLess DEF SlotsInvariant
<1>11. /\ req' \in [Requests -> RequestRecords]
       /\ HoldsWhatItNeeds' /\ CeilingWithinShare'
    BY <1>2, <1>5, <1>6, <1>7, OthersKeepTheRules DEF SlotsInvariant
<1> QED BY <1>10, <1>11 DEF SlotsInvariant, SlotTypes

\* The share is given back only when the ceiling is.
LEMMA ShareIsLast ==
    ASSUME SlotsInvariant, NEW r \in Requests,
           Slot("share", req[r].ip) \in First(Giving, req[r].held)
    PROVE  Slot("ceiling", Process) \notin req[r].held
<1>1. Slot("ceiling", Process).table = "ceiling" /\ Slot("share", req[r].ip).table = "share"
    BY DEF Slot
<1>2. Giving["ceiling"] = 1 /\ Giving["share"] = 2 BY DEF Giving
<1> QED BY <1>1, <1>2 DEF First

\* Giving a slot back keeps the invariant.
LEMMA ReleaseKeeps ==
    ASSUME SlotsInvariant, NEW r \in Requests, Release(r) PROVE SlotsInvariant'
<1>1. CASE req[r].held = {}
  <2>1. req' = [req EXCEPT ![r] = Idle] /\ UNCHANGED taken BY <1>1 DEF Release
  <2>2. Idle \in RequestRecords /\ Idle.held = {} /\ Idle.pc = "idle"
      BY DEF Idle, RequestRecords, States, Kinds
  <2>3. \A q \in Requests : req'[q].held = req[q].held
      BY <1>1, <2>1, <2>2 DEF SlotsInvariant, SlotTypes
  <2>4. CountersAgree' BY <2>1, <2>3, SameHolders DEF SlotsInvariant
  <2>5. /\ req' \in [Requests -> RequestRecords]
        /\ HoldsWhatItNeeds' /\ CeilingWithinShare'
      BY <2>1, <2>2, OthersKeepTheRules DEF SlotsInvariant
  <2> QED BY <2>1, <2>4, <2>5 DEF SlotsInvariant, SlotTypes
<1>2. CASE req[r].held # {}
  <2>1. PICK slot \in First(Giving, req[r].held) :
            /\ taken' = [taken EXCEPT ![slot] = @ - 1]
            /\ req' = [req EXCEPT ![r].held = @ \ {slot}]
      BY <1>2 DEF Release
  <2> DEFINE new == [req[r] EXCEPT !.held = req[r].held \ {slot}]
  <2>2. req[r] \in RequestRecords /\ req[r].pc = "releasing"
      BY DEF SlotsInvariant, SlotTypes, Release
  <2>3. slot \in req[r].held /\ slot \in Slots BY <2>2 DEF First, RequestRecords
  <2>4. new \in RequestRecords BY <2>2 DEF RequestRecords
  <2>5. /\ new.held = req[r].held \ {slot} /\ new.pc = "releasing" /\ new.ip = req[r].ip
        /\ new.kind = req[r].kind /\ new.agent = req[r].agent
      BY <2>2 DEF RequestRecords
  <2>6. req' = [req EXCEPT ![r] = new] BY <2>1
  <2> HIDE DEF new
  <2>7. req'[r] = new BY <2>6 DEF SlotsInvariant, SlotTypes
  <2>8. Needed(r)' = Needed(r) BY <2>5, <2>7 DEF Needed
  <2>9. /\ req[r].held \subseteq Needed(r) /\ req[r].ip \in Addresses
        /\ Slot("ceiling", Process) \in req[r].held => Slot("share", req[r].ip) \in req[r].held
      BY <2>2 DEF SlotsInvariant, HoldsWhatItNeeds, CeilingWithinShare
  <2>10. Slot("ceiling", Process) \in new.held => Slot("share", new.ip) \in new.held
    <3>1. CASE slot = Slot("share", req[r].ip) BY <3>1, <2>5, ShareIsLast
    <3>2. CASE slot # Slot("share", req[r].ip) BY <3>2, <2>5, <2>9
    <3> QED BY <3>1, <3>2
  <2>11. \A q \in Requests \ {r} : req'[q].held = req[q].held
      BY <2>6 DEF SlotsInvariant, SlotTypes
  <2>12. req'[r].held = req[r].held \ {slot} BY <2>5, <2>7
  <2>13. CountersAgree' /\ taken' \in [Slots -> Nat]
      BY <2>1, <2>3, <2>11, <2>12, OneHolderLess DEF SlotsInvariant
  <2>14. /\ req' \in [Requests -> RequestRecords]
         /\ HoldsWhatItNeeds' /\ CeilingWithinShare'
      BY <2>4, <2>5, <2>6, <2>8, <2>9, <2>10, OthersKeepTheRules DEF SlotsInvariant
  <2> QED BY <2>13, <2>14 DEF SlotsInvariant, SlotTypes
<1> QED BY <1>1, <1>2

\* Every step keeps the invariant.
LEMMA NextKeeps == SlotsInvariant /\ [Next]_vars => SlotsInvariant'
<1> SUFFICES ASSUME SlotsInvariant, [Next]_vars PROVE SlotsInvariant' OBVIOUS
<1>1. CASE UNCHANGED vars
    BY <1>1 DEF vars, SlotsInvariant, SlotTypes, CountersAgree, Holders, HoldsWhatItNeeds,
                Needed, CeilingWithinShare
<1>2. CASE Next
  <2>1. PICK r \in Requests :
            \/ \E kind \in Kinds, agent \in Agents \cup {NoAgent}, ip \in Addresses :
                  Arrive(r, kind, agent, ip)
            \/ Step(r) \/ Finish(r)
      BY <1>2 DEF Next
  <2>2. CASE \E kind \in Kinds, agent \in Agents \cup {NoAgent}, ip \in Addresses :
                 Arrive(r, kind, agent, ip)
      BY <2>2, ArriveKeeps
  <2>3. CASE Acquire(r) BY <2>3, AcquireKeeps
  <2>4. CASE Anonymous(r)
    <3>1. req[r].pc = "authenticating" BY <2>4 DEF Anonymous
    <3>2. req[r].held = Needed(r) BY <3>1 DEF SlotsInvariant, HoldsWhatItNeeds
    <3> QED BY <2>4, <3>1, <3>2, OnlyThePlace DEF Anonymous, States
  <2>5. CASE Unauthorized(r) BY <2>5, OnlyThePlace DEF Unauthorized, States
  <2>6. CASE \E agent \in Agents : Authenticated(r, agent) BY <2>6, AuthenticatedKeeps
  <2>7. CASE Expire(r) BY <2>7, OnlyThePlace DEF Expire, States
  <2>8. CASE Release(r) BY <2>8, ReleaseKeeps
  <2>9. CASE Finish(r) BY <2>9, OnlyThePlace DEF Finish, States
  <2> QED BY <2>1, <2>2, <2>3, <2>4, <2>5, <2>6, <2>7, <2>8, <2>9 DEF Step
<1> QED BY <1>1, <1>2

-------------------------------------------------------------------------------
(* The theorems *)

\* Slots, requests and counters fit together in every state (streamTable and the
\* handlers that defer its releases).
THEOREM SlotsInvariantHolds == Spec => []SlotsInvariant
BY InitHolds, NextKeeps, PTL DEF Spec

\* A slot is taken by exactly the requests that hold it and never beyond its limit.
THEOREM CountersAgreeHolds == Spec => []CountersAgree
<1>1. SlotsInvariant => CountersAgree BY DEF SlotsInvariant
<1> QED BY <1>1, SlotsInvariantHolds, PTL

\* No stream, poll, export or MCP request is served on less than it needs.
THEOREM ServedHoldAllHolds == Spec => []ServedHoldAll
<1>1. SlotsInvariant => ServedHoldAll
    BY DEF SlotsInvariant, HoldsWhatItNeeds, ServedHoldAll
<1> QED BY <1>1, SlotsInvariantHolds, PTL

\* No address holds more of the exports' ceiling than its share.
THEOREM SharesHoldHolds == Spec => []SharesHold
<1>1. SlotsInvariant => SharesHold
  <2> SUFFICES ASSUME SlotsInvariant, NEW ip \in Addresses
               PROVE  Cardinality(Exporting(ip)) <= ExportShare
      BY DEF SharesHold
  <2> DEFINE share == Slot("share", ip)
  <2>1. share \in Slots /\ share.table = "share" BY DEF Slots, Slot
  <2>2. Exporting(ip) \subseteq Holders(share)
      BY DEF Exporting, Holders, SlotsInvariant, CeilingWithinShare
  <2> HIDE DEF share
  <2>3. Cardinality(Holders(share)) <= ExportShare
      BY <2>1 DEF SlotsInvariant, CountersAgree, Limit
  <2>4. IsFiniteSet(Holders(share)) BY HoldersAreFinite
  <2>5. Cardinality(Exporting(ip)) <= Cardinality(Holders(share)) BY <2>2, <2>4, FS_Subset
  <2>6. /\ Cardinality(Holders(share)) \in Nat /\ Cardinality(Exporting(ip)) \in Nat
        /\ ExportShare \in Nat
      BY <2>2, <2>4, FS_Subset, FS_CardinalityType, StreamSlotsAssumption
  <2> QED BY <2>3, <2>5, <2>6
<1> QED BY <1>1, SlotsInvariantHolds, PTL
===============================================================================
