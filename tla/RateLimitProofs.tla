---------------------------- MODULE RateLimitProofs ---------------------------
(***************************************************************************)
(* The token buckets, for any number of requests, tables, keys and tokens: *)
(* a table stays within its bound, a key is forgotten only for a crowd,    *)
(* and no key is let in more often than its budget allows.                 *)
(*                                                                         *)
(* The bound on admissions is an account of ticks.  A charge takes a       *)
(* Period of them from the bucket, time brings them back, and a refund     *)
(* puts back what it took less what has come back twice because it turns   *)
(* the bucket's clock back: that is the time between the clock and the     *)
(* bucket's last event, which is why the last event must never be before   *)
(* the clock (ClockFits) nor before the taking of a token that may still   *)
(* be refunded (EventsFit).  Both need the requests to be charged in the   *)
(* order of the times they read: PromptSpend.                              *)
(***************************************************************************)
EXTENDS RateLimit, FiniteSetTheorems, SequenceTheorems, TLAPS

-------------------------------------------------------------------------------
(* The invariants *)

\* A charge that was paid.
Token == [table : Names, key : UNION {KeysOf[t] : t \in Names}, live : BOOLEAN]

\* A request on its way through its tables.
RequestRecords ==
    [pc : {"idle", "charging", "granted", "refunding"}, keys : KeyLists \cup {<<>>},
     at : 0..MaxTime, held : Seq(Token)]

\* A request that is being charged has a table to go to, and one that may be given
\* back what it paid has paid.
RequestFits(q) ==
    /\ q \in RequestRecords
    /\ q.at <= now
    /\ q.pc = "charging" => q.keys \in KeyLists /\ Len(q.held) < Len(Tables)
    /\ q.pc \in {"granted", "refunding"} => q.held # <<>>

\* A table holds entries of keys of its own, and no more than its bound.
TableFits(t) ==
    /\ DOMAIN bucket[t] \subseteq KeysOf[t]
    /\ bucket[t] \in [DOMAIN bucket[t] -> Entry(t)]
    /\ IsFiniteSet(DOMAIN bucket[t])
    /\ Cardinality(DOMAIN bucket[t]) <= MaxTracked

\* A token that can still go back has a bucket to go to.
TokensFit(held) ==
    \A i \in DOMAIN held : held[i].live => held[i].key \in DOMAIN bucket[held[i].table]

\* What the account of a table may be.
Accounts(t) == [KeysOf[t] -> [since : 0..MaxTime, spent : Int]]

\* The types, and the bound of the tables.
RateTypes ==
    /\ now \in 0..MaxTime
    /\ bucket = [t \in Names |-> bucket[t]]
    /\ \A t \in Names : TableFits(t)
    /\ req = [r \in Requests |-> req[r]]
    /\ \A r \in Requests : RequestFits(req[r]) /\ TokensFit(req[r].held)
    /\ account = [t \in Names |-> account[t]]
    /\ \A t \in Names : account[t] \in Accounts(t)

\* No bucket's clock is ahead of now or of its last event.
ClockFits(b) == b.last <= now /\ b.seen <= now /\ b.last <= b.lastEvent

\* The last event of the bucket of a token is not before the token was taken.
EventsFit(q) ==
    \A i \in DOMAIN q.held :
        q.held[i].live => q.at <= bucket[q.held[i].table][q.held[i].key].lastEvent

\* The ticks a key has paid and was not given back.
Paid(t, k) == account[t][k].spent * Period[t]

\* What the key has paid and what is in its bucket were in a full bucket, or have
\* flowed in before the bucket's clock; a key without a bucket has only paid what has
\* flowed in since.
AccountFits(t, k) ==
    IF k \in DOMAIN bucket[t]
    THEN Paid(t, k) + bucket[t][k].tokens
            <= Capacity(t) + bucket[t][k].last - account[t][k].since
    ELSE Paid(t, k) <= now - account[t][k].since

\* The inductive invariant.
RateInvariant ==
    /\ RateTypes
    /\ \A r \in Requests : req[r].pc = "charging" => req[r].at = now
    /\ \A t \in Names : \A k \in DOMAIN bucket[t] : ClockFits(bucket[t][k])
    /\ \A r \in Requests : EventsFit(req[r])
    /\ \A t \in Names : \A k \in KeysOf[t] : AccountFits(t, k)

-------------------------------------------------------------------------------
(* Buckets *)

\* The parameters of a table are numbers.
LEMMA Parameters ==
    ASSUME NEW t \in Names
    PROVE  /\ Burst[t] \in Nat \ {0} /\ Period[t] \in Nat \ {0}
           /\ Capacity(t) \in Nat /\ MaxTime \in Nat
BY RateLimitAssumption DEF Capacity

\* The level of a bucket is between nothing and its capacity, and is never more than
\* what it held and what has flowed in since its clock.
LEMMA LevelFits ==
    ASSUME NEW t \in Names, NEW b \in Entry(t), NEW at \in 0..MaxTime
    PROVE  /\ Level(t, b, at) \in 0..Capacity(t)
           /\ Wait(t, b, at) \in 0..Period[t]
           /\ Wait(t, b, at) = 0 <=> Level(t, b, at) >= Period[t]
           /\ b.last <= at => Level(t, b, at) <= b.tokens + (at - b.last)
           /\ at < b.last => Level(t, b, at) = b.tokens
<1> USE Parameters
<1>1. b.tokens \in 0..Capacity(t) /\ b.last \in 0..MaxTime
  BY DEF Entry
<1> HIDE DEF Capacity
<1>2. Level(t, b, at) \in 0..Capacity(t)
  BY <1>1 DEF Level, Least
<1>3. QED
  BY <1>1, <1>2 DEF Level, Least, Wait

\* A later look at a bucket shows no less in it.
LEMMA LevelGrows ==
    ASSUME NEW t \in Names, NEW b \in Entry(t), NEW at \in 0..MaxTime,
           NEW later \in 0..MaxTime, at <= later
    PROVE  Level(t, b, at) <= Level(t, b, later)
<1>1. b.tokens \in 0..Capacity(t) /\ b.last \in 0..MaxTime /\ Capacity(t) \in Nat
  BY Parameters DEF Entry
<1> HIDE DEF Capacity
<1>2. QED
  BY <1>1 DEF Level, Least

\* A new bucket is full, and its clock is right.
LEMMA FullBucketFits ==
    ASSUME NEW t \in Names, NEW at \in 0..MaxTime
    PROVE  /\ FullBucket(t, at) \in Entry(t)
           /\ FullBucket(t, at).tokens = Capacity(t)
           /\ FullBucket(t, at).last = at
BY Parameters DEF FullBucket, Entry

\* A token taken leaves a bucket that is lower by what has been paid.
LEMMA TakenFits ==
    ASSUME NEW t \in Names, NEW b \in Entry(t), NEW at \in 0..MaxTime,
           Wait(t, b, at) = 0
    PROVE  /\ Taken(t, b, at) \in Entry(t)
           /\ Taken(t, b, at).last = at /\ Taken(t, b, at).lastEvent = at
           /\ Taken(t, b, at).seen = at
           /\ Taken(t, b, at).tokens = Level(t, b, at) - Period[t]
<1>1. /\ Level(t, b, at) \in 0..Capacity(t) /\ Level(t, b, at) >= Period[t]
      /\ Period[t] \in Nat /\ MaxTime \in Nat /\ Capacity(t) \in Nat
  BY LevelFits, Parameters
<1>2. Level(t, b, at) - Period[t] \in 0..Capacity(t)
  BY <1>1
<1>3. at \in 0..(MaxTime + Period[t])
  BY <1>1
<1>4. Taken(t, b, at) =
         [b EXCEPT !.tokens = Level(t, b, at) - Period[t], !.last = at, !.lastEvent = at,
                   !.seen = at]
  BY DEF Taken
<1>5. QED
  BY <1>2, <1>3, <1>4 DEF Entry

\* A refusal leaves the level as it is and puts the last event at now or after it.
LEMMA RefusedFits ==
    ASSUME NEW t \in Names, NEW b \in Entry(t), NEW at \in 0..MaxTime
    PROVE  /\ Refused(t, b, at) \in Entry(t)
           /\ Refused(t, b, at).last = at /\ Refused(t, b, at).lastEvent >= at
           /\ Refused(t, b, at).seen = at
           /\ Refused(t, b, at).tokens = Level(t, b, at)
<1> DEFINE due == at + Wait(t, b, at)
           event == IF due - Period[t] >= at THEN due - Period[t] ELSE due
<1>1. /\ Level(t, b, at) \in 0..Capacity(t) /\ Wait(t, b, at) \in 0..Period[t]
      /\ Period[t] \in Nat /\ MaxTime \in Nat
  BY LevelFits, Parameters
<1>2. event \in 0..(MaxTime + Period[t]) /\ event >= at
  BY <1>1
<1>3. Refused(t, b, at) =
         [b EXCEPT !.tokens = Level(t, b, at), !.last = at, !.seen = at, !.lastEvent = event]
  BY DEF Refused
<1> HIDE DEF event
<1>4. QED
  BY <1>1, <1>2, <1>3 DEF Entry

\* A refund leaves a bucket, and neither its last event nor when it was seen changes.
LEMMA RefundedFits ==
    ASSUME NEW t \in Names, NEW b \in Entry(t), NEW at \in 0..MaxTime
    PROVE  /\ Refunded(t, b, at) \in Entry(t)
           /\ Refunded(t, b, at).lastEvent = b.lastEvent
           /\ Refunded(t, b, at).seen = b.seen
           /\ Refunded(t, b, at).last \in {b.last, at}
<1> DEFINE restored == Period[t] - (b.lastEvent - at)
           level == Least(Capacity(t), Level(t, b, at) + restored)
<1>1. /\ Level(t, b, at) \in 0..Capacity(t) /\ Capacity(t) \in Nat
      /\ Period[t] \in Nat /\ MaxTime \in Nat /\ b.lastEvent \in Nat
  BY LevelFits, Parameters DEF Entry
<1>2. CASE restored <= 0
  BY <1>2 DEF Refunded
<1>3. CASE ~(restored <= 0)
  <2>1. Refunded(t, b, at) = [b EXCEPT !.tokens = level, !.last = at]
    BY <1>3 DEF Refunded
  <2>2. level \in 0..Capacity(t)
    BY <1>1, <1>3 DEF Least
  <2> HIDE DEF level
  <2>3. QED
    BY <1>1, <2>1, <2>2 DEF Entry
<1>4. QED
  BY <1>2, <1>3

\* What a refund adds, less what the clock it turns back will add again, is at most
\* the token.
LEMMA RefundIsNoMore ==
    ASSUME NEW t \in Names, NEW b \in Entry(t), NEW at \in 0..MaxTime,
           at <= b.lastEvent, b.last <= b.lastEvent
    PROVE  /\ Refunded(t, b, at).tokens - Refunded(t, b, at).last
                 <= b.tokens - b.last + Period[t]
           /\ Refunded(t, b, at).last <= Refunded(t, b, at).lastEvent
<1> DEFINE restored == Period[t] - (b.lastEvent - at)
           level == Least(Capacity(t), Level(t, b, at) + restored)
<1>1. /\ Level(t, b, at) \in 0..Capacity(t) /\ Capacity(t) \in Nat
      /\ Period[t] \in Nat /\ b.lastEvent \in Nat /\ b.last \in Nat /\ b.tokens \in Nat
      /\ b.last <= at => Level(t, b, at) <= b.tokens + (at - b.last)
      /\ at < b.last => Level(t, b, at) = b.tokens
  BY LevelFits, Parameters DEF Entry
<1>2. CASE restored <= 0
  <2>1. Refunded(t, b, at) = b
    BY <1>2 DEF Refunded
  <2>2. QED
    BY <1>1, <2>1
<1>3. CASE ~(restored <= 0)
  <2>1. Refunded(t, b, at) = [b EXCEPT !.tokens = level, !.last = at]
    BY <1>3 DEF Refunded
  <2>2. level \in Int /\ level <= Level(t, b, at) + restored
    BY <1>1, <1>3 DEF Least
  <2>3. level - at <= b.tokens - b.last + Period[t]
    <3> HIDE DEF level
    <3>1. CASE b.last <= at
      BY <1>1, <2>2, <3>1
    <3>2. CASE at < b.last
      BY <1>1, <2>2, <3>2
    <3>3. QED
      BY <1>1, <3>1, <3>2
  <2> HIDE DEF level
  <2>4. /\ Refunded(t, b, at).tokens = level /\ Refunded(t, b, at).last = at
        /\ Refunded(t, b, at).lastEvent = b.lastEvent
    BY <2>1 DEF Entry
  <2>5. QED
    BY <1>1, <2>2, <2>3, <2>4
<1>4. QED
  BY <1>2, <1>3

-------------------------------------------------------------------------------
(* Evictions *)

\* Whatever is evicted, there is room for one key more.
LEMMA SurvivorsFit ==
    ASSUME NEW t \in Names, TableFits(t), NEW at, NEW kept \in Survivors(t, at)
    PROVE  /\ kept \subseteq DOMAIN bucket[t]
           /\ IsFiniteSet(kept) /\ Cardinality(kept) < MaxTracked
<1> DEFINE rest == NotFull(t, at)
           excess == Cardinality(rest) - Target
<1>1. /\ rest \subseteq DOMAIN bucket[t] /\ IsFiniteSet(rest)
      /\ Cardinality(rest) \in Nat /\ Cardinality(DOMAIN bucket[t]) \in Nat
  BY FS_Subset, FS_CardinalityType DEF NotFull, TableFits
<1>2. MaxTracked \in Nat \ {0} /\ Target \in Nat /\ Target < MaxTracked
  BY RateLimitAssumption DEF Target
<1> HIDE DEF rest
<1>3. CASE ~IsCrowded(t)
  BY <1>1, <1>2, <1>3 DEF Survivors, IsCrowded, TableFits
<1>4. CASE IsCrowded(t) /\ excess <= 0
  <2>1. kept = rest
    BY <1>4 DEF Survivors, rest
  <2>2. QED
    BY <1>1, <1>2, <1>4, <2>1
<1>5. CASE IsCrowded(t) /\ ~(excess <= 0)
  <2>1. PICK D \in SUBSET rest : Cardinality(D) = excess /\ kept = rest \ D
    BY <1>5 DEF Survivors, rest
  <2>2. /\ IsFiniteSet(kept)
        /\ Cardinality(kept) = Cardinality(rest) - Cardinality(rest \cap D)
    BY <1>1, <2>1, FS_Difference
  <2>3. rest \cap D = D
    BY <2>1
  <2>4. Cardinality(kept) = Cardinality(rest) - excess
    BY <2>1, <2>2, <2>3
  <2>5. QED
    BY <1>1, <1>2, <2>1, <2>2, <2>4
<1>6. QED
  BY <1>3, <1>4, <1>5

\* A bucket that is evicted while it is not full has not been seen later than any
\* that stays, and as many stay as the eviction aims at.
LEMMA EvictedForCrowd ==
    ASSUME NEW t \in Names, TableFits(t), NEW at, NEW kept \in Survivors(t, at),
           NEW k \in NotFull(t, at) \ kept
    PROVE  /\ IsFiniteSet(kept) /\ Cardinality(kept) = Target
           /\ \A j \in kept : bucket[t][k].seen <= bucket[t][j].seen
<1> DEFINE rest == NotFull(t, at)
           excess == Cardinality(rest) - Target
<1>1. /\ rest \subseteq DOMAIN bucket[t] /\ IsFiniteSet(rest) /\ Cardinality(rest) \in Nat
  BY FS_Subset, FS_CardinalityType DEF NotFull, TableFits
<1>2. Target \in Nat /\ k \in rest /\ k \notin kept
  BY RateLimitAssumption DEF Target
<1>3. IsCrowded(t) /\ ~(excess <= 0)
  BY <1>1, <1>2 DEF Survivors
<1>4. PICK D \in SUBSET rest :
         Cardinality(D) = excess /\ LongestUnseen(t, D, rest) /\ kept = rest \ D
  BY <1>3 DEF Survivors
<1> HIDE DEF rest
<1>5. /\ IsFiniteSet(kept)
      /\ Cardinality(kept) = Cardinality(rest) - Cardinality(rest \cap D)
      /\ rest \cap D = D
  BY <1>1, <1>4, FS_Difference
<1>6. k \in D
  BY <1>2, <1>4
<1>7. \A j \in kept : bucket[t][k].seen <= bucket[t][j].seen
  BY <1>4, <1>6 DEF LongestUnseen
<1>8. Cardinality(kept) = Cardinality(rest) - excess
  BY <1>4, <1>5
<1>9. QED
  BY <1>1, <1>2, <1>5, <1>7, <1>8

-------------------------------------------------------------------------------
(* What a request holds *)

\* The tokens of a request stay its tokens when buckets are dropped; those that can
\* still go back could before, and have a bucket that is kept.
LEMMA OrphanedIs ==
    ASSUME NEW held \in Seq(Token), NEW t, NEW kept
    PROVE  /\ Orphaned(held, t, kept) \in Seq(Token)
           /\ Len(Orphaned(held, t, kept)) = Len(held)
           /\ \A i \in DOMAIN held :
                 /\ Orphaned(held, t, kept)[i].table = held[i].table
                 /\ Orphaned(held, t, kept)[i].key = held[i].key
                 /\ Orphaned(held, t, kept)[i].live =>
                       /\ held[i].live
                       /\ held[i].table = t => held[i].key \in kept
<1> DEFINE result == Orphaned(held, t, kept)
<1>1. DOMAIN held = 1..Len(held) /\ Len(held) \in Nat /\ \A i \in DOMAIN held : held[i] \in Token
  OBVIOUS
<1>2. ASSUME NEW i \in DOMAIN held
      PROVE  /\ result[i] \in Token
             /\ result[i].table = held[i].table /\ result[i].key = held[i].key
             /\ result[i].live => held[i].live /\ (held[i].table = t => held[i].key \in kept)
  BY <1>1 DEF Orphaned, Token
<1>3. DOMAIN result = 1..Len(held) /\ result = [i \in 1..Len(held) |-> result[i]]
  BY <1>1 DEF Orphaned
<1> HIDE DEF result
<1>4. result \in [1..Len(held) -> Token]
  BY <1>1, <1>2, <1>3
<1>5. result \in Seq(Token) /\ Len(result) = Len(held)
  BY <1>1, <1>4, SeqDef
<1>6. QED
  BY <1>2, <1>5 DEF result

\* One token more.
LEMMA OneMore ==
    ASSUME NEW held \in Seq(Token), NEW token \in Token
    PROVE  /\ Append(held, token) \in Seq(Token) /\ Append(held, token) # <<>>
           /\ Len(Append(held, token)) = Len(held) + 1
           /\ \A i \in DOMAIN Append(held, token) :
                 \/ i \in DOMAIN held /\ Append(held, token)[i] = held[i]
                 \/ Append(held, token)[i] = token
<1> DEFINE longer == Append(held, token)
<1>1. /\ longer \in Seq(Token) /\ Len(longer) = Len(held) + 1 /\ Len(held) \in Nat
      /\ \A i \in 1..Len(held) : longer[i] = held[i]
      /\ longer[Len(held) + 1] = token
  OBVIOUS
<1>2. DOMAIN longer = 1..(Len(held) + 1) /\ DOMAIN held = 1..Len(held)
  BY <1>1
<1>3. longer # <<>>
  BY <1>1
<1> HIDE DEF longer
<1>4. QED
  BY <1>1, <1>2, <1>3 DEF longer

\* The first token and the others.
LEMMA OneLess ==
    ASSUME NEW held \in Seq(Token), held # <<>>
    PROVE  /\ 1 \in DOMAIN held /\ Head(held) = held[1] /\ Head(held) \in Token
           /\ Tail(held) \in Seq(Token)
           /\ \A i \in DOMAIN Tail(held) : i + 1 \in DOMAIN held /\ Tail(held)[i] = held[i + 1]
<1>1. /\ Head(held) \in Token /\ Tail(held) \in Seq(Token) /\ Len(Tail(held)) = Len(held) - 1
      /\ \A i \in 1..Len(Tail(held)) : Tail(held)[i] = held[i + 1]
  BY HeadTailProperties
<1>2. Len(held) \in Nat \ {0} /\ DOMAIN held = 1..Len(held) /\ Head(held) = held[1]
  BY EmptySeq
<1> DEFINE rest == Tail(held)
<1>3. DOMAIN rest = 1..Len(rest) /\ Len(rest) \in Nat
  BY <1>1
<1> HIDE DEF rest
<1>4. QED
  BY <1>1, <1>2, <1>3 DEF rest

-------------------------------------------------------------------------------
(* A charge *)

\* The bucket a charge finds, or makes.
Found(t, k, at) == IF k \in DOMAIN bucket[t] THEN bucket[t][k] ELSE FullBucket(t, at)

\* Whether a charge is let through.
Granted(t, k, at) == Wait(t, Found(t, k, at), at) = 0

\* The bucket of a key after a charge.
Charged(t, k, at) ==
    IF Granted(t, k, at) THEN Taken(t, Found(t, k, at), at) ELSE Refused(t, Found(t, k, at), at)

\* The request r is charged to the key k of table t, and of the other keys of the
\* table some are kept.
Charges(r, t, k, kept) ==
    LET at == req[r].at
        held == Orphaned(req[r].held, t, kept \cup {k})
        token == [table |-> t, key |-> k, live |-> TRUE]
    IN  /\ req[r].pc = "charging" /\ now' = now
        /\ kept \in IF k \in DOMAIN bucket[t] THEN {DOMAIN bucket[t]} ELSE Survivors(t, at)
        /\ bucket' = [bucket EXCEPT ![t] =
              [j \in kept \cup {k} |-> IF j # k THEN bucket[t][j] ELSE Charged(t, k, at)]]
        /\ account' = [account EXCEPT ![t] =
              [AccountAfter(t, kept, at) EXCEPT
                  ![k].spent = IF Granted(t, k, at) THEN @ + 1 ELSE @]]
        /\ req' = [s \in Requests |-> req'[s]]
        /\ \A s \in Requests \ {r} :
              req'[s] = [req[s] EXCEPT !.held = Orphaned(req[s].held, t, kept \cup {k})]
        /\ \/ req'[r] = Idle
           \/ /\ held # <<>>
              /\ req'[r] = [req[r] EXCEPT !.held = held, !.pc = "refunding"]
           \/ /\ Len(held) + 1 < Len(Tables)
              /\ req'[r] = [req[r] EXCEPT !.held = Append(held, token), !.pc = "charging"]
           \/ req'[r] = [req[r] EXCEPT !.held = Append(held, token), !.pc = "granted"]

\* Every charge is one to a key of the table the request has come to.
LEMMA ChargeIsOne ==
    ASSUME RateTypes, NEW r \in Requests, Charge(r)
    PROVE  \E t \in Names : \E k \in KeysOf[t] : \E kept \in SUBSET DOMAIN bucket[t] :
              Charges(r, t, k, kept)
<1> DEFINE i == Len(req[r].held) + 1
           t == Tables[i]
           k == req[r].keys[i]
           at == req[r].at
           token == [table |-> t, key |-> k, live |-> TRUE]
           held(kept, s) == Orphaned(req[s].held, t, kept \cup {k})
<1>1. /\ req[r].pc = "charging" /\ req[r].held \in Seq(Token)
      /\ Len(req[r].held) < Len(Tables) /\ req[r].keys \in KeyLists
  BY DEF Charge, RateTypes, RequestFits, RequestRecords
<1>2. /\ i \in DOMAIN Tables /\ i \in Nat /\ t \in Names /\ k \in KeysOf[t]
      /\ i # Len(Tables) => i < Len(Tables)
  <2>1. /\ Len(req[r].held) \in Nat /\ Len(Tables) \in Nat /\ DOMAIN Tables = 1..Len(Tables)
        /\ Len(req[r].held) < Len(Tables)
    BY <1>1, RateLimitAssumption
  <2>2. i \in DOMAIN Tables /\ i \in Nat /\ (i # Len(Tables) => i < Len(Tables))
    <3>1. \A n, m \in Nat : n < m =>
             n + 1 \in 1..m /\ n + 1 \in Nat /\ (n + 1 # m => n + 1 < m)
      OBVIOUS
    <3>2. QED
      BY <2>1, <3>1
  <2> HIDE DEF i
  <2>3. t \in Names
    BY <2>2 DEF Names
  <2>4. k \in KeysOf[t]
    BY <1>1, <2>2 DEF KeyLists
  <2>5. QED
    BY <2>2, <2>3, <2>4
<1>3. PICK kept \in IF k \in DOMAIN bucket[t] THEN {DOMAIN bucket[t]} ELSE Survivors(t, at) :
         /\ bucket' = [bucket EXCEPT ![t] =
               [j \in kept \cup {k} |-> IF j # k THEN bucket[t][j] ELSE Charged(t, k, at)]]
         /\ account' = [account EXCEPT ![t] =
               [AccountAfter(t, kept, at) EXCEPT
                   ![k].spent = IF Granted(t, k, at) THEN @ + 1 ELSE @]]
         /\ req' = [s \in Requests |->
               IF s # r THEN [req[s] EXCEPT !.held = held(kept, s)]
               ELSE IF Granted(t, k, at)
               THEN [req[r] EXCEPT !.held = Append(held(kept, s), token),
                        !.pc = IF i = Len(Tables) THEN "granted" ELSE "charging"]
               ELSE IF held(kept, s) = <<>> THEN Idle
               ELSE [req[r] EXCEPT !.held = held(kept, s), !.pc = "refunding"]]
  BY DEF Charge, Charged, Granted, Found
<1>4. now' = now
  BY DEF Charge
<1>5. kept \in SUBSET DOMAIN bucket[t]
  BY <1>2, <1>3, SurvivorsFit DEF RateTypes
<1>6. Len(held(kept, r)) = Len(req[r].held)
  BY <1>1, OrphanedIs
<1> HIDE DEF i, t, k, at, token, held
<1>7. /\ req' = [s \in Requests |-> req'[s]]
      /\ \A s \in Requests \ {r} : req'[s] = [req[s] EXCEPT !.held = held(kept, s)]
      /\ \/ req'[r] = Idle
         \/ /\ held(kept, r) # <<>>
            /\ req'[r] = [req[r] EXCEPT !.held = held(kept, r), !.pc = "refunding"]
         \/ /\ i < Len(Tables)
            /\ req'[r] = [req[r] EXCEPT !.held = Append(held(kept, r), token), !.pc = "charging"]
         \/ req'[r] = [req[r] EXCEPT !.held = Append(held(kept, r), token), !.pc = "granted"]
  BY <1>2, <1>3
<1>8. Charges(r, t, k, kept)
  BY <1>1, <1>3, <1>4, <1>6, <1>7 DEF Charges, i, at, token, held
<1>9. QED
  BY <1>2, <1>5, <1>8

\* What a charge makes of the bucket.
LEMMA ChargedFits ==
    ASSUME RateTypes, NEW t \in Names, NEW k, NEW at \in 0..MaxTime
    PROVE  /\ Found(t, k, at) \in Entry(t) /\ Charged(t, k, at) \in Entry(t)
           /\ Charged(t, k, at).last = at /\ Charged(t, k, at).seen = at
           /\ Charged(t, k, at).lastEvent >= at
           /\ Charged(t, k, at).tokens = Level(t, Found(t, k, at), at)
                 - (IF Granted(t, k, at) THEN Period[t] ELSE 0)
<1>1. Found(t, k, at) \in Entry(t)
  BY FullBucketFits DEF Found, RateTypes, TableFits
<1>2. Level(t, Found(t, k, at), at) \in Int
  BY <1>1, LevelFits
<1>3. CASE Granted(t, k, at)
  BY <1>1, <1>3, TakenFits DEF Charged, Granted
<1>4. CASE ~Granted(t, k, at)
  BY <1>1, <1>2, <1>4, RefusedFits DEF Charged
<1>5. QED
  BY <1>1, <1>3, <1>4

\* The tables after a charge.
LEMMA TablesAfter ==
    ASSUME RateTypes, NEW r \in Requests, NEW t \in Names, NEW k \in KeysOf[t],
           NEW kept \in SUBSET DOMAIN bucket[t], Charges(r, t, k, kept)
    PROVE  /\ bucket' = [u \in Names |-> bucket'[u]]
           /\ \A u \in Names \ {t} : bucket'[u] = bucket[u]
           /\ DOMAIN bucket'[t] = kept \cup {k}
           /\ \A j \in kept \ {k} : bucket'[t][j] = bucket[t][j]
           /\ bucket'[t][k] = Charged(t, k, req[r].at)
           /\ k \in DOMAIN bucket[t] => kept = DOMAIN bucket[t]
           /\ k \notin DOMAIN bucket[t] => kept \in Survivors(t, req[r].at)
           /\ req[r].at \in 0..MaxTime /\ req[r].at <= now
<1>1. bucket = [u \in Names |-> bucket[u]]
  BY DEF RateTypes
<1>2. bucket'[t] = [j \in kept \cup {k} |->
                      IF j # k THEN bucket[t][j] ELSE Charged(t, k, req[r].at)]
  BY <1>1 DEF Charges
<1>3. bucket' = [u \in Names |-> bucket'[u]] /\ \A u \in Names \ {t} : bucket'[u] = bucket[u]
  BY <1>1 DEF Charges
<1>4. kept \in IF k \in DOMAIN bucket[t] THEN {DOMAIN bucket[t]} ELSE Survivors(t, req[r].at)
  BY DEF Charges
<1>5. req[r].at \in 0..MaxTime /\ req[r].at <= now
  BY DEF RateTypes, RequestFits, RequestRecords
<1>6. QED
  BY <1>2, <1>3, <1>4, <1>5

\* A charge keeps the tables within their bound.
LEMMA ChargeKeepsTables ==
    ASSUME RateTypes, NEW r \in Requests, NEW t \in Names, NEW k \in KeysOf[t],
           NEW kept \in SUBSET DOMAIN bucket[t], Charges(r, t, k, kept)
    PROVE  \A u \in Names : TableFits(u)'
<1> USE TablesAfter
<1>1. TableFits(t)
  BY DEF RateTypes
<1>2. ASSUME NEW u \in Names \ {t}
      PROVE  TableFits(u)'
  BY <1>2 DEF RateTypes, TableFits, Entry
<1>3. IsFiniteSet(kept \cup {k}) /\ Cardinality(kept \cup {k}) <= MaxTracked
  <2>1. CASE k \in DOMAIN bucket[t]
    <3>1. kept \cup {k} = DOMAIN bucket[t]
      BY <2>1
    <3>2. QED
      BY <1>1, <3>1 DEF TableFits
  <2>2. CASE k \notin DOMAIN bucket[t]
    <3>1. IsFiniteSet(kept) /\ Cardinality(kept) < MaxTracked /\ MaxTracked \in Nat
      BY <1>1, <2>2, SurvivorsFit, RateLimitAssumption
    <3>2. /\ IsFiniteSet(kept \cup {k}) /\ Cardinality(kept) \in Nat
          /\ Cardinality(kept \cup {k}) \in {Cardinality(kept), Cardinality(kept) + 1}
      BY <3>1, FS_AddElement, FS_CardinalityType
    <3>3. QED
      BY <3>1, <3>2
  <2>3. QED
    BY <2>1, <2>2
<1>4. bucket'[t] \in [kept \cup {k} -> Entry(t)]
  <2>1. Charged(t, k, req[r].at) \in Entry(t)
    BY ChargedFits
  <2>2. \A j \in kept \cup {k} : bucket'[t][j] \in Entry(t)
    BY <1>1, <2>1 DEF TableFits
  <2>3. bucket'[t] = [j \in kept \cup {k} |-> bucket'[t][j]]
    BY DEF Charges, RateTypes
  <2>4. QED
    BY <2>2, <2>3
<1>5. TableFits(t)'
  BY <1>1, <1>3, <1>4 DEF TableFits, Entry
<1>6. QED
  BY <1>2, <1>5

\* A request that another is charged for has lost no more than buckets.
LEMMA OthersAfterCharge ==
    ASSUME RateTypes, NEW r \in Requests, NEW t \in Names, NEW k \in KeysOf[t],
           NEW kept \in SUBSET DOMAIN bucket[t], Charges(r, t, k, kept), NEW s \in Requests,
           s # r
    PROVE  /\ req'[s].pc = req[s].pc /\ req'[s].at = req[s].at /\ req'[s].keys = req[s].keys
           /\ req'[s].held = Orphaned(req[s].held, t, kept \cup {k})
           /\ RequestFits(req[s])'
<1>1. req[s] \in RequestRecords
  BY DEF RateTypes, RequestFits
<1>2. req'[s] = [req[s] EXCEPT !.held = Orphaned(req[s].held, t, kept \cup {k})]
  BY DEF Charges
<1> DEFINE held == Orphaned(req[s].held, t, kept \cup {k})
<1>3. held \in Seq(Token) /\ Len(held) = Len(req[s].held)
  BY <1>1, OrphanedIs DEF RequestRecords
<1> HIDE DEF held
<1>4. req'[s] = [req[s] EXCEPT !.held = held] /\ now' = now
  BY <1>2 DEF held, Charges
<1>5. req[s].held # <<>> => held # <<>>
  BY <1>1, <1>3 DEF RequestRecords
<1>6. RequestFits(req[s])'
  BY <1>1, <1>3, <1>4, <1>5 DEF RateTypes, RequestFits, RequestRecords
<1>7. QED
  BY <1>1, <1>4, <1>6 DEF RequestRecords, held

\* The request that is charged.
LEMMA RequestAfterCharge ==
    ASSUME RateTypes, NEW r \in Requests, NEW t \in Names, NEW k \in KeysOf[t],
           NEW kept \in SUBSET DOMAIN bucket[t], Charges(r, t, k, kept)
    PROVE  /\ RequestFits(req[r])'
           /\ req'[r].pc = "charging" => req'[r].at = req[r].at
           /\ \A i \in DOMAIN req'[r].held :
                 /\ req'[r].at = req[r].at
                 /\ \/ /\ i \in DOMAIN req[r].held
                       /\ req'[r].held[i] = Orphaned(req[r].held, t, kept \cup {k})[i]
                    \/ req'[r].held[i].table = t /\ req'[r].held[i].key = k
<1> DEFINE held == Orphaned(req[r].held, t, kept \cup {k})
           token == [table |-> t, key |-> k, live |-> TRUE]
<1>1. /\ req[r] \in RequestRecords /\ req[r].keys \in KeyLists /\ req[r].at <= now
      /\ now' = now /\ req[r].pc = "charging"
  BY DEF RateTypes, RequestFits, Charges
<1>2. held \in Seq(Token) /\ Len(held) = Len(req[r].held) /\ DOMAIN held = DOMAIN req[r].held
  BY <1>1, OrphanedIs DEF RequestRecords
<1>3. token \in Token
  BY DEF Token
<1>4. \/ req'[r] = Idle
      \/ held # <<>> /\ req'[r] = [req[r] EXCEPT !.held = held, !.pc = "refunding"]
      \/ /\ Len(held) + 1 < Len(Tables)
         /\ req'[r] = [req[r] EXCEPT !.held = Append(held, token), !.pc = "charging"]
      \/ req'[r] = [req[r] EXCEPT !.held = Append(held, token), !.pc = "granted"]
  BY DEF Charges
<1>5. token.table = t /\ token.key = k
  OBVIOUS
<1> HIDE DEF held, token
<1>6. /\ Append(held, token) \in Seq(Token) /\ Append(held, token) # <<>>
      /\ Len(Append(held, token)) = Len(held) + 1
      /\ \A i \in DOMAIN Append(held, token) :
            \/ i \in DOMAIN held /\ Append(held, token)[i] = held[i]
            \/ Append(held, token)[i] = token
  BY <1>2, <1>3, OneMore
<1> DEFINE longer == Append(held, token)
<1> HIDE DEF longer
<1>7. CASE req'[r] = Idle
  <2>1. Idle \in RequestRecords /\ Idle.pc = "idle" /\ Idle.held = <<>> /\ Idle.at <= now
    BY <1>1, RateLimitAssumption DEF Idle, RequestRecords, RateTypes
  <2>2. QED
    BY <1>1, <1>7, <2>1 DEF RequestFits, RequestRecords
<1>8. CASE held # <<>> /\ req'[r] = [req[r] EXCEPT !.held = held, !.pc = "refunding"]
  BY <1>1, <1>2, <1>8 DEF RequestFits, RequestRecords, held
<1>9. CASE /\ Len(held) + 1 < Len(Tables)
           /\ req'[r] = [req[r] EXCEPT !.held = longer, !.pc = "charging"]
  <2>1. RequestFits(req[r])'
    BY <1>1, <1>6, <1>9 DEF RequestFits, RequestRecords, longer
  <2>2. req'[r].held = longer /\ req'[r].at = req[r].at
    BY <1>1, <1>9 DEF RequestRecords
  <2>3. QED
    BY <1>2, <1>5, <1>6, <2>1, <2>2 DEF held, longer
<1>10. CASE req'[r] = [req[r] EXCEPT !.held = longer, !.pc = "granted"]
  <2>1. RequestFits(req[r])'
    BY <1>1, <1>6, <1>10 DEF RequestFits, RequestRecords, longer
  <2>2. req'[r].held = longer /\ req'[r].at = req[r].at /\ req'[r].pc = "granted"
    BY <1>1, <1>10 DEF RequestRecords
  <2>3. QED
    BY <1>2, <1>5, <1>6, <2>1, <2>2 DEF held, longer
<1>11. QED
  BY <1>4, <1>7, <1>8, <1>9, <1>10 DEF longer

\* A token that can still go back after a charge is one of before, and its bucket is
\* kept, or it is the new one.
LEMMA TokensAfterCharge ==
    ASSUME RateTypes, NEW r \in Requests, NEW t \in Names, NEW k \in KeysOf[t],
           NEW kept \in SUBSET DOMAIN bucket[t], Charges(r, t, k, kept), NEW s \in Requests,
           NEW i \in DOMAIN req'[s].held, req'[s].held[i].live
    PROVE  LET token == req'[s].held[i]
           IN  /\ req'[s].at = req[s].at
               /\ \/ token.table = t /\ token.key = k
                  \/ /\ i \in DOMAIN req[s].held /\ req[s].held[i].live
                     /\ req[s].held[i].table = token.table /\ req[s].held[i].key = token.key
                     /\ token.table \in Names /\ token.key \in DOMAIN bucket[token.table]
                     /\ token.table = t => token.key \in kept
<1> DEFINE held == Orphaned(req[s].held, t, kept \cup {k})
           token == req'[s].held[i]
<1>1. /\ req[s].held \in Seq(Token)
      /\ \A j \in DOMAIN req[s].held : req[s].held[j] \in Token
  BY DEF RateTypes, RequestFits, RequestRecords
<1>2. /\ held \in Seq(Token) /\ DOMAIN held = DOMAIN req[s].held
      /\ \A j \in DOMAIN req[s].held :
            /\ held[j].table = req[s].held[j].table /\ held[j].key = req[s].held[j].key
            /\ held[j].live => /\ req[s].held[j].live
                               /\ req[s].held[j].table = t => req[s].held[j].key \in kept \cup {k}
  BY <1>1, OrphanedIs
<1>3. /\ req'[s].at = req[s].at
      /\ \/ i \in DOMAIN req[s].held /\ token = held[i]
         \/ token.table = t /\ token.key = k
  <2>1. CASE s # r
    <3>1. req'[s] = [req[s] EXCEPT !.held = held]
      BY <2>1 DEF Charges
    <3>2. req'[s].at = req[s].at /\ req'[s].held = held
      BY <3>1 DEF RateTypes, RequestFits, RequestRecords
    <3> HIDE DEF held
    <3>3. QED
      BY <1>2, <3>2
  <2>2. CASE s = r
    <3>1. i \in DOMAIN req'[r].held
      BY <2>2
    <3>2. /\ req'[r].at = req[r].at
          /\ \/ /\ i \in DOMAIN req[r].held
                /\ req'[r].held[i] = Orphaned(req[r].held, t, kept \cup {k})[i]
             \/ req'[r].held[i].table = t /\ req'[r].held[i].key = k
      BY <3>1, RequestAfterCharge
    <3>3. QED
      BY <2>2, <3>2
  <2>3. QED
    BY <2>1, <2>2
<1>4. CASE i \in DOMAIN req[s].held /\ token = held[i]
  <2>1. /\ req[s].held[i].live /\ req[s].held[i].table \in Names
        /\ req[s].held[i].key \in DOMAIN bucket[req[s].held[i].table]
    BY <1>1, <1>2, <1>4 DEF RateTypes, TokensFit, Token
  <2> HIDE DEF held
  <2>2. QED
    BY <1>2, <1>3, <1>4, <2>1
<1>5. QED
  BY <1>3, <1>4

\* A charge is entered in the account of its key, after those of the keys that are
\* evicted have been closed.
LEMMA AccountIsCharged ==
    ASSUME RateTypes, NEW r \in Requests, NEW t \in Names, NEW k \in KeysOf[t],
           NEW kept \in SUBSET DOMAIN bucket[t], Charges(r, t, k, kept)
    PROVE  /\ account'[t] = [AccountAfter(t, kept, req[r].at) EXCEPT ![k].spent =
                                IF Granted(t, k, req[r].at) THEN @ + 1 ELSE @]
           /\ \A u \in Names \ {t} : account'[u] = account[u]
<1> DEFINE paid == [AccountAfter(t, kept, req[r].at) EXCEPT ![k].spent =
                       IF Granted(t, k, req[r].at) THEN @ + 1 ELSE @]
<1>1. account' = [account EXCEPT ![t] = paid]
  BY Zenon DEF Charges
<1>2. account = [u \in Names |-> account[u]]
  BY DEF RateTypes
<1> HIDE DEF paid
<1>3. account'[t] = paid /\ \A u \in Names \ {t} : account'[u] = account[u]
  BY <1>1, <1>2
<1>4. QED
  BY <1>3 DEF paid

\* What is closed is the account of a key that is evicted before its bucket is full.
LEMMA AccountAfterIs ==
    ASSUME RateTypes, NEW t \in Names, NEW kept, NEW at \in 0..MaxTime
    PROVE  /\ AccountAfter(t, kept, at) \in Accounts(t)
           /\ \A j \in KeysOf[t] :
                 AccountAfter(t, kept, at)[j] = IF j \in NotFull(t, at) \ kept
                                                THEN [since |-> at, spent |-> 0]
                                                ELSE account[t][j]
<1>1. account[t] \in Accounts(t)
  BY DEF RateTypes
<1>2. QED
  BY <1>1 DEF AccountAfter, Accounts

\* The account of the key that is charged.
LEMMA KeyAfterCharge ==
    ASSUME RateTypes, NEW r \in Requests, NEW t \in Names, NEW k \in KeysOf[t],
           NEW kept \in SUBSET DOMAIN bucket[t], Charges(r, t, k, kept)
    PROVE  /\ account'[t][k].since = account[t][k].since
           /\ account'[t][k].spent = IF Granted(t, k, req[r].at) THEN account[t][k].spent + 1
                                     ELSE account[t][k].spent
<1> DEFINE after == AccountAfter(t, kept, req[r].at)
<1>1. k \notin NotFull(t, req[r].at) \ kept /\ req[r].at \in 0..MaxTime
  BY TablesAfter DEF NotFull
<1>2. after \in Accounts(t) /\ after[k] = account[t][k]
  BY <1>1, AccountAfterIs
<1>3. account'[t] = [after EXCEPT ![k].spent =
                        IF Granted(t, k, req[r].at) THEN @ + 1 ELSE @]
  BY AccountIsCharged
<1> HIDE DEF after
<1>4. QED
  BY <1>2, <1>3 DEF Accounts

\* The accounts of the other keys.
LEMMA AccountsAfterCharge ==
    ASSUME RateTypes, NEW r \in Requests, NEW t \in Names, NEW k \in KeysOf[t],
           NEW kept \in SUBSET DOMAIN bucket[t], Charges(r, t, k, kept)
    PROVE  /\ \A u \in Names : account'[u] \in Accounts(u)
           /\ \A u \in Names \ {t} : account'[u] = account[u]
           /\ \A j \in KeysOf[t] \ {k} :
                 account'[t][j] = IF j \in NotFull(t, req[r].at) \ kept
                                  THEN [since |-> req[r].at, spent |-> 0] ELSE account[t][j]
<1> DEFINE after == AccountAfter(t, kept, req[r].at)
<1>1. req[r].at \in 0..MaxTime
  BY TablesAfter
<1>2. /\ after \in Accounts(t)
      /\ \A j \in KeysOf[t] : after[j] = IF j \in NotFull(t, req[r].at) \ kept
                                         THEN [since |-> req[r].at, spent |-> 0]
                                         ELSE account[t][j]
  BY <1>1, AccountAfterIs
<1>3. /\ account'[t] = [after EXCEPT ![k].spent =
                           IF Granted(t, k, req[r].at) THEN @ + 1 ELSE @]
      /\ \A u \in Names \ {t} : account'[u] = account[u]
  BY AccountIsCharged
<1> HIDE DEF after
<1>4. \A j \in KeysOf[t] \ {k} : account'[t][j] = after[j]
  BY <1>2, <1>3 DEF Accounts
<1>5. account'[t] \in Accounts(t)
  <2>1. CASE Granted(t, k, req[r].at)
    BY <1>2, <1>3, <2>1 DEF Accounts
  <2>2. CASE ~Granted(t, k, req[r].at)
    BY <1>2, <1>3, <2>2 DEF Accounts
  <2>3. QED
    BY <2>1, <2>2
<1>6. \A u \in Names : account'[u] \in Accounts(u)
  BY <1>3, <1>5 DEF RateTypes
<1>7. QED
  BY <1>2, <1>3, <1>4, <1>6

\* A charge keeps the types.
LEMMA ChargeKeepsTypes ==
    ASSUME RateTypes, NEW r \in Requests, Charge(r)
    PROVE  RateTypes'
<1> PICK t \in Names : \E k \in KeysOf[t] : \E kept \in SUBSET DOMAIN bucket[t] :
        Charges(r, t, k, kept)
  BY ChargeIsOne
<1> PICK k \in KeysOf[t] : \E kept \in SUBSET DOMAIN bucket[t] : Charges(r, t, k, kept)
  OBVIOUS
<1>1. PICK kept \in SUBSET DOMAIN bucket[t] : Charges(r, t, k, kept)
  OBVIOUS
<1>2. now' \in 0..MaxTime /\ req' = [s \in Requests |-> req'[s]]
  BY <1>1 DEF RateTypes, Charges
<1>3. bucket' = [u \in Names |-> bucket'[u]] /\ \A u \in Names : TableFits(u)'
  BY <1>1, TablesAfter, ChargeKeepsTables
<1>4. \A s \in Requests : RequestFits(req[s])'
  BY <1>1, OthersAfterCharge, RequestAfterCharge
<1>5. ASSUME NEW s \in Requests, NEW i \in DOMAIN req'[s].held, req'[s].held[i].live
      PROVE  req'[s].held[i].key \in DOMAIN bucket'[req'[s].held[i].table]
  <2> DEFINE token == req'[s].held[i]
  <2>1. \/ token.table = t /\ token.key = k
        \/ /\ token.table \in Names /\ token.key \in DOMAIN bucket[token.table]
           /\ token.table = t => token.key \in kept
    BY <1>1, <1>5, TokensAfterCharge
  <2>2. DOMAIN bucket'[t] = kept \cup {k} /\ \A u \in Names \ {t} : bucket'[u] = bucket[u]
    BY <1>1, TablesAfter
  <2>3. QED
    BY <2>1, <2>2
<1>6. \A s \in Requests : TokensFit(req[s].held)'
  BY <1>5 DEF TokensFit
<1>7. \A u \in Names : (account[u] \in Accounts(u))'
  BY <1>1, AccountsAfterCharge DEF Accounts
<1>8. account' = [u \in Names |-> account'[u]]
  BY <1>1 DEF RateTypes, Charges
<1>9. QED
  BY <1>2, <1>3, <1>4, <1>6, <1>7, <1>8 DEF RateTypes

-------------------------------------------------------------------------------
(* A refund *)

\* What a refund does to the request and to the bucket and the account of its token.
LEMMA GiveBackIs ==
    ASSUME RateTypes, NEW r \in Requests, GiveBack(r)
    PROVE  LET token == req[r].held[1]
           IN  /\ now' = now /\ 1 \in DOMAIN req[r].held /\ token \in Token
               /\ req' = [s \in Requests |-> req'[s]]
               /\ \A s \in Requests \ {r} : req'[s] = req[s]
               /\ RequestFits(req[r])' /\ req'[r].pc # "charging"
               /\ \A i \in DOMAIN req'[r].held :
                     /\ req'[r].at = req[r].at
                     /\ i + 1 \in DOMAIN req[r].held /\ req'[r].held[i] = req[r].held[i + 1]
               /\ \/ UNCHANGED <<bucket, account>>
                  \/ /\ token.live
                     /\ bucket' = [bucket EXCEPT ![token.table][token.key] =
                           Refunded(token.table, @, req[r].at)]
                     /\ account' = [account EXCEPT ![token.table][token.key].spent = @ - 1]
<1> DEFINE held == req[r].held
           rest == Tail(held)
<1>1. /\ req[r] \in RequestRecords /\ held \in Seq(Token) /\ held # <<>> /\ req[r].at <= now
      /\ req = [s \in Requests |-> req[s]] /\ now' = now /\ now \in 0..MaxTime
  BY DEF RateTypes, RequestFits, RequestRecords, GiveBack
<1>2. /\ 1 \in DOMAIN held /\ Head(held) = held[1] /\ Head(held) \in Token /\ rest \in Seq(Token)
      /\ \A i \in DOMAIN rest : i + 1 \in DOMAIN held /\ rest[i] = held[i + 1]
  BY <1>1, OneLess
<1>3. req' = [req EXCEPT ![r] = IF rest = <<>> THEN Idle
                                ELSE [@ EXCEPT !.pc = "refunding", !.held = rest]]
  BY DEF GiveBack
<1> HIDE DEF rest
<1>4. /\ req' = [s \in Requests |-> req'[s]] /\ \A s \in Requests \ {r} : req'[s] = req[s]
      /\ req'[r] = IF rest = <<>> THEN Idle
                   ELSE [req[r] EXCEPT !.pc = "refunding", !.held = rest]
  BY <1>1, <1>3
<1>5. /\ RequestFits(req[r])' /\ req'[r].pc # "charging"
      /\ \A i \in DOMAIN req'[r].held :
            /\ req'[r].at = req[r].at
            /\ i + 1 \in DOMAIN held /\ req'[r].held[i] = held[i + 1]
  <2>1. CASE rest = <<>>
    <3>1. Idle \in RequestRecords /\ Idle.pc = "idle" /\ Idle.held = <<>> /\ Idle.at <= now
      BY <1>1, RateLimitAssumption DEF Idle, RequestRecords
    <3>2. QED
      BY <1>1, <1>4, <2>1, <3>1 DEF RequestFits
  <2>2. CASE rest # <<>>
    <3>1. /\ req'[r] \in RequestRecords /\ req'[r].pc = "refunding" /\ req'[r].held = rest
          /\ req'[r].at = req[r].at
      BY <1>1, <1>2, <1>4, <2>2 DEF RequestRecords
    <3>2. QED
      BY <1>1, <1>2, <2>2, <3>1 DEF RequestFits
  <2>3. QED
    BY <2>1, <2>2
<1>6. \/ UNCHANGED <<bucket, account>>
      \/ /\ held[1].live
         /\ bucket' = [bucket EXCEPT ![held[1].table][held[1].key] =
               Refunded(held[1].table, @, req[r].at)]
         /\ account' = [account EXCEPT ![held[1].table][held[1].key].spent = @ - 1]
  BY <1>2 DEF GiveBack
<1>7. QED
  BY <1>1, <1>2, <1>4, <1>5, <1>6

\* A refund of a token t, k taken at a time.
LEMMA TablesAfterRefund ==
    ASSUME RateTypes, NEW t \in Names, NEW k \in DOMAIN bucket[t], NEW at \in 0..MaxTime,
           bucket' = [bucket EXCEPT ![t][k] = Refunded(t, @, at)],
           account' = [account EXCEPT ![t][k].spent = @ - 1]
    PROVE  /\ bucket' = [u \in Names |-> bucket'[u]]
           /\ \A u \in Names : DOMAIN bucket'[u] = DOMAIN bucket[u] /\ TableFits(u)'
           /\ \A u \in Names : \A j \in DOMAIN bucket[u] :
                 bucket'[u][j] = IF u = t /\ j = k THEN Refunded(t, bucket[t][k], at)
                                 ELSE bucket[u][j]
           /\ account' = [u \in Names |-> account'[u]]
           /\ \A u \in Names : (account[u] \in Accounts(u))'
           /\ \A u \in Names : \A j \in KeysOf[u] :
                 /\ account'[u][j].since = account[u][j].since
                 /\ account'[u][j].spent = IF u = t /\ j = k THEN account[u][j].spent - 1
                                           ELSE account[u][j].spent
<1> DEFINE new == Refunded(t, bucket[t][k], at)
<1>1. /\ bucket = [u \in Names |-> bucket[u]] /\ \A u \in Names : TableFits(u)
      /\ account = [u \in Names |-> account[u]] /\ \A u \in Names : account[u] \in Accounts(u)
      /\ k \in KeysOf[t]
  BY DEF RateTypes, TableFits
<1>2. new \in Entry(t)
  BY <1>1, RefundedFits DEF TableFits
<1> HIDE DEF new
<1>3. /\ bucket' = [bucket EXCEPT ![t] = [bucket[t] EXCEPT ![k] = new]]
      /\ account' = [account EXCEPT ![t] = [account[t] EXCEPT ![k].spent = @ - 1]]
  BY <1>1 DEF new
<1>4. /\ bucket' = [u \in Names |-> bucket'[u]] /\ \A u \in Names \ {t} : bucket'[u] = bucket[u]
      /\ bucket'[t] = [bucket[t] EXCEPT ![k] = new]
      /\ account' = [u \in Names |-> account'[u]]
      /\ \A u \in Names \ {t} : account'[u] = account[u]
      /\ account'[t] = [account[t] EXCEPT ![k].spent = @ - 1]
  BY <1>1, <1>3
<1>5. /\ DOMAIN bucket'[t] = DOMAIN bucket[t]
      /\ \A j \in DOMAIN bucket[t] : bucket'[t][j] = IF j = k THEN new ELSE bucket[t][j]
  BY <1>4
<1>6. TableFits(t)'
  <2>1. bucket[t] \in [DOMAIN bucket[t] -> Entry(t)]
    BY <1>1 DEF TableFits
  <2>2. bucket'[t] \in [DOMAIN bucket[t] -> Entry(t)]
    BY <1>2, <1>4, <2>1
  <2>3. QED
    BY <1>1, <1>5, <2>2 DEF TableFits, Entry
<1>7. ASSUME NEW u \in Names \ {t}
      PROVE  TableFits(u)'
  BY <1>1, <1>4 DEF TableFits, Entry
<1>8. /\ account'[t] \in Accounts(t)
      /\ \A j \in KeysOf[t] :
            /\ account'[t][j].since = account[t][j].since
            /\ account'[t][j].spent = IF j = k THEN account[t][j].spent - 1
                                      ELSE account[t][j].spent
  <2> DEFINE R == [since : 0..MaxTime, spent : Int]
             less == [account[t][k] EXCEPT !.spent = @ - 1]
  <2>1. account[t] \in [KeysOf[t] -> R] /\ account[t][k] \in R
    BY <1>1 DEF Accounts
  <2>2. /\ less \in R
        /\ less.since = account[t][k].since /\ less.spent = account[t][k].spent - 1
    BY <2>1
  <2>3. account'[t] = [account[t] EXCEPT ![k] = less]
    BY <1>1, <1>4
  <2>4. \A j \in KeysOf[t] : account[t][j].spent \in Int
    BY <2>1
  <2> HIDE DEF less, R
  <2>5. /\ account'[t] \in [KeysOf[t] -> R]
        /\ \A j \in KeysOf[t] : account'[t][j] = IF j = k THEN less ELSE account[t][j]
    BY <1>1, <2>1, <2>2, <2>3
  <2>6. account'[t] \in Accounts(t)
    BY <2>5 DEF Accounts, R
  <2>7. QED
    BY <2>2, <2>4, <2>5, <2>6
<1>9. \A u \in Names : (account[u] \in Accounts(u))'
  BY <1>1, <1>4, <1>8 DEF Accounts
<1>10. \A u \in Names : \A j \in KeysOf[u] :
          /\ account'[u][j].since = account[u][j].since
          /\ account'[u][j].spent = IF u = t /\ j = k THEN account[u][j].spent - 1
                                    ELSE account[u][j].spent
  BY <1>1, <1>4, <1>8 DEF Accounts
<1>11. QED
  BY <1>4, <1>5, <1>6, <1>7, <1>9, <1>10 DEF new

\* A refund keeps the types.
LEMMA GiveBackKeepsTypes ==
    ASSUME RateTypes, NEW r \in Requests, GiveBack(r)
    PROVE  RateTypes'
<1> DEFINE token == req[r].held[1]
<1>1. /\ now' = now /\ 1 \in DOMAIN req[r].held /\ token \in Token
      /\ req' = [s \in Requests |-> req'[s]] /\ \A s \in Requests \ {r} : req'[s] = req[s]
      /\ RequestFits(req[r])'
      /\ \A i \in DOMAIN req'[r].held :
            i + 1 \in DOMAIN req[r].held /\ req'[r].held[i] = req[r].held[i + 1]
      /\ \/ UNCHANGED <<bucket, account>>
         \/ /\ token.live
            /\ bucket' = [bucket EXCEPT ![token.table][token.key] =
                  Refunded(token.table, @, req[r].at)]
            /\ account' = [account EXCEPT ![token.table][token.key].spent = @ - 1]
  BY GiveBackIs
<1>2. /\ token.table \in Names /\ req[r].at \in 0..MaxTime
      /\ token.live => token.key \in DOMAIN bucket[token.table]
  BY <1>1 DEF Token, RateTypes, TokensFit, RequestFits, RequestRecords
<1> HIDE DEF token
<1>3. /\ bucket' = [u \in Names |-> bucket'[u]]
      /\ \A u \in Names : TableFits(u)' /\ DOMAIN bucket'[u] = DOMAIN bucket[u]
      /\ account' = [u \in Names |-> account'[u]]
      /\ \A u \in Names : (account[u] \in Accounts(u))'
  <2>1. CASE UNCHANGED <<bucket, account>>
    BY <2>1 DEF RateTypes, TableFits, Entry, Accounts
  <2>2. CASE /\ token.live
             /\ bucket' = [bucket EXCEPT ![token.table][token.key] =
                   Refunded(token.table, @, req[r].at)]
             /\ account' = [account EXCEPT ![token.table][token.key].spent = @ - 1]
    BY <1>2, <2>2, TablesAfterRefund
  <2>3. QED
    BY <1>1, <2>1, <2>2
<1>4. \A s \in Requests : RequestFits(req[s])'
  BY <1>1 DEF RateTypes, RequestFits, RequestRecords
<1>5. \A s \in Requests : TokensFit(req[s].held)'
  <2>1. SUFFICES ASSUME NEW s \in Requests, NEW i \in DOMAIN req'[s].held, req'[s].held[i].live
                 PROVE  req'[s].held[i].key \in DOMAIN bucket'[req'[s].held[i].table]
    BY DEF TokensFit
  <2>2. PICK j \in DOMAIN req[s].held : req'[s].held[i] = req[s].held[j]
    BY <1>1
  <2>3. req[s].held \in Seq(Token) /\ TokensFit(req[s].held)
    BY DEF RateTypes, RequestFits, RequestRecords
  <2>4. req[s].held[j] \in Token
    BY <2>3
  <2>5. QED
    BY <1>3, <2>1, <2>2, <2>3, <2>4 DEF TokensFit, Token
<1>6. QED
  BY <1>1, <1>3, <1>4, <1>5 DEF RateTypes

-------------------------------------------------------------------------------
(* Types and the bound of the tables *)

\* A request begins or ends, or time passes.
LEMMA QuietKeepsTypes ==
    ASSUME RateTypes, UNCHANGED <<bucket, account>>,
           now' \in 0..MaxTime, now <= now',
           req' = [s \in Requests |-> req'[s]],
           \A s \in Requests :
              \/ req'[s] = req[s]
              \/ req'[s].held = <<>> /\ RequestFits(req[s])'
    PROVE  RateTypes'
<1>1. \A s \in Requests : RequestFits(req[s])'
  BY DEF RateTypes, RequestFits, RequestRecords
<1>2. ASSUME NEW s \in Requests
      PROVE  TokensFit(req[s].held)'
  <2>1. CASE req'[s] = req[s]
    BY <2>1 DEF RateTypes, TokensFit
  <2>2. CASE req'[s].held = <<>>
    BY <2>2 DEF TokensFit
  <2>3. QED
    BY <2>1, <2>2
<1>3. /\ \A t \in Names : TableFits(t)' /\ (account[t] \in Accounts(t))'
      /\ (bucket = [t \in Names |-> bucket[t]])' /\ (account = [t \in Names |-> account[t]])'
  BY DEF RateTypes, TableFits, Entry, Accounts
<1>4. QED
  BY <1>1, <1>2, <1>3 DEF RateTypes

\* The types hold at the start.
LEMMA RateTypesInit == Init => RateTypes
<1> SUFFICES ASSUME Init
             PROVE  RateTypes
  OBVIOUS
<1> USE RateLimitAssumption DEF Init
<1>1. now \in 0..MaxTime
  OBVIOUS
<1>2. bucket = [t \in Names |-> bucket[t]] /\ account = [t \in Names |-> account[t]]
  OBVIOUS
<1>3. ASSUME NEW t \in Names
      PROVE  TableFits(t) /\ account[t] \in Accounts(t)
  <2>1. bucket[t] = <<>> /\ DOMAIN bucket[t] = {}
    OBVIOUS
  <2>2. bucket[t] \in [DOMAIN bucket[t] -> Entry(t)]
    BY <2>1
  <2>3. QED
    BY <1>1, <2>1, <2>2, FS_EmptySet DEF TableFits, Accounts
<1>4. ASSUME NEW r \in Requests
      PROVE  RequestFits(req[r]) /\ TokensFit(req[r].held)
  BY <1>1 DEF RequestFits, RequestRecords, TokensFit, Idle
<1>5. QED
  BY <1>1, <1>2, <1>3, <1>4 DEF RateTypes

\* Every step keeps the types.
LEMMA RateTypesStep == RateTypes /\ [Next]_vars => RateTypes'
<1> SUFFICES ASSUME RateTypes, [Next]_vars
             PROVE  RateTypes'
  OBVIOUS
<1>1. /\ now \in 0..MaxTime /\ MaxTime \in Nat /\ req = [s \in Requests |-> req[s]]
      /\ \A s \in Requests : RequestFits(req[s])
  BY RateLimitAssumption DEF RateTypes
<1>2. CASE Tick \/ UNCHANGED vars
  BY <1>1, <1>2, QuietKeepsTypes DEF Tick, vars
<1>3. ASSUME NEW r \in Requests, NEW keys \in KeyLists, Arrive(r, keys)
      PROVE  RateTypes'
  <2> DEFINE new == [pc |-> "charging", keys |-> keys, at |-> now, held |-> <<>>]
  <2>1. req' = [req EXCEPT ![r] = new] /\ UNCHANGED <<now, bucket, account>>
    BY <1>3 DEF Arrive
  <2>2. Len(Tables) > 0
    BY RateLimitAssumption, EmptySeq
  <2>3. new \in RequestRecords /\ new.held = <<>> /\ new.at = now /\ new.pc = "charging"
    BY <1>1 DEF RequestRecords
  <2>4. new.keys = keys
    OBVIOUS
  <2> HIDE DEF new
  <2>5. req'[r] = new /\ \A s \in Requests \ {r} : req'[s] = req[s]
    BY <1>1, <2>1
  <2>6. RequestFits(req[r])'
    BY <1>1, <1>3, <2>1, <2>2, <2>3, <2>4, <2>5 DEF RequestFits
  <2>7. req' = [s \in Requests |-> req'[s]]
    BY <1>1, <2>1
  <2>8. QED
    BY <1>1, <2>1, <2>3, <2>5, <2>6, <2>7, QuietKeepsTypes
<1>4. ASSUME NEW r \in Requests, Keep(r)
      PROVE  RateTypes'
  <2>1. Idle \in RequestRecords /\ Idle.held = <<>> /\ Idle.at <= now /\ Idle.pc = "idle"
    BY <1>1 DEF Idle, RequestRecords
  <2>2. /\ req' = [req EXCEPT ![r] = Idle] /\ UNCHANGED <<now, bucket, account>>
    BY <1>4 DEF Keep
  <2>3. /\ req'[r] = Idle /\ \A s \in Requests \ {r} : req'[s] = req[s]
        /\ req' = [s \in Requests |-> req'[s]]
    BY <1>1, <2>2
  <2>4. RequestFits(req[r])'
    BY <2>1, <2>2, <2>3 DEF RequestFits
  <2>5. QED
    BY <1>1, <2>1, <2>2, <2>3, <2>4, QuietKeepsTypes
<1>5. QED
  BY <1>2, <1>3, <1>4, ChargeKeepsTypes, GiveBackKeepsTypes DEF Next

\* The values keep their types, and a token that may still go back has a bucket.
THEOREM RateTypesHold == Spec => [](RateTypes /\ TypeOK)
<1>1. RateTypes => TypeOK
  BY DEF RateTypes, TypeOK, TableFits, TableBounded, TokensFit
<1>2. QED
  BY <1>1, RateTypesInit, RateTypesStep, PTL DEF Spec

\* No bucket is in debt, none overflows, and what a request may still give back is of a
\* key with a bucket (bucketTable.allow, Grant).
THEOREM TypesHold == Spec => []TypeOK
BY RateTypesHold, PTL

\* The keys are the clients' choice, and still the table never has more entries than it
\* may: room is made before a key is added (evictLocked).
THEOREM TableBoundedHolds == Spec => []TableBounded
<1>1. RateTypes => TableBounded
  BY DEF RateTypes, TableFits, TableBounded
<1>2. QED
  BY <1>1, RateTypesHold, PTL

-------------------------------------------------------------------------------
(* The accounts *)

\* What is paid changes by a token's period.
LEMMA PaidAfter ==
    ASSUME NEW n \in Int, NEW p \in Nat
    PROVE  /\ n * p \in Int /\ 0 * p = 0
           /\ (n + 0) * p = n * p /\ (n - 0) * p = n * p
           /\ (n + 1) * p = n * p + p
           /\ (n - 1) * p = n * p - p
OBVIOUS

\* The numbers that the account of a key compares.
LEMMA AccountNumbers ==
    ASSUME RateTypes, NEW t \in Names, NEW k \in KeysOf[t]
    PROVE  /\ account[t][k].since \in Nat /\ account[t][k].spent \in Int
           /\ Paid(t, k) \in Int /\ Capacity(t) \in Nat /\ Period[t] \in Nat /\ now \in Nat
           /\ k \in DOMAIN bucket[t] =>
                 /\ bucket[t][k] \in Entry(t)
                 /\ bucket[t][k].tokens \in 0..Capacity(t)
                 /\ bucket[t][k].last \in Nat /\ bucket[t][k].lastEvent \in Nat
                 /\ bucket[t][k].seen \in Nat
<1>1. account[t][k] \in [since : 0..MaxTime, spent : Int] /\ MaxTime \in Nat /\ now \in 0..MaxTime
  BY RateLimitAssumption DEF RateTypes, Accounts
<1>2. Capacity(t) \in Nat /\ Period[t] \in Nat
  BY Parameters
<1>3. account[t][k].since \in Nat /\ account[t][k].spent \in Int
  BY <1>1
<1>4. Paid(t, k) \in Int
  BY <1>2, <1>3, PaidAfter DEF Paid
<1>5. k \in DOMAIN bucket[t] => bucket[t][k] \in Entry(t)
  BY DEF RateTypes, TableFits
<1>6. ASSUME NEW b \in Entry(t)
      PROVE  /\ b.tokens \in 0..Capacity(t) /\ b.last \in Nat /\ b.lastEvent \in Nat
             /\ b.seen \in Nat
  BY <1>1, <1>2 DEF Entry
<1>7. QED
  BY <1>1, <1>2, <1>3, <1>4, <1>5, <1>6

\* A bucket whose clock is right and that is full has nothing to hide: all that its
\* key has paid has flowed in since.
LEMMA FullIsPaid ==
    ASSUME RateInvariant, NEW t \in Names, NEW k \in DOMAIN bucket[t],
           IsFull(t, bucket[t][k], now)
    PROVE  Paid(t, k) <= now - account[t][k].since
<1>1. k \in KeysOf[t] /\ AccountFits(t, k) /\ RateTypes /\ ClockFits(bucket[t][k])
  BY DEF RateInvariant, RateTypes, TableFits
<1>2. now \in 0..MaxTime /\ bucket[t][k] \in Entry(t)
  BY <1>1, AccountNumbers DEF RateTypes
<1>3. Level(t, bucket[t][k], now) <= bucket[t][k].tokens + (now - bucket[t][k].last)
  BY <1>1, <1>2, LevelFits DEF ClockFits
<1>4. Level(t, bucket[t][k], now) >= Capacity(t) /\ Level(t, bucket[t][k], now) \in Int
  BY <1>2, LevelFits DEF IsFull
<1>5. QED
  BY <1>1, <1>3, <1>4, AccountNumbers DEF AccountFits

\* The account of the key that is charged.
LEMMA ChargedAccount ==
    ASSUME RateInvariant, NEW r \in Requests, NEW t \in Names, NEW k \in KeysOf[t],
           NEW kept \in SUBSET DOMAIN bucket[t], Charges(r, t, k, kept), req[r].at = now
    PROVE  AccountFits(t, k)'
<1> DEFINE b == Found(t, k, now)
           price == IF Granted(t, k, now) THEN Period[t] ELSE 0
<1>1. RateTypes /\ AccountFits(t, k) /\ now \in 0..MaxTime /\ now \in Nat
  BY AccountNumbers DEF RateInvariant, RateTypes
<1>2. /\ b \in Entry(t) /\ Charged(t, k, now).last = now
      /\ Charged(t, k, now).tokens = Level(t, b, now) - price
  BY <1>1, ChargedFits
<1>3. /\ b.tokens \in Int /\ b.last \in Int /\ b.last <= now
      /\ Paid(t, k) + b.tokens <= Capacity(t) + b.last - account[t][k].since
  <2>1. CASE k \in DOMAIN bucket[t]
    BY <1>1, <2>1, AccountNumbers DEF Found, AccountFits, RateInvariant, ClockFits
  <2>2. CASE k \notin DOMAIN bucket[t]
    <3>1. b.tokens = Capacity(t) /\ b.last = now
      BY <1>1, <2>2, FullBucketFits DEF Found
    <3>2. Paid(t, k) <= now - account[t][k].since
      BY <1>1, <2>2 DEF AccountFits
    <3>3. QED
      BY <1>1, <3>1, <3>2, AccountNumbers
  <2>3. QED
    BY <2>1, <2>2
<1>4. Level(t, b, now) <= b.tokens + (now - b.last) /\ Level(t, b, now) \in Int
  BY <1>1, <1>2, <1>3, LevelFits
<1>5. /\ bucket'[t][k] = Charged(t, k, now) /\ k \in DOMAIN bucket'[t]
      /\ account'[t][k].since = account[t][k].since
      /\ account'[t][k].spent = IF Granted(t, k, now) THEN account[t][k].spent + 1
                                ELSE account[t][k].spent
  <2>1. bucket'[t][k] = Charged(t, k, now) /\ k \in DOMAIN bucket'[t]
    BY <1>1, TablesAfter
  <2>2. /\ account'[t][k].since = account[t][k].since
        /\ account'[t][k].spent = IF Granted(t, k, req[r].at) THEN account[t][k].spent + 1
                                  ELSE account[t][k].spent
    BY <1>1, KeyAfterCharge
  <2>3. QED
    BY <2>1, <2>2
<1>6. Paid(t, k)' = Paid(t, k) + price
  <2>1. account[t][k].spent \in Int /\ Period[t] \in Nat
    BY <1>1, AccountNumbers
  <2>2. (account[t][k].spent + 1) * Period[t] = Paid(t, k) + Period[t] /\ Paid(t, k) \in Int
    BY <2>1, PaidAfter DEF Paid
  <2>3. CASE Granted(t, k, now)
    BY <1>5, <2>1, <2>2, <2>3 DEF Paid
  <2>4. CASE ~Granted(t, k, now)
    BY <1>5, <2>1, <2>2, <2>4 DEF Paid
  <2>5. QED
    BY <2>3, <2>4
<1> HIDE DEF b
<1>7. /\ Paid(t, k) \in Int /\ account[t][k].since \in Int /\ Capacity(t) \in Int /\ price \in Int
  BY <1>1, AccountNumbers
<1> HIDE DEF price
<1>8. Paid(t, k) + price + (Level(t, b, now) - price) <= Capacity(t) + now - account[t][k].since
  BY <1>1, <1>3, <1>4, <1>7
<1>9. QED
  BY <1>2, <1>5, <1>6, <1>8 DEF AccountFits

\* The accounts of the other keys of the table, of those that are evicted too.
LEMMA OtherAccounts ==
    ASSUME RateInvariant, NEW r \in Requests, NEW t \in Names, NEW k \in KeysOf[t],
           NEW kept \in SUBSET DOMAIN bucket[t], Charges(r, t, k, kept), req[r].at = now,
           NEW j \in KeysOf[t] \ {k}
    PROVE  AccountFits(t, j)'
<1>1. RateTypes /\ AccountFits(t, j) /\ now' = now /\ now \in Nat
  BY AccountNumbers DEF RateInvariant, Charges
<1>2. /\ DOMAIN bucket'[t] = kept \cup {k}
      /\ j \in kept => bucket'[t][j] = bucket[t][j]
      /\ account'[t][j] = IF j \in NotFull(t, now) \ kept
                          THEN [since |-> now, spent |-> 0] ELSE account[t][j]
  BY <1>1, TablesAfter, AccountsAfterCharge
<1>3. CASE j \in kept
  BY <1>1, <1>2, <1>3 DEF AccountFits, Paid
<1>4. CASE j \notin kept /\ j \in NotFull(t, now)
  <2>1. Paid(t, j)' = 0 /\ account'[t][j].since = now
    BY <1>2, <1>4, PaidAfter, Parameters DEF Paid
  <2>2. QED
    BY <1>1, <1>2, <1>4, <2>1 DEF AccountFits
<1>5. CASE j \notin kept /\ j \in DOMAIN bucket[t] \ NotFull(t, now)
  <2>1. Paid(t, j) <= now - account[t][j].since
    BY <1>5, FullIsPaid DEF NotFull
  <2>2. QED
    BY <1>1, <1>2, <1>5, <2>1 DEF AccountFits, Paid
<1>6. CASE j \notin kept /\ j \notin DOMAIN bucket[t]
  BY <1>1, <1>2, <1>6 DEF AccountFits, Paid, NotFull
<1>7. QED
  BY <1>3, <1>4, <1>5, <1>6

\* A charge keeps the invariant.
LEMMA ChargeKeepsInvariant ==
    ASSUME RateInvariant, NEW r \in Requests, Charge(r)
    PROVE  RateInvariant'
<1>1. RateTypes /\ RateTypes' /\ now \in Nat /\ \A s \in Requests : req[s].at <= now
  BY ChargeKeepsTypes DEF RateInvariant, RateTypes, RequestFits
<1> PICK t \in Names : \E k \in KeysOf[t] : \E kept \in SUBSET DOMAIN bucket[t] :
        Charges(r, t, k, kept)
  BY <1>1, ChargeIsOne
<1> PICK k \in KeysOf[t] : \E kept \in SUBSET DOMAIN bucket[t] : Charges(r, t, k, kept)
  OBVIOUS
<1>2. PICK kept \in SUBSET DOMAIN bucket[t] : Charges(r, t, k, kept)
  OBVIOUS
<1>3. now' = now /\ req[r].at = now
  BY <1>2 DEF Charges, RateInvariant
<1>4. /\ DOMAIN bucket'[t] = kept \cup {k}
      /\ \A j \in kept \ {k} : bucket'[t][j] = bucket[t][j]
      /\ bucket'[t][k] = Charged(t, k, now)
      /\ \A u \in Names \ {t} : bucket'[u] = bucket[u]
  BY <1>1, <1>2, <1>3, TablesAfter
<1>5. /\ bucket'[t][k].last = now /\ bucket'[t][k].seen = now
      /\ bucket'[t][k].lastEvent >= now
  <2>1. now \in 0..MaxTime
    BY <1>1 DEF RateTypes
  <2>2. QED
    BY <1>1, <1>4, <2>1, ChargedFits
<1>6. ASSUME NEW s \in Requests, req'[s].pc = "charging"
      PROVE  req'[s].at = now'
  <2>1. CASE s # r
    <3>1. req'[s].pc = req[s].pc /\ req'[s].at = req[s].at
      BY <1>1, <1>2, <2>1, OthersAfterCharge
    <3>2. QED
      BY <1>3, <1>6, <3>1 DEF RateInvariant
  <2>2. CASE s = r
    BY <1>1, <1>2, <1>3, <1>6, <2>2, RequestAfterCharge
  <2>3. QED
    BY <2>1, <2>2
<1>7. ASSUME NEW u \in Names, NEW j \in DOMAIN bucket'[u]
      PROVE  ClockFits(bucket[u][j])'
  <2>1. CASE u = t /\ j = k
    BY <1>1, <1>3, <1>5, <2>1 DEF ClockFits
  <2>2. CASE ~(u = t /\ j = k)
    <3>1. j \in DOMAIN bucket[u] /\ bucket'[u][j] = bucket[u][j]
      BY <1>4, <1>7, <2>2
    <3>2. QED
      BY <1>3, <3>1 DEF RateInvariant, ClockFits
  <2>3. QED
    BY <2>1, <2>2
<1>8. ASSUME NEW s \in Requests, NEW i \in DOMAIN req'[s].held, req'[s].held[i].live
      PROVE  req'[s].at <= bucket'[req'[s].held[i].table][req'[s].held[i].key].lastEvent
  <2> DEFINE table == req'[s].held[i].table
             key == req'[s].held[i].key
  <2>1. /\ req'[s].at = req[s].at
        /\ \/ table = t /\ key = k
           \/ /\ i \in DOMAIN req[s].held /\ req[s].held[i].live
              /\ req[s].held[i].table = table /\ req[s].held[i].key = key
              /\ table \in Names /\ key \in DOMAIN bucket[table]
              /\ table = t => key \in kept
    BY <1>1, <1>2, <1>8, TokensAfterCharge
  <2> HIDE DEF table, key
  <2>2. CASE table = t /\ key = k
    <3>1. bucket'[t][k].lastEvent \in Nat
      BY <1>1, <1>4, AccountNumbers DEF RateTypes, TableFits, Entry
    <3>2. req[s].at \in Nat
      BY <1>1 DEF RateTypes, RequestFits, RequestRecords
    <3>3. req[s].at <= bucket'[t][k].lastEvent
      BY <1>1, <1>5, <3>1, <3>2
    <3>4. QED
      BY <2>1, <2>2, <3>3 DEF table, key
  <2>3. CASE ~(table = t /\ key = k)
    <3>1. bucket'[table][key] = bucket[table][key]
      BY <1>4, <2>1, <2>3
    <3>2. req[s].at <= bucket[table][key].lastEvent
      BY <2>1, <2>3 DEF RateInvariant, EventsFit
    <3>3. QED
      BY <2>1, <3>1, <3>2 DEF table, key
  <2>4. QED
    BY <2>2, <2>3
<1>9. \A s \in Requests : EventsFit(req[s])'
  BY <1>8 DEF EventsFit
<1>10. ASSUME NEW u \in Names, NEW j \in KeysOf[u]
       PROVE  AccountFits(u, j)'
  <2>1. CASE u = t /\ j = k
    BY <1>2, <1>3, <2>1, ChargedAccount
  <2>2. CASE u = t /\ j # k
    BY <1>2, <1>3, <2>2, OtherAccounts
  <2>3. CASE u # t
    <3>1. account'[u] = account[u]
      BY <1>1, <1>2, <2>3, AccountsAfterCharge
    <3>2. AccountFits(u, j)
      BY DEF RateInvariant
    <3>3. QED
      BY <1>3, <1>4, <2>3, <3>1, <3>2 DEF AccountFits, Paid
  <2>4. QED
    BY <2>1, <2>2, <2>3
<1>11. QED
  BY <1>1, <1>6, <1>7, <1>9, <1>10 DEF RateInvariant

\* A refund keeps the invariant: it puts back no more than the token.
LEMMA RefundKeepsInvariant ==
    ASSUME RateInvariant, RateTypes', now' = now,
           NEW t \in Names, NEW k \in DOMAIN bucket[t], NEW at \in 0..MaxTime,
           at <= now, at <= bucket[t][k].lastEvent,
           bucket' = [bucket EXCEPT ![t][k] = Refunded(t, @, at)],
           account' = [account EXCEPT ![t][k].spent = @ - 1]
    PROVE  /\ \A u \in Names : \A j \in DOMAIN bucket'[u] :
                 /\ j \in DOMAIN bucket[u] /\ ClockFits(bucket[u][j])'
                 /\ bucket'[u][j].lastEvent = bucket[u][j].lastEvent
           /\ \A u \in Names : \A j \in KeysOf[u] : AccountFits(u, j)'
<1> DEFINE b == bucket[t][k]
           new == Refunded(t, b, at)
<1>1. /\ RateTypes /\ k \in KeysOf[t] /\ ClockFits(b) /\ AccountFits(t, k)
      /\ now \in Nat
  BY AccountNumbers DEF RateInvariant, RateTypes, TableFits
<1>2. /\ b \in Entry(t) /\ b.last \in Nat /\ b.tokens \in Nat /\ Period[t] \in Nat
      /\ account[t][k].since \in Nat /\ account[t][k].spent \in Int
      /\ Paid(t, k) \in Int /\ Capacity(t) \in Nat
  BY <1>1, AccountNumbers
<1>3. /\ new.tokens - new.last <= b.tokens - b.last + Period[t]
      /\ new.last <= new.lastEvent /\ new \in Entry(t)
      /\ new.lastEvent = b.lastEvent /\ new.seen = b.seen /\ new.last \in {b.last, at}
  BY <1>1, <1>2, RefundIsNoMore, RefundedFits DEF ClockFits
<1>4. new.tokens \in Int /\ new.last \in Int
  BY <1>2, <1>3 DEF Entry
<1>5. /\ \A u \in Names : DOMAIN bucket'[u] = DOMAIN bucket[u]
      /\ \A u \in Names : \A j \in DOMAIN bucket[u] :
            bucket'[u][j] = IF u = t /\ j = k THEN new ELSE bucket[u][j]
  BY <1>1, TablesAfterRefund
<1>6. \A u \in Names : \A j \in KeysOf[u] :
         /\ account'[u][j].since = account[u][j].since
         /\ account'[u][j].spent = IF u = t /\ j = k THEN account[u][j].spent - 1
                                   ELSE account[u][j].spent
  BY <1>1, TablesAfterRefund
<1> HIDE DEF new
<1>7. ASSUME NEW u \in Names, NEW j \in DOMAIN bucket'[u]
      PROVE  /\ j \in DOMAIN bucket[u] /\ ClockFits(bucket[u][j])'
             /\ bucket'[u][j].lastEvent = bucket[u][j].lastEvent
  <2>1. j \in DOMAIN bucket[u]
    BY <1>5, <1>7
  <2>2. CASE u = t /\ j = k
    <3>1. bucket'[u][j] = new
      BY <1>5, <2>1, <2>2
    <3>2. new.last <= now /\ new.seen <= now
      BY <1>1, <1>3 DEF ClockFits
    <3>3. QED
      BY <1>3, <2>1, <2>2, <3>1, <3>2 DEF ClockFits
  <2>3. CASE ~(u = t /\ j = k)
    <3>1. bucket'[u][j] = bucket[u][j]
      BY <1>5, <2>1, <2>3
    <3>2. QED
      BY <2>1, <3>1 DEF RateInvariant, ClockFits
  <2>4. QED
    BY <2>2, <2>3
<1>8. ASSUME NEW u \in Names, NEW j \in KeysOf[u]
      PROVE  AccountFits(u, j)'
  <2>1. AccountFits(u, j) /\ DOMAIN bucket'[u] = DOMAIN bucket[u] /\ account[u][j].spent \in Int
    BY <1>1, <1>5, AccountNumbers DEF RateInvariant
  <2>2. CASE u = t /\ j = k
    <3>1. bucket'[t][k] = new /\ k \in DOMAIN bucket'[t]
      BY <1>5, <2>1, <2>2
    <3>2. account'[t][k].since = account[t][k].since
      BY <1>1, <1>6
    <3>3. account'[t][k].spent = account[t][k].spent - 1
      BY <1>1, <1>6
    <3>4. Paid(t, k)' = Paid(t, k) - Period[t]
      <4>1. (account[t][k].spent - 1) * Period[t] = Paid(t, k) - Period[t]
        BY <1>2, PaidAfter DEF Paid
      <4>2. QED
        BY <3>3, <4>1 DEF Paid
    <3>5. Paid(t, k) + b.tokens <= Capacity(t) + b.last - account[t][k].since
      BY <1>1 DEF AccountFits
    <3>6. Paid(t, k) - Period[t] + new.tokens <= Capacity(t) + new.last - account[t][k].since
      BY <1>2, <1>3, <1>4, <3>5
    <3>7. QED
      BY <2>2, <3>1, <3>2, <3>4, <3>6 DEF AccountFits
  <2>3. CASE ~(u = t /\ j = k)
    <3>1. /\ account'[u][j].since = account[u][j].since
          /\ account'[u][j].spent = account[u][j].spent
      BY <1>6, <2>3
    <3>2. j \in DOMAIN bucket[u] => bucket'[u][j] = bucket[u][j]
      BY <1>5, <2>3
    <3>3. QED
      BY <1>1, <2>1, <3>1, <3>2 DEF AccountFits, Paid
  <2>4. QED
    BY <2>2, <2>3
<1>9. QED
  BY <1>7, <1>8

\* A refund keeps the invariant.
LEMMA GiveBackKeepsInvariant ==
    ASSUME RateInvariant, NEW r \in Requests, GiveBack(r)
    PROVE  RateInvariant'
<1> DEFINE token == req[r].held[1]
<1>1. RateTypes /\ RateTypes'
  BY GiveBackKeepsTypes DEF RateInvariant
<1>2. /\ now' = now /\ 1 \in DOMAIN req[r].held /\ token \in Token
      /\ \A s \in Requests \ {r} : req'[s] = req[s]
      /\ req'[r].pc # "charging"
      /\ \A i \in DOMAIN req'[r].held :
            /\ req'[r].at = req[r].at
            /\ i + 1 \in DOMAIN req[r].held /\ req'[r].held[i] = req[r].held[i + 1]
      /\ \/ UNCHANGED <<bucket, account>>
         \/ /\ token.live
            /\ bucket' = [bucket EXCEPT ![token.table][token.key] =
                  Refunded(token.table, @, req[r].at)]
            /\ account' = [account EXCEPT ![token.table][token.key].spent = @ - 1]
  BY <1>1, GiveBackIs
<1>3. \A s \in Requests : req'[s].pc = "charging" => req'[s].at = now'
  BY <1>2 DEF RateInvariant
<1>4. /\ \A u \in Names : \A j \in DOMAIN bucket'[u] :
            /\ j \in DOMAIN bucket[u] /\ ClockFits(bucket[u][j])'
            /\ bucket'[u][j].lastEvent = bucket[u][j].lastEvent
      /\ \A u \in Names : \A j \in KeysOf[u] : AccountFits(u, j)'
  <2>1. CASE UNCHANGED <<bucket, account>>
    BY <1>2, <2>1 DEF RateInvariant, ClockFits, AccountFits, Paid
  <2>2. CASE /\ token.live
             /\ bucket' = [bucket EXCEPT ![token.table][token.key] =
                   Refunded(token.table, @, req[r].at)]
             /\ account' = [account EXCEPT ![token.table][token.key].spent = @ - 1]
    <3>1. /\ token.table \in Names /\ token.key \in DOMAIN bucket[token.table]
          /\ req[r].at \in 0..MaxTime /\ req[r].at <= now
      BY <1>1, <1>2, <2>2 DEF Token, RateTypes, TokensFit, RequestFits, RequestRecords
    <3>2. req[r].at <= bucket[token.table][token.key].lastEvent
      BY <1>2, <2>2 DEF RateInvariant, EventsFit
    <3> HIDE DEF token
    <3>3. QED
      BY <1>1, <1>2, <2>2, <3>1, <3>2, RefundKeepsInvariant
  <2>3. QED
    BY <1>2, <2>1, <2>2
<1>5. ASSUME NEW s \in Requests, NEW i \in DOMAIN req'[s].held, req'[s].held[i].live
      PROVE  req'[s].at <= bucket'[req'[s].held[i].table][req'[s].held[i].key].lastEvent
  <2>1. PICK j \in DOMAIN req[s].held : req'[s].held[i] = req[s].held[j]
    BY <1>2
  <2>2. req'[s].at = req[s].at
    BY <1>2
  <2>3. req[s].held \in Seq(Token) /\ req[s].held[j] \in Token
    BY <1>1 DEF RateTypes, RequestFits, RequestRecords
  <2>4. /\ req[s].held[j].table \in Names
        /\ req[s].at <= bucket[req[s].held[j].table][req[s].held[j].key].lastEvent
        /\ req'[s].held[i].key \in DOMAIN bucket'[req'[s].held[i].table]
    BY <1>1, <1>5, <2>1, <2>3 DEF RateInvariant, EventsFit, RateTypes, TokensFit, Token
  <2>5. QED
    BY <1>4, <2>1, <2>2, <2>4
<1>6. \A s \in Requests : EventsFit(req[s])'
  BY <1>5 DEF EventsFit
<1>7. QED
  BY <1>1, <1>3, <1>4, <1>6 DEF RateInvariant

-------------------------------------------------------------------------------
(* The theorems *)

\* The invariant holds at the start.
LEMMA RateInvariantInit == Init => RateInvariant
<1> SUFFICES ASSUME Init
             PROVE  RateInvariant
  OBVIOUS
<1>1. RateTypes
  BY RateTypesInit
<1>2. \A r \in Requests : req[r].pc = "idle" /\ req[r].held = <<>>
  BY DEF Init, Idle
<1>3. \A r \in Requests : EventsFit(req[r])
  BY <1>2 DEF EventsFit
<1>4. \A t \in Names : DOMAIN bucket[t] = {}
  BY DEF Init
<1>5. ASSUME NEW t \in Names, NEW k \in KeysOf[t]
      PROVE  AccountFits(t, k)
  <2>1. account[t][k].spent = 0 /\ account[t][k].since = 0 /\ now = 0
    BY DEF Init
  <2>2. Paid(t, k) = 0
    BY <2>1, PaidAfter, Parameters DEF Paid
  <2>3. QED
    BY <1>4, <2>1, <2>2 DEF AccountFits
<1>6. QED
  BY <1>1, <1>2, <1>3, <1>4, <1>5 DEF RateInvariant

\* Time passes, and no request is being charged.
LEMMA TickKeepsInvariant ==
    ASSUME PromptSpend, RateInvariant, Tick
    PROVE  RateInvariant'
<1>1. RateTypes /\ RateTypes'
  BY RateTypesStep DEF RateInvariant, Next
<1>2. /\ now \in Nat /\ now' = now + 1 /\ UNCHANGED <<bucket, req, account>>
      /\ \A r \in Requests : req[r].pc # "charging"
  BY <1>1, RateLimitAssumption DEF Tick, RateTypes
<1>3. ASSUME NEW t \in Names, NEW k \in DOMAIN bucket[t]
      PROVE  ClockFits(bucket[t][k])'
  <2>1. ClockFits(bucket[t][k]) /\ bucket[t][k].last \in Nat /\ bucket[t][k].seen \in Nat
    BY <1>1, AccountNumbers DEF RateInvariant, RateTypes, TableFits
  <2>2. QED
    BY <1>2, <2>1 DEF ClockFits
<1>4. ASSUME NEW t \in Names, NEW k \in KeysOf[t]
      PROVE  AccountFits(t, k)'
  <2>1. /\ AccountFits(t, k) /\ Paid(t, k) \in Int /\ account[t][k].since \in Nat
        /\ Paid(t, k)' = Paid(t, k) /\ account' = account /\ bucket' = bucket
    BY <1>1, <1>2, AccountNumbers DEF RateInvariant, Paid
  <2>2. CASE k \in DOMAIN bucket[t]
    BY <2>1, <2>2 DEF AccountFits
  <2>3. CASE k \notin DOMAIN bucket[t]
    BY <1>2, <2>1, <2>3 DEF AccountFits
  <2>4. QED
    BY <2>2, <2>3
<1>5. \A r \in Requests : EventsFit(req[r])'
  BY <1>2 DEF RateInvariant, EventsFit
<1>6. QED
  BY <1>1, <1>2, <1>3, <1>4, <1>5 DEF RateInvariant

\* Every step keeps the invariant.
LEMMA RateInvariantStep ==
    ASSUME PromptSpend, RateInvariant, [Next]_vars
    PROVE  RateInvariant'
<1>1. RateTypes /\ RateTypes'
  BY RateTypesStep DEF RateInvariant
<1>2. CASE UNCHANGED vars
  BY <1>1, <1>2 DEF vars, RateInvariant, ClockFits, EventsFit, AccountFits, Paid
<1>3. ASSUME UNCHANGED <<now, bucket, account>>,
             \A s \in Requests : \/ req'[s] = req[s]
                                 \/ req'[s].held = <<>> /\ req'[s].at = now
                                 \/ req'[s].held = <<>> /\ req'[s].pc # "charging"
      PROVE  RateInvariant'
  <2>1. \A s \in Requests : req'[s].pc = "charging" => req'[s].at = now'
    BY <1>3 DEF RateInvariant
  <2>2. ASSUME NEW s \in Requests
        PROVE  EventsFit(req[s])'
    <3>1. CASE req'[s] = req[s]
      BY <1>3, <3>1 DEF RateInvariant, EventsFit
    <3>2. CASE req'[s].held = <<>>
      BY <3>2 DEF EventsFit
    <3>3. QED
      BY <1>3, <3>1, <3>2
  <2>3. /\ \A t \in Names : \A k \in DOMAIN bucket'[t] : ClockFits(bucket[t][k])'
        /\ \A t \in Names : \A k \in KeysOf[t] : AccountFits(t, k)'
    BY <1>3 DEF RateInvariant, ClockFits, AccountFits, Paid
  <2>4. QED
    BY <1>1, <2>1, <2>2, <2>3 DEF RateInvariant
<1>4. ASSUME NEW r \in Requests, NEW keys \in KeyLists, Arrive(r, keys)
      PROVE  RateInvariant'
  <2>1. /\ UNCHANGED <<now, bucket, account>>
        /\ req'[r].held = <<>> /\ req'[r].at = now
        /\ \A s \in Requests \ {r} : req'[s] = req[s]
    BY <1>1, <1>4 DEF Arrive, RateTypes
  <2>2. QED
    BY <1>3, <2>1
<1>5. ASSUME NEW r \in Requests, Keep(r)
      PROVE  RateInvariant'
  <2>1. /\ UNCHANGED <<now, bucket, account>>
        /\ req'[r].held = <<>> /\ req'[r].pc = "idle"
        /\ \A s \in Requests \ {r} : req'[s] = req[s]
    BY <1>1, <1>5 DEF Keep, Idle, RateTypes
  <2>2. QED
    BY <1>3, <2>1
<1>6. QED
  BY <1>2, <1>4, <1>5, TickKeepsInvariant, ChargeKeepsInvariant, GiveBackKeepsInvariant DEF Next

\* The inductive invariant of the accounts.
THEOREM RateInvariantHolds ==
    ASSUME PromptSpend
    PROVE  Spec => []RateInvariant
<1>1. RateInvariant /\ [Next]_vars => RateInvariant'
  BY RateInvariantStep
<1>2. QED
  BY <1>1, RateInvariantInit, PTL DEF Spec

\* However charges, refusals, refunds and evictions of full buckets interleave, the
\* charges of a key that stay are no more than a full bucket and what has flowed in
\* since its account began (bucketTable.allow, Grant.Refund, evictLocked).
THEOREM AdmissionBoundHolds ==
    ASSUME PromptSpend
    PROVE  Spec => []AdmissionBound
<1>1. RateInvariant => AdmissionBound
  <2> SUFFICES ASSUME RateInvariant, NEW t \in Names, NEW k \in KeysOf[t]
               PROVE  Paid(t, k) <= Capacity(t) + (now - account[t][k].since)
    BY DEF AdmissionBound, Paid
  <2>1. RateTypes /\ AccountFits(t, k)
    BY DEF RateInvariant
  <2>2. CASE k \in DOMAIN bucket[t]
    <3>1. bucket[t][k].last <= now
      BY <2>2 DEF RateInvariant, ClockFits
    <3>2. QED
      BY <2>1, <2>2, <3>1, AccountNumbers DEF AccountFits
  <2>3. CASE k \notin DOMAIN bucket[t]
    BY <2>1, <2>3, AccountNumbers DEF AccountFits
  <2>4. QED
    BY <2>2, <2>3
<1>2. QED
  BY <1>1, RateInvariantHolds, PTL

\* A charge that drops a bucket which is not full leaves more buckets than the eviction
\* aims at, and all of them were seen since.
LEMMA ChargeForgetsForCrowd ==
    ASSUME RateInvariant, NEW r \in Requests, Charge(r), NEW u \in Names,
           NEW j \in DOMAIN bucket[u] \ DOMAIN bucket'[u], ~IsFull(u, bucket[u][j], now)
    PROVE  Cardinality({i \in DOMAIN bucket'[u] : bucket'[u][i].seen >= bucket[u][j].seen})
              > Target
<1>1. RateTypes
  BY DEF RateInvariant
<1> PICK t \in Names : \E k \in KeysOf[t] : \E kept \in SUBSET DOMAIN bucket[t] :
        Charges(r, t, k, kept)
  BY <1>1, ChargeIsOne
<1> PICK k \in KeysOf[t] : \E kept \in SUBSET DOMAIN bucket[t] : Charges(r, t, k, kept)
  OBVIOUS
<1>2. PICK kept \in SUBSET DOMAIN bucket[t] : Charges(r, t, k, kept)
  OBVIOUS
<1>3. req[r].at = now /\ now \in 0..MaxTime
  BY <1>1, <1>2 DEF Charges, RateInvariant, RateTypes
<1>4. /\ DOMAIN bucket'[t] = kept \cup {k}
      /\ \A i \in kept \ {k} : bucket'[t][i] = bucket[t][i]
      /\ bucket'[t][k] = Charged(t, k, now)
      /\ \A v \in Names \ {t} : bucket'[v] = bucket[v]
      /\ k \in DOMAIN bucket[t] => kept = DOMAIN bucket[t]
      /\ k \notin DOMAIN bucket[t] => kept \in Survivors(t, now)
  BY <1>1, <1>2, <1>3, TablesAfter
<1>5. u = t /\ j \notin kept /\ k \notin DOMAIN bucket[t] /\ j \in NotFull(t, now)
  BY <1>4 DEF NotFull
<1>6. TableFits(t) /\ kept \in Survivors(t, now)
  BY <1>1, <1>4, <1>5 DEF RateTypes
<1>7. /\ IsFiniteSet(kept) /\ Cardinality(kept) = Target
      /\ \A i \in kept : bucket[t][j].seen <= bucket[t][i].seen
  BY <1>5, <1>6, EvictedForCrowd
<1>8. Cardinality(kept \cup {k}) > Target
  <2>1. k \notin kept
    BY <1>5
  <2>2. Cardinality(kept \cup {k}) = Target + 1 /\ Target \in Int
    BY <1>7, <2>1, FS_AddElement, FS_CardinalityType
  <2>3. QED
    BY <2>2
<1>9. ASSUME NEW i \in kept \cup {k}
      PROVE  bucket'[t][i].seen >= bucket[t][j].seen
  <2>1. bucket[t][j].seen <= now /\ bucket[t][j].seen \in Int /\ now \in Int
    BY <1>1, <1>3, <1>5, AccountNumbers DEF RateInvariant, ClockFits, RateTypes, TableFits
  <2>2. CASE i = k
    BY <1>1, <1>3, <1>4, <2>1, <2>2, ChargedFits
  <2>3. CASE i # k
    <3>1. bucket'[t][i].seen = bucket[t][i].seen /\ bucket[t][j].seen <= bucket[t][i].seen
      BY <1>4, <1>7, <1>9, <2>3
    <3>2. bucket[t][i].seen \in Int
      BY <1>1, <1>9, <2>3, AccountNumbers DEF RateTypes, TableFits
    <3>3. QED
      BY <2>1, <3>1, <3>2
  <2>4. QED
    BY <2>2, <2>3
<1>10. {i \in DOMAIN bucket'[u] : bucket'[u][i].seen >= bucket[u][j].seen} = kept \cup {k}
  BY <1>4, <1>5, <1>9
<1>11. QED
  BY <1>8, <1>10

\* Flooding the table with fresh keys does not make it forget a key whose budget is used
\* up in part while others have been seen longer ago (evictLocked).
THEOREM ForgottenOnlyForCrowdHolds ==
    ASSUME PromptSpend
    PROVE  Spec => ForgottenOnlyForCrowd
<1> DEFINE OnlyForCrowd ==
       \A t \in Names : \A k \in DOMAIN bucket[t] \ DOMAIN bucket'[t] :
          ~IsFull(t, bucket[t][k], now) =>
              Cardinality({j \in DOMAIN bucket'[t] : bucket'[t][j].seen >= bucket[t][k].seen})
                  > Target
<1>1. ASSUME RateInvariant, [Next]_vars
      PROVE  OnlyForCrowd
  <2>1. RateTypes
    BY <1>1 DEF RateInvariant
  <2>2. ASSUME NEW r \in Requests, Charge(r)
        PROVE  OnlyForCrowd
    BY <1>1, <2>2, ChargeForgetsForCrowd
  <2>3. CASE UNCHANGED bucket
    BY <2>3
  <2>4. ASSUME NEW r \in Requests, GiveBack(r)
        PROVE  \A t \in Names : DOMAIN bucket'[t] = DOMAIN bucket[t]
    <3> DEFINE token == req[r].held[1]
    <3>1. bucket = [u \in Names |-> bucket[u]]
      BY <2>1 DEF RateTypes
    <3>2. \/ UNCHANGED bucket
          \/ bucket' = [bucket EXCEPT ![token.table][token.key] =
                          Refunded(token.table, @, req[r].at)]
      BY <2>1, <2>4, GiveBackIs
    <3> HIDE DEF token
    <3>3. ASSUME NEW t, NEW k, NEW b, bucket' = [bucket EXCEPT ![t][k] = b]
          PROVE  \A u \in Names : DOMAIN bucket'[u] = DOMAIN bucket[u]
      BY <3>1, <3>3
    <3>4. QED
      BY <3>2, <3>3
  <2>5. \/ UNCHANGED bucket \/ \E r \in Requests : Charge(r) \/ GiveBack(r)
    BY <1>1 DEF Next, Tick, Arrive, Keep, vars
  <2>6. QED
    BY <2>2, <2>3, <2>4, <2>5
<1>2. RateInvariant /\ [Next]_vars => [OnlyForCrowd]_vars
  BY <1>1
<1>3. QED
  BY <1>2, RateInvariantHolds, PTL DEF Spec, ForgottenOnlyForCrowd
===============================================================================
