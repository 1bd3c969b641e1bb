------------------------------- MODULE RateLimit ------------------------------
(***************************************************************************)
(* Token buckets (internal/ratelimit): a request is charged to a bucket of *)
(* each table, all or nothing, and may be given its tokens back later.     *)
(*                                                                         *)
(* Time is counted in ticks.  A token of table t takes Period[t] ticks to  *)
(* come back, so a bucket is a number of ticks between 0 and Capacity(t)   *)
(* and a charge costs Period[t] of them; fractions of a token are exact.   *)
(* The buckets themselves are rate.Limiter of golang.org/x/time, external. *)
(***************************************************************************)
EXTENDS Integers, Sequences, FiniteSets

CONSTANTS
    Requests,       \* requests being served at one time
    Tables,         \* the tables a request is charged to, in that order
    KeysOf,         \* the keys of each table: agents, addresses
    Burst,          \* tokens of a full bucket of each table
    Period,         \* ticks that one token takes
    MaxTracked,     \* entries of a table
    PromptSpend,    \* whether the clock stands still while a request is charged
    MaxTime         \* bound on the clock

Names == {Tables[i] : i \in DOMAIN Tables}

ASSUME RateLimitAssumption ==
    /\ Tables \in Seq(Names) /\ Tables # <<>>
    /\ \A t \in Names : Burst[t] \in Nat \ {0} /\ Period[t] \in Nat \ {0}
    /\ MaxTracked \in Nat \ {0}
    /\ PromptSpend \in BOOLEAN
    /\ MaxTime \in Nat

VARIABLES
    now,
    bucket,         \* for each table, the entries of the keys it tracks
    req,            \* the requests
    account         \* history: for each table and key, charges that were kept or
                    \* are still open, and since when they are counted

vars == <<now, bucket, req, account>>

Capacity(t) == Burst[t] * Period[t]

Least(a, b) == IF a < b THEN a ELSE b

Entry(t) == [tokens : 0..Capacity(t), last : 0..MaxTime,
             lastEvent : 0..(MaxTime + Period[t]), seen : 0..MaxTime]

-------------------------------------------------------------------------------
(* rate.Limiter *)

FullBucket(t, at) == [tokens |-> Capacity(t), last |-> at, lastEvent |-> 0, seen |-> at]

\* What a bucket holds at a time; a time before its last use adds nothing.
Level(t, b, at) ==
    IF at < b.last THEN b.tokens ELSE Least(Capacity(t), b.tokens + (at - b.last))

\* How long the next token is away.
Wait(t, b, at) == IF Level(t, b, at) < Period[t] THEN Period[t] - Level(t, b, at) ELSE 0

\* Reserve with no wait: the token is taken.
Taken(t, b, at) ==
    [b EXCEPT !.tokens = Level(t, b, at) - Period[t], !.last = at, !.lastEvent = at, !.seen = at]

\* Reserve with a wait, and Cancel at once.  The level is what it was, but the
\* last event stays in the future unless the wait was a whole period.
Refused(t, b, at) ==
    LET due == at + Wait(t, b, at)
    IN [b EXCEPT !.tokens = Level(t, b, at), !.last = at, !.seen = at,
                 !.lastEvent = IF due - Period[t] >= at THEN due - Period[t] ELSE due]

\* Mutant of Refunded: the refund ignores the ceiling of the bucket.
Refunded_NoCeiling(t, b, at) ==
    LET restored == Period[t] - (b.lastEvent - at)
    IN IF restored <= 0 THEN b
       ELSE [b EXCEPT !.tokens = Level(t, b, at) + restored, !.last = at]

\* Cancel of a token that was taken at a time: what later reservations have taken
\* since is not restored, and the clock of the bucket goes back to that time.
Refunded(t, b, at) ==
    LET restored == Period[t] - (b.lastEvent - at)
    IN IF restored <= 0 THEN b
       ELSE [b EXCEPT !.tokens = Least(Capacity(t), Level(t, b, at) + restored), !.last = at]

-------------------------------------------------------------------------------
(* bucketTable *)

\* Mutant of IsFull: one tick short of full is taken for full.
IsFull_Nearly(t, b, at) == Level(t, b, at) >= Capacity(t) - 1

IsFull(t, b, at) == Level(t, b, at) >= Capacity(t)

Target == (MaxTracked * 9) \div 10

NotFull(t, at) == {k \in DOMAIN bucket[t] : ~IsFull(t, bucket[t][k], at)}

IsCrowded(t) == Cardinality(DOMAIN bucket[t]) >= MaxTracked

\* Mutant of LongestUnseen: the sort is the other way round.
LongestUnseen_Reversed(t, D, S) ==
    \A d \in D, k \in S \ D : bucket[t][d].seen >= bucket[t][k].seen

\* The order of the eviction; equal times are in any order.
LongestUnseen(t, D, S) == \A d \in D, k \in S \ D : bucket[t][d].seen <= bucket[t][k].seen

\* The keys that may be left when a key is about to be added: evictLocked.
Survivors(t, at) ==
    LET rest == NotFull(t, at)
        excess == Cardinality(rest) - Target
    IN IF ~IsCrowded(t) THEN {DOMAIN bucket[t]}
       ELSE IF excess <= 0 THEN {rest}
       ELSE {rest \ D : D \in {E \in SUBSET rest : Cardinality(E) = excess
                                                   /\ LongestUnseen(t, E, rest)}}

-------------------------------------------------------------------------------
(* Requests *)

Idle == [pc |-> "idle", keys |-> <<>>, at |-> 0, held |-> <<>>]

\* Tokens of entries that were dropped can only go back to nowhere.
Orphaned(held, t, kept) ==
    [i \in DOMAIN held |->
        IF held[i].table = t /\ held[i].key \notin kept
        THEN [held[i] EXCEPT !.live = FALSE] ELSE held[i]]

\* A request arrives and its time is read once (spend).
Arrive(r, keys) ==
    /\ req[r].pc = "idle"
    /\ req' = [req EXCEPT ![r] = [pc |-> "charging", keys |-> keys, at |-> now, held |-> <<>>]]
    /\ UNCHANGED <<now, bucket, account>>

\* The account of a key starts anew when its bucket is dropped while not full.
AccountAfter(t, kept, at) ==
    [k \in KeysOf[t] |->
        IF k \in NotFull(t, at) \ kept THEN [since |-> at, spent |-> 0] ELSE account[t][k]]

\* One bucketTable.allow: find or make the entry, then take a token or be refused.
Charge(r) ==
    LET i == Len(req[r].held) + 1
        t == Tables[i]
        k == req[r].keys[i]
        at == req[r].at
    IN  /\ req[r].pc = "charging"
        /\ \E kept \in IF k \in DOMAIN bucket[t] THEN {DOMAIN bucket[t]} ELSE Survivors(t, at) :
              LET b == IF k \in DOMAIN bucket[t] THEN bucket[t][k] ELSE FullBucket(t, at)
                  granted == Wait(t, b, at) = 0
                  token == [table |-> t, key |-> k, live |-> TRUE]
              IN  /\ bucket' = [bucket EXCEPT ![t] =
                        [j \in kept \cup {k} |->
                            IF j # k THEN bucket[t][j]
                            ELSE IF granted THEN Taken(t, b, at) ELSE Refused(t, b, at)]]
                  /\ account' = [account EXCEPT ![t] =
                        [AccountAfter(t, kept, at) EXCEPT ![k].spent = IF granted THEN @ + 1 ELSE @]]
                  /\ req' = [s \in Requests |->
                        LET held == Orphaned(req[s].held, t, kept \cup {k})
                        IN IF s # r THEN [req[s] EXCEPT !.held = held]
                           ELSE IF granted
                           THEN [req[r] EXCEPT !.held = Append(held, token),
                                    !.pc = IF i = Len(Tables) THEN "granted" ELSE "charging"]
                           ELSE IF held = <<>> THEN Idle
                           ELSE [req[r] EXCEPT !.held = held, !.pc = "refunding"]]
        /\ UNCHANGED now

\* Refund, one token at a time: of a request that a later bucket refused, or that was
\* granted and found invalid or over the cap of keys (refundInvalid).
GiveBack(r) ==
    LET token == Head(req[r].held)
        t == token.table
        k == token.key
        rest == Tail(req[r].held)
    IN  /\ req[r].pc \in {"granted", "refunding"}
        /\ req' = [req EXCEPT ![r] = IF rest = <<>> THEN Idle
                                     ELSE [@ EXCEPT !.pc = "refunding", !.held = rest]]
        /\ IF token.live
           THEN /\ bucket' = [bucket EXCEPT ![t][k] = Refunded(t, @, req[r].at)]
                /\ account' = [account EXCEPT ![t][k].spent = @ - 1]
           ELSE UNCHANGED <<bucket, account>>
        /\ UNCHANGED now

\* The service did the work, or failed in a way that stays charged.
Keep(r) ==
    /\ req[r].pc = "granted"
    /\ req' = [req EXCEPT ![r] = Idle]
    /\ UNCHANGED <<now, bucket, account>>

\* A request may take any time to be read and refused, but is charged at once.
Tick ==
    /\ now < MaxTime
    /\ PromptSpend => \A r \in Requests : req[r].pc # "charging"
    /\ now' = now + 1
    /\ UNCHANGED <<bucket, req, account>>

-------------------------------------------------------------------------------
Init ==
    /\ now = 0
    /\ bucket = [t \in Names |-> <<>>]
    /\ req = [r \in Requests |-> Idle]
    /\ account = [t \in Names |-> [k \in KeysOf[t] |-> [since |-> 0, spent |-> 0]]]

KeyLists == {f \in [DOMAIN Tables -> UNION {KeysOf[t] : t \in Names}] :
                \A i \in DOMAIN Tables : f[i] \in KeysOf[Tables[i]]}

Next ==
    \/ Tick
    \/ \E r \in Requests :
          \/ \E keys \in KeyLists : Arrive(r, keys)
          \/ Charge(r) \/ GiveBack(r) \/ Keep(r)

Spec == Init /\ [][Next]_vars

-------------------------------------------------------------------------------
(* Properties *)

\* The table stays within its bound although its keys are the clients' choice.
TableBounded == \A t \in Names : Cardinality(DOMAIN bucket[t]) <= MaxTracked

\* The entries are buckets, and no more than the table may have: no bucket is in debt
\* and none overflows, and a charge that is still open is a live one of a tracked key
\* or lost its bucket.
TypeOK ==
    /\ now \in 0..MaxTime
    /\ \A t \in Names : /\ DOMAIN bucket[t] \subseteq KeysOf[t]
                        /\ \A k \in DOMAIN bucket[t] : bucket[t][k] \in Entry(t)
    /\ TableBounded
    /\ \A r \in Requests : \A i \in DOMAIN req[r].held :
          req[r].held[i].live => req[r].held[i].key \in DOMAIN bucket[req[r].held[i].table]

\* Enforcement: the charges of a key that were not given back never exceed a full
\* bucket and what has flowed in since, whatever refunds, refusals and evictions of
\* full buckets came in between; only an eviction for want of room starts anew.
AdmissionBound ==
    \A t \in Names : \A k \in KeysOf[t] :
        account[t][k].spent * Period[t] <= Capacity(t) + (now - account[t][k].since)

\* A key whose budget is used up in part is forgotten only for a crowd of others
\* that have been seen since.
ForgottenOnlyForCrowd ==
    [][\A t \in Names : \A k \in DOMAIN bucket[t] \ DOMAIN bucket'[t] :
          ~IsFull(t, bucket[t][k], now) =>
              Cardinality({j \in DOMAIN bucket'[t] : bucket'[t][j].seen >= bucket[t][k].seen})
                  > Target]_vars

\* A request that is refused or found invalid costs nothing: a key whose every
\* charge was given back has a full bucket ("Refund returns every token this grant
\* spent").
RefusalsAreFree ==
    \A t \in Names : \A k \in DOMAIN bucket[t] :
        account[t][k].spent = 0 => IsFull(t, bucket[t][k], now)
===============================================================================
