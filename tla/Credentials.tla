----------------------------- MODULE Credentials ------------------------------
(***************************************************************************)
(* Agents, their keys, and the tables that decide which key is accepted:   *)
(* agents.api_key_hash (the shadow that binaries before ADR 0002 read) and *)
(* agent_credentials (store/store.go, core/service.go, ADR 0005).          *)
(*                                                                         *)
(* The database outlives the process and is opened by three binaries: the  *)
(* current one and the two a rollback may bring back.  The older ones are  *)
(* external: what they do is what store.go, its tests and ADR 0005 rely    *)
(* on.  Transactions run one at a time on one connection and are atomic.   *)
(***************************************************************************)
EXTENDS Integers, FiniteSets

CONSTANTS
    Agents,         \* identities; each is registered at most once
    Keys,           \* secrets; every one handed out is new (randHex)
    Nobody,         \* the owner of a key that was not handed out
    NoHash,         \* the empty shadow
    MaxActive,      \* core.MaxActiveCredentials
    MaxListed,      \* store.MaxListedCredentials
    HasShadow       \* whether agents has the column api_key_hash

\* The value written over the hash of a revoked key, one per agent.
Tombstone(a) == <<"revoked", a>>

ASSUME CredentialsAssumption ==
    /\ Nobody \notin Agents
    /\ NoHash \notin Keys
    /\ \A a \in Agents : Tombstone(a) \notin Keys /\ Tombstone(a) # NoHash
    /\ IsFiniteSet(Keys)
    /\ IsFiniteSet(Agents)
    /\ MaxActive \in Nat \ {0}
    /\ MaxListed \in Nat
    /\ MaxActive <= MaxListed
    /\ HasShadow \in BOOLEAN

VARIABLES
    agents,         \* the registered agents
    shadow,         \* agents.api_key_hash
    rows,           \* agent_credentials
    running,        \* the binary that has the database open
    acting,         \* agents with authenticated requests in flight
    owner,          \* history: whom a key was handed to
    revoked         \* history: keys revoked by their owner

tables == <<agents, shadow, rows>>
vars == <<agents, shadow, rows, running, acting, owner, revoked>>

Binaries == {"current", "adr0002", "pre0002"}
Tombstones == {Tombstone(a) : a \in Agents}
Hashes == Keys \cup Tombstones

IssuedId(k) == <<"crd", k>>
LegacyId(a) == <<"crd_legacy", a>>
Ids == {IssuedId(k) : k \in Keys} \cup {LegacyId(a) : a \in Agents}

Row == [id : Ids, agent : Agents, hash : Hashes, revoked : BOOLEAN]
NewRow(id, a, h) == [id |-> id, agent |-> a, hash |-> h, revoked |-> FALSE]

RowsOf(a) == {r \in rows : r.agent = a}
Active(a) == {r \in RowsOf(a) : ~r.revoked}

-------------------------------------------------------------------------------
(* Who is let in *)

\* AgentByCredentialHash; before ADR 0002 the shadow was compared.
Accepts(binary, k, a) ==
    IF binary = "pre0002"
    THEN a \in agents /\ shadow[a] = k
    ELSE \E r \in Active(a) : r.hash = k

-------------------------------------------------------------------------------
(* The migration of every start *)

\* Agents whose shadow is copied: it is set and no row has its hash.  The
\* current binary leaves tombstones alone, the one of ADR 0002 did not know them.
Uncopied(shadows) ==
    {a \in agents : shadow[a] \in shadows /\ \A r \in rows : r.hash # shadow[a]}

Copied(shadows) ==
    rows \cup {NewRow(LegacyId(a), a, shadow[a]) : a \in Uncopied(shadows)}

\* INSERT violates no primary key.
CopyFits(shadows) ==
    \A a \in Uncopied(shadows), r \in rows : r.id # LegacyId(a)

\* Open counts the shadows that no row of the same agent explains, and refuses
\* to start if there are any.
Consistent(table, shadows) ==
    \A a \in agents : shadow[a] \in shadows =>
        \E r \in table : r.hash = shadow[a] /\ r.agent = a

ShadowsOf(binary) == IF binary = "current" THEN Keys ELSE Hashes

\* The copy is committed before the count, so a start that ends in between
\* leaves it.
Open ==
    /\ running = "none"
    /\ IF HasShadow
       THEN /\ CopyFits(Keys)
            /\ rows' = Copied(Keys)
            /\ \/ running' = "none"
               \/ Consistent(rows', Keys) /\ running' = "current"
       ELSE rows' = rows /\ running' = "current"
    /\ UNCHANGED <<agents, shadow, acting, owner, revoked>>

OpenAdr0002 ==
    /\ running = "none"
    /\ HasShadow
    /\ CopyFits(Hashes)
    /\ rows' = Copied(Hashes)
    /\ \/ running' = "none"
       \/ Consistent(rows', Hashes) /\ running' = "adr0002"
    /\ UNCHANGED <<agents, shadow, acting, owner, revoked>>

OpenPre0002 ==
    /\ running = "none"
    /\ HasShadow
    /\ running' = "pre0002"
    /\ UNCHANGED <<agents, shadow, rows, acting, owner, revoked>>

\* The process ends; requests in flight end with it.
Stop ==
    /\ running # "none"
    /\ running' = "none"
    /\ acting' = {}
    /\ UNCHANGED <<tables, owner, revoked>>

-------------------------------------------------------------------------------
(* Operations *)

HandOut(k, a) == owner[k] = Nobody /\ owner' = [owner EXCEPT ![k] = a]

\* RegisterAgent and CreateAgent; the binary of ADR 0002 registers like this too.
Register(a, k) ==
    /\ running \in {"current", "adr0002"}
    /\ a \notin agents
    /\ HandOut(k, a)
    /\ agents' = agents \cup {a}
    /\ shadow' = IF HasShadow THEN [shadow EXCEPT ![a] = k] ELSE shadow
    /\ rows' = rows \cup {NewRow(IssuedId(k), a, k)}
    /\ UNCHANGED <<running, acting, revoked>>

RegisterPre0002(a, k) ==
    /\ running = "pre0002"
    /\ a \notin agents
    /\ HandOut(k, a)
    /\ agents' = agents \cup {a}
    /\ shadow' = [shadow EXCEPT ![a] = k]
    /\ UNCHANGED <<rows, running, acting, revoked>>

\* A request is authenticated once and acts on the agent afterwards: the key it
\* came with may be revoked before it does.
Authenticate(k, a) ==
    /\ running = "current"
    /\ a \notin acting
    /\ Accepts("current", k, a)
    /\ acting' = acting \cup {a}
    /\ UNCHANGED <<tables, running, owner, revoked>>

EndRequests(a) ==
    /\ a \in acting
    /\ acting' = acting \ {a}
    /\ UNCHANGED <<tables, running, owner, revoked>>

UnderCap(a) == Cardinality(Active(a)) < MaxActive

\* IssueCredential and CreateCredential: count and insert in one transaction; the
\* shadow is not written.
Issue(a, k) ==
    /\ a \in acting
    /\ UnderCap(a)
    /\ HandOut(k, a)
    /\ rows' = rows \cup {NewRow(IssuedId(k), a, k)}
    /\ UNCHANGED <<agents, shadow, running, acting, revoked>>

\* Mutant of MayRevoke: ownership and activity only.
MayRevoke_Any(a, r) == r \in Active(a)

MayRevoke(a, r) == r \in Active(a) /\ Cardinality(Active(a)) > 1

Mirrored(a, r) == HasShadow /\ shadow[a] = r.hash

\* Mutant of RevokedRow: the tombstone goes to the shadow only.
RevokedRow_KeepsHash(a, r) == [r EXCEPT !.revoked = TRUE]

\* Mutant of RevokedRow: the tombstone is made of the credential's identifier.
RevokedRow_OtherTomb(a, r) ==
    [r EXCEPT !.revoked = TRUE,
              !.hash = IF Mirrored(a, r) THEN Tombstone(r.id) ELSE @]

RevokedRow(a, r) ==
    [r EXCEPT !.revoked = TRUE,
              !.hash = IF Mirrored(a, r) THEN Tombstone(a) ELSE @]

\* Mutant of RevokedShadow: the shadow keeps the hash of the revoked key.
RevokedShadow_Kept(a, r) == shadow[a]

RevokedShadow(a, r) == IF Mirrored(a, r) THEN Tombstone(a) ELSE shadow[a]

\* RevokeCredential: the hash of a key that is mirrored in the shadow is replaced
\* in both tables.
Revoke(a, r) ==
    /\ a \in acting
    /\ MayRevoke(a, r)
    /\ shadow' = [shadow EXCEPT ![a] = RevokedShadow(a, r)]
    /\ rows' = (rows \ {r}) \cup {RevokedRow(a, r)}
    /\ revoked' = revoked \cup {r.hash}
    /\ UNCHANGED <<agents, running, acting, owner>>

\* Mutant of Listings: newest first, whatever their state.
Listings_AnyOrder(a) ==
    {L \in SUBSET RowsOf(a) :
        Cardinality(L) = IF Cardinality(RowsOf(a)) < MaxListed
                         THEN Cardinality(RowsOf(a)) ELSE MaxListed}

\* What Credentials may return: as many rows as fit, active ones before revoked
\* ones.  The order by age among equals is left open.
Listings(a) ==
    {L \in SUBSET RowsOf(a) :
        /\ Cardinality(L) = IF Cardinality(RowsOf(a)) < MaxListed
                            THEN Cardinality(RowsOf(a)) ELSE MaxListed
        /\ (\E r \in L : r.revoked) => Active(a) \subseteq L}

-------------------------------------------------------------------------------
\* A database of before ADR 0002, possibly empty.
Init ==
    /\ agents \in IF HasShadow THEN SUBSET Agents ELSE {{}}
    /\ \E key \in [agents -> Keys] :
          /\ \A a, b \in agents : key[a] = key[b] => a = b
          /\ shadow = [a \in Agents |-> IF a \in agents THEN key[a] ELSE NoHash]
          /\ owner = [k \in Keys |-> IF \E a \in agents : key[a] = k
                                     THEN CHOOSE a \in agents : key[a] = k
                                     ELSE Nobody]
    /\ rows = {}
    /\ running = "none"
    /\ acting = {}
    /\ revoked = {}

Next ==
    \/ Open \/ OpenAdr0002 \/ OpenPre0002 \/ Stop
    \/ \E a \in Agents, k \in Keys :
          \/ Register(a, k)
          \/ RegisterPre0002(a, k)
          \/ Authenticate(k, a)
          \/ Issue(a, k)
    \/ \E a \in Agents : EndRequests(a)
    \/ \E a \in Agents : \E r \in rows : Revoke(a, r)

Spec == Init /\ [][Next]_vars

-------------------------------------------------------------------------------
(* Properties *)

\* The variables have their types.
TypeOK ==
    /\ agents \subseteq Agents
    /\ shadow \in [Agents -> Hashes \cup {NoHash}]
    /\ rows \subseteq Row
    /\ running \in Binaries \cup {"none"}
    /\ acting \subseteq Agents
    /\ owner \in [Keys -> Agents \cup {Nobody}]
    /\ revoked \subseteq Keys

\* An identity cannot be lost: every registered agent has a key that it was given,
\* has not revoked, and that the current binary accepts, at once or after the
\* migration of its next start.  RevokeCredential's rule of the last key, with
\* revocations in any order, by requests authenticated earlier, across restarts.
LastKeyStays ==
    \A a \in agents : \E k \in Keys \ revoked :
        /\ owner[k] = a
        /\ \/ Accepts("current", k, a)
           \/ HasShadow /\ a \in Uncopied(Keys) /\ shadow[a] = k

\* No restart and no rollback brings a revoked key back: no binary, whether it is
\* running or is started next, accepts it for anyone.
RevokedStaysRevoked ==
    \A k \in revoked, a \in agents, b \in Binaries : ~Accepts(b, k, a)

\* Whoever is let in is the agent the key was given to, and every active row is a
\* key that was given out: the migration makes up none.
KeysBelongToTheirAgent ==
    /\ \A k \in Keys, a \in agents, b \in Binaries : Accepts(b, k, a) => owner[k] = a
    /\ \A r \in rows : ~r.revoked => r.hash \in Keys

\* No agent has more active keys than the cap, whichever requests race.
CapHolds == \A a \in Agents : Cardinality(Active(a)) <= MaxActive

\* The listing never hides a key that can still be revoked.
ActiveIsListed == \A a \in Agents : \A L \in Listings(a) : Active(a) \subseteq L

\* Both binaries of the supported rollback start on every database that the
\* service can leave: their migration violates no key and finds every shadow.
StartIsNeverRefused ==
    HasShadow => \A b \in {"current", "adr0002"} :
        /\ CopyFits(ShadowsOf(b))
        /\ Consistent(Copied(ShadowsOf(b)), ShadowsOf(b))
===============================================================================
