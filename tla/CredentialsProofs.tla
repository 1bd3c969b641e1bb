--------------------------- MODULE CredentialsProofs --------------------------
(***************************************************************************)
(* Proofs of the invariants of Credentials, for any sets of agents and     *)
(* keys, any cap, with and without the shadow column.                      *)
(***************************************************************************)
EXTENDS Credentials, FiniteSetTheorems, TLAPS

\* Identifiers and hashes name one row each (PRIMARY KEY, UNIQUE).
RowsUnique == \A r, s \in rows : r.id = s.id \/ r.hash = s.hash => r = s

\* A row belongs to a registered agent, carries an identifier of that agent, and
\* either the hash of a key given to it or, once revoked, its tombstone.
RowExplained(r) ==
    /\ r.agent \in agents
    /\ \/ r.id = LegacyId(r.agent)
       \/ \E k \in Keys : r.id = IssuedId(k) /\ owner[k] = r.agent
    /\ \/ r.hash \in Keys /\ owner[r.hash] = r.agent /\ (r.revoked <=> r.hash \in revoked)
       \/ r.hash = Tombstone(r.agent) /\ r.revoked /\ shadow[r.agent] = r.hash

\* Every row is a key that was given out.
RowsExplained == \A r \in rows : RowExplained(r)

\* A shadow is a key of its agent that still stands, or its tombstone.
ShadowExplained(a) ==
    \/ shadow[a] = NoHash /\ (a \in agents => ~HasShadow)
    \/ /\ HasShadow /\ a \in agents
       /\ \/ shadow[a] \in Keys /\ owner[shadow[a]] = a /\ shadow[a] \notin revoked
          \/ shadow[a] = Tombstone(a)

\* Every shadow is a key that was given out.
ShadowsExplained == \A a \in Agents : ShadowExplained(a)

\* An agent that has rows has one with the hash of its shadow.
ShadowHasRow ==
    \A a \in agents : HasShadow /\ RowsOf(a) # {} => \E r \in RowsOf(a) : r.hash = shadow[a]

\* An agent has an active row, or a shadow that is yet to be copied.
AgentHasKey ==
    \A a \in agents : \/ Active(a) # {}
                      \/ HasShadow /\ shadow[a] \in Keys /\ RowsOf(a) = {}

\* Who has been let in has a row.
ActingHasRow == \A a \in acting : RowsOf(a) # {}

\* Only a key that was given out is revoked.
NewKeysStand == \A k \in revoked : owner[k] # Nobody

\* The oldest binary runs only on a table with the shadow column.
OldNeedsShadow == running = "pre0002" => HasShadow

\* The inductive invariant.
KeyInvariant ==
    /\ TypeOK
    /\ IsFiniteSet(rows)
    /\ RowsUnique
    /\ RowsExplained
    /\ ShadowsExplained
    /\ ShadowHasRow
    /\ AgentHasKey
    /\ ActingHasRow
    /\ NewKeysStand
    /\ OldNeedsShadow
    /\ CapHolds

-------------------------------------------------------------------------------
(* Facts about the values *)

\* A tombstone is the hash of no key, and each agent has its own.
LEMMA TombstoneFacts ==
    ASSUME NEW a \in Agents
    PROVE  /\ Tombstone(a) \notin Keys
           /\ Tombstone(a) # NoHash
           /\ Tombstone(a) \in Hashes
           /\ \A b \in Agents : Tombstone(a) = Tombstone(b) => a = b
BY CredentialsAssumption DEF Tombstone, Hashes, Tombstones

\* Identifiers of new credentials and of copied ones never meet.
LEMMA IdFacts ==
    ASSUME NEW k \in Keys, NEW a \in Agents
    PROVE  /\ IssuedId(k) \in Ids /\ LegacyId(a) \in Ids
           /\ IssuedId(k) # LegacyId(a)
           /\ \A j \in Keys : IssuedId(k) = IssuedId(j) => k = j
           /\ \A b \in Agents : LegacyId(a) = LegacyId(b) => a = b
BY DEF IssuedId, LegacyId, Ids

\* The fields of a new row.
LEMMA NewRowFacts ==
    ASSUME NEW id \in Ids, NEW a \in Agents, NEW h \in Hashes
    PROVE  /\ NewRow(id, a, h) \in Row
           /\ NewRow(id, a, h).id = id
           /\ NewRow(id, a, h).agent = a
           /\ NewRow(id, a, h).hash = h
           /\ NewRow(id, a, h).revoked = FALSE
BY DEF NewRow, Row

\* Keys and tombstones are the hashes, and the empty shadow is none of them.
LEMMA HashFacts == Keys \subseteq Hashes /\ NoHash \notin Hashes
BY CredentialsAssumption DEF Hashes, Tombstones

-------------------------------------------------------------------------------
(* What the invariant says of the copy *)

\* An agent is uncopied exactly if it has no row at all and its shadow is a key.
LEMMA UncopiedHasNoRow ==
    ASSUME KeyInvariant, HasShadow, NEW a \in agents
    PROVE  /\ a \in Uncopied(Keys) <=> shadow[a] \in Keys /\ RowsOf(a) = {}
           /\ a \in Uncopied(Hashes) <=> shadow[a] \in Keys /\ RowsOf(a) = {}
<1>1. a \in Agents /\ ShadowExplained(a)
  BY DEF KeyInvariant, TypeOK, ShadowsExplained
<1>2. shadow[a] \in Keys \/ shadow[a] = Tombstone(a)
  BY <1>1 DEF ShadowExplained
<1>3. shadow[a] \in Hashes
  BY <1>1, <1>2, HashFacts, TombstoneFacts
<1>4. CASE RowsOf(a) # {}
  <2>1. \E r \in RowsOf(a) : r.hash = shadow[a]
    BY <1>4 DEF KeyInvariant, ShadowHasRow
  <2> QED
    BY <1>4, <2>1 DEF Uncopied, RowsOf
<1>5. CASE RowsOf(a) = {}
  <2>1. ASSUME NEW r \in rows, r.hash = shadow[a]
        PROVE  FALSE
    <3>1. RowExplained(r)
      BY DEF KeyInvariant, RowsExplained
    <3>2. r.agent \in Agents
      BY <3>1 DEF RowExplained, KeyInvariant, TypeOK
    <3>3. r.agent = a
      <4>1. CASE r.hash \in Keys
        <5>1. owner[r.hash] = r.agent
          BY <3>1, <3>2, <4>1, TombstoneFacts DEF RowExplained
        <5>2. owner[shadow[a]] = a
          BY <1>1, <2>1, <4>1, TombstoneFacts DEF ShadowExplained
        <5> QED
          BY <2>1, <5>1, <5>2
      <4>2. CASE r.hash \notin Keys
        <5>1. r.hash = Tombstone(r.agent)
          BY <3>1, <4>2 DEF RowExplained
        <5>2. shadow[a] = Tombstone(a)
          BY <1>2, <2>1, <4>2
        <5> QED
          BY <1>1, <2>1, <3>2, <5>1, <5>2, TombstoneFacts
      <4> QED
        BY <4>1, <4>2
    <3> QED
      BY <1>5, <3>3 DEF RowsOf
  <2>2. CASE shadow[a] \in Keys
    BY <1>3, <1>5, <2>1, <2>2 DEF Uncopied
  <2>3. CASE shadow[a] \notin Keys
    <3>1. shadow[a] = Tombstone(a)
      BY <1>2, <2>3
    <3>2. Active(a) = {}
      BY <1>5 DEF Active
    <3>3. FALSE
      BY <1>5, <2>3, <3>2 DEF KeyInvariant, AgentHasKey
    <3> QED
      BY <3>3
  <2> QED
    BY <2>2, <2>3
<1> QED
  BY <1>4, <1>5

\* Both migrations copy the same agents: no tombstone is ever left without a row.
LEMMA SameCopy ==
    ASSUME KeyInvariant, HasShadow
    PROVE  Uncopied(Hashes) = Uncopied(Keys) /\ Copied(Hashes) = Copied(Keys)
<1>1. Uncopied(Hashes) = Uncopied(Keys)
  BY UncopiedHasNoRow DEF Uncopied
<1> QED
  BY <1>1 DEF Copied

-------------------------------------------------------------------------------
(* The invariant is inductive *)

\* It holds of every database of before ADR 0002.
LEMMA InitKeys == Init => KeyInvariant
<1> SUFFICES ASSUME Init
             PROVE  KeyInvariant
  OBVIOUS
<1> PICK key \in [agents -> Keys] :
       /\ \A a, b \in agents : key[a] = key[b] => a = b
       /\ shadow = [a \in Agents |-> IF a \in agents THEN key[a] ELSE NoHash]
       /\ owner = [k \in Keys |-> IF \E a \in agents : key[a] = k
                                  THEN CHOOSE a \in agents : key[a] = k
                                  ELSE Nobody]
  BY DEF Init
<1>1. agents \subseteq Agents /\ (agents # {} => HasShadow)
  BY DEF Init
<1>2. rows = {} /\ running = "none" /\ acting = {} /\ revoked = {}
  BY DEF Init
<1>3. \A a \in agents : shadow[a] \in Keys /\ shadow[a] = key[a]
  BY <1>1
<1>4. \A a \in agents : owner[key[a]] = a
  OBVIOUS
<1>5. owner \in [Keys -> Agents \cup {Nobody}]
  BY <1>1
<1>6. shadow \in [Agents -> Hashes \cup {NoHash}]
  BY <1>1, HashFacts
<1>7. \A a \in Agents : RowsOf(a) = {} /\ Active(a) = {}
  BY <1>2 DEF RowsOf, Active
<1>8. TypeOK
  BY <1>1, <1>2, <1>5, <1>6 DEF TypeOK
<1>9. ShadowsExplained
  BY <1>1, <1>2, <1>3, <1>4 DEF ShadowsExplained, ShadowExplained
<1>10. AgentHasKey
  BY <1>1, <1>3, <1>7 DEF AgentHasKey
<1>11. CapHolds
  BY <1>7, FS_EmptySet, CredentialsAssumption DEF CapHolds
<1> QED
  BY <1>1, <1>2, <1>7, <1>8, <1>9, <1>10, <1>11, FS_EmptySet
  DEF KeyInvariant, RowsUnique, RowsExplained, ShadowHasRow, ActingHasRow, NewKeysStand, OldNeedsShadow

\* A step that leaves the tables and the history alone keeps it, as long as whoever
\* is let in has a row.
LEMMA TablesUntouched ==
    ASSUME KeyInvariant, UNCHANGED <<tables, owner, revoked>>,
           running' \in Binaries \cup {"none"}, running' = "pre0002" => HasShadow,
           acting' \subseteq Agents,
           \A a \in acting' : RowsOf(a) # {}
    PROVE  KeyInvariant'
<1> USE DEF tables
<1>1. \A a : RowsOf(a)' = RowsOf(a) /\ Active(a)' = Active(a)
  BY DEF RowsOf, Active
<1>2. TypeOK'
  BY DEF KeyInvariant, TypeOK
<1>3. RowsUnique' /\ NewKeysStand' /\ IsFiniteSet(rows)'
  BY DEF KeyInvariant, RowsUnique, NewKeysStand
<1>4. RowsExplained'
  BY DEF KeyInvariant, RowsExplained, RowExplained
<1>5. ShadowsExplained'
  BY DEF KeyInvariant, ShadowsExplained, ShadowExplained
<1>6. ShadowHasRow' /\ AgentHasKey' /\ CapHolds'
  BY <1>1 DEF KeyInvariant, ShadowHasRow, AgentHasKey, CapHolds
<1>7. ActingHasRow'
  BY <1>1 DEF ActingHasRow
<1> QED
  BY <1>2, <1>3, <1>4, <1>5, <1>6, <1>7 DEF KeyInvariant, OldNeedsShadow

\* A request is let in by an active row of its agent.
LEMMA AuthenticateKeeps ==
    ASSUME KeyInvariant, NEW a \in Agents, NEW k \in Keys, Authenticate(k, a)
    PROVE  KeyInvariant'
<1>1. RowsOf(a) # {}
  BY DEF Authenticate, Accepts, Active
<1>2. \A b \in acting' : RowsOf(b) # {}
  BY <1>1 DEF Authenticate, KeyInvariant, ActingHasRow
<1> QED
  BY <1>2, TablesUntouched DEF Authenticate, KeyInvariant, TypeOK, OldNeedsShadow

\* The copy of the migration, whoever makes it and whether or not it starts.
LEMMA CopyKeeps ==
    ASSUME KeyInvariant, HasShadow, rows' = Copied(Keys),
           running' \in Binaries \cup {"none"},
           UNCHANGED <<agents, shadow, acting, owner, revoked>>
    PROVE  KeyInvariant'
<1> DEFINE New(a) == NewRow(LegacyId(a), a, shadow[a])
<1>1. Uncopied(Keys) \subseteq agents /\ agents \subseteq Agents
  BY DEF Uncopied, KeyInvariant, TypeOK
<1>2. \A a \in Uncopied(Keys) :
        shadow[a] \in Keys /\ RowsOf(a) = {} /\ owner[shadow[a]] = a /\ shadow[a] \notin revoked
  <2> TAKE a \in Uncopied(Keys)
  <2>1. shadow[a] \in Keys /\ RowsOf(a) = {}
    BY <1>1, UncopiedHasNoRow
  <2> QED
    BY <1>1, <2>1, TombstoneFacts, CredentialsAssumption
    DEF KeyInvariant, ShadowsExplained, ShadowExplained
<1>3. \A a \in Uncopied(Keys) :
        /\ New(a) \in Row /\ New(a).id = LegacyId(a) /\ New(a).agent = a
        /\ New(a).hash = shadow[a] /\ New(a).revoked = FALSE
  <2> TAKE a \in Uncopied(Keys)
  <2>1. a \in Agents /\ shadow[a] \in Hashes /\ LegacyId(a) \in Ids
    BY <1>1, <1>2, HashFacts DEF Ids
  <2> QED
    BY <2>1 DEF NewRow, Row
<1>4. rows' = rows \cup {New(a) : a \in Uncopied(Keys)}
  BY DEF Copied
<1> HIDE DEF New
<1>5. \A a \in Agents : a \in Uncopied(Keys) => RowsOf(a)' = {New(a)} /\ Active(a)' = {New(a)}
  BY <1>2, <1>3, <1>4 DEF RowsOf, Active
<1>6. \A a \in Agents : a \notin Uncopied(Keys) => RowsOf(a)' = RowsOf(a) /\ Active(a)' = Active(a)
  BY <1>3, <1>4 DEF RowsOf, Active
<1>7. TypeOK'
  BY <1>3, <1>4 DEF KeyInvariant, TypeOK
<1>8. IsFiniteSet(rows)'
  <2>1. IsFiniteSet(Uncopied(Keys))
    BY <1>1, CredentialsAssumption, FS_Subset
  <2> DEFINE S == Uncopied(Keys)
             T == {New(a) : a \in S}
             f == [a \in S |-> New(a)]
  <2>2. f \in Surjection(S, T)
    BY DEF Surjection
  <2>3. IsFiniteSet(T)
    BY <2>1, <2>2, FS_Surjection DEF ExistsSurjection
  <2> QED
    BY <1>4, <2>3, FS_Union DEF KeyInvariant
<1>9. RowsUnique'
  <2> SUFFICES ASSUME NEW r \in rows', NEW t \in rows', r.id = t.id \/ r.hash = t.hash
               PROVE  r = t
    BY DEF RowsUnique
  <2>1. CASE r \in rows /\ t \in rows
    BY <2>1 DEF KeyInvariant, RowsUnique
  <2>2. ASSUME NEW a \in Uncopied(Keys), NEW u \in rows
        PROVE  New(a).id # u.id /\ New(a).hash # u.hash
    <3>1. u.agent \in Agents /\ u.agent # a /\ RowExplained(u)
      BY <1>1, <1>2, <2>2 DEF RowsOf, KeyInvariant, RowsExplained, RowExplained, TypeOK
    <3>2. New(a).hash # u.hash
      BY <1>2, <1>3, <2>2 DEF Uncopied
    <3>3. New(a).id # u.id
      BY <1>1, <1>3, <2>2, <3>1 DEF RowExplained, LegacyId, IssuedId
    <3> QED
      BY <3>2, <3>3
  <2>3. ASSUME NEW a \in Uncopied(Keys), NEW b \in Uncopied(Keys),
               New(a).id = New(b).id \/ New(a).hash = New(b).hash
        PROVE  New(a) = New(b)
    <3>1. CASE New(a).id = New(b).id
      BY <1>1, <1>3, <2>3, <3>1 DEF LegacyId
    <3>2. CASE New(a).hash = New(b).hash
      BY <1>2, <1>3, <2>3, <3>2
    <3> QED
      BY <2>3, <3>1, <3>2
  <2> QED
    BY <1>4, <2>1, <2>2, <2>3
<1>10. RowsExplained'
  <2> SUFFICES ASSUME NEW r \in rows'
               PROVE  RowExplained(r)'
    BY DEF RowsExplained
  <2>1. CASE r \in rows
    BY <2>1 DEF KeyInvariant, RowsExplained, RowExplained
  <2>2. CASE r \notin rows
    <3>1. PICK a \in Uncopied(Keys) : r = New(a)
      BY <1>4, <2>2
    <3> QED
      BY <1>1, <1>2, <1>3, <3>1 DEF RowExplained
  <2> QED
    BY <2>1, <2>2
<1>11. ShadowsExplained'
  BY DEF KeyInvariant, ShadowsExplained, ShadowExplained
<1>12. ShadowHasRow'
  <2> SUFFICES ASSUME NEW a \in agents, RowsOf(a)' # {}
               PROVE  \E r \in RowsOf(a)' : r.hash = shadow[a]
    BY DEF ShadowHasRow
  <2>1. CASE a \in Uncopied(Keys)
    BY <1>1, <1>3, <1>5, <2>1
  <2>2. CASE a \notin Uncopied(Keys)
    BY <1>1, <1>6, <2>2 DEF KeyInvariant, ShadowHasRow
  <2> QED
    BY <2>1, <2>2
<1>13. AgentHasKey'
  <2> SUFFICES ASSUME NEW a \in agents
               PROVE  Active(a)' # {}
    BY DEF AgentHasKey
  <2>1. CASE a \in Uncopied(Keys)
    BY <1>1, <1>5, <2>1
  <2>2. CASE a \notin Uncopied(Keys)
    BY <1>1, <1>6, <2>2, UncopiedHasNoRow DEF KeyInvariant, AgentHasKey
  <2> QED
    BY <2>1, <2>2
<1>14. ActingHasRow'
  BY <1>1, <1>5, <1>6 DEF KeyInvariant, ActingHasRow, TypeOK
<1>15. CapHolds'
  <2> SUFFICES ASSUME NEW a \in Agents
               PROVE  Cardinality(Active(a)') <= MaxActive
    BY DEF CapHolds
  <2>1. CASE a \in Uncopied(Keys)
    <3>1. Cardinality(Active(a)') = 1
      BY <1>5, <2>1, FS_Singleton
    <3> QED
      BY <3>1, CredentialsAssumption
  <2>2. CASE a \notin Uncopied(Keys)
    BY <1>6, <2>2 DEF KeyInvariant, CapHolds
  <2> QED
    BY <2>1, <2>2
<1> QED
  BY <1>7, <1>8, <1>9, <1>10, <1>11, <1>12, <1>13, <1>14, <1>15
  DEF KeyInvariant, NewKeysStand, OldNeedsShadow

\* A key handed out in a row of its own: how Register and Issue write it.
LEMMA InsertKeeps ==
    ASSUME KeyInvariant, NEW a \in Agents, NEW k \in Keys, HandOut(k, a),
           rows' = rows \cup {NewRow(IssuedId(k), a, k)},
           agents' = agents \cup {a},
           a \in agents => shadow' = shadow /\ RowsOf(a) # {},
           a \notin agents => shadow' = IF HasShadow THEN [shadow EXCEPT ![a] = k] ELSE shadow,
           Cardinality(Active(a)) < MaxActive,
           UNCHANGED <<running, acting, revoked>>
    PROVE  KeyInvariant'
<1> DEFINE n == NewRow(IssuedId(k), a, k)
<1>1. /\ n \in Row /\ n.id = IssuedId(k) /\ n.agent = a /\ n.hash = k /\ n.revoked = FALSE
  BY HashFacts DEF NewRow, Row, Ids
<1>2. rows' = rows \cup {n}
  OBVIOUS
<1> HIDE DEF n
<1>3. owner[k] = Nobody /\ owner' = [owner EXCEPT ![k] = a] /\ k \notin revoked
  BY DEF HandOut, KeyInvariant, NewKeysStand
<1>4. owner \in [Keys -> Agents \cup {Nobody}] /\ shadow \in [Agents -> Hashes \cup {NoHash}]
  BY DEF KeyInvariant, TypeOK
<1>5. \A j \in Keys : owner[j] # Nobody => j # k /\ owner'[j] = owner[j]
  BY <1>3, <1>4
<1>6. owner'[k] = a
  BY <1>3, <1>4
<1>7. TypeOK'
  BY <1>1, <1>2, <1>3, <1>4, HashFacts DEF KeyInvariant, TypeOK
<1>8. IsFiniteSet(rows)'
  BY <1>2, FS_AddElement DEF KeyInvariant
<1>9. \A b \in Agents : b # a => RowsOf(b)' = RowsOf(b) /\ Active(b)' = Active(b)
                                /\ shadow'[b] = shadow[b]
  BY <1>1, <1>2, <1>4 DEF RowsOf, Active
<1>10. RowsOf(a)' = RowsOf(a) \cup {n} /\ Active(a)' = Active(a) \cup {n}
  BY <1>1, <1>2 DEF RowsOf, Active
<1>11. \A r \in rows : r.agent \in Agents /\ RowExplained(r)
  BY DEF KeyInvariant, RowsExplained, RowExplained, TypeOK
<1>12. \A r \in rows : r.id # n.id /\ r.hash # n.hash
  <2> TAKE r \in rows
  <2>1. r.hash # k
    BY <1>3, <1>11, TombstoneFacts, CredentialsAssumption DEF RowExplained
  <2>2. r.id # IssuedId(k)
    BY <1>3, <1>11, CredentialsAssumption DEF RowExplained, IssuedId, LegacyId
  <2> QED
    BY <1>1, <2>1, <2>2
<1>13. RowsUnique'
  BY <1>2, <1>12 DEF KeyInvariant, RowsUnique
<1>14. RowsExplained'
  <2> SUFFICES ASSUME NEW r \in rows'
               PROVE  RowExplained(r)'
    BY DEF RowsExplained
  <2>1. CASE r = n
    BY <1>1, <1>3, <1>6, <2>1 DEF RowExplained
  <2>2. CASE r \in rows
    <3>1. r.agent \in agents /\ r.agent \in Agents
      BY <1>11, <2>2 DEF RowExplained
    <3>2. shadow'[r.agent] = shadow[r.agent]
      BY <1>9, <3>1
    <3>3. \/ r.id = LegacyId(r.agent)
          \/ \E j \in Keys : r.id = IssuedId(j) /\ owner'[j] = r.agent
      BY <1>5, <1>11, <2>2, <3>1, CredentialsAssumption DEF RowExplained
    <3>4. \/ r.hash \in Keys /\ owner'[r.hash] = r.agent /\ (r.revoked <=> r.hash \in revoked)
          \/ r.hash = Tombstone(r.agent) /\ r.revoked /\ shadow'[r.agent] = r.hash
      BY <1>5, <1>11, <2>2, <3>1, <3>2, CredentialsAssumption DEF RowExplained
    <3> QED
      BY <3>1, <3>3, <3>4 DEF RowExplained
  <2> QED
    BY <1>2, <2>1, <2>2
<1>15. ShadowsExplained'
  <2> SUFFICES ASSUME NEW b \in Agents
               PROVE  ShadowExplained(b)'
    BY DEF ShadowsExplained
  <2>0. ShadowExplained(b)
    BY DEF KeyInvariant, ShadowsExplained
  <2>1. CASE b # a \/ a \in agents
    <3>1. shadow'[b] = shadow[b] /\ (b \in agents' <=> b \in agents)
      BY <1>9, <2>1
    <3> QED
      BY <1>5, <2>0, <3>1, CredentialsAssumption DEF ShadowExplained
  <2>2. CASE b = a /\ a \notin agents /\ HasShadow
    <3>1. shadow'[a] = k
      BY <1>4, <2>2
    <3> QED
      BY <1>3, <1>6, <2>2, <3>1 DEF ShadowExplained
  <2>3. CASE b = a /\ a \notin agents /\ ~HasShadow
    BY <2>0, <2>3 DEF ShadowExplained
  <2> QED
    BY <2>1, <2>2, <2>3
<1>16. ShadowHasRow'
  <2> SUFFICES ASSUME NEW b \in agents', HasShadow, RowsOf(b)' # {}
               PROVE  \E r \in RowsOf(b)' : r.hash = shadow'[b]
    BY DEF ShadowHasRow
  <2>1. CASE b # a
    BY <1>9, <2>1 DEF KeyInvariant, ShadowHasRow, TypeOK
  <2>2. CASE b = a /\ a \in agents
    BY <1>10, <2>2 DEF KeyInvariant, ShadowHasRow
  <2>3. CASE b = a /\ a \notin agents
    <3>1. shadow'[a] = k
      BY <1>4, <2>3
    <3> QED
      BY <1>1, <1>10, <2>3, <3>1
  <2> QED
    BY <2>1, <2>2, <2>3
<1>17. AgentHasKey'
  <2> SUFFICES ASSUME NEW b \in agents'
               PROVE  \/ Active(b)' # {}
                      \/ HasShadow /\ shadow'[b] \in Keys /\ RowsOf(b)' = {}
    BY DEF AgentHasKey
  <2>1. CASE b = a
    BY <1>10, <2>1
  <2>2. CASE b # a
    BY <1>9, <2>2 DEF KeyInvariant, AgentHasKey, TypeOK
  <2> QED
    BY <2>1, <2>2
<1>18. ActingHasRow'
  <2> SUFFICES ASSUME NEW b \in acting
               PROVE  RowsOf(b)' # {}
    BY DEF ActingHasRow
  <2>1. b \in Agents /\ RowsOf(b) # {}
    BY DEF KeyInvariant, ActingHasRow, TypeOK
  <2> QED
    BY <1>9, <1>10, <2>1
<1>19. NewKeysStand'
  BY <1>3, <1>5, <1>7 DEF KeyInvariant, NewKeysStand, TypeOK
<1>20. CapHolds'
  <2> SUFFICES ASSUME NEW b \in Agents
               PROVE  Cardinality(Active(b)') <= MaxActive
    BY DEF CapHolds
  <2>1. CASE b # a
    BY <1>9, <2>1 DEF KeyInvariant, CapHolds
  <2>2. CASE b = a
    <3>1. IsFiniteSet(Active(a))
      BY FS_Subset DEF KeyInvariant, Active, RowsOf
    <3>2. Cardinality(Active(a)) \in Nat
      BY <3>1, FS_CardinalityType
    <3> DEFINE A == Active(a)
    <3>a. Cardinality(A \cup {n}) = IF n \in A THEN Cardinality(A) ELSE Cardinality(A) + 1
      <4>1. IsFiniteSet(A)
        BY <3>1
      <4> HIDE DEF A
      <4> QED
        BY <4>1, FS_AddElement
    <3>3. Cardinality(Active(a)') <= Cardinality(Active(a)) + 1
      BY <1>10, <3>2, <3>a
    <3>4. Cardinality(Active(a)') \in Nat
      BY <1>10, <3>1, FS_AddElement, FS_CardinalityType
    <3> QED
      BY <2>2, <3>2, <3>3, <3>4, CredentialsAssumption
  <2> QED
    BY <2>1, <2>2
<1> QED
  BY <1>7, <1>8, <1>13, <1>14, <1>15, <1>16, <1>17, <1>18, <1>19, <1>20
  DEF KeyInvariant, OldNeedsShadow

\* Registration: the agent is new, so it has no row.
LEMMA RegisterKeeps ==
    ASSUME KeyInvariant, NEW a \in Agents, NEW k \in Keys, Register(a, k)
    PROVE  KeyInvariant'
<1>1. RowsOf(a) = {} /\ Active(a) = {}
  BY DEF Register, KeyInvariant, RowsExplained, RowExplained, RowsOf, Active
<1>2. Cardinality(Active(a)) < MaxActive
  BY <1>1, FS_EmptySet, CredentialsAssumption
<1> QED
  BY <1>2, InsertKeeps DEF Register

\* Another key for an agent that a request acts for.
LEMMA IssueKeeps ==
    ASSUME KeyInvariant, NEW a \in Agents, NEW k \in Keys, Issue(a, k)
    PROVE  KeyInvariant'
<1>1. RowsOf(a) # {}
  BY DEF Issue, KeyInvariant, ActingHasRow
<1>2. a \in agents
  BY <1>1 DEF RowsOf, KeyInvariant, RowsExplained, RowExplained
<1>3. Cardinality(Active(a)) < MaxActive /\ agents' = agents \cup {a}
  BY <1>2 DEF Issue, UnderCap
<1> QED
  BY <1>1, <1>2, <1>3, InsertKeeps DEF Issue

\* A registration by the oldest binary leaves a shadow to be copied.
LEMMA RegisterPre0002Keeps ==
    ASSUME KeyInvariant, NEW a \in Agents, NEW k \in Keys, RegisterPre0002(a, k)
    PROVE  KeyInvariant'
<1> USE DEF RegisterPre0002, HandOut
<1>0. HasShadow
  BY DEF KeyInvariant, OldNeedsShadow
<1>1. RowsOf(a) = {}
  BY DEF KeyInvariant, RowsExplained, RowExplained, RowsOf
<1>2. owner \in [Keys -> Agents \cup {Nobody}] /\ shadow \in [Agents -> Hashes \cup {NoHash}]
  BY DEF KeyInvariant, TypeOK
<1>3. k \notin revoked /\ owner'[k] = a /\ shadow'[a] = k
  BY <1>2 DEF KeyInvariant, NewKeysStand
<1>4. \A j \in Keys : owner[j] # Nobody => j # k /\ owner'[j] = owner[j]
  BY <1>2
<1>5. \A b \in Agents : b # a => shadow'[b] = shadow[b]
  BY <1>2
<1>6. \A b : RowsOf(b)' = RowsOf(b) /\ Active(b)' = Active(b)
  BY DEF RowsOf, Active
<1>7. TypeOK'
  BY <1>2, HashFacts DEF KeyInvariant, TypeOK
<1>8. RowsUnique' /\ IsFiniteSet(rows)'
  BY DEF KeyInvariant, RowsUnique
<1>9. RowsExplained'
  <2> SUFFICES ASSUME NEW r \in rows
               PROVE  RowExplained(r)'
    BY DEF RowsExplained
  <2>1. r.agent \in agents /\ r.agent \in Agents /\ RowExplained(r)
    BY DEF KeyInvariant, RowsExplained, RowExplained, TypeOK
  <2>2. shadow'[r.agent] = shadow[r.agent]
    BY <1>5, <2>1
  <2>3. \/ r.id = LegacyId(r.agent)
        \/ \E j \in Keys : r.id = IssuedId(j) /\ owner'[j] = r.agent
    BY <1>4, <2>1, CredentialsAssumption DEF RowExplained
  <2>4. \/ r.hash \in Keys /\ owner'[r.hash] = r.agent /\ (r.revoked <=> r.hash \in revoked)
        \/ r.hash = Tombstone(r.agent) /\ r.revoked /\ shadow'[r.agent] = r.hash
    BY <1>4, <2>1, <2>2, CredentialsAssumption DEF RowExplained
  <2> QED
    BY <2>1, <2>3, <2>4 DEF RowExplained
<1>10. ShadowsExplained'
  <2> SUFFICES ASSUME NEW b \in Agents
               PROVE  ShadowExplained(b)'
    BY DEF ShadowsExplained
  <2>1. CASE b = a
    BY <1>0, <1>3, <2>1 DEF ShadowExplained
  <2>2. CASE b # a
    <3>1. ShadowExplained(b) /\ shadow'[b] = shadow[b] /\ (b \in agents' <=> b \in agents)
      BY <1>5, <2>2 DEF KeyInvariant, ShadowsExplained
    <3> QED
      BY <1>4, <3>1, CredentialsAssumption DEF ShadowExplained
  <2> QED
    BY <2>1, <2>2
<1>11. ShadowHasRow'
  BY <1>1, <1>5, <1>6 DEF KeyInvariant, ShadowHasRow, TypeOK
<1>12. AgentHasKey'
  BY <1>0, <1>1, <1>3, <1>5, <1>6 DEF KeyInvariant, AgentHasKey, TypeOK
<1>13. ActingHasRow' /\ CapHolds'
  BY <1>6 DEF KeyInvariant, ActingHasRow, CapHolds
<1>14. NewKeysStand'
  BY <1>3, <1>4, <1>7 DEF KeyInvariant, NewKeysStand, TypeOK
<1> QED
  BY <1>7, <1>8, <1>9, <1>10, <1>11, <1>12, <1>13, <1>14
  DEF KeyInvariant, OldNeedsShadow

\* A revocation, in both tables at once.
LEMMA RevokeKeeps ==
    ASSUME KeyInvariant, NEW a \in Agents, NEW r \in rows, Revoke(a, r)
    PROVE  KeyInvariant'
<1> DEFINE m == RevokedRow(a, r)
<1>1. r \in Active(a) /\ r.agent = a /\ ~r.revoked /\ Cardinality(Active(a)) > 1
  BY DEF Revoke, MayRevoke, Active, RowsOf
<1>2. RowExplained(r) /\ r \in Row /\ a \in agents
  BY <1>1 DEF KeyInvariant, RowsExplained, RowExplained, TypeOK
<1>3. r.hash \in Keys /\ owner[r.hash] = a /\ r.hash \notin revoked
  BY <1>1, <1>2 DEF RowExplained
<1>4. /\ m \in Row /\ m.id = r.id /\ m.agent = a /\ m.revoked = TRUE
      /\ m.hash = IF Mirrored(a, r) THEN Tombstone(a) ELSE r.hash
  BY <1>1, <1>2, TombstoneFacts DEF RevokedRow, Row
<1>5. rows' = (rows \ {r}) \cup {m}
  BY DEF Revoke
<1> HIDE DEF m
<1>6. m \notin Active(a) /\ m # r
  BY <1>1, <1>4 DEF Active
<1>7. shadow \in [Agents -> Hashes \cup {NoHash}] /\ owner \in [Keys -> Agents \cup {Nobody}]
  BY DEF KeyInvariant, TypeOK
<1>8. /\ shadow'[a] = IF Mirrored(a, r) THEN Tombstone(a) ELSE shadow[a]
      /\ \A b \in Agents : b # a => shadow'[b] = shadow[b]
  BY <1>7 DEF Revoke, RevokedShadow
<1>9. revoked' = revoked \cup {r.hash} /\ UNCHANGED <<agents, running, acting, owner>>
  BY DEF Revoke
<1>10. TypeOK'
  <2>1. shadow' \in [Agents -> Hashes \cup {NoHash}]
    BY <1>7, TombstoneFacts DEF Revoke, RevokedShadow
  <2> QED
    BY <1>3, <1>4, <1>5, <1>9, <2>1 DEF KeyInvariant, TypeOK
<1>11. IsFiniteSet(rows)'
  BY <1>5, FS_RemoveElement, FS_AddElement DEF KeyInvariant
<1>12. \A u \in rows \ {r} : u.agent \in Agents /\ RowExplained(u) /\ u.hash # r.hash /\ u.id # r.id
  BY DEF KeyInvariant, RowsUnique, RowsExplained, RowExplained, TypeOK
<1>13. \A u \in rows \ {r} : u.hash # m.hash
  <2> SUFFICES ASSUME NEW u \in rows \ {r}, u.hash = m.hash
               PROVE  FALSE
    OBVIOUS
  <2>1. Mirrored(a, r) /\ u.hash = Tombstone(a)
    BY <1>4, <1>12
  <2>2. u.hash \notin Keys
    BY <2>1, TombstoneFacts
  <2>3. u.hash = Tombstone(u.agent) /\ shadow[u.agent] = u.hash
    BY <1>12, <2>2 DEF RowExplained
  <2>4. u.agent = a
    BY <1>12, <2>1, <2>3, TombstoneFacts
  <2> QED
    BY <1>3, <2>1, <2>2, <2>3, <2>4 DEF Mirrored
<1>14. RowsUnique'
  BY <1>4, <1>5, <1>12, <1>13 DEF KeyInvariant, RowsUnique
<1>15. RowsExplained'
  <2> SUFFICES ASSUME NEW u \in rows'
               PROVE  RowExplained(u)'
    BY DEF RowsExplained
  <2>1. CASE u = m
    <3>1. m.id = LegacyId(a) \/ \E k \in Keys : m.id = IssuedId(k) /\ owner[k] = a
      BY <1>1, <1>2, <1>4 DEF RowExplained
    <3> QED
      BY <1>2, <1>3, <1>4, <1>8, <1>9, <2>1, <3>1 DEF RowExplained
  <2>2. CASE u \in rows \ {r}
    <3>1. RowExplained(u) /\ u.agent \in Agents /\ u.hash # r.hash
      BY <1>12, <2>2
    <3>2. u.hash = Tombstone(u.agent) /\ shadow[u.agent] = u.hash => shadow'[u.agent] = u.hash
      BY <1>3, <1>8, <3>1, TombstoneFacts DEF Mirrored
    <3> QED
      BY <1>9, <3>1, <3>2 DEF RowExplained
  <2> QED
    BY <1>5, <2>1, <2>2
<1>16. ShadowsExplained'
  <2> SUFFICES ASSUME NEW b \in Agents
               PROVE  ShadowExplained(b)'
    BY DEF ShadowsExplained
  <2>1. ShadowExplained(b)
    BY DEF KeyInvariant, ShadowsExplained
  <2>2. CASE b # a
    BY <1>3, <1>8, <1>9, <2>1, <2>2 DEF ShadowExplained
  <2>3. CASE b = a /\ Mirrored(a, r)
    BY <1>2, <1>8, <1>9, <2>3 DEF ShadowExplained, Mirrored
  <2>4. CASE b = a /\ ~Mirrored(a, r)
    BY <1>8, <1>9, <2>1, <2>4 DEF ShadowExplained, Mirrored
  <2> QED
    BY <2>2, <2>3, <2>4
<1>17. \A b \in Agents : b # a => RowsOf(b)' = RowsOf(b) /\ Active(b)' = Active(b)
  BY <1>1, <1>4, <1>5 DEF RowsOf, Active
<1>18. RowsOf(a)' = (RowsOf(a) \ {r}) \cup {m} /\ Active(a)' = Active(a) \ {r}
  BY <1>1, <1>4, <1>5 DEF RowsOf, Active
<1>19. ShadowHasRow'
  <2> SUFFICES ASSUME NEW b \in agents, HasShadow, RowsOf(b)' # {}
               PROVE  \E u \in RowsOf(b)' : u.hash = shadow'[b]
    BY <1>9 DEF ShadowHasRow
  <2>1. CASE b # a
    BY <1>8, <1>17, <2>1 DEF KeyInvariant, ShadowHasRow, TypeOK
  <2>2. CASE b = a /\ Mirrored(a, r)
    BY <1>4, <1>8, <1>18, <2>2
  <2>3. CASE b = a /\ ~Mirrored(a, r)
    <3>1. r \in RowsOf(a)
      BY <1>1 DEF Active
    <3>2. PICK u \in RowsOf(a) : u.hash = shadow[a]
      BY <1>2, <3>1 DEF KeyInvariant, ShadowHasRow
    <3>3. u # r
      BY <2>3, <3>2 DEF Mirrored
    <3> QED
      BY <1>8, <1>18, <2>3, <3>2, <3>3
  <2> QED
    BY <2>1, <2>2, <2>3
<1>20. Active(a) # {r}
  BY <1>1, FS_Singleton
<1>21. AgentHasKey'
  <2> SUFFICES ASSUME NEW b \in agents
               PROVE  \/ Active(b)' # {}
                      \/ HasShadow /\ shadow'[b] \in Keys /\ RowsOf(b)' = {}
    BY <1>9 DEF AgentHasKey
  <2>1. CASE b = a
    BY <1>1, <1>18, <1>20, <2>1
  <2>2. CASE b # a
    BY <1>8, <1>17, <2>2 DEF KeyInvariant, AgentHasKey, TypeOK
  <2> QED
    BY <2>1, <2>2
<1>22. ActingHasRow'
  BY <1>9, <1>17, <1>18 DEF KeyInvariant, ActingHasRow, TypeOK
<1>23. NewKeysStand'
  BY <1>3, <1>9, CredentialsAssumption DEF KeyInvariant, NewKeysStand
<1>24. CapHolds'
  <2> SUFFICES ASSUME NEW b \in Agents
               PROVE  Cardinality(Active(b)') <= MaxActive
    BY DEF CapHolds
  <2>1. CASE b # a
    BY <1>17, <2>1 DEF KeyInvariant, CapHolds
  <2>2. CASE b = a
    <3> DEFINE A == Active(a)
    <3>1. IsFiniteSet(A) /\ Cardinality(A) <= MaxActive
      BY FS_Subset DEF KeyInvariant, CapHolds, Active, RowsOf
    <3> HIDE DEF A
    <3>2. Cardinality(A) \in Nat /\ Cardinality(A \ {r}) \in Nat
      BY <3>1, FS_CardinalityType, FS_RemoveElement
    <3>3. Cardinality(A \ {r}) = IF r \in A THEN Cardinality(A) - 1 ELSE Cardinality(A)
      BY <3>1, FS_RemoveElement
    <3>4. Active(a)' = A \ {r}
      BY <1>18 DEF A
    <3> QED
      BY <2>2, <3>1, <3>2, <3>3, <3>4, CredentialsAssumption
  <2> QED
    BY <2>1, <2>2
<1> QED
  BY <1>9, <1>10, <1>11, <1>14, <1>15, <1>16, <1>19, <1>21, <1>22, <1>23, <1>24
  DEF KeyInvariant, OldNeedsShadow

\* Every step keeps the invariant.
LEMMA NextKeys == KeyInvariant /\ [Next]_vars => KeyInvariant'
<1> SUFFICES ASSUME KeyInvariant, [Next]_vars
             PROVE  KeyInvariant'
  OBVIOUS
<1>1. CASE UNCHANGED vars
  BY <1>1, TablesUntouched DEF vars, tables, KeyInvariant, TypeOK, OldNeedsShadow, ActingHasRow
<1>2. CASE Open
  <2>1. CASE HasShadow
    BY <1>2, <2>1, CopyKeeps DEF Open, Binaries, KeyInvariant, TypeOK
  <2>2. CASE ~HasShadow
    BY <1>2, <2>2, TablesUntouched DEF Open, tables, Binaries, KeyInvariant, TypeOK, ActingHasRow
  <2> QED
    BY <2>1, <2>2
<1>3. CASE OpenAdr0002
  BY <1>3, SameCopy, CopyKeeps DEF OpenAdr0002, Binaries
<1>4. CASE OpenPre0002
  BY <1>4, TablesUntouched DEF OpenPre0002, tables, Binaries, KeyInvariant, TypeOK, ActingHasRow
<1>5. CASE Stop
  BY <1>5, TablesUntouched DEF Stop, KeyInvariant
<1>6. ASSUME NEW a \in Agents, NEW k \in Keys,
             Register(a, k) \/ RegisterPre0002(a, k) \/ Authenticate(k, a) \/ Issue(a, k)
      PROVE  KeyInvariant'
  BY <1>6, RegisterKeeps, RegisterPre0002Keeps, AuthenticateKeeps, IssueKeeps
<1>7. ASSUME NEW a \in Agents, EndRequests(a)
      PROVE  KeyInvariant'
  BY <1>7, TablesUntouched DEF EndRequests, KeyInvariant, TypeOK, OldNeedsShadow, ActingHasRow
<1>8. ASSUME NEW a \in Agents, NEW r \in rows, Revoke(a, r)
      PROVE  KeyInvariant'
  BY <1>8, RevokeKeeps
<1> QED
  BY <1>1, <1>2, <1>3, <1>4, <1>5, <1>6, <1>7, <1>8 DEF Next

\* The tables of agents and keys always satisfy their invariant.
LEMMA KeyInvariantHolds == Spec => []KeyInvariant
<1> QED
  BY InitKeys, NextKeys, PTL DEF Spec

-------------------------------------------------------------------------------
(* The theorems *)

\* Whatever is stored has its type, and the agents that have been let in are agents,
\* under every binary that may have written the tables.
THEOREM TypesHold == Spec => []TypeOK
<1>1. KeyInvariant => TypeOK
  BY DEF KeyInvariant
<1>2. QED
  BY <1>1, KeyInvariantHolds, PTL

\* RevokeCredential never takes the last key of an agent, and no restart loses it:
\* whatever order revocations come in and whichever binary ran in between.
THEOREM LastKeyStaysHolds == Spec => []LastKeyStays
<1>1. KeyInvariant => LastKeyStays
  <2> SUFFICES ASSUME KeyInvariant, NEW a \in agents
               PROVE  \E k \in Keys \ revoked :
                         /\ owner[k] = a
                         /\ \/ Accepts("current", k, a)
                            \/ HasShadow /\ a \in Uncopied(Keys) /\ shadow[a] = k
    BY DEF LastKeyStays
  <2>1. CASE Active(a) # {}
    <3>1. PICK r \in Active(a) : TRUE
      BY <2>1
    <3>2. RowExplained(r) /\ ~r.revoked /\ r.agent = a
      BY <3>1 DEF Active, RowsOf, KeyInvariant, RowsExplained
    <3>3. r.hash \in Keys \ revoked /\ owner[r.hash] = a
      BY <3>2 DEF RowExplained
    <3>4. Accepts("current", r.hash, a)
      BY <3>1 DEF Accepts
    <3> QED
      BY <3>3, <3>4
  <2>2. CASE Active(a) = {}
    <3>1. HasShadow /\ shadow[a] \in Keys /\ RowsOf(a) = {}
      BY <2>2 DEF KeyInvariant, AgentHasKey
    <3>2. a \in Uncopied(Keys)
      BY <3>1, UncopiedHasNoRow
    <3>3. owner[shadow[a]] = a /\ shadow[a] \notin revoked
      BY <3>1, TombstoneFacts, CredentialsAssumption
      DEF KeyInvariant, TypeOK, ShadowsExplained, ShadowExplained
    <3> QED
      BY <3>1, <3>2, <3>3
  <2> QED
    BY <2>1, <2>2
<1> QED
  BY <1>1, KeyInvariantHolds, PTL

\* A revoked key is dead for good, also for the binaries of a rollback, which know
\* nothing of revocation or copy the shadow back.
THEOREM RevokedStaysRevokedHolds == Spec => []RevokedStaysRevoked
<1>1. KeyInvariant => RevokedStaysRevoked
  <2> SUFFICES ASSUME KeyInvariant, NEW k \in revoked, NEW a \in agents, NEW b \in Binaries,
                      Accepts(b, k, a)
               PROVE  FALSE
    BY DEF RevokedStaysRevoked
  <2>0. k \in Keys /\ a \in Agents
    BY DEF KeyInvariant, TypeOK
  <2>1. CASE b = "pre0002"
    <3>1. shadow[a] = k
      BY <2>1 DEF Accepts
    <3> QED
      BY <2>0, <3>1, TombstoneFacts, CredentialsAssumption
      DEF KeyInvariant, ShadowsExplained, ShadowExplained
  <2>2. CASE b # "pre0002"
    <3>1. PICK r \in Active(a) : r.hash = k
      BY <2>2 DEF Accepts
    <3>2. RowExplained(r) /\ ~r.revoked
      BY <3>1 DEF Active, RowsOf, KeyInvariant, RowsExplained
    <3> QED
      BY <3>1, <3>2 DEF RowExplained
  <2> QED
    BY <2>1, <2>2
<1> QED
  BY <1>1, KeyInvariantHolds, PTL

\* A key lets in the agent it was given to and nobody else, and no row that nobody
\* asked for is ever active.
THEOREM KeysBelongToTheirAgentHolds == Spec => []KeysBelongToTheirAgent
<1>1. KeyInvariant => KeysBelongToTheirAgent
  <2> SUFFICES ASSUME KeyInvariant
               PROVE  KeysBelongToTheirAgent
    OBVIOUS
  <2>1. ASSUME NEW k \in Keys, NEW a \in agents, NEW b \in Binaries, Accepts(b, k, a)
        PROVE  owner[k] = a
    <3>0. a \in Agents
      BY DEF KeyInvariant, TypeOK
    <3>1. CASE b = "pre0002"
      <4>1. shadow[a] = k
        BY <2>1, <3>1 DEF Accepts
      <4> QED
        BY <3>0, <4>1, TombstoneFacts, CredentialsAssumption
        DEF KeyInvariant, ShadowsExplained, ShadowExplained
    <3>2. CASE b # "pre0002"
      <4>1. PICK r \in Active(a) : r.hash = k
        BY <2>1, <3>2 DEF Accepts
      <4>2. RowExplained(r) /\ ~r.revoked /\ r.agent = a
        BY <4>1 DEF Active, RowsOf, KeyInvariant, RowsExplained
      <4> QED
        BY <4>1, <4>2 DEF RowExplained
    <3> QED
      BY <3>1, <3>2
  <2>2. \A r \in rows : ~r.revoked => r.hash \in Keys
    BY DEF KeyInvariant, RowsExplained, RowExplained
  <2> QED
    BY <2>1, <2>2 DEF KeysBelongToTheirAgent
<1> QED
  BY <1>1, KeyInvariantHolds, PTL

\* No interleaving of requests gets an agent past the cap.
THEOREM CapHoldsAlways == Spec => []CapHolds
<1>1. KeyInvariant => CapHolds
  BY DEF KeyInvariant
<1> QED
  BY <1>1, KeyInvariantHolds, PTL

\* The listing is long enough for every active key: the relation of two constants
\* that store.go has the compiler check.
THEOREM ActiveIsListedHolds == Spec => []ActiveIsListed
<1>1. KeyInvariant => ActiveIsListed
  <2> SUFFICES ASSUME KeyInvariant, NEW a \in Agents, NEW L \in Listings(a),
                      NEW r \in Active(a), r \notin L
               PROVE  FALSE
    BY DEF ActiveIsListed
  <2> DEFINE A == Active(a)
             R == RowsOf(a)
  <2>1. L \subseteq R /\ A \subseteq R /\ r \in R
    BY DEF Listings, Active
  <2>2. L \subseteq A \ {r}
    BY <2>1 DEF Listings, Active
  <2>3. Cardinality(L) = IF Cardinality(R) < MaxListed THEN Cardinality(R) ELSE MaxListed
    BY DEF Listings
  <2>4. Cardinality(A) <= MaxActive
    BY DEF KeyInvariant, CapHolds
  <2>5. IsFiniteSet(R)
    BY FS_Subset DEF KeyInvariant, RowsOf
  <2>6. r \in A
    OBVIOUS
  <2> HIDE DEF A, R
  <2>7. IsFiniteSet(A) /\ Cardinality(A) <= Cardinality(R)
    BY <2>1, <2>5, FS_Subset
  <2>8. IsFiniteSet(A \ {r}) /\ Cardinality(A \ {r}) = Cardinality(A) - 1
    BY <2>6, <2>7, FS_RemoveElement
  <2>9. IsFiniteSet(L) /\ Cardinality(L) <= Cardinality(A \ {r})
    BY <2>2, <2>8, FS_Subset
  <2>10. Cardinality(L) \in Nat /\ Cardinality(A) \in Nat /\ Cardinality(R) \in Nat
    BY <2>5, <2>7, <2>9, FS_CardinalityType
  <2> QED
    BY <2>3, <2>4, <2>7, <2>8, <2>9, <2>10, CredentialsAssumption
<1> QED
  BY <1>1, KeyInvariantHolds, PTL

\* The migration of the current binary and of the previous one finds nothing it
\* would stop at.
THEOREM StartIsNeverRefusedHolds == Spec => []StartIsNeverRefused
<1>1. KeyInvariant => StartIsNeverRefused
  <2> SUFFICES ASSUME KeyInvariant, HasShadow
               PROVE  /\ CopyFits(Keys) /\ CopyFits(Hashes)
                      /\ Consistent(Copied(Keys), Keys)
                      /\ Consistent(Copied(Hashes), Hashes)
    BY DEF StartIsNeverRefused, ShadowsOf
  <2>1. ASSUME NEW a \in Uncopied(Keys), NEW r \in rows
        PROVE  r.id # LegacyId(a)
    <3>1. a \in agents /\ RowsOf(a) = {}
      BY UncopiedHasNoRow DEF Uncopied
    <3>2. RowExplained(r) /\ r.agent # a
      BY <3>1 DEF RowsOf, KeyInvariant, RowsExplained
    <3> QED
      BY <3>2 DEF RowExplained, LegacyId, IssuedId
  <2>2. CopyFits(Keys) /\ CopyFits(Hashes)
    BY <2>1, SameCopy DEF CopyFits
  <2>3. Consistent(Copied(Hashes), Hashes)
    <3> SUFFICES ASSUME NEW a \in agents, shadow[a] \in Hashes
                 PROVE  \E r \in Copied(Hashes) : r.hash = shadow[a] /\ r.agent = a
      BY DEF Consistent
    <3>1. CASE a \in Uncopied(Hashes)
      <4>1. NewRow(LegacyId(a), a, shadow[a]) \in Copied(Hashes)
        BY <3>1 DEF Copied
      <4> QED
        BY <4>1 DEF NewRow
    <3>2. CASE a \notin Uncopied(Hashes)
      <4>1. RowsOf(a) # {}
        <5>1. ASSUME RowsOf(a) = {}
              PROVE  shadow[a] \in Keys
          BY <5>1 DEF KeyInvariant, AgentHasKey, Active
        <5> QED
          BY <3>2, <5>1, UncopiedHasNoRow
      <4>2. \E r \in RowsOf(a) : r.hash = shadow[a]
        BY <4>1 DEF KeyInvariant, ShadowHasRow
      <4> QED
        BY <4>2 DEF RowsOf, Copied
    <3> QED
      BY <3>1, <3>2
  <2>4. Consistent(Copied(Keys), Keys)
    BY <2>3, SameCopy, HashFacts DEF Consistent
  <2> QED
    BY <2>2, <2>3, <2>4
<1> QED
  BY <1>1, KeyInvariantHolds, PTL
===============================================================================
