--------------------------- MODULE StateFileProofs ---------------------------
(***************************************************************************)
(* What holds of the state file and the group hierarchy for any number of  *)
(* groups, tenants, records, crashes and settings.                         *)
(***************************************************************************)
EXTENDS StateFile, FiniteSetTheorems, WellFoundedInduction, TLAPS

IsTable(f) == f = [x \in DOMAIN f |-> f[x]]

Tables(db) ==
  /\ db = [generation |-> db.generation, groups |-> db.groups, tenants |-> db.tenants,
           tenant_quotas |-> db.tenant_quotas, group_quotas |-> db.group_quotas,
           reservations |-> db.reservations, borrows |-> db.borrows]
  /\ IsTable(db.groups) /\ IsTable(db.tenants)
  /\ IsTable(db.tenant_quotas) /\ IsTable(db.group_quotas)
  /\ IsTable(db.reservations) /\ IsTable(db.borrows)

\* Identifiers are below n, and a group is younger than its parent.
Ordered(db, n) ==
  /\ DOMAIN db.groups \subseteq 1..(n - 1)
  /\ \A g \in DOMAIN db.groups :
       db.groups[g] # None => db.groups[g] \in Nat /\ db.groups[g] < g

Sound(db, n) == Tables(db) /\ Ordered(db, n) /\ Closed(db)

Whole(f) == f \notin {None, Torn, Damaged}

IInv ==
  /\ nextId \in Nat \ {0}
  /\ Sound(memory, nextId)
  /\ Whole(file) => Sound(file, nextId) /\ file = replaced
  /\ pc = "written" => tmp = memory

-----------------------------------------------------------------------------
\* A set of identifiers that is not empty has a smallest one.
LEMMA SmallestOf ==
  ASSUME NEW S, S \subseteq Nat, S # {}
  PROVE  \E m \in S : \A n \in S : m <= n
<1>1. PICK m \in S : \A n \in S : ~(<<n, m>> \in OpToRel(<, Nat))
  BY NatLessThanWellFounded, WFMin, Zenon
<1>2. ASSUME NEW n \in S, n < m PROVE FALSE
  <2>1. <<n, m>> \in OpToRel(<, Nat)
    BY <1>2 DEF OpToRel
  <2> QED
    BY <1>1, <2>1, Zenon
<1> QED
  BY <1>2

\* No set of groups is closed under "parent" where parents are older.
LEMMA OrderedAcyclic ==
  ASSUME NEW db, NEW n \in Nat, Ordered(db, n)
  PROVE  Acyclic(db)
<1> SUFFICES ASSUME NEW S, S \subseteq DOMAIN db.groups, S # {}
             PROVE  \E g \in S : db.groups[g] \notin S
  BY DEF Acyclic
<1>1. S \subseteq Nat
  BY DEF Ordered
<1>2. PICK m \in S : \A k \in S : m <= k
  BY <1>1, SmallestOf
<1>3. db.groups[m] # None => db.groups[m] \in Nat /\ db.groups[m] < m
  BY DEF Ordered
<1>4. None \notin S
  BY <1>1, MarkerAssumption
<1> QED
  BY <1>1, <1>2, <1>3, <1>4

-----------------------------------------------------------------------------
(***************************************************************************)
(* What the calls do to sound tables.                                      *)
(***************************************************************************)
LEMMA PutTable == \A f, x, y : IsTable(Put(f, x, y))
BY DEF IsTable, Put

\* Reading a table over another gives a table.
LEMMA OverlayTable == \A f, R, g : IsTable(Overlay(f, R, g))
BY DEF IsTable, Overlay

\* The tables of a new engine are sound.
LEMMA SoundNew == Sound(NewEngine, 1)
BY Zenon DEF Sound, Tables, IsTable, Ordered, Closed, NewEngine, NoTable

\* Drawing further identifiers keeps tables sound.
LEMMA SoundLater ==
  ASSUME NEW db, NEW n \in Nat, NEW m \in Nat, n <= m, Sound(db, n)
  PROVE  Sound(db, m)
BY DEF Sound, Ordered

\* So does create_group, and create_group_autoid under a parent that need not exist.
LEMMA SoundGroup ==
  ASSUME NEW db, NEW n \in Nat, n > 0, Sound(db, n), NEW parent \in (1..(n - 1)) \cup {None}
  PROVE  Sound([db EXCEPT !.groups = Put(@, n, parent)], n + 1)
<1> DEFINE new == [db EXCEPT !.groups = Put(@, n, parent)]
<1>1. /\ new.groups = Put(db.groups, n, parent) /\ new.tenants = db.tenants
      /\ new.tenant_quotas = db.tenant_quotas /\ new.group_quotas = db.group_quotas
  BY DEF Sound, Tables
<1>2. Tables(new)
  BY PutTable DEF Sound, Tables
<1> HIDE DEF new
<1>3. /\ DOMAIN new.groups = DOMAIN db.groups \cup {n}
      /\ \A g \in DOMAIN new.groups : new.groups[g] = IF g = n THEN parent ELSE db.groups[g]
  BY <1>1 DEF Put
<1>4. Ordered(new, n + 1)
  BY <1>3 DEF Ordered, Sound
<1>5. Closed(new)
  BY <1>1, <1>3 DEF Closed, Sound
<1> QED
  BY <1>2, <1>4, <1>5 DEF Sound, new

\* So does create_tenant.
LEMMA SoundTenant ==
  ASSUME NEW db, NEW n \in Nat, Sound(db, n), NEW t, NEW group,
         group # None => group \in DOMAIN db.groups
  PROVE  Sound([db EXCEPT !.tenants = Put(@, t, group)], n)
<1> DEFINE new == [db EXCEPT !.tenants = Put(@, t, group)]
<1>1. /\ new.groups = db.groups /\ new.tenants = Put(db.tenants, t, group)
      /\ new.tenant_quotas = db.tenant_quotas /\ new.group_quotas = db.group_quotas
  BY DEF Sound, Tables
<1>2. Tables(new)
  BY PutTable DEF Sound, Tables
<1> HIDE DEF new
<1>3. /\ DOMAIN new.tenants = DOMAIN db.tenants \cup {t}
      /\ \A u \in DOMAIN new.tenants : new.tenants[u] = IF u = t THEN group ELSE db.tenants[u]
  BY <1>1 DEF Put
<1>4. Ordered(new, n)
  BY <1>1 DEF Ordered, Sound
<1>5. Closed(new)
  BY <1>1, <1>3 DEF Closed, Sound
<1> QED
  BY <1>2, <1>4, <1>5 DEF Sound, new

\* So does set_tenant_quota.
LEMMA SoundTenantQuota ==
  ASSUME NEW db, NEW n \in Nat, Sound(db, n), NEW t \in DOMAIN db.tenants, NEW q, NEW gen
  PROVE  Sound([db EXCEPT !.tenant_quotas = Put(@, t, q), !.generation = gen], n)
<1> DEFINE new == [db EXCEPT !.tenant_quotas = Put(@, t, q), !.generation = gen]
<1>1. /\ new.groups = db.groups /\ new.tenants = db.tenants
      /\ new.tenant_quotas = Put(db.tenant_quotas, t, q) /\ new.group_quotas = db.group_quotas
  BY DEF Sound, Tables
<1>2. Tables(new)
  <2> DEFINE mid == [db EXCEPT !.tenant_quotas = Put(@, t, q)]
  <2>1. Tables(mid)
    BY PutTable DEF Sound, Tables
  <2>2. new = [mid EXCEPT !.generation = gen]
    OBVIOUS
  <2> HIDE DEF mid, new
  <2> QED
    BY <2>1, <2>2 DEF Tables
<1> HIDE DEF new
<1>3. DOMAIN new.tenant_quotas = DOMAIN db.tenant_quotas \cup {t}
  BY <1>1 DEF Put
<1>4. Ordered(new, n) /\ Closed(new)
  BY <1>1, <1>3 DEF Ordered, Closed, Sound
<1> QED
  BY <1>2, <1>4 DEF Sound, new

\* So does set_group_quota.
LEMMA SoundGroupQuota ==
  ASSUME NEW db, NEW n \in Nat, Sound(db, n), NEW g \in DOMAIN db.groups, NEW q, NEW gen
  PROVE  Sound([db EXCEPT !.group_quotas = Put(@, g, q), !.generation = gen], n)
<1> DEFINE new == [db EXCEPT !.group_quotas = Put(@, g, q), !.generation = gen]
<1>1. /\ new.groups = db.groups /\ new.tenants = db.tenants
      /\ new.tenant_quotas = db.tenant_quotas /\ new.group_quotas = Put(db.group_quotas, g, q)
  BY DEF Sound, Tables
<1>2. Tables(new)
  <2> DEFINE mid == [db EXCEPT !.group_quotas = Put(@, g, q)]
  <2>1. Tables(mid)
    BY PutTable DEF Sound, Tables
  <2>2. new = [mid EXCEPT !.generation = gen]
    OBVIOUS
  <2> HIDE DEF mid, new
  <2> QED
    BY <2>1, <2>2 DEF Tables
<1> HIDE DEF new
<1>3. DOMAIN new.group_quotas = DOMAIN db.group_quotas \cup {g}
  BY <1>1 DEF Put
<1>4. Ordered(new, n) /\ Closed(new)
  BY <1>1, <1>3 DEF Ordered, Closed, Sound
<1> QED
  BY <1>2, <1>4 DEF Sound, new

\* So does whatever changes reservations and borrows only.
LEMMA SoundRecords ==
  ASSUME NEW db, NEW n \in Nat, Sound(db, n),
         NEW r, NEW b, IsTable(r), IsTable(b)
  PROVE  Sound([db EXCEPT !.reservations = r, !.borrows = b], n)
<1> DEFINE new == [db EXCEPT !.reservations = r, !.borrows = b]
<1>1. /\ new.groups = db.groups /\ new.tenants = db.tenants
      /\ new.tenant_quotas = db.tenant_quotas /\ new.group_quotas = db.group_quotas
  BY DEF Sound, Tables
<1>2. Tables(new)
  <2> DEFINE mid == [db EXCEPT !.reservations = r]
  <2>1. Tables(mid)
    BY PutTable DEF Sound, Tables
  <2>2. new = [mid EXCEPT !.borrows = b]
    OBVIOUS
  <2> HIDE DEF mid, new
  <2> QED
    BY <2>1, <2>2 DEF Tables
<1> HIDE DEF new
<1> QED
  BY <1>1, <1>2 DEF Sound, Ordered, Closed, new

(***************************************************************************)
(* Loading stops at the first table that is over its limit or has an entry *)
(* that cannot be read, and tables come after the ones they refer to: what *)
(* has been read makes sense on its own, and on top of what was there.     *)
(***************************************************************************)
\* A table that stops the load is not empty.
LEMMA StopsNotEmpty ==
  ASSUME NEW image, NEW n \in 1..6,
         ~Counted(image, Sections[n]) \/ Unreadable(image, Sections[n]) # {}
  PROVE  DOMAIN image[Sections[n]] # {}
<1>1. CASE Unreadable(image, Sections[n]) # {}
  BY <1>1 DEF Unreadable
<1>2. CASE ~Counted(image, Sections[n])
  <2>1. Limit[Sections[n]] \in Nat
    BY SettingsAssumption DEF Limit, Sections
  <2>2. SUFFICES ASSUME DOMAIN image[Sections[n]] = {} PROVE FALSE
    OBVIOUS
  <2>3. Cardinality(DOMAIN image[Sections[n]]) = 0
    BY <2>2, FS_EmptySet
  <2> QED
    BY <1>2, <2>1, <2>3 DEF Counted
<1> QED
  BY <1>1, <1>2

\* The first tables are accepted if all before the last of them are, and it is.
LEMMA AcceptedNext ==
  ASSUME NEW image, NEW n \in 1..6
  PROVE  Accepted(image, n) <=>
           /\ Accepted(image, n - 1)
           /\ Counted(image, Sections[n]) /\ Unreadable(image, Sections[n]) = {}
<1>1. 1..n = (1..(n - 1)) \cup {n}
  OBVIOUS
<1> QED
  BY <1>1, Zenon DEF Accepted

\* Table n after loading: what was there, with the entries R of the image over it.
ReadOver(image, db, n, T, R) ==
  /\ T = Overlay(image[Sections[n]], R, db[Sections[n]])
  /\ R \subseteq DOMAIN image[Sections[n]]
  /\ ~Accepted(image, n - 1) => R = {}
  /\ Accepted(image, n) => R = DOMAIN image[Sections[n]]
  /\ Accepted(image, n - 1) /\ ~Accepted(image, n) => R # DOMAIN image[Sections[n]]

\* Nothing of a table is read after a stop, all of it before, and a part at the stop.
LEMMA LoadedTable ==
  ASSUME NEW image, NEW db, NEW n \in 1..6, NEW T \in Loaded(image, db, n)
  PROVE  \E R : ReadOver(image, db, n, T, R)
<1>1. PICK R \in IF Accepted(image, n - 1) THEN Readings(image, Sections[n]) ELSE {{}} :
        T = Overlay(image[Sections[n]], R, db[Sections[n]])
  BY Zenon DEF Loaded
<1>2. CASE ~Accepted(image, n - 1)
  BY <1>1, <1>2, AcceptedNext DEF ReadOver
<1>3. CASE Accepted(image, n - 1)
  <2>1. R \in Readings(image, Sections[n])
    BY <1>1, <1>3
  <2>2. CASE ~Counted(image, Sections[n])
    <3>1. R = {} /\ ~Accepted(image, n) /\ DOMAIN image[Sections[n]] # {}
      BY <2>1, <2>2, AcceptedNext, StopsNotEmpty DEF Readings
    <3> QED
      BY <1>1, <1>3, <3>1 DEF ReadOver
  <2>3. CASE Counted(image, Sections[n]) /\ Unreadable(image, Sections[n]) # {}
    <3>1. ~Accepted(image, n) /\ R \subseteq DOMAIN image[Sections[n]] \ Unreadable(image, Sections[n])
      BY <2>1, <2>3, AcceptedNext DEF Readings
    <3>2. Unreadable(image, Sections[n]) \subseteq DOMAIN image[Sections[n]]
      BY DEF Unreadable
    <3> QED
      BY <1>1, <1>3, <2>3, <3>1, <3>2 DEF ReadOver
  <2>4. CASE Counted(image, Sections[n]) /\ Unreadable(image, Sections[n]) = {}
    <3>1. Accepted(image, n) /\ R = DOMAIN image[Sections[n]]
      BY <1>3, <2>1, <2>4, AcceptedNext DEF Readings
    <3> QED
      BY <1>1, <1>3, <3>1 DEF ReadOver
  <2> QED
    BY <2>2, <2>3, <2>4
<1> QED
  BY <1>2, <1>3

\* All tables of a loaded engine are of that form.
LEMMA FilledTables ==
  ASSUME NEW image, NEW db, NEW new \in Filled(image, db)
  PROVE  /\ \A n \in 1..6 : \E R : ReadOver(image, db, n, new[Sections[n]], R)
         /\ new = [generation |-> image.generation, groups |-> new.groups,
                   tenants |-> new.tenants, tenant_quotas |-> new.tenant_quotas,
                   group_quotas |-> new.group_quotas, reservations |-> new.reservations,
                   borrows |-> new.borrows]
<1>1. PICK g \in Loaded(image, db, 1), t \in Loaded(image, db, 2),
           tq \in Loaded(image, db, 3), gq \in Loaded(image, db, 4),
           res \in Loaded(image, db, 5), b \in Loaded(image, db, 6) :
        new = [generation |-> image.generation, groups |-> g, tenants |-> t,
               tenant_quotas |-> tq, group_quotas |-> gq, reservations |-> res, borrows |-> b]
  BY DEF Filled
<1>2. /\ new.groups = g /\ new.tenants = t /\ new.tenant_quotas = tq
      /\ new.group_quotas = gq /\ new.reservations = res /\ new.borrows = b
  BY <1>1
<1>3. ASSUME NEW n \in 1..6 PROVE new[Sections[n]] \in Loaded(image, db, n)
  <2>1. n = 1 \/ n = 2 \/ n = 3 \/ n = 4 \/ n = 5 \/ n = 6
    OBVIOUS
  <2>2. /\ Sections[1] = "groups" /\ Sections[2] = "tenants" /\ Sections[3] = "tenant_quotas"
        /\ Sections[4] = "group_quotas" /\ Sections[5] = "reservations" /\ Sections[6] = "borrows"
    BY DEF Sections
  <2> QED
    BY <1>2, <2>1, <2>2
<1> QED
  BY <1>1, <1>2, <1>3, LoadedTable

\* A load leaves sound tables, complete or not.
LEMMA SoundLoaded ==
  ASSUME NEW image, NEW db, NEW n \in Nat, Sound(image, n), Sound(db, n),
         NEW new \in Filled(image, db)
  PROVE  Sound(new, n)
<1> DEFINE In(k) == Accepted(image, k)
<1>0. /\ Sections[1] = "groups" /\ Sections[2] = "tenants" /\ Sections[3] = "tenant_quotas"
      /\ Sections[4] = "group_quotas" /\ Sections[5] = "reservations" /\ Sections[6] = "borrows"
  BY DEF Sections
<1>1. PICK G, T, TQ, GQ :
        /\ ReadOver(image, db, 1, new.groups, G) /\ ReadOver(image, db, 2, new.tenants, T)
        /\ ReadOver(image, db, 3, new.tenant_quotas, TQ)
        /\ ReadOver(image, db, 4, new.group_quotas, GQ)
  BY <1>0, FilledTables
<1>2. Tables(new)
  <2>1. \A k \in 1..6 : IsTable(new[Sections[k]])
    BY FilledTables, OverlayTable DEF ReadOver
  <2>2. /\ IsTable(new.groups) /\ IsTable(new.tenants) /\ IsTable(new.tenant_quotas)
        /\ IsTable(new.group_quotas) /\ IsTable(new.reservations) /\ IsTable(new.borrows)
    BY <1>0, <2>1
  <2>3. new = [generation |-> new.generation, groups |-> new.groups,
               tenants |-> new.tenants, tenant_quotas |-> new.tenant_quotas,
               group_quotas |-> new.group_quotas, reservations |-> new.reservations,
               borrows |-> new.borrows]
    BY FilledTables
  <2> QED
    BY <2>2, <2>3 DEF Tables
<1>3. (In(3) => In(2)) /\ (In(2) => In(1))
  BY DEF Accepted
<1>4. /\ new.groups = Overlay(image.groups, G, db.groups)
      /\ G \subseteq DOMAIN image.groups /\ (In(1) => G = DOMAIN image.groups)
  BY <1>0, <1>1 DEF ReadOver
<1>5. /\ new.tenants = Overlay(image.tenants, T, db.tenants)
      /\ T \subseteq DOMAIN image.tenants /\ (In(2) => T = DOMAIN image.tenants)
      /\ ~In(1) => T = {}
  BY <1>0, <1>1 DEF ReadOver
<1>6. /\ new.tenant_quotas = Overlay(image.tenant_quotas, TQ, db.tenant_quotas)
      /\ TQ \subseteq DOMAIN image.tenant_quotas /\ (~In(2) => TQ = {})
      /\ new.group_quotas = Overlay(image.group_quotas, GQ, db.group_quotas)
      /\ GQ \subseteq DOMAIN image.group_quotas /\ (~In(3) => GQ = {})
  BY <1>0, <1>1 DEF ReadOver
<1> HIDE DEF In
<1>7. /\ DOMAIN new.groups = G \cup DOMAIN db.groups
      /\ \A g \in DOMAIN new.groups :
           \/ g \in DOMAIN image.groups /\ new.groups[g] = image.groups[g]
           \/ g \in DOMAIN db.groups /\ new.groups[g] = db.groups[g]
  BY <1>4 DEF Overlay
<1>8. /\ DOMAIN new.tenants = T \cup DOMAIN db.tenants
      /\ \A t \in DOMAIN new.tenants :
           \/ t \in T /\ new.tenants[t] = image.tenants[t]
           \/ t \in DOMAIN db.tenants /\ new.tenants[t] = db.tenants[t]
  BY <1>5 DEF Overlay
<1>9. /\ DOMAIN new.tenant_quotas = TQ \cup DOMAIN db.tenant_quotas
      /\ DOMAIN new.group_quotas = GQ \cup DOMAIN db.group_quotas
  BY <1>6 DEF Overlay
<1>10. Ordered(new, n)
  BY <1>4, <1>7 DEF Ordered, Sound
<1>11. Closed(new)
  <2>1. ASSUME NEW t \in DOMAIN new.tenants, new.tenants[t] # None
        PROVE  new.tenants[t] \in DOMAIN new.groups
    BY <1>4, <1>5, <1>7, <1>8, <2>1 DEF Closed, Sound
  <2>2. DOMAIN new.tenant_quotas \subseteq DOMAIN new.tenants
    BY <1>5, <1>6, <1>8, <1>9 DEF Closed, Sound
  <2>3. DOMAIN new.group_quotas \subseteq DOMAIN new.groups
    BY <1>3, <1>4, <1>6, <1>7, <1>9 DEF Closed, Sound
  <2> QED
    BY <2>1, <2>2, <2>3 DEF Closed
<1> QED
  BY <1>2, <1>10, <1>11 DEF Sound

-----------------------------------------------------------------------------
\* The inductive invariant holds of a new engine without a file.
LEMMA InvInit == Init => IInv
BY SoundNew DEF Init, IInv, Whole

\* A call that changes memory only, and may draw an identifier.
LEMMA InvMemory ==
  ASSUME IInv, pc' # "written", UNCHANGED files, nextId' \in Nat, nextId <= nextId',
         Sound(memory', nextId')
  PROVE  IInv'
<1>1. Whole(file) => Sound(file, nextId')
  BY SoundLater DEF IInv
<1> QED
  BY <1>1 DEF IInv, files, Whole

\* Every call that creates or sets something keeps it.
LEMMA InvCreate == IInv /\ Create => IInv'
<1> SUFFICES ASSUME IInv, Create PROVE IInv'
  OBVIOUS
<1>0. nextId \in Nat /\ nextId > 0 /\ Sound(memory, nextId)
  BY DEF IInv
<1>1. ASSUME NEW g \in Known, AddGroup(g) PROVE IInv'
  <2>1. Sound([memory EXCEPT !.groups = Put(@, nextId, g)], nextId + 1)
    BY <1>0, SoundGroup DEF Known
  <2>2. Sound(memory', nextId')
    BY <1>1, <2>1 DEF AddGroup
  <2> QED
    BY <1>0, <1>1, <2>2, InvMemory DEF AddGroup
<1>2. ASSUME NEW g \in Known, create_group(g) \/ create_group_autoid(g) PROVE IInv'
  BY <1>1, <1>2 DEF create_group, create_group_autoid
<1>3. ASSUME NEW g \in Known, set_group_quota(g) PROVE IInv'
  <2>1. Sound(memory', nextId')
    BY <1>0, <1>3, SoundGroupQuota, Zenon DEF set_group_quota, group_exists
  <2> QED
    BY <1>0, <1>3, <2>1, InvMemory DEF set_group_quota
<1>4. ASSUME NEW g \in Known, NEW t \in Tenant, create_tenant(t, g) PROVE IInv'
  <2>1. Sound(memory', nextId')
    BY <1>0, <1>4, SoundTenant DEF create_tenant, group_exists
  <2> QED
    BY <1>0, <1>4, <2>1, InvMemory DEF create_tenant
<1>5. ASSUME NEW t \in Tenant, set_tenant_quota(t) PROVE IInv'
  <2>1. Sound(memory', nextId')
    BY <1>0, <1>5, SoundTenantQuota, Zenon DEF set_tenant_quota
  <2> QED
    BY <1>0, <1>5, <2>1, InvMemory DEF set_tenant_quota
<1>6. ASSUME NEW borrowing \in BOOLEAN, reserve(borrowing) PROVE IInv'
  <2> DEFINE r == Put(memory.reservations, nextId, borrowing)
             b == IF borrowing THEN Put(memory.borrows, nextId, TRUE) ELSE memory.borrows
  <2>1. IsTable(r) /\ IsTable(b)
    BY <1>0, PutTable, Zenon DEF Sound, Tables
  <2>2. memory' = [memory EXCEPT !.reservations = r, !.borrows = b]
    BY <1>6 DEF reserve
  <2>3. Sound(memory', nextId)
    <3> HIDE DEF r, b
    <3> QED
      BY <1>0, <2>1, <2>2, SoundRecords, Zenon
  <2>4. Sound(memory', nextId') /\ nextId' \in Nat /\ nextId <= nextId'
    BY <1>0, <1>6, <2>3, SoundLater DEF reserve
  <2> QED
    BY <1>6, <2>4, InvMemory DEF reserve
<1> QED
  BY <1>2, <1>3, <1>4, <1>5, <1>6 DEF Create

\* Every step keeps it, failures, crashes and loads included.
LEMMA InvNext == IInv /\ [Next]_vars => IInv'
<1> SUFFICES ASSUME IInv, [Next]_vars PROVE IInv'
  OBVIOUS
<1>1. CASE Create
  BY <1>1, InvCreate
<1>2. CASE SaveOpen \/ SaveWrite \/ SaveWriteFails \/ SaveRenameFails
  BY <1>2 DEF SaveOpen, SaveWrite, SaveWriteFails, SaveRenameFails, IInv, files
<1>3. CASE SaveRename
  BY <1>3 DEF SaveRename, IInv
<1>4. CASE load_from
  <2>1. memory' \in Filled(file, memory) /\ Sound(file, nextId) /\ Sound(memory, nextId)
    BY <1>4 DEF load_from, IInv, Whole
  <2>2. Sound(memory', nextId)
    BY <2>1, SoundLoaded DEF IInv
  <2> QED
    BY <1>4, <2>2, InvMemory DEF load_from, IInv
<1>5. CASE Crash
  <2>1. Sound(NewEngine, nextId)
    BY SoundNew, SoundLater DEF IInv
  <2> QED
    BY <1>5, <2>1, InvMemory DEF Crash, IInv
<1>6. CASE Damage
  BY <1>6 DEF Damage, IInv, Whole
<1>7. CASE UNCHANGED vars
  BY <1>7 DEF vars, files, IInv
<1> QED
  BY <1>1, <1>2, <1>3, <1>4, <1>5, <1>6, <1>7 DEF Next, SaveStep

\* The inductive invariant always holds.
LEMMA Invariance == Spec => []IInv
BY InvInit, InvNext, PTL DEF Spec

(***************************************************************************)
(* Every chain of parents ends, and tenants and quotas have what they      *)
(* refer to, whatever is created, crashes, or is loaded in part.           *)
(***************************************************************************)
THEOREM HierarchyHolds == Spec => []HierarchySound
<1>1. IInv => HierarchySound
  BY OrderedAcyclic DEF IInv, Sound, HierarchySound
<1> QED
  BY <1>1, Invariance, PTL

(***************************************************************************)
(* save_to implements the atomic replacement of the file.                  *)
(***************************************************************************)
THEOREM SaveIsAtomic == Spec => SaveAtomic
<1>1. IInv /\ [Next]_vars => [Atomic!Mutate \/ Atomic!Replace \/ Atomic!Damage]_<<memory, file>>
  <2> SUFFICES ASSUME IInv, [Next]_vars
               PROVE  Atomic!Mutate \/ Atomic!Replace \/ Atomic!Damage
    OBVIOUS
  <2>1. CASE SaveRename
    BY <2>1 DEF SaveRename, IInv, Atomic!Replace
  <2>2. CASE Damage
    BY <2>2 DEF Damage, Atomic!Damage
  <2>3. CASE Create
    BY <2>3, Zenon DEF Create, create_group, create_group_autoid, AddGroup, set_group_quota,
                create_tenant, set_tenant_quota, reserve, files, Atomic!Mutate
  <2>4. CASE SaveOpen \/ SaveWrite \/ SaveWriteFails \/ SaveRenameFails \/ load_from \/ Crash
    BY <2>4 DEF SaveOpen, SaveWrite, SaveWriteFails, SaveRenameFails, load_from, Crash, files,
                Atomic!Mutate
  <2>5. CASE UNCHANGED vars
    BY <2>5 DEF vars, files, Atomic!Mutate
  <2> QED
    BY <2>1, <2>2, <2>3, <2>4, <2>5 DEF Next, SaveStep
<1> QED
  BY <1>1, Invariance, PTL DEF Spec, SaveAtomic, Atomic!AtomicSpec

(***************************************************************************)
(* A new process gets back all that was saved, or stops at a table that    *)
(* was over its limit or had an entry it cannot read, with all tables      *)
(* before that one, a part of that one and none after it.                  *)
(***************************************************************************)
THEOREM LoadHolds == Spec => LoadsWhatWasSaved
<1>1. IInv /\ [Next]_vars => [LoadStep]_vars
  <2> SUFFICES ASSUME IInv, load_from, memory = NewEngine
               PROVE  LoadStep
    BY DEF LoadStep
  <2> DEFINE In(k) == Accepted(replaced, k)
             At(k) == memory'[Sections[k]]
             Saved(k) == replaced[Sections[k]]
  <2>1. memory' \in Filled(replaced, NewEngine) /\ Sound(replaced, nextId)
    BY DEF load_from, IInv, Whole
  <2>2. \A k \in 1..6 : NewEngine[Sections[k]] = NoTable
    BY DEF NewEngine, Sections
  <2>3. ASSUME NEW k \in 1..6
        PROVE  /\ ~In(k - 1) => At(k) = NoTable
               /\ In(k) => At(k) = [x \in DOMAIN Saved(k) |-> Saved(k)[x]]
               /\ In(k - 1) /\ ~In(k) => PartOf(At(k), Saved(k))
    <3>1. PICK R : ReadOver(replaced, NewEngine, k, At(k), R)
      BY <2>1, FilledTables
    <3>2. At(k) = [x \in R |-> Saved(k)[x]]
      BY <2>2, <3>1 DEF ReadOver, Overlay, NoTable
    <3>3. NoTable = [x \in {} |-> Saved(k)[x]]
      BY DEF NoTable
    <3> QED
      BY <3>1, <3>2, <3>3 DEF ReadOver, PartOf
  <2>4. ASSUME NEW k \in 1..6 PROVE Saved(k) = [x \in DOMAIN Saved(k) |-> Saved(k)[x]]
    BY <2>1 DEF Sound, Tables, IsTable, Sections
  <2>5. CASE In(6)
    <3>1. \A k \in 1..6 : In(k)
      BY <2>5 DEF Accepted
    <3>2. \A k \in 1..6 : At(k) = Saved(k)
      BY <2>3, <2>4, <3>1
    <3>3. memory' = replaced
      <4>1. /\ memory'.groups = replaced.groups /\ memory'.tenants = replaced.tenants
            /\ memory'.tenant_quotas = replaced.tenant_quotas
            /\ memory'.group_quotas = replaced.group_quotas
            /\ memory'.reservations = replaced.reservations
            /\ memory'.borrows = replaced.borrows
        BY <3>2 DEF Sections
      <4>2. memory' = [generation |-> replaced.generation, groups |-> memory'.groups,
                       tenants |-> memory'.tenants, tenant_quotas |-> memory'.tenant_quotas,
                       group_quotas |-> memory'.group_quotas,
                       reservations |-> memory'.reservations, borrows |-> memory'.borrows]
        BY <2>1, FilledTables
      <4> QED
        BY <2>1, <4>1, <4>2 DEF Sound, Tables
    <3> QED
      BY <3>3 DEF LoadStep
  <2>6. CASE ~In(6)
    <3> DEFINE Stops == {k \in 1..6 : ~In(k)}
    <3>1. PICK i \in Stops : \A k \in Stops : i <= k
      <4>1. Stops \subseteq Nat /\ Stops # {}
        BY <2>6
      <4> HIDE DEF Stops
      <4> QED
        BY <4>1, SmallestOf, Zenon
    <3>2. i \in 1..6 /\ ~In(i)
      OBVIOUS
    <3>3. \A k \in 1..6 : k < i => In(k)
      BY <3>1, <3>2
    <3>4. In(i - 1)
      <4>1. CASE i = 1
        BY <4>1 DEF Accepted
      <4>2. CASE i # 1
        BY <3>2, <3>3, <4>2
      <4> QED
        BY <4>1, <4>2
    <3>5. \A k \in 1..6 : k > i => ~In(k - 1)
      BY <3>2 DEF Accepted
    <3>6. ~Counted(replaced, Sections[i]) \/ Unreadable(replaced, Sections[i]) # {}
      BY <3>2, <3>4, AcceptedNext
    <3> HIDE DEF In, At, Saved, Stops
    <3>7. /\ \A j \in 1..(i - 1) : At(j) = Saved(j)
          /\ PartOf(At(i), Saved(i))
          /\ \A j \in (i + 1)..6 : At(j) = NoTable
      BY <2>3, <2>4, <3>2, <3>3, <3>4, <3>5
    <3>8. DOMAIN Sections = 1..6 /\ Len(Sections) = 6
      BY DEF Sections
    <3> QED
      BY <3>2, <3>6, <3>7, <3>8 DEF LoadStep, Counted, At, Saved
  <2> QED
    BY <2>5, <2>6
<1> QED
  BY <1>1, Invariance, PTL DEF Spec, LoadsWhatWasSaved
=============================================================================
