------------------------------- MODULE StateFile -------------------------------
(***************************************************************************)
(* The engine's tables of groups, tenants and quotas, and the file they    *)
(* are saved to and loaded from.                                           *)
(*                                                                         *)
(* Identifiers are random 128-bit numbers; here they are drawn in order,   *)
(* and never twice, not even after a restart.  Of reservations and borrows *)
(* only what loading distinguishes is kept: how many there are, and which  *)
(* borrows fund a reservation.  (Allocations are read as reservations are, *)
(* lending records as borrows are.)                                        *)
(***************************************************************************)
EXTENDS Integers, Sequences, FiniteSets

CONSTANTS
  Tenant,
  None,                       \* no group, no file
  Torn, Damaged,              \* a file written in part; one damaged from outside
  LongNamed,                  \* groups and tenants with a name of more than 2^24 bytes
  MaxGroups, MaxTenants, MaxReservations, MaxBorrows,    \* EngineSettings
  MaxId, MaxGeneration, MaxFaults                        \* bounds of the model

ASSUME SettingsAssumption ==
  MaxGroups \in Nat /\ MaxTenants \in Nat /\ MaxReservations \in Nat /\ MaxBorrows \in Nat
ASSUME BoundsAssumption ==
  MaxId \in Nat /\ MaxGeneration \in Nat /\ MaxFaults \in Nat
ASSUME MarkerAssumption == None \notin Nat /\ Torn # Damaged

VARIABLES
  memory,     \* the engine's tables, partial functions on identifiers
  file, tmp,  \* what is at the path, and at the path with ".tmp" added
  pc,         \* how far save_to is: idle, writing or written
  nextId, faults,
  replaced    \* history: what was in memory when the file was last replaced

vars == <<memory, file, tmp, pc, nextId, faults, replaced>>
files == <<file, tmp, replaced>>

NoTable == [x \in {} |-> None]

NewEngine ==
  [generation |-> 1, groups |-> NoTable, tenants |-> NoTable,
   tenant_quotas |-> NoTable, group_quotas |-> NoTable,
   reservations |-> NoTable, borrows |-> NoTable]

Init ==
  /\ memory = NewEngine
  /\ file = None
  /\ tmp = None
  /\ pc = "idle"
  /\ nextId = 1
  /\ faults = 0
  /\ replaced = None

Put(table, x, y) ==
  [z \in DOMAIN table \cup {x} |-> IF z = x THEN y ELSE table[z]]

-----------------------------------------------------------------------------
(***************************************************************************)
(* The calls that create.  All hold the engine's lock, as save_to and      *)
(* load_from do for as long as they run.                                   *)
(***************************************************************************)
\* The identifiers a caller may have come across, of groups that exist or not.
Known == (1..(nextId - 1)) \cup {None}

group_exists(g) == g \in DOMAIN memory.groups

AddGroup(parent) ==
  /\ pc = "idle" /\ nextId <= MaxId
  /\ memory' = [memory EXCEPT !.groups = Put(@, nextId, parent)]
  /\ nextId' = nextId + 1
  /\ UNCHANGED <<pc, files, faults>>

create_group(parent) ==
  /\ parent # None => group_exists(parent)
  /\ AddGroup(parent)

\* Does not ask whether the parent exists.
create_group_autoid(parent) == AddGroup(parent)

create_tenant(t, group) ==
  /\ pc = "idle"
  /\ Cardinality(DOMAIN memory.tenants) < MaxTenants
  /\ t \notin DOMAIN memory.tenants
  /\ group # None => group_exists(group)
  /\ memory' = [memory EXCEPT !.tenants = Put(@, t, group)]
  /\ UNCHANGED <<pc, files, nextId, faults>>

\* A quota that is refused for its limits changes nothing.
set_tenant_quota(t) ==
  /\ pc = "idle" /\ memory.generation < MaxGeneration
  /\ t \in DOMAIN memory.tenants
  /\ memory' = [memory EXCEPT !.tenant_quotas = Put(@, t, memory.generation),
                              !.generation = @ + 1]
  /\ UNCHANGED <<pc, files, nextId, faults>>

set_group_quota(g) ==
  /\ pc = "idle" /\ memory.generation < MaxGeneration
  /\ group_exists(g)
  /\ memory' = [memory EXCEPT !.group_quotas = Put(@, g, memory.generation),
                              !.generation = @ + 1]
  /\ UNCHANGED <<pc, files, nextId, faults>>

\* reserve, with or without a borrow: no limit of the settings is consulted.
reserve(borrowing) ==
  /\ pc = "idle" /\ nextId <= MaxId
  /\ memory.tenants # NoTable
  /\ memory' = [memory EXCEPT
       !.reservations = Put(@, nextId, borrowing),
       !.borrows = IF borrowing THEN Put(@, nextId, TRUE) ELSE @]
  /\ nextId' = nextId + 1
  /\ UNCHANGED <<pc, files, faults>>

Create ==
  \/ \E g \in Known :
       \/ create_group(g) \/ create_group_autoid(g) \/ set_group_quota(g)
       \/ \E t \in Tenant : create_tenant(t, g)
  \/ \E t \in Tenant : set_tenant_quota(t)
  \/ \E borrowing \in BOOLEAN : reserve(borrowing)

-----------------------------------------------------------------------------
(***************************************************************************)
(* save_to.  fopen truncates the temporary file; what is written to it is  *)
(* whole once fwrite, fflush and fclose have succeeded, and only then does *)
(* rename put it in place of the file.  A failure is reported, and leaves  *)
(* the temporary file behind.                                              *)
(***************************************************************************)
\* Mutant: writes the file itself.
SaveOpenInPlace ==
  /\ pc = "idle"
  /\ tmp' = Torn
  /\ file' = Torn
  /\ pc' = "writing"
  /\ UNCHANGED <<memory, replaced, nextId, faults>>

SaveOpen ==
  /\ pc = "idle"
  /\ tmp' = Torn
  /\ pc' = "writing"
  /\ UNCHANGED <<memory, file, replaced, nextId, faults>>

SaveWrite ==
  /\ pc = "writing"
  /\ tmp' = memory
  /\ pc' = "written"
  /\ UNCHANGED <<memory, file, replaced, nextId, faults>>

SaveWriteFails ==
  /\ pc = "writing"
  /\ faults < MaxFaults
  /\ pc' = "idle"
  /\ faults' = faults + 1
  /\ UNCHANGED <<memory, files, nextId>>

SaveRename ==
  /\ pc = "written"
  /\ file' = tmp
  /\ tmp' = None
  /\ replaced' = memory
  /\ pc' = "idle"
  /\ UNCHANGED <<memory, nextId, faults>>

SaveRenameFails ==
  /\ pc = "written"
  /\ faults < MaxFaults
  /\ pc' = "idle"
  /\ faults' = faults + 1
  /\ UNCHANGED <<memory, files, nextId>>

SaveStep == SaveWrite \/ SaveWriteFails \/ SaveRename \/ SaveRenameFails

-----------------------------------------------------------------------------
(***************************************************************************)
(* load_from.  Magic, version, length and checksum are compared before     *)
(* anything is changed.  deserialize_state then reads the generations and  *)
(* table after table into the engine, over what is there.  It returns at   *)
(* the first table that has more entries than the settings allow, before   *)
(* reading any of it, and at the first entry it cannot read, after those   *)
(* in front of it.                                                         *)
(***************************************************************************)
Sections == <<"groups", "tenants", "tenant_quotas", "group_quotas",
              "reservations", "borrows">>

Limit == [groups |-> MaxGroups, tenants |-> MaxTenants,
          tenant_quotas |-> MaxTenants, group_quotas |-> MaxGroups,
          reservations |-> MaxReservations, borrows |-> MaxBorrows]

\* Mutant: a table that is just at its limit is taken to be over it.
CountedBelow(image, s) == Cardinality(DOMAIN image[s]) < Limit[s]

Counted(image, s) == Cardinality(DOMAIN image[s]) <= Limit[s]

\* A name longer than string() reads, or a reservation with more borrows than
\* max_borrows (it refers to one at most).
Unreadable(image, s) ==
  {x \in DOMAIN image[s] :
     \/ s \in {"groups", "tenants"} /\ x \in LongNamed
     \/ s = "reservations" /\ image[s][x] /\ MaxBorrows = 0}

Accepted(image, n) ==
  \A i \in 1..n : Counted(image, Sections[i]) /\ Unreadable(image, Sections[i]) = {}

\* What is read of a table all of whose predecessors were: the entries in front
\* of the first unreadable one.  They are in the order of their identifiers,
\* which are random, so that any others may be in front of it.
Readings(image, s) ==
  IF ~Counted(image, s) THEN {{}}
  ELSE IF Unreadable(image, s) = {} THEN {DOMAIN image[s]}
  ELSE SUBSET (DOMAIN image[s] \ Unreadable(image, s))

Overlay(new, read, old) ==
  [x \in read \cup DOMAIN old |-> IF x \in read THEN new[x] ELSE old[x]]

\* Mutant: an entry that cannot be read ends its table and not the load.
LoadedOn(image, db, n) ==
  {Overlay(image[Sections[n]], read, db[Sections[n]]) : read \in Readings(image, Sections[n])}

\* What table n may be after loading.
Loaded(image, db, n) ==
  {Overlay(image[Sections[n]], read, db[Sections[n]]) :
     read \in IF Accepted(image, n - 1) THEN Readings(image, Sections[n]) ELSE {{}}}

\* The engines deserialize_state may leave.
Filled(image, db) ==
  {[generation |-> image.generation, groups |-> g, tenants |-> t,
    tenant_quotas |-> tq, group_quotas |-> gq, reservations |-> res, borrows |-> b] :
     g \in Loaded(image, db, 1), t \in Loaded(image, db, 2),
     tq \in Loaded(image, db, 3), gq \in Loaded(image, db, 4),
     res \in Loaded(image, db, 5), b \in Loaded(image, db, 6)}

load_from ==
  /\ pc = "idle"
  /\ file \notin {None, Torn, Damaged}
  /\ memory' \in Filled(file, memory)
  /\ UNCHANGED <<pc, files, nextId, faults>>

-----------------------------------------------------------------------------
(***************************************************************************)
(* The process ends, whatever it was doing, and a new one starts with an   *)
(* empty engine; a file may be damaged while nobody looks.                 *)
(***************************************************************************)
Crash ==
  /\ faults < MaxFaults
  /\ memory' = NewEngine
  /\ pc' = "idle"
  /\ faults' = faults + 1
  /\ UNCHANGED <<files, nextId>>

Damage ==
  /\ faults < MaxFaults
  /\ file # None
  /\ file' = Damaged
  /\ faults' = faults + 1
  /\ UNCHANGED <<memory, tmp, replaced, pc, nextId>>

Next == Create \/ SaveOpen \/ SaveStep \/ load_from \/ Crash \/ Damage

Spec == Init /\ [][Next]_vars

-----------------------------------------------------------------------------
(***************************************************************************)
(* What the loops of ancestor_groups and has_ancestor rely on: no set of   *)
(* groups is closed under "parent", so that every chain of parents ends,   *)
(* and tenants and quotas belong to tenants and groups that exist -        *)
(* whatever was created, crashed, loaded half way or loaded over.          *)
(***************************************************************************)
Acyclic(db) ==
  \A S \in SUBSET DOMAIN db.groups :
    S # {} => \E g \in S : db.groups[g] \notin S

Closed(db) ==
  /\ \A t \in DOMAIN db.tenants :
       db.tenants[t] # None => db.tenants[t] \in DOMAIN db.groups
  /\ DOMAIN db.tenant_quotas \subseteq DOMAIN db.tenants
  /\ DOMAIN db.group_quotas \subseteq DOMAIN db.groups

HierarchySound == Acyclic(memory) /\ Closed(memory)

(***************************************************************************)
(* A crash at any point of a save leaves the old file or the new one.      *)
(***************************************************************************)
Atomic == INSTANCE AtomicFile WITH contents <- file

SaveAtomic == Atomic!AtomicSpec

(***************************************************************************)
(* A new process that loads gets back what was in memory when the file was *)
(* last replaced, all of it; or else one table was over its limit when it  *)
(* was saved, or held an entry that cannot be read, and the process gets   *)
(* all tables before that one, a part of that one and none after it.  Of a *)
(* damaged file it takes nothing.                                          *)
(***************************************************************************)
PartOf(part, table) ==
  /\ DOMAIN part \subseteq DOMAIN table /\ DOMAIN part # DOMAIN table
  /\ \A x \in DOMAIN part : part[x] = table[x]

LoadStep ==
  load_from /\ memory = NewEngine =>
    \/ memory' = replaced
    \/ \E i \in DOMAIN Sections :
         /\ \/ ~(Cardinality(DOMAIN replaced[Sections[i]]) <= Limit[Sections[i]])
            \/ Unreadable(replaced, Sections[i]) # {}
         /\ \A j \in 1..(i - 1) : memory'[Sections[j]] = replaced[Sections[j]]
         /\ PartOf(memory'[Sections[i]], replaced[Sections[i]])
         /\ \A j \in (i + 1)..Len(Sections) : memory'[Sections[j]] = NoTable

LoadsWhatWasSaved == [][LoadStep]_vars
================================================================================
