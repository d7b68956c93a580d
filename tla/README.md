# Quota Fabric in TLA+

A verification project for Quota Fabric: TLA+ modules for its quota engine, its
state file, its coordinator and its wire protocol, TLC configurations that
model-check them on small instances, and TLAPS proofs of the results that matter
most. Paths below are relative to the repository.

## The system

Quota Fabric decides which tenant may hold how much of which resource.

| Part | Where | State | Operations |
|---|---|---|---|
| Resource vectors | `include/quota_fabric/core/resource_vector.hpp` | an amount and a present bit per dimension | add, sub, min, set, covers |
| Quotas, effective lattice | `core/quota.hpp`, `engine.cpp` | a quota per tenant and group | merge along the ancestor chain |
| Decisions | `engine.cpp` `classify` | none | most restrictive code over the requested dimensions |
| Reservations, allocations | `engine.cpp` | records, funding, counters | reserve, start, resize, release |
| Borrowing, lending | `engine.cpp` | borrow and lending records, counters | borrow, lend, return, recall |
| Burst | `engine.cpp` | burst counter and window | charged by reserve, expired by a sync |
| Rolling windows, observations | `engine.cpp`, `engine.hpp` | samples and a running total | apply_observation |
| Authority | `engine.cpp`, `engine.hpp` | epoch, quota and policy generation | compared by every call, each in its own way |
| Hierarchy | `engine.cpp`, `core/hierarchy.hpp` | groups, tenants | create_group, create_group_autoid, create_tenant |
| Compliance, envelope, recall decision, audit | `engine.cpp` | none | pure functions of the state |
| Persistence | `engine.cpp`, `persistence/codec.hpp` | one file and a temporary one | save_to, load_from |
| Coordinator, agent, ctl | `apps/` | sessions, table of agent boots | one handler per message type |
| Framed protocol | `src/protocol/` | what is left to send, what has arrived | encode, decode, send, receive |

The coordinator gives every connection a thread. A thread receives a frame,
compares the request's authority with the engine's, calls the engine, reads the
authority again and answers. Every public method of the engine holds one
recursive mutex for its whole body, and nothing else holds it: the comparisons
before and the reads after the call interleave with other threads.

The engine keeps *records* (reservations, allocations, borrows, lendings) and
*counters* per tenant beside them. Decisions read the counters, so the hard part
is that records and counters stay in step through every path: a borrow that fails
half way, a loan recalled under a reservation, a release with allocations
running, a denied resize, an observation between two syncs, a restart.

## Modules

| Module | Models |
|---|---|
| `ResourceVectors` | `ResourceVector`: a partial function, its domain the present bits |
| `RollingWindows` | `RollingWindow` |
| `QuotaLattice` | `ResourceQuota`, `merge_min`, `lattice_coherent`, `physical_allowance` |
| `QuotaEngine` | the engine's state and one action per public method |
| `BorrowLedger` | abstract specification of borrowing: a book of loans |
| `EngineProperties` | properties of the engine, and the refinement mapping to `BorrowLedger` |
| `Compliance` | `compute_compliance`, `compute_envelope`, `recall_decision`, `invariants_ok` |
| `Recovery` | the engine with restarts from a saved state |
| `StateFile` | creation of groups, tenants and quotas; `save_to`, `load_from`, crashes |
| `AtomicFile` | abstract specification of a save: a file replaced in one step |
| `Coordinator` | sessions, unlocked reads, agent boots, restarts; its clients |
| `Messages` | encoding and decoding of requests and responses |
| `Frames` | `send_frame`, `recv_frame`, `send_all`, `recv_all` over a stream |
| `MessageQueue` | abstract specification of a connection: a queue of messages |
| `MCEngine`, `MCStateFile`, `MCCoordinator`, `MCFrames` | values of the constants for TLC; one `.cfg` per run |
| `SumProofs` | finite sets, sums of numbers and of resource vectors over sets of records, and what follows for vectors, books of loans and windows |
| `EngineProofs`, `CounterProofs` | proofs about single steps of the engine, independent of each other: records and loan book; counters and windows |
| `EngineTheorems`, `LimitTheorems` | what both give together: restarts, counters, lending, windows, envelopes and group ceilings; the limits of a tenant |
| `CoordinatorProofs`, `StateFileProofs`, `FramesProofs` | proofs about the coordinator, the state file and the protocol |

How they fit together: `Recovery` extends `Compliance`, which extends
`EngineProperties`, which extends `QuotaEngine`. `Frames` extends `Messages`.
`Coordinator` has the engine's authority for an engine, and `StateFile` its
tables: each keeps of the neighbouring component what its own steps depend on,
and leaves the rest open.

### The engine

`reservations`, `funding`, `allocations`, `borrows`, `lends`, `usage`, `windows`,
`local_quota` and `group_quota` are the maps of `QuotaFabric::Impl` with the same
names; `epoch`, `quota_generation` and `policy_generation` are what an
`Authority` is compared with; `now` is the monotonic clock. Ids that the code
draws at random are numbers counted upwards: positions for records that are never
removed, `nextRes` for reservations. A call that is refused is no step, unless
the code changes state before it refuses: `ReserveRolledBack` (the borrows made so
far are returned) and the denied branch of `ResizeAllocation`. The choice of a
lender is nondeterministic, because the code takes the first suitable one in the
order of a hash table. `effective_lattice` folds the quotas from the outermost
group down to the tenant; a minimum does not depend on that order, so the limits
are minima over a set of quotas, and what the last quota on the way overwrites
(`window`, `cooldown`, the overcommit factor) is taken from the innermost one.

Kept on purpose, because properties depend on it: present bits (an explicit zero
is not an unset amount, `sub` never clears a bit, `min` takes the present side);
`add` stopping at the first overflowing dimension; the order of the dimensions;
which of the three authority fields each method checks (`reserve`,
`start_allocation`, `borrow`, `lend`: all three; `release` and `recall_borrow`:
the epoch; `resize_allocation` and `release_allocation`: the quota generation); a
sync of the tenants the code syncs and of no others.

Abstractions. Names, priorities, explanations, events and display timestamps are
left out. The overcommit factor, a double, is a positive natural. A dimension is
a number. The tenants, the groups and the tree are constants (`StateFile` has
their creation). An observation carries a time between 0 and `now`: senders stamp
it with the monotonic clock of the same host. `ObserveDelta` and `ResidencyAdded`
stop where the code's signed addition would overflow. `lend` is called with
existing tenants.

`Reload` is a save and a load by a new process that reads the file to its end:
records, quotas and generations come back, usage is recomputed by `sync_usage`,
windows and the clock of the burst window are empty, because `serialize_state`
does not write them. `StoppedLoad` is a load that returns early, because
reservations, allocations or borrows are more than `EngineSettings` allows
(`max_reservations`, `max_borrows`; the running engine enforces neither) or one
reservation refers to too many borrows. The tables behind that place are empty and
the counters are not recomputed, and the coordinator goes on. `RecoverySpec` has
the first kind of load, `AnyLoadSpec` both. What happened between the save and the load is lost with the old process, so a
restart from an older file is a behaviour that never had the lost steps.

### The state file

`memory` holds the engine's tables, `file` and `tmp` what is at the path and at
the path with `.tmp` added. `save_to` is three steps (`SaveOpen`, `SaveWrite`,
`SaveRename`) with a failure after each of the last two, and `Crash` may come
anywhere. `load_from` is one step, because it holds the lock and writes no file:
a file that is torn or damaged fails the comparison of magic, version, length and
checksum and changes nothing; a whole one is read table after table *over* what
is in memory, up to the first table with more entries than `EngineSettings`
allows, or the first entry that cannot be read: a group or tenant whose name is
longer than `BinaryReader::string` accepts (`LongNamed`; nothing checks it at
creation), or a reservation with more borrows than `max_borrows`. Entries are
sorted by ids, which are random, so any part of the other entries may have been
read by then. Allocations are read as reservations are and lendings as borrows are, so
one of each pair is enough.

`Crash` is the end of the process. The code does not call `fsync`, so nothing is
claimed about a crash of the machine. Damage from outside is always detected: a
checksum collision is not modelled.

### The coordinator

`pc[s]` is where the thread of a session stands; `req` and `resp` are its local
variables. Every unlocked read is an action: `CheckEpoch`, `CheckGeneration`,
`CheckBoot`, `RereadEpoch`, `RereadGeneration`. `Call` is the engine's method
under its lock; whether the engine accepts a request of current authority is left
open. `arrived` and `worked` are history variables. A client connects (with a new
boot if it is an agent), sends one request at a time, learns the authority from
answers as `Rpc::call` does, and may go away at any moment. `Restart` loses all
sessions and starts with the authority `main` starts with: no app calls
`save_to`, so the file a coordinator loads is the same every time. The policy
is set once before the first connection, so comparing its generation always gives
the same answer and is left out.

### The protocol

The socket is a stream of fields of at most `SocketBuffer`: `send_all` and
`recv_all` move any part per turn of their loops. `PeerGone` cuts off any tail of
what is under way. Messages have one field of every kind the codec has: fixed,
optional, string, list, vector with present bits, and the time of an observation,
which is written as an unsigned number only if it is positive (`w_obs`). Frames
may come from another build or a broken one: other version, fields `missing` at
the end, or a payload larger than `kMaxFrameSize`. `encode_frame` casts the length
to 32 bits; no payload of the model comes near that.

## Runs

Two workers; times on a small machine.

| Run | Instance | States | Shows |
|---|---|---|---|
| `ledger` | two tenants, one lends up to 2 of a guarantee of 3, the other has a hard limit of 1; 2 reservations, 3 loans, 1 allocation, restarts | 7,500 (1:30) | both sides of every loan agree; funding is sound; allocations do not outlive reservations; the lent counter is never too low; the hard limit holds up to borrows; counters match records; recall stays possible; refinement of the loan book; release is complete; lending stays within the guarantee |
| `groups` | a team in an organisation, one tenant in each; two dimensions, a lender for the first or for both; two ceilings; 2 reservations, 3 loans | 2,883 (0:40) | no growth above the ceiling of any group above; a request that fails at its second borrow leaves settled loans and true counters |
| `burst` | soft 1, hard 4, burst limit 2, burst window 1, budget 2 over a window of 2; 4 reservations, 3 samples, 4 ticks | 77,178 (1:20) | charged burst covers what is held above soft; an envelope shows nothing a decision would refuse; window total = sum of samples; nothing inside the window is forgotten |
| `observations` | guarantee 1, soft 2, hard 3; two dimensions, resizes, denials and observations, `MaxInt` 3, two epochs and generations, stale callers | 7,016 (0:50) | allocations do not outlive reservations; an envelope shows nothing a decision would refuse, although the counters both read are no longer those of the records |
| `statefile` | one tenant, ids up to 2, one name that is too long, limits of 1 or 2, 2 faults | 239,804 (0:30) | the hierarchy is sound; a save is atomic; a load gives back what was saved, up to where it stops |
| `coordinator` | two sessions, 3 connections, 3 requests of 6 types, 1 fault | 632,874 (1:50) | requests were in force since they arrived; answers are up to date; every request is answered |
| `frames` | 6 requests, 4 responses, 3 frames, a socket of 4 fields, payloads up to 12 | 27,274 (0:15) | refinement of the queue; refusals only for cause; nothing unacceptable passes; every frame is read |

The bounds are the smallest at which the cases of interest happen. Three loans
let one be recalled while another funds a reservation and a third is standing;
two reservations let one be released while the other holds what it borrowed; two
dimensions are what a half-failed borrow needs, two ceilings let the sum of two
tenants reach one of them; three samples let an old one hide behind a newer one;
a `MaxInt` of 3 makes sums overflow. Two ids and limits of one for tenants and
borrows let a load stop at a table, in the middle of one, or not at all, and two faults let a crash follow a failed save or
a damaged file follow a crash. Two sessions with three requests let two changes by
one fall between the reads of the other; a third connection is an agent's second
boot. A socket of four fields holds a header and one field, so every frame with
a longer payload is cut, at every place. `ledger` with 3 reservations passes as well (47,563 states
without restarts); it takes several minutes, so the kept configuration is smaller.

Deadlock is checked in the engine's runs and in `statefile`: somebody can always
make a call. `coordinator` and `frames` end when their bounds on requests and
frames are used up, so they switch it off; what must still happen is stated as
liveness.

Limits that are stated of tenants that are *idle* or *never ran* anything, and
the reason: starting an allocation makes `sync_usage` count nothing of the
reservation as reserved (run `ceiling`), so the limits do not hold of a tenant
that did.

### Where code and documents disagree

Five runs show where the code and what the repository says about it differ. TLC
finds a counterexample in each:

| Run | Says | Does |
|---|---|---|
| `ceiling` | `core/quota.hpp:44` hard limit is the "absolute ceiling" | after `start_allocation` the tenant may reserve above it without borrowing |
| `audit` | `CONTRIBUTING.md:22` "keep `invariants_ok()` true" | releasing a borrow-funded reservation leaves the lender's counter too high, and the audit fails; so does a denied resize, which keeps the new usage and does not sync |
| `recovery` | `README.md:82` "recovery never invents capacity or usage" | rolling windows are not saved, so a spent budget is free again after a restart; and a load that stops at a table over its limit drops records and never recomputes the counters, but the coordinator serves (`apps/coordinator/main.cpp:196`) |
| `burst_window` | `README.md:60` burst is "time-windowed" and never "infinite temporary"; `core/quota.hpp:13` | `sync_usage` clears the burst once when its window has ended, and the next sync puts it back from the funding of live reservations, with `burst_active` false and nothing to end it |
| `stale_mutation` | `engine.hpp:27` a message mutates only under current authority | a quota is set, an observation applied or a record released by a request that another session overtook after its check |

TLC stops at the shortest trace, so `audit` and `recovery` show the first of their
two causes. The second is reported by the same module with `MaxBorrows = 0` in
`MCAudit.cfg`, which leaves nobody to lend, and with `Samples = {}` in
`MCRecovery.cfg`, which leaves the windows empty. `InvariantsOk` is stated of the
states in which every allocation has reported usage of all its resources, because
the audit fails for a simpler reason before that (below).

Read in the code while modelling and not given a run:

- the cooldown of `core/quota.hpp:20` is assigned zero and never enforced;
- `burst_ok` ignores what the request adds, so one request may take the burst
  above `burst_limit`; `RollingWindow::usage` does not expire what it reads;
- `resize_allocation` does not cap a dimension the allocation lacks;
- the allocation clause of `invariants_ok` also fails for every allocation that
  has used nothing yet;
- no creation checks the bounds on groups, depth, reservations or borrows that
  `SECURITY.md:8` lists, but `load_from` does, so a state may be saved that does
  not load (the second disjunct of `LoadsWhatWasSaved`);
- `save_to` and `load_from` read, write and rename files with the engine's lock
  held, where `engine.hpp:92` says "no blocking backend/network/file work is ever
  done under it" and `CONTRIBUTING.md:17` never to hold it across file work; a slow
  disk stops every session;
- `engine.hpp:54` says that observations "carry identity + generation so duplicates
  and stale updates are rejected"; `apply_observation` compares none of these
  fields (the coordinator compares the boot), so a repeated one counts twice;
- `create_group_autoid` stores a parent it does not look up, where the comment at
  `tests/adversarial/test_adversarial.cpp:47` says "API rejects unknown parent"; no
  cycle comes of it, because the id of the group is new (`HierarchySound`);
- `load_from` checks no hierarchy (`README.md:82` says cycles are rejected);
  `HierarchySound` shows that the engine never saves one that is cyclic;
- `decode_request` and `decode_response` do not call `require_end`, so bytes after
  the last field are accepted, where `frame.hpp:4`, `codec.hpp:4` and `SECURITY.md:10`
  say that trailing data is rejected; the frames of the model carry none;
- `send_frame` does not compare a payload with `kMaxFrameSize`, so a larger answer
  is refused by its receiver.

### Fairness

The engine has no background work: every step is a call somebody makes, so its
runs assume no fairness and state no liveness. Elsewhere:

- `Coordinator`: weak fairness of `Serve(s)` per session. A thread waits for
  nothing but its client and two locks that are held for bounded work. Nothing is
  assumed of clients, and none is needed: `RequestAnswered` starts when a request
  has been sent.
- `Frames`: weak fairness of `send_all` and of `recv_all \/ RecvEnds`. The loops
  go on as long as the socket takes and gives something, which a connection that
  is not lost does.

## Proofs

For all values of the constants that meet the assumptions below: any number of
tenants, groups, records, sessions and messages, any tree, any quotas.

| Module | Theorem | States |
|---|---|---|
| `EngineProofs` | `TypeCorrect` | records keep their shape, ids are not reused |
| | `LedgerAlwaysConserved`, `LedgerImplemented` | both sides of every loan agree; the engine implements `BorrowLedger` |
| | `FundingAlwaysSound`, `AllocationsAlwaysLive`, `ReleaseAlwaysComplete` | borrows of a live reservation are its tenant's own and fund nothing else; allocations do not outlive reservations; a release settles and ends all there is |
| `EngineTheorems` | `LentIsNeverUnderstated` | the lent counter is never below the lending records |
| | `LedgerSurvivesReload`, `FundingSurvivesReload`, `AllocationsSurviveReload`, `LentSurvivesReload` | loans, funding, allocations and lent counters with restarts from a saved state, whether the load reads all of it or stops early (`AnyLoadSpec`) |
| | `LendingKeepsGuarantee`, `RecallAlwaysPossible` | lending stays within the guarantee, and can be undone (`CountersFit`) |
| | `WindowsAlwaysExact`, `WindowsNeverForget` | the total of a window is the sum of its samples, and nothing inside it is forgotten (`WindowsFit`) |
| | `EnvelopesAlwaysHonest` | `classify` grants what an envelope shows (`WindowsFit`) |
| | `GroupCeilingHeld` | no step takes idle tenants above the ceiling of a group over them (`ResourcesFit`) |
| `LimitTheorems` | `HardLimitAlwaysHeld`, `BurstAlwaysCovers` | holdings above the hard limit are borrowed, holdings above the soft limit are charged as burst (`RequestsFit`, `LimitsKept`) |
| `CoordinatorProofs` | `TypeCorrect`, `ChecksHold`, `AnswersHold` | types; what the unlocked checks and reads are worth |
| `StateFileProofs` | `HierarchyHolds`, `SaveIsAtomic`, `LoadHolds` | the tables form a forest; `StateFile` implements `AtomicFile`; a load gives back what was saved, up to where it stops |
| `FramesProofs` | `RefusalsHaveCause`, `OnlyAcceptableRead`, `QueueImplemented` | refusals only for cause; nothing unacceptable passes; `Frames`, with the encoding of both kinds of message, implements `MessageQueue` |

**Hypotheses.** A theorem with a name in brackets is of the form
`Spec /\ []Fit => ...`: it speaks of the behaviours in which that condition holds.
They are there because the property fails without them, for reasons that are in
the code. `CountersFit`, `ResourcesFit`, `RequestsFit` and `WindowsFit` say that sums
stay within `INT64_MAX`: `add` gives up at the first dimension that overflows and
no caller looks at its status, and a window caps its total but expires samples in
full, so beyond that point the counters are simply wrong. `LimitsKept` says that
nobody lowers the hard or soft limit of a tenant that holds reservations:
`set_tenant_quota` and `set_group_quota` do not check what is held. All of
them hold in every state and step of the runs that check the properties they are
for, so they exclude no behaviour there: `CountersFit` in `ledger`, `WindowsFit` in
`burst`, `ResourcesFit` in `groups`, `RequestsFit` and `LimitsKept` in
`ledger` and `burst`.

**Engine: records.** The inductive invariant `IInv` is `TypeOK`, `LedgerConserved`,
`FundingSound` and `AllocationsLive` together (at the end of `EngineProperties`).
None is inductive alone: that `release` lowers the right lending record needs the
pairing of borrows and lendings, which needs the shape of both sequences; that a new
loan cannot be one some reservation already counts on needs funding to refer to
existing borrows only. `EngineProofs` first proves what `NewLends`, `NewBorrows`, `ReturnedLends`,
`ReturnedBorrows` and the rollback do to a conserved ledger, then one lemma per
action, then the theorems and the refinement, step by step. `EngineTheorems` adds
`Reload`, which leaves the records alone, and `StoppedLoad`, which keeps them up to a
table: no table refers to one behind it, except for the borrows of a reservation,
and those are looked up before they are used.

**Sums.** What a fold over a set computes is an induction, and the library's
induction theorems cannot be used with the installed provers. `SumProofs` goes
another way: of the sets for which a statement about sums fails, a finite one has a
smallest (`MinimalSubset`); taking one element out of it gives a smaller set, for
which the statement holds, and one unfolding of the fold gives the contradiction.
The few facts about finite sets this needs are proved there from the definition of
`IsFiniteSet`: every theorem in scope costs the prover time in every step, and a
library brings in all of its own.
From this come the facts the rest uses: a sum is a natural, loses and gains one
element at a time, splits over disjoint sets, is monotone; `VSum`, which `add` may
cut short, is never more than the true total, and equal to it where that fits. The
module knows nothing of the engine: what borrowing and returning do to the sum of a
book of loans (`LentGrows`, `LentShrinks`), and what `add` and `expire` do to a window
(`SampleAdded`), are facts about sequences of records.

**Engine: counters.** `CounterProofs` takes the record invariant as given in its
steps (`StepCounts` is `CInv /\ IInv' /\ [Next]_vars => CInv'`), so that it and
`EngineProofs` need not see each other; `CountersSound` in `EngineTheorems` joins
them. Most lemmas that serve one theorem only are named steps of its proof.
`CInv` adds to `IInv` that every amount in records and counters
is a vector, and that the *true* total of a tenant's lending records is covered by
its lent counter. `LentNeverUnderstated` by itself is not inductive: `computed_lent`
is an `add` that may overflow, and what it returns after one more loan does not
follow from what it returned before. `ReservedExact` (the reserved counter of an
idle tenant is what its reservations hold) and `Paired` (loan `i` is borrow `i` and
lending record `i`) are invariants of their own; with `CInv` they give
`LendingKeepsGuarantee`, where `available_to_lend` reads the counters and the
property speaks of records, and `RecallAlwaysPossible`.

**Engine: limits.** Releases take any subset of the reservations away, so that *all*
holdings of a tenant are covered is not inductive: the reservation that is released
may be the one that paid. `LInv` says it of every subset of a tenant's live
reservations (`HardCovered`, `SoftCovered`), and that no reservation is paid for
beyond its own size (`PaidWithin`). The step that matters is `reserve`: for a subset
with the new reservation in it, the arithmetic of `BurstPart` and `BorrowPart`
(`HardShare`, `SoftShare`) is that of clamped differences at the *committed* amount,
which is at least what the subset holds. The group ceiling needs no such invariant:
`subtree_committed` covers what the tenants below the group hold, and a step that
raises it is a `reserve` that `ParentHardOk` let through; it is stated for dimensions
that are not consumable, because `classify` asks the parents for no others.
`EnvelopesAlwaysHonest` is a fact about the decision: for a request of one dimension,
`classify` is unfolded into its cases and compared with the three headroom formulas.
Its proof needed no coherence of the limits, so `EnvelopeHonest` does not ask for it.

**Engine: windows.** `WindowsExact` is the total of every window with the
shape of its samples; `expire` is a removal of the first samples up to one that is
still inside.

**Protocol.** `FInv` says that there is one stream `S`, the concatenation of the
frames sent so far, with a start for each frame: what was received, what is in the
receiver's buffer, on the wire and left to send are consecutive pieces of it, and
the receiver stands at the start of the frame that is next. A lost connection cuts
off a tail. That a header is read where a frame starts, and that as many fields are
waited for as the frame has, then follow from the layout of a frame; that the
message decoded is the one that was encoded is proved field by field
(`RequestLayout`, `ResponseLayout`) for messages that are typed as the structs are
(`RequestTyped`, `ResponseTyped`).

**Coordinator.** `SessionInv(s)` says for every place a thread can be at what its
reads so far are worth: the history variables are behind the engine's authority;
after `CheckEpoch` the request's epoch lies between that of its arrival and the
current one, after `CheckGeneration` the generation too, after `CheckBoot` the boot
was registered since arrival; after each read that follows the call the answer's
field lies between the work and now; an answer is not `ok` before the call. The
authority only grows, except in a restart, which ends all sessions, so a step of
another session (`Spared`) keeps all of this, and each step of its own adds one
clause.

**State file.** "No chain of parents closes" is not inductive, because a chain may
be closed by a load over groups that are there. What is: every group's parent has
a smaller id and ids in use are below `nextId` (`Sound`), in memory and in every
whole file, which is what was in memory at the last replacement. The
smallest element of a set of groups then has a parent outside of it. That the
loaded tables refer to nothing missing follows from the order of the sections: a
table that is read comes after those it refers to.

**Assumptions.** The named ones of the modules, which TLC evaluates in the runs:

- types of the constants, and that markers are distinct (`DimAssumption`,
  `MaxIntAssumption`, `WindowNsAssumption`, `InputAssumption`, `BoundAssumption`,
  `AgentAssumption`, `SettingsAssumption`, `BoundsAssumption`, `MarkerAssumption`);
- `HierarchyAssumption`: the tenants are finitely many, homes and parents are groups;
- `ForestAssumption`: of any groups above a tenant one is innermost. `create_group`
  wants the parent to exist, and `HierarchyHolds` proves it of everything the engine
  creates and loads;
- `MessageAssumption`, `FrameAssumption`: sizes are naturals, messages have the types
  of their structs (`ResourceVector::set` keeps negative amounts out), and the marker
  for an empty optional is no number.

**Only model-checked.**

- Liveness (`RequestAnswered`, `EveryFrameRead`): out of the prover's
  reach.
- `CountersMatchRecords`: it is not an invariant of the engine in general. A denied
  resize and an observation leave the counters behind the records (run `audit`), an
  overflow and a load that stops early do so too (run `recovery`); it holds in the
  instances `ledger` and `groups`, which have none of these. What can be proved of it for all behaviours is
  `ReservedExact` and the bound on the lent counter.
- With restarts, what the hard limit, recall and lending properties say: the
  theorems about them are about `Spec`. `Reload` syncs every tenant, and TLC checks
  them with it (`RecoverySpec`) in `ledger`. After a load that stops early they do
  not hold, because the counters are empty.

## Not modelled

- `decode_frame` (only tests call it), opening and accepting sockets, timeouts:
  the code sets none.
- The nested records of a message (quota, reservation, decision, envelope and so
  on): they repeat the kinds of field that are modelled.
- That `send` on a connection the peer has closed raises SIGPIPE on POSIX, which
  the code does not handle; its effect, a coordinator that ends at any moment, is
  `Restart`.
- Ids that collide: `StrongId::make` is called outside the lock by `create_tenant`
  and draws from shared static state; ids are taken to be unique.
- That duplicates of observations are told apart: they are in the model (any
  sequence of observations is), and the code keeps nothing to recognise one by.
- A crash of the machine between write and rename: without `fsync` the code
  promises nothing about it.
- Policy fields other than the generation, which nothing reads; events,
  explanations, snapshots and name tables, which no decision reads.
- The CUDA backend, command lines, text formatting, examples and benchmarks: I/O
  or display.
