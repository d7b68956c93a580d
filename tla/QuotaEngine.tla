----------------------------- MODULE QuotaEngine -----------------------------
(***************************************************************************)
(* The quota engine (src/accounting/engine.cpp): quotas, reservations,     *)
(* allocations, borrowing and lending, burst, rolling windows, and the     *)
(* usage counters kept beside the records.  Every public method holds one  *)
(* recursive mutex for its whole body, so each of them is one action.      *)
(*                                                                         *)
(* A call that is refused changes nothing and is not a step, except where  *)
(* the code changes state before it refuses (ReserveRolledBack, and the    *)
(* denied branch of ResizeAllocation).                                     *)
(*                                                                         *)
(* Events, explanations, names, priorities and timestamps kept only for    *)
(* display are left out.  commit_reservation is left out too: reserve      *)
(* creates every reservation COMMITTED and no method makes one             *)
(* PROVISIONAL, so it never changes state.                                 *)
(***************************************************************************)
EXTENDS Integers, Sequences, FiniteSets,
        ResourceVectors, QuotaLattice, RollingWindows

CONSTANTS
  Tenant, Group,     \* the tenants and the groups that have been created
  NoGroup,           \* "no group": an absent group or parent
  Home,              \* the group of a tenant
  Parent,            \* the parent of a group
  Consumable,        \* the dimensions is_consumable holds of
  ModelResidency     \* the dimension ModelResidencyBytes

CONSTANTS            \* what callers pass
  TenantQuotas, GroupQuotas, \* the quotas tried for each tenant and group
  Requests,          \* vectors for reserve and start_allocation
  Deltas,            \* vectors for resize_allocation
  Loans,             \* vectors for borrow and lend
  Samples,           \* amounts for window observations
  UsageDeltas,       \* amounts for the other observations
  PolicyGenerations

CONSTANTS            \* bounds of the model; the code has none of these here
  MaxEpoch, MaxGeneration, MaxReservations, MaxAllocations, MaxBorrows,
  MaxSamples, MaxTime

ASSUME HierarchyAssumption ==
  /\ IsFiniteSet(Tenant)
  /\ NoGroup \notin Group
  /\ Home \in [Tenant -> Group \cup {NoGroup}]
  /\ Parent \in [Group -> Group \cup {NoGroup}]
ASSUME InputAssumption ==
  /\ Consumable \subseteq Dim
  /\ ModelResidency \in Dim
  /\ TenantQuotas \in [Tenant -> SUBSET Quota]
  /\ GroupQuotas \in [Group -> SUBSET Quota]
  /\ Requests \subseteq Vector
  /\ Deltas \subseteq Vector
  /\ Loans \subseteq Vector
  /\ Samples \subseteq Int
  /\ UsageDeltas \subseteq Int
  /\ PolicyGenerations \subseteq Nat
  /\ 0 \in PolicyGenerations
ASSUME BoundAssumption ==
  /\ MaxEpoch \in Nat
  /\ MaxGeneration \in Nat
  /\ MaxReservations \in Nat
  /\ MaxAllocations \in Nat
  /\ MaxBorrows \in Nat
  /\ MaxSamples \in Nat
  /\ MaxTime \in Nat

VARIABLES
  epoch, quota_generation, policy_generation, \* what an authority must match
  local_quota, group_quota,   \* partial functions to quotas
  usage,                      \* the counters of every tenant
  windows,                    \* its rolling windows
  reservations, funding,      \* partial functions on reservation ids
  allocations, borrows, lends, \* sequences: their entries are never removed
  nextRes,                    \* the next reservation id, never used again
  now                         \* the monotonic clock

authVars   == <<epoch, quota_generation, policy_generation>>
quotaVars  == <<local_quota, group_quota>>
resVars    == <<reservations, funding, nextRes>>
ledgerVars == <<borrows, lends>>
vars == <<authVars, quotaVars, usage, windows, resVars, allocations,
          ledgerVars, now>>

NoUsage ==
  [consumption |-> Empty, reserved |-> Empty, borrowed_consumed |-> Empty,
   burst |-> Empty, lent |-> Empty, debt |-> Empty,
   burst_active |-> FALSE, burst_expires |-> 0]

Init ==
  /\ epoch = 1
  /\ quota_generation = 1
  /\ policy_generation = 0
  /\ local_quota = <<>>
  /\ group_quota = <<>>
  /\ usage = [t \in Tenant |-> NoUsage]
  /\ windows = [t \in Tenant |-> [d \in Consumable |-> EmptyWindow]]
  /\ reservations = <<>>
  /\ funding = <<>>
  /\ allocations = <<>>
  /\ borrows = <<>>
  /\ lends = <<>>
  /\ nextRes = 1
  /\ now = 0

-----------------------------------------------------------------------------
(***************************************************************************)
(* Authority.  A caller presents the epoch and generations it last saw;    *)
(* Authority holds every combination some caller may have seen.            *)
(***************************************************************************)
Authority == [epoch : 1..epoch, quota_generation : 1..quota_generation,
              policy_generation : PolicyGenerations]

StaleEpoch(auth) == auth.epoch # epoch
StaleQuotaGen(auth) == auth.quota_generation # quota_generation
ValidAuthority(auth) ==
  /\ ~StaleEpoch(auth)
  /\ ~StaleQuotaGen(auth)
  /\ auth.policy_generation = policy_generation

-----------------------------------------------------------------------------
(***************************************************************************)
(* The hierarchy and the effective quota of a tenant.                      *)
(***************************************************************************)
Ancestors[g \in Group] ==
  {g} \cup IF Parent[g] \in Group THEN Ancestors[Parent[g]] ELSE {}

AncestorGroups(t) == IF Home[t] \in Group THEN Ancestors[Home[t]] ELSE {}

\* create_group wants the parent to be there already, so groups form a forest:
\* those above a tenant have an innermost one, and so has any choice of them.
ASSUME ForestAssumption ==
  \A t \in Tenant : \A groups \in SUBSET AncestorGroups(t) :
    groups # {} => \E g \in groups : groups \subseteq Ancestors[g]

Subtree(g) == {t \in Tenant : g \in AncestorGroups(t)}

\* The quota set last on the way down to t is its own, or its innermost group's.
effective_lattice(t) ==
  LET groups == AncestorGroups(t) \cap DOMAIN group_quota
      inner  == CHOOSE g \in groups : groups \subseteq Ancestors[g]
      own    == {local_quota[x] : x \in {t} \cap DOMAIN local_quota}
      quotas == {group_quota[g] : g \in groups} \cup own
  IN  IF quotas = {} THEN NoQuota
      ELSE EffectiveLattice(quotas, IF own = {} THEN group_quota[inner] ELSE local_quota[t])

Committed(t) == Add(usage[t].consumption, usage[t].reserved)

subtree_committed(g) ==
  LET parts == Subtree(g) \X {"consumption", "reserved"}
  IN  VSum([p \in parts |-> usage[p[1]][p[2]]], parts)

\* How much of its guarantee each tenant below g has committed.
pool_used(g) ==
  LET part(t) ==
        LET eff == effective_lattice(t)
            amount(d) == Lesser(Get(Committed(t), d), eff.guaranteed[d])
        IN  [d \in {e \in DOMAIN eff.guaranteed : amount(e) > 0} |-> amount(d)]
  IN  VSum([t \in Subtree(g) |-> part(t)], Subtree(g))

-----------------------------------------------------------------------------
(***************************************************************************)
(* Lending headroom, and the decision on a request.                        *)
(***************************************************************************)
\* Mutant: forgets what is already lent.
available_to_lend_again(lender, d) ==
  LET eff       == effective_lattice(lender)
      guarantee == Lesser(Get(eff.borrowable, d), Get(eff.guaranteed, d))
  IN  Greater(0, guarantee - Get(Committed(lender), d))

available_to_lend(lender, d) ==
  LET eff       == effective_lattice(lender)
      guarantee == Lesser(Get(eff.borrowable, d), Get(eff.guaranteed, d))
      headroom  == Greater(0, guarantee - Get(Committed(lender), d))
  IN  Greater(0, headroom - Get(usage[lender].lent, d))

borrow_available(d) ==
  \E l \in DOMAIN lends :
    /\ Get(lends[l].outstanding, d) < Get(lends[l].amount, d)
    /\ available_to_lend(lends[l].lender, d) > 0

(***************************************************************************)
(* cooldown_until is zero for ever (reserve assigns nothing else), so the  *)
(* test of the cooldown never fails and is left out.                       *)
(***************************************************************************)
burst_ok(t, d, eff) ==
  LET u == usage[t]
  IN  IF u.burst_active
      THEN now < u.burst_expires /\ Get(u.burst, d) < Get(eff.burst_limit, d)
      ELSE Get(eff.burst_limit, d) > 0 /\ eff.window > 0

Rank == [RECLAIM_REQUIRED |-> 23, RECALL_REQUIRED |-> 22,
         DENY_PHYSICAL |-> 21, DENY_PARENT |-> 20, DENY_HARD |-> 19,
         DENY_SOFT |-> 18, DEFER |-> 17, ALLOW_BORROW |-> 16,
         ALLOW_BURST |-> 15, ALLOW |-> 14, ALLOW_GUARANTEED |-> 13]

Allowed == {"ALLOW", "ALLOW_GUARANTEED", "ALLOW_BURST", "ALLOW_BORROW"}

\* The groups above t that have a quota with a limit of this kind on d.
Limiting(t, d, kind) ==
  {g \in AncestorGroups(t) \cap DOMAIN group_quota :
     d \in DOMAIN group_quota[g][kind]}

\* Mutant: looks at the tenant's own group only.
ParentHardOkDirect(t, d, amt) ==
  \A g \in Limiting(t, d, "hard_limit") \cap {Home[t]} :
    SatAdd(Get(subtree_committed(g), d), amt) <= group_quota[g].hard_limit[d]

ParentHardOk(t, d, amt) ==
  \A g \in Limiting(t, d, "hard_limit") :
    SatAdd(Get(subtree_committed(g), d), amt) <= group_quota[g].hard_limit[d]

PoolOk(t, d, guaranteed) ==
  \A g \in Limiting(t, d, "guaranteed") :
    SatAdd(Get(pool_used(g), d), guaranteed) <= group_quota[g].guaranteed[d]

DimCode(t, d, amt) ==
  LET eff       == effective_lattice(t)
      u         == usage[t]
      base      == IF d \in Consumable THEN WindowUsage(windows[t][d])
                   ELSE Get(Committed(t), d)
      new       == SatAdd(base, amt)
      guarantee == Get(eff.guaranteed, d)
      soft      == SoftOf(eff, d)
      hard      == HardOf(eff, d)
      physical  == SatAdd(SatAdd(new, Get(u.borrowed_consumed, d)), Get(u.burst, d))
  IN  IF d \in Consumable
      THEN IF new <= guarantee THEN "ALLOW_GUARANTEED"
           ELSE IF new <= soft \/ new <= hard THEN "ALLOW" ELSE "DENY_HARD"
      ELSE IF ~ParentHardOk(t, d, amt) THEN "DENY_PARENT"
      ELSE IF physical > PhysicalAllowance(eff, d) THEN "DENY_PHYSICAL"
      ELSE IF new <= guarantee /\ PoolOk(t, d, Lesser(new, guarantee))
           THEN "ALLOW_GUARANTEED"
      ELSE IF new <= soft THEN "ALLOW"
      ELSE IF new <= hard
           THEN IF burst_ok(t, d, eff) THEN "ALLOW_BURST" ELSE "DENY_SOFT"
      ELSE IF borrow_available(d) THEN "ALLOW_BORROW" ELSE "DENY_HARD"

\* The most restrictive code over the requested dimensions.
classify(t, req) ==
  IF IsEmpty(req) THEN "ALLOW"
  ELSE IF ~HasEntitlement(effective_lattice(t)) THEN "DENY_HARD"
  ELSE LET codes == {DimCode(t, d, req[d]) : d \in DOMAIN req}
                      \cup {"ALLOW_GUARANTEED"}
       IN  CHOOSE c \in codes : \A e \in codes : Rank[e] <= Rank[c]

-----------------------------------------------------------------------------
(***************************************************************************)
(* Usage recomputed from the records, and sync_usage.                      *)
(***************************************************************************)
ActiveAllocations(t) ==
  {a \in DOMAIN allocations : allocations[a].active /\ allocations[a].tenant = t}

LiveReservations(t) ==
  {r \in DOMAIN reservations : reservations[r].tenant = t}

OpenBorrows(t) ==
  {b \in DOMAIN borrows : borrows[b].borrower = t /\ ~borrows[b].recalled}

computed_consumed(t) ==
  VSum([a \in ActiveAllocations(t) |-> allocations[a].used],
       ActiveAllocations(t))

(***************************************************************************)
(* What a reservation still holds beside its allocations.  Where the       *)
(* allocations report no usage of a dimension, min takes the reservation's *)
(* own amount, so nothing of it remains reserved.                          *)
(***************************************************************************)
Remaining(t, r) ==
  LET under == {a \in ActiveAllocations(t) : allocations[a].reservation = r}
      used  == VSum([a \in under |-> allocations[a].used], under)
      res   == reservations[r].resources
  IN  IF under = {} THEN res ELSE Sub(res, Min2(used, res))

RemainingReserved(t) ==
  VSum([r \in LiveReservations(t) |-> Remaining(t, r)], LiveReservations(t))

computed_borrowed(t) ==
  VSum([b \in OpenBorrows(t) |-> borrows[b].consumed], OpenBorrows(t))

computed_debt(t) ==
  VSum([b \in OpenBorrows(t) |-> borrows[b].amount], OpenBorrows(t))

computed_lent(t) ==
  LET from == {l \in DOMAIN lends : lends[l].lender = t}
  IN  VSum([l \in from |-> lends[l].outstanding], from)

computed_burst(t) ==
  VSum([r \in LiveReservations(t) |-> funding[r].burst], LiveReservations(t))

(***************************************************************************)
(* sync_usage(t) on the counters u, reading the records the step leaves    *)
(* behind.                                                                 *)
(***************************************************************************)
Synced(t, u) ==
  LET expired == u.burst_active /\ now >= u.burst_expires
  IN  [u EXCEPT !.consumption       = computed_consumed(t)',
                !.reserved          = RemainingReserved(t)',
                !.borrowed_consumed = computed_borrowed(t)',
                !.lent              = computed_lent(t)',
                !.burst             = IF expired THEN Empty ELSE computed_burst(t)',
                !.debt              = computed_debt(t)',
                !.burst_active      = @ /\ ~expired]

-----------------------------------------------------------------------------
(***************************************************************************)
(* Policy, epoch and quotas.                                               *)
(***************************************************************************)
SetPolicy(generation) ==
  /\ policy_generation' = generation
  /\ UNCHANGED <<epoch, quota_generation, quotaVars, usage, windows, resVars,
                 allocations, ledgerVars, now>>

AdvanceEpoch ==
  /\ epoch < MaxEpoch
  /\ epoch' = epoch + 1
  /\ UNCHANGED <<quota_generation, policy_generation, quotaVars, usage,
                 windows, resVars, allocations, ledgerVars, now>>

\* Coherence is only asked of a quota that replaces another.
SetTenantQuota(t, q) ==
  /\ quota_generation < MaxGeneration
  /\ t \in DOMAIN local_quota => LatticeCoherent(q)
  /\ local_quota' = [x \in DOMAIN local_quota \cup {t} |->
                       IF x = t THEN q ELSE local_quota[x]]
  /\ quota_generation' = quota_generation + 1
  /\ UNCHANGED <<epoch, policy_generation, group_quota, usage, windows,
                 resVars, allocations, ledgerVars, now>>

SetGroupQuota(g, q) ==
  /\ quota_generation < MaxGeneration
  /\ group_quota' = [x \in DOMAIN group_quota \cup {g} |->
                       IF x = g THEN q ELSE group_quota[x]]
  /\ quota_generation' = quota_generation + 1
  /\ UNCHANGED <<epoch, policy_generation, local_quota, usage, windows,
                 resVars, allocations, ledgerVars, now>>

-----------------------------------------------------------------------------
(***************************************************************************)
(* borrow_impl and return_borrow.                                          *)
(***************************************************************************)
CanLend(lender, borrower, amount) ==
  /\ lender # borrower
  /\ \A d \in DOMAIN amount :
       /\ d \in DOMAIN effective_lattice(lender).borrowable
       /\ available_to_lend(lender, d) >= amount[d]

(***************************************************************************)
(* A run of borrow_impl calls: call i borrows need[i] from from[i], which  *)
(* is whichever suitable lender the hash table yields first.               *)
(***************************************************************************)
NewLends(borrower, need, from) ==
  [i \in 1..Len(need) |->
     [lender |-> from[i], borrower |-> borrower,
      amount |-> need[i], outstanding |-> need[i]]]

NewBorrows(borrower, need, from) ==
  [i \in 1..Len(need) |->
     [borrower |-> borrower, lender |-> from[i], lending |-> Len(lends) + i,
      amount |-> need[i], consumed |-> need[i], recalled |-> FALSE]]

\* Mutant: leaves the lenders' counters alone.
WithLentUncounted(need, from) == usage

\* The lenders' counters after the run; the borrower is synced, or see below.
WithLent(need, from) ==
  [t \in Tenant |->
     [usage[t] EXCEPT !.lent =
        Add(@, VSum(need, {i \in DOMAIN need : from[i] = t}))]]

\* Mutant: the early return of return_borrow is inverted.
ReturningTwice(B) == {b \in B : borrows[b].recalled}

(***************************************************************************)
(* return_borrow on each borrow of B.  The lender's counter is only        *)
(* lowered when outstanding.is_empty(), which sub never makes true: it     *)
(* keeps the present bits.                                                 *)
(***************************************************************************)
Returning(B) == {b \in B : ~borrows[b].recalled}

\* Mutant: forgets to mark the borrow recalled.
ReturnedBorrowsUnmarked(B) ==
  [b \in DOMAIN borrows |->
     IF b \in Returning(B) THEN [borrows[b] EXCEPT !.consumed = Sub(@, @)]
                           ELSE borrows[b]]

ReturnedBorrows(B) ==
  [b \in DOMAIN borrows |->
     IF b \in Returning(B)
     THEN [borrows[b] EXCEPT !.consumed = Sub(@, @), !.recalled = TRUE]
     ELSE borrows[b]]

\* Mutant: leaves the lender's side of the loan outstanding.
ReturnedLendsKept(B) == lends

\* No two borrows draw on one lending record (LedgerConserved).
ReturnedLends(B) ==
  [l \in DOMAIN lends |->
     IF \E b \in Returning(B) : borrows[b].lending = l
     THEN LET b == CHOOSE b \in Returning(B) : borrows[b].lending = l
          IN  [lends[l] EXCEPT !.outstanding = Sub(@, borrows[b].consumed)]
     ELSE lends[l]]

ReturnedUsage(B) ==
  LET given(t)  == {b \in Returning(B) : borrows[b].borrower = t}
      back(t)   == VSum([b \in given(t) |-> borrows[b].consumed], given(t))
      closed(t) == {l \in {borrows[b].lending : b \in Returning(B)} :
                      /\ lends[l].lender = t
                      /\ IsEmpty(ReturnedLends(B)[l].outstanding)
                      /\ ~IsEmpty(lends[l].amount)}
  IN  [t \in Tenant |->
         [usage[t] EXCEPT
            !.borrowed_consumed = Sub(@, back(t)),
            !.debt = Sub(@, back(t)),
            !.lent = Sub(@, VSum([l \in closed(t) |-> lends[l].amount], closed(t)))]]

-----------------------------------------------------------------------------
(***************************************************************************)
(* reserve.                                                                *)
(***************************************************************************)
\* Mutant: the first unit above the soft limit is free.
BurstPartOffByOne(eff, d, base, nc) ==
  LET over(x) == Lesser(Greater(x - SoftOf(eff, d) - 1, 0),
                        HardOf(eff, d) - SoftOf(eff, d))
  IN  Greater(0, over(nc) - over(base))

(***************************************************************************)
(* The share of a growth from base to nc that lies between soft and hard.  *)
(* Where soft > hard, std::clamp is called with its bounds reversed; what  *)
(* it returns then leaves no share, as here.                               *)
(***************************************************************************)
BurstPart(eff, d, base, nc) ==
  LET over(x) == Lesser(Greater(x - SoftOf(eff, d), 0),
                        HardOf(eff, d) - SoftOf(eff, d))
  IN  Greater(0, over(nc) - over(base))

\* Mutant: the first unit above the hard limit is free.
BorrowPartOffByOne(eff, d, base, nc) ==
  Greater(0, Greater(0, nc - HardOf(eff, d) - 1) - Greater(0, base - HardOf(eff, d)))

\* The share that lies above hard and has to be borrowed.
BorrowPart(eff, d, base, nc) ==
  Greater(0, Greater(0, nc - HardOf(eff, d)) - Greater(0, base - HardOf(eff, d)))

BurstOf(t, req) ==
  LET part(d) == BurstPart(effective_lattice(t), d, Get(Committed(t), d),
                           SatAdd(Get(Committed(t), d), req[d]))
  IN  [d \in {e \in DOMAIN req \ Consumable : part(e) > 0} |-> part(d)]

ExcessOf(t, req, d) ==
  BorrowPart(effective_lattice(t), d, Get(Committed(t), d),
             SatAdd(Get(Committed(t), d), req[d]))

(***************************************************************************)
(* One borrow for each dimension with an excess, in the order of the       *)
(* dimensions; InOrder gives the first n of them.  A borrow changes no     *)
(* counter that the next one looks at: each is of a dimension of its own.  *)
(***************************************************************************)
InOrder(S, n) == {s \in [1..n -> S] : /\ \A i, j \in 1..n : i < j => s[i] < s[j]
                                      /\ \A i \in 1..n, d \in S \ Range(s) : s[i] < d}

ExcessDims(t, req) == {d \in DOMAIN req \ Consumable : ExcessOf(t, req, d) > 0}

Excesses(t, req, dims, n) ==
  [i \in 1..n |-> FromScalar(dims[i], ExcessOf(t, req, dims[i]))]

\* When a burst that is charged now runs out.
BurstUntil(t) == now + effective_lattice(t).window

Admitted(t, req, auth) ==
  /\ ValidAuthority(auth)
  /\ classify(t, req) \in Allowed

\* Mutant: every open borrow of the tenant.
FundingAllBorrows(t, burst, bids) ==
  [burst |-> burst, borrows |-> bids \cup OpenBorrows(t)]

\* Mutant: none of the borrows.
FundingNoBorrows(t, burst, bids) == [burst |-> burst, borrows |-> {}]

\* The burst and the borrows that pay for a new reservation.
Funding(t, burst, bids) == [burst |-> burst, borrows |-> bids]

\* Mutant: uses the same id again.
AddReservationSameId(t, req, burst, bids) ==
  /\ reservations' = [r \in DOMAIN reservations \cup {nextRes} |->
       IF r = nextRes
       THEN [tenant |-> t, resources |-> req, status |-> "COMMITTED"]
       ELSE reservations[r]]
  /\ funding' = [r \in DOMAIN funding \cup {nextRes} |->
       IF r = nextRes THEN Funding(t, burst, bids) ELSE funding[r]]
  /\ UNCHANGED nextRes

AddReservation(t, req, burst, bids) ==
  /\ reservations' = [r \in DOMAIN reservations \cup {nextRes} |->
       IF r = nextRes
       THEN [tenant |-> t, resources |-> req, status |-> "COMMITTED"]
       ELSE reservations[r]]
  /\ funding' = [r \in DOMAIN funding \cup {nextRes} |->
       IF r = nextRes THEN Funding(t, burst, bids) ELSE funding[r]]
  /\ nextRes' = nextRes + 1

Reserve(t, req, auth) ==
  /\ nextRes <= MaxReservations
  /\ Admitted(t, req, auth)
  /\ \E n \in 0..MaxBorrows : \E dims \in InOrder(ExcessDims(t, req), n) :
       LET need  == Excesses(t, req, dims, n)
           burst == BurstOf(t, req)
       IN  /\ Range(dims) = ExcessDims(t, req)
           /\ Len(borrows) + n <= MaxBorrows
           /\ \E from \in [1..n -> Tenant] :
                /\ \A i \in 1..n : CanLend(from[i], t, need[i])
                /\ lends' = lends \o NewLends(t, need, from)
                /\ borrows' = borrows \o NewBorrows(t, need, from)
                /\ AddReservation(t, req, burst, {Len(borrows) + i : i \in 1..n})
                /\ UNCHANGED <<authVars, quotaVars, windows, allocations, now>>
                /\ usage' = [WithLent(need, from) EXCEPT ![t] = Synced(t,
                     IF IsEmpty(burst) THEN @
                     ELSE [@ EXCEPT !.burst_active = TRUE,
                                    !.burst_expires = BurstUntil(t)])]

\* Mutant: the rollback forgets the lender's side.
CancelledLendsKept(borrower, need, from) == NewLends(borrower, need, from)

\* New loans that have been returned again.
CancelledLends(borrower, need, from) ==
  [i \in 1..Len(need) |-> [NewLends(borrower, need, from)[i] EXCEPT
                             !.outstanding = Sub(@, @)]]

\* Mutant: the rollback forgets to mark the borrows recalled.
CancelledBorrowsUnmarked(borrower, need, from) ==
  [i \in 1..Len(need) |-> [NewBorrows(borrower, need, from)[i] EXCEPT
                             !.consumed = Sub(@, @)]]

CancelledBorrows(borrower, need, from) ==
  [i \in 1..Len(need) |-> [NewBorrows(borrower, need, from)[i] EXCEPT
                             !.consumed = Sub(@, @), !.recalled = TRUE]]

CancelledUsage(borrower, need, from) ==
  LET back == VSum(need, DOMAIN need)
  IN  [WithLent(need, from) EXCEPT
         ![borrower].borrowed_consumed = Sub(Add(@, back), back),
         ![borrower].debt = Sub(Add(@, back), back)]

(***************************************************************************)
(* A request that borrows in several dimensions, and finds no lender for   *)
(* one of them: the n borrows made before it are returned one by one and   *)
(* the call fails.  Neither party is synced.                               *)
(***************************************************************************)
ReserveRolledBack(t, req, auth) ==
  /\ Admitted(t, req, auth)
  /\ \E n \in 1..MaxBorrows : \E dims \in InOrder(ExcessDims(t, req), n + 1) :
       LET need    == Excesses(t, req, dims, n)
           refused == Excesses(t, req, dims, n + 1)[n + 1]
       IN  /\ Len(borrows) + n <= MaxBorrows
           /\ \A x \in Tenant : ~CanLend(x, t, refused)
           /\ \E from \in [1..n -> Tenant] :
                /\ \A i \in 1..n : CanLend(from[i], t, need[i])
                /\ lends' = lends \o CancelledLends(t, need, from)
                /\ borrows' = borrows \o CancelledBorrows(t, need, from)
                /\ usage' = CancelledUsage(t, need, from)
  /\ UNCHANGED <<authVars, quotaVars, windows, resVars, allocations, now>>

-----------------------------------------------------------------------------
(***************************************************************************)
(* Allocations and release.                                                *)
(***************************************************************************)
StartAllocation(t, rid, req, auth) ==
  /\ Len(allocations) < MaxAllocations
  /\ ValidAuthority(auth)
  /\ allocations' = Append(allocations,
       [tenant |-> t, reservation |-> rid,
        resources |-> req, used |-> Empty, active |-> TRUE])
  /\ reservations' = [reservations EXCEPT ![rid].status = "CONSUMED"]
  /\ UNCHANGED <<authVars, quotaVars, windows, funding, nextRes, ledgerVars, now>>
  /\ usage' = [usage EXCEPT ![t] = Synced(t, @)]

\* What an allocation uses after a resize.
Resized(used, delta, resources) == Min2(AddSaturating(used, delta), resources)

(***************************************************************************)
(* used is written first; a denial then returns without undoing the write  *)
(* and without a sync.                                                     *)
(***************************************************************************)
ResizeAllocation(t, aid, delta, auth) ==
  LET resources == allocations[aid].resources
  IN  /\ ~StaleQuotaGen(auth)
      /\ allocations' = [allocations EXCEPT
           ![aid].used = Resized(@, delta, resources)]
      /\ UNCHANGED <<authVars, quotaVars, windows, resVars, ledgerVars, now>>
      /\ usage' = IF classify(t, resources)
                       \in {"DENY_HARD", "DENY_PARENT", "DENY_PHYSICAL"}
                  THEN usage
                  ELSE [usage EXCEPT ![t] = Synced(t, @)]

\* Mutant: ends none of them.
EndedAllocationsNone(rid) == allocations

\* The allocations with those of one reservation ended.
EndedAllocations(rid) ==
  [a \in DOMAIN allocations |->
     [allocations[a] EXCEPT !.active = @ /\ allocations[a].reservation # rid]]

Release(t, rid, auth) ==
  LET B == funding[rid].borrows
  IN  /\ ~StaleEpoch(auth)
      /\ borrows' = ReturnedBorrows(B)
      /\ lends' = ReturnedLends(B)
      /\ allocations' = EndedAllocations(rid)
      /\ reservations' = Restrict(reservations, DOMAIN reservations \ {rid})
      /\ funding' = Restrict(funding, DOMAIN funding \ {rid})
      /\ UNCHANGED <<authVars, quotaVars, windows, nextRes, now>>
      /\ usage' = [ReturnedUsage(B) EXCEPT ![t] = Synced(t, @)]

ReleaseAllocation(t, aid, auth) ==
  /\ ~StaleQuotaGen(auth)
  /\ allocations' = [allocations EXCEPT ![aid].active = FALSE]
  /\ UNCHANGED <<authVars, quotaVars, windows, resVars, ledgerVars, now>>
  /\ usage' = [usage EXCEPT ![t] = Synced(t, @)]

-----------------------------------------------------------------------------
(***************************************************************************)
(* borrow, lend and recall_borrow.  lend checks the named lender, but the  *)
(* loan comes from the lender borrow_impl finds.                           *)
(***************************************************************************)
OpenLoan(borrower, amount, from) ==
  /\ Len(borrows) < MaxBorrows
  /\ CanLend(from, borrower, amount)
  /\ lends' = lends \o NewLends(borrower, <<amount>>, <<from>>)
  /\ borrows' = borrows \o NewBorrows(borrower, <<amount>>, <<from>>)

Borrow(borrower, amount, auth) ==
  /\ ValidAuthority(auth)
  /\ \E from \in Tenant :
       /\ OpenLoan(borrower, amount, from)
       /\ UNCHANGED <<authVars, quotaVars, windows, resVars, allocations, now>>
       /\ usage' = [WithLent(<<amount>>, <<from>>) EXCEPT
                      ![borrower] = Synced(borrower, @)]

Lend(lender, borrower, amount, auth) ==
  /\ ValidAuthority(auth)
  /\ \A d \in DOMAIN amount :
       /\ d \in DOMAIN effective_lattice(lender).borrowable
       /\ available_to_lend(lender, d) >= amount[d]
  /\ \E from \in Tenant :
       /\ OpenLoan(borrower, amount, from)
       /\ UNCHANGED <<authVars, quotaVars, windows, resVars, allocations, now>>
       /\ usage' = [[WithLent(<<amount>>, <<from>>) EXCEPT
                       ![lender] = Synced(lender, @)] EXCEPT
                       ![borrower] = Synced(borrower, @)]

RecallBorrow(bid, borrower, lender, auth) ==
  /\ ~StaleEpoch(auth)
  /\ borrows[bid].lender = lender
  /\ borrows' = ReturnedBorrows({bid})
  /\ lends' = ReturnedLends({bid})
  /\ UNCHANGED <<authVars, quotaVars, windows, resVars, allocations, now>>
  /\ usage' = [[ReturnedUsage({bid}) EXCEPT
                  ![borrower] = Synced(borrower, @)] EXCEPT
                  ![lender] = Synced(lender, @)]

-----------------------------------------------------------------------------
(***************************************************************************)
(* apply_observation.                                                      *)
(***************************************************************************)
(***************************************************************************)
(* COMPUTE_INTERVAL and TRANSFER_CONSUMED.  The sample carries its own     *)
(* time, read from the monotonic clock of the same host, so at most now.   *)
(* The bandwidth dimensions are consumable too, but no observation feeds   *)
(* their windows; Consumable need not hold them.                           *)
(***************************************************************************)
ObserveWindow(t, d, amount, at) ==
  /\ Len(windows[t][d].samples) < MaxSamples
  /\ windows' = [windows EXCEPT ![t][d] =
                   AddSample(@, IF at > 0 THEN at ELSE now, amount)]
  /\ UNCHANGED <<authVars, quotaVars, usage, resVars, allocations, ledgerVars, now>>

\* v.set(d, x), which ignores a negative x.
SetAmount(v, d, x) ==
  IF x < 0 THEN v
  ELSE [e \in DOMAIN v \cup {d} |-> IF e = d THEN x ELSE v[e]]

\* USAGE_DELTA, KV_USAGE_CHANGE and TENSOR_USAGE_CHANGE.
ObserveDelta(t, d, amount) ==
  LET total == Get(usage[t].consumption, d) + amount
  IN  /\ total <= MaxInt
      /\ usage' = [usage EXCEPT ![t].consumption = SetAmount(@, d, total)]
      /\ UNCHANGED <<authVars, quotaVars, windows, resVars, allocations,
                     ledgerVars, now>>

(***************************************************************************)
(* MODEL_RESIDENCY_ADDED also overwrites the usage of the allocation it    *)
(* names, if there is one, with the tenant's new total.                    *)
(***************************************************************************)
ResidencyAdded(t, aid, amount) ==
  LET total == Get(usage[t].consumption, ModelResidency) + amount
  IN  /\ total <= MaxInt
      /\ usage' = [usage EXCEPT ![t].consumption =
                     SetAmount(@, ModelResidency, total)]
      /\ allocations' = [a \in DOMAIN allocations |->
           IF a = aid
           THEN [allocations[a] EXCEPT !.used =
                   SetAmount(@, ModelResidency, total)]
           ELSE allocations[a]]
      /\ UNCHANGED <<authVars, quotaVars, windows, resVars, ledgerVars, now>>

ResidencyRemoved(t, amount) ==
  LET total == Greater(0, Get(usage[t].consumption, ModelResidency) - amount)
  IN  /\ total <= MaxInt
      /\ usage' = [usage EXCEPT ![t].consumption =
                     SetAmount(@, ModelResidency, total)]
      /\ UNCHANGED <<authVars, quotaVars, windows, resVars, allocations,
                     ledgerVars, now>>

Tick ==
  /\ now < MaxTime
  /\ now' = now + 1
  /\ UNCHANGED <<authVars, quotaVars, usage, windows, resVars, allocations,
                 ledgerVars>>

-----------------------------------------------------------------------------
(***************************************************************************)
(* One call with the authority auth.  The tenant of a record is looked up  *)
(* here; a call that names an absent, released or returned record fails.   *)
(***************************************************************************)
Call(auth) ==
  \E t \in Tenant :
    \/ \E req \in Requests :
         Reserve(t, req, auth) \/ ReserveRolledBack(t, req, auth)
    \/ \E rid \in LiveReservations(t) :
         \/ \E req \in Requests : StartAllocation(t, rid, req, auth)
         \/ Release(t, rid, auth)
    \/ \E aid \in ActiveAllocations(t) :
         \/ \E delta \in Deltas : ResizeAllocation(t, aid, delta, auth)
         \/ ReleaseAllocation(t, aid, auth)
    \/ \E amount \in Loans :
         \/ Borrow(t, amount, auth)
         \/ \E lender \in Tenant : Lend(lender, t, amount, auth)
    \/ \E bid \in OpenBorrows(t), lender \in Tenant :
         RecallBorrow(bid, t, lender, auth)

Configure ==
  \/ \E p \in PolicyGenerations : SetPolicy(p)
  \/ AdvanceEpoch
  \/ \E t \in Tenant : \E q \in TenantQuotas[t] : SetTenantQuota(t, q)
  \/ \E g \in Group : \E q \in GroupQuotas[g] : SetGroupQuota(g, q)

Observe ==
  \E t \in Tenant :
    \/ \E d \in Consumable, amount \in Samples, at \in 0..now :
         ObserveWindow(t, d, amount, at)
    \/ \E amount \in UsageDeltas :
         \/ \E d \in Dim : ObserveDelta(t, d, amount)
         \/ \E aid \in 0..Len(allocations) : ResidencyAdded(t, aid, amount)
         \/ ResidencyRemoved(t, amount)

Next == Configure \/ (\E auth \in Authority : Call(auth)) \/ Observe \/ Tick

Spec == Init /\ [][Next]_vars
=============================================================================
