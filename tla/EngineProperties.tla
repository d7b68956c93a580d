--------------------------- MODULE EngineProperties ---------------------------
(***************************************************************************)
(* What the quota engine promises: invariants and action properties of     *)
(* module QuotaEngine.                                                     *)
(***************************************************************************)
EXTENDS QuotaEngine

\* What the live reservations of a tenant hold, from the records alone.
Held(t) ==
  VSum([r \in LiveReservations(t) |-> reservations[r].resources],
       LiveReservations(t))

\* What the borrows that fund the live reservations of a tenant still hold.
Funded(t) ==
  LET bids == UNION {funding[r].borrows : r \in LiveReservations(t)}
  IN  VSum([b \in bids |-> borrows[b].consumed], bids)

GroupHeld(g) == VSum([t \in Subtree(g) |-> Held(t)], Subtree(g))

Above(x, limit) == Greater(0, x - limit)

(***************************************************************************)
(* start_allocation makes sync_usage count nothing of the reservation as   *)
(* reserved (see AbsoluteCeiling), so the limits below are stated of       *)
(* tenants that run nothing, or never did.                                 *)
(***************************************************************************)
Idle(t) == ActiveAllocations(t) = {}
NeverRan(t) == \A a \in DOMAIN allocations : allocations[a].tenant # t

-----------------------------------------------------------------------------
(***************************************************************************)
(* The shape of the records.  The amounts of loans and of the counters are *)
(* sums; they are covered by the invariants below instead.                 *)
(***************************************************************************)
IsSequence(s) == s \in Seq(Range(s))

AuthorityTyped ==
  /\ epoch \in Nat \ {0}
  /\ quota_generation \in Nat \ {0}
  /\ policy_generation \in PolicyGenerations
  /\ now \in Nat

QuotasTyped ==
  /\ DOMAIN local_quota \subseteq Tenant
  /\ \A t \in DOMAIN local_quota : local_quota[t] \in TenantQuotas[t]
  /\ DOMAIN group_quota \subseteq Group
  /\ \A g \in DOMAIN group_quota : group_quota[g] \in GroupQuotas[g]
  /\ DOMAIN usage = Tenant
  /\ DOMAIN windows = Tenant

LendFields == {"lender", "borrower", "amount", "outstanding"}
BorrowFields == {"borrower", "lender", "lending", "amount", "consumed", "recalled"}
AllocationFields == {"tenant", "reservation", "resources", "used", "active"}

LedgerTyped ==
  /\ IsSequence(lends)
  /\ \A l \in DOMAIN lends :
       /\ DOMAIN lends[l] = LendFields
       /\ lends[l].lender \in Tenant /\ lends[l].borrower \in Tenant
  /\ IsSequence(borrows)
  /\ \A b \in DOMAIN borrows :
       /\ DOMAIN borrows[b] = BorrowFields
       /\ borrows[b].borrower \in Tenant /\ borrows[b].lender \in Tenant
       /\ borrows[b].lending \in DOMAIN lends
       /\ borrows[b].recalled \in BOOLEAN

ReservationsTyped ==
  /\ nextRes \in Nat \ {0}
  /\ DOMAIN reservations \subseteq 1..(nextRes - 1)
  /\ DOMAIN funding = DOMAIN reservations
  /\ \A r \in DOMAIN reservations :
       /\ reservations[r] \in [tenant : Tenant, resources : Requests,
                               status : {"COMMITTED", "CONSUMED"}]
       /\ funding[r].borrows \subseteq DOMAIN borrows

AllocationsTyped ==
  /\ IsSequence(allocations)
  /\ \A a \in DOMAIN allocations :
       /\ DOMAIN allocations[a] = AllocationFields
       /\ allocations[a].tenant \in Tenant
       /\ allocations[a].reservation \in 1..(nextRes - 1)
       /\ allocations[a].resources \in Requests
       /\ allocations[a].active \in BOOLEAN

TypeOK ==
  /\ AuthorityTyped
  /\ QuotasTyped
  /\ LedgerTyped
  /\ ReservationsTyped
  /\ AllocationsTyped

\* The borrow b and the lending record l are the two sides of one loan.
Agree(b, l) ==
  /\ l.lender = b.lender
  /\ l.borrower = b.borrower
  /\ l.lender # l.borrower
  /\ l.amount = b.amount
  /\ l.outstanding = b.consumed
  /\ b.consumed = IF b.recalled THEN Sub(b.amount, b.amount) ELSE b.amount

(***************************************************************************)
(* Double-entry: every borrow has a lending record of its own that names   *)
(* the same two (different) tenants and the same amount, and the two sides *)
(* always agree on what is outstanding: all of it until the borrow is      *)
(* returned, and nothing (Sub(v, v) is v with every amount zero) from then *)
(* on.  borrow_impl writes the two sides together; return_borrow, through  *)
(* release, recall_borrow or a rollback, must lower both.                  *)
(***************************************************************************)
LedgerConserved ==
  /\ \A b \in DOMAIN borrows : Agree(borrows[b], lends[borrows[b].lending])
  /\ \A b, c \in DOMAIN borrows :
       borrows[b].lending = borrows[c].lending => b = c

(***************************************************************************)
(* The borrows that fund a live reservation were taken by its own tenant,  *)
(* and no borrow funds two reservations: release returns exactly what the  *)
(* reservation borrowed.                                                   *)
(***************************************************************************)
FundingSound ==
  \A r \in DOMAIN funding :
    /\ \A b \in funding[r].borrows : borrows[b].borrower = reservations[r].tenant
    /\ \A s \in DOMAIN funding :
         r # s => funding[r].borrows \cap funding[s].borrows = {}

(***************************************************************************)
(* An active allocation belongs to a reservation that is still live, of    *)
(* the same tenant and CONSUMED: release prunes a reservation only         *)
(* together with its allocations, so no usage outlives its entitlement.    *)
(***************************************************************************)
AllocationsLive ==
  \A a \in DOMAIN allocations :
    allocations[a].active =>
      /\ allocations[a].reservation \in DOMAIN reservations
      /\ reservations[allocations[a].reservation].tenant = allocations[a].tenant
      /\ reservations[allocations[a].reservation].status = "CONSUMED"

(***************************************************************************)
(* The loan book of module BorrowLedger: the terms of a loan as the        *)
(* lending record has them, and whether the borrow has been returned.      *)
(***************************************************************************)
Loan(b, l) == [lender |-> l.lender, borrower |-> b.borrower,
               amount |-> l.amount, settled |-> b.recalled]

LedgerLoans ==
  [b \in 1..Len(borrows) |-> Loan(borrows[b], lends[borrows[b].lending])]

LedgerBacking == [r \in DOMAIN funding |-> funding[r].borrows]

Ledger == INSTANCE BorrowLedger WITH loans <- LedgerLoans, backing <- LedgerBacking

(***************************************************************************)
(* The engine implements the ledger: no call rewrites or reopens a loan, a *)
(* request that fails half way leaves only settled loans behind, and a     *)
(* released reservation settles its own loans and no others, whatever      *)
(* recalls came first.                                                     *)
(***************************************************************************)
ImplementsLedger == Ledger!LedgerSpec

(***************************************************************************)
(* A reservation that goes away takes its loans and its allocations with   *)
(* it: no step leaves a borrow open or an allocation active whose          *)
(* reservation it removed (release).                                       *)
(***************************************************************************)
ReleaseStep ==
  \A r \in DOMAIN reservations :
    r \notin DOMAIN reservations' =>
      /\ \A b \in funding[r].borrows : borrows'[b].recalled
      /\ \A a \in DOMAIN allocations :
           allocations[a].reservation = r => ~allocations'[a].active

ReleaseComplete == [][ReleaseStep]_vars

-----------------------------------------------------------------------------
(***************************************************************************)
(* add drops an amount that would exceed INT64_MAX, and every later one,   *)
(* and nobody looks at its status.  What is proved of the sums the         *)
(* decisions rest on is proved while the counters stay below that.         *)
(***************************************************************************)
CountersFit ==
  \A t \in Tenant : \A d \in Dim :
    Get(usage[t].consumption, d) + Get(usage[t].reserved, d)
      + Get(usage[t].lent, d) <= MaxInt

(***************************************************************************)
(* The lent counter, which available_to_lend trusts, never shows less than *)
(* the lending records do: a stale counter may only be too high.           *)
(***************************************************************************)
LentNeverUnderstated ==
  \A t \in Tenant : \A d \in Dim :
    Get(usage[t].lent, d) >= Get(computed_lent(t), d)

(***************************************************************************)
(* "Borrowing never destroys the lender's guarantee": a step that lends    *)
(* leaves the loans and the own reservations of an idle lender together    *)
(* within what it may lend, min(borrowable, guaranteed).                   *)
(***************************************************************************)
LendStep ==
  \A t \in Tenant : \A d \in Dim :
    Idle(t) /\ Get(computed_lent(t)', d) > Get(computed_lent(t), d) =>
      Get(computed_lent(t)', d) + Get(Held(t)', d) <=
        Lesser(Get(effective_lattice(t).borrowable, d),
               Get(effective_lattice(t).guaranteed, d))

LendWithinGuarantee == [][LendStep]_vars

(***************************************************************************)
(* What is proved of limits is proved while what is consumed and reserved  *)
(* by all tenants together stays within INT64_MAX, for the limits of a     *)
(* tenant with room for one more request (add drops what overflows, and    *)
(* its callers ignore the status),                                         *)
(***************************************************************************)
InUse(d) ==
  SumFunction([t \in Tenant |-> Get(usage[t].consumption, d)])
    + SumFunction([r \in DOMAIN reservations |-> Get(reservations[r].resources, d)])

ResourcesFit == \A d \in Dim : InUse(d) <= MaxInt

RequestsFit ==
  \A d \in Dim : \A req \in Requests \cup {Empty} : InUse(d) + Get(req, d) <= MaxInt

(***************************************************************************)
(* and while no limit of a tenant that holds reservations is lowered.      *)
(***************************************************************************)
LimitsStep ==
  \A t \in Tenant : LiveReservations(t) # {} =>
    LET eff == effective_lattice(t)
    IN  \A d \in Dim : HardOf(eff, d)' >= HardOf(eff, d) /\ SoftOf(eff, d)' >= SoftOf(eff, d)

LimitsKept == [][LimitsStep]_vars

(***************************************************************************)
(* The hard limit holds in every order of reserving and releasing: what a  *)
(* tenant that never ran anything holds above its hard limit is covered by *)
(* the borrows that fund its live reservations, unless one of those was    *)
(* recalled under it.  (While its limits are not lowered: LimitsKept.)     *)
(***************************************************************************)
HardLimitHeld ==
  \A t \in Tenant :
    (/\ NeverRan(t)
     /\ \A r \in LiveReservations(t) : \A b \in funding[r].borrows :
          ~borrows[b].recalled)
      => \A d \in Dim \ Consumable :
           Get(Held(t), d) <= HardOf(effective_lattice(t), d) + Get(Funded(t), d)

(***************************************************************************)
(* What a tenant that never ran anything holds above its soft limit is     *)
(* covered by the burst charged to its live reservations, in every order   *)
(* of reserving and releasing, as long as none of them is funded by a      *)
(* borrow.  (While its limits are not lowered: LimitsKept.)                *)
(***************************************************************************)
BurstCoversSoft ==
  \A t \in Tenant :
    NeverRan(t) /\ (\A r \in LiveReservations(t) : funding[r].borrows = {})
      => \A d \in Dim \ Consumable :
           Above(Get(Held(t), d), SoftOf(effective_lattice(t), d))
             <= Get(computed_burst(t), d)

(***************************************************************************)
(* A parent ceiling binds the whole subtree: no step that makes the        *)
(* tenants below a group hold more of a resource, all of them idle, takes  *)
(* them above the group's hard limit (the parent_hard_ok loop of classify, *)
(* which reads counters and skips the consumable dimensions).              *)
(***************************************************************************)
GroupStep ==
  \A g \in DOMAIN group_quota : \A d \in DOMAIN group_quota[g].hard_limit \ Consumable :
    (/\ \A t \in Subtree(g) : Idle(t)
     /\ Get(GroupHeld(g)', d) > Get(GroupHeld(g), d))
      => Get(GroupHeld(g)', d) <= group_quota[g].hard_limit[d]

GroupCeiling == [][GroupStep]_vars

(***************************************************************************)
(* The counters the decisions read are the sums of the records: reserved   *)
(* and consumption exactly, borrowed and debt up to present bits.  Every   *)
(* method has to sync each tenant whose records it changed.                *)
(***************************************************************************)
CountersMatchRecords ==
  \A t \in Tenant :
    /\ usage[t].reserved = RemainingReserved(t)
    /\ usage[t].consumption = computed_consumed(t)
    /\ SameAmounts(usage[t].borrowed_consumed, computed_borrowed(t))
    /\ SameAmounts(usage[t].debt, computed_debt(t))

-----------------------------------------------------------------------------
(***************************************************************************)
(* The total of a window is capped at INT64_MAX, but what expires is taken *)
(* from it in full.  What is proved of windows is proved while there is    *)
(* always room for one more sample.                                        *)
(***************************************************************************)
WindowsFit ==
  \A t \in Tenant : \A d \in Consumable : \A amount \in Samples :
    windows[t][d].total + amount <= MaxInt

(***************************************************************************)
(* The running total of a rolling window is the sum of its samples, in     *)
(* whatever order late samples arrive and expire.                          *)
(***************************************************************************)
WindowTotalExact ==
  \A t \in Tenant : \A d \in Consumable :
    windows[t][d].total = Amount(windows[t][d].samples)

(***************************************************************************)
(* No step forgets consumption that is still inside the window, whatever   *)
(* the timestamp of the observation that makes it expire samples.          *)
(***************************************************************************)
WindowStep ==
  \A t \in Tenant : \A d \in Consumable :
    windows'[t][d].total >= InWindow(windows[t][d], now)

WindowRemembers == [][WindowStep]_vars

-----------------------------------------------------------------------------
(***************************************************************************)
(* Statements of the documentation and of invariants_ok that the engine    *)
(* does not keep; modules Compliance and Recovery have two more.           *)
(***************************************************************************)
(***************************************************************************)
(* core/quota.hpp: hard_limit is the "absolute ceiling".  A step that      *)
(* makes a tenant hold more raises what it holds above its hard limit by   *)
(* no more than the step borrows.                                          *)
(***************************************************************************)
CeilingStep ==
  \A t \in Tenant : \A d \in Dim \ Consumable :
    Get(Held(t)', d) > Get(Held(t), d) =>
      LET hard == HardOf(effective_lattice(t), d)
      IN  Above(Get(Held(t)', d), hard) - Above(Get(Held(t), d), hard) <=
            Get(computed_borrowed(t)', d) - Get(computed_borrowed(t), d)

AbsoluteCeiling == [][CeilingStep]_vars

(***************************************************************************)
(* README.md: "Burst is bounded and time-windowed; [...] never 'infinite   *)
(* temporary'."  Burst is charged to a tenant only while its burst window  *)
(* is open: sync_usage clears the charge and closes the window together,   *)
(* and what is charged again opens a new one.                              *)
(***************************************************************************)
BurstOnlyInWindow ==
  \A t \in Tenant : ~IsEmpty(usage[t].burst) => usage[t].burst_active

-----------------------------------------------------------------------------
(***************************************************************************)
(* The inductive invariant of the records: what every call relies on and   *)
(* every call leaves.                                                      *)
(***************************************************************************)
Records ==
  /\ LedgerTyped
  /\ ReservationsTyped
  /\ AllocationsTyped
  /\ LedgerConserved
  /\ FundingSound
  /\ AllocationsLive

IInv == AuthorityTyped /\ QuotasTyped /\ Records

\* The fields of the usage counters, whatever the amounts in them.
Counters == {"consumption", "reserved", "borrowed_consumed", "burst", "lent", "debt"}
UsageFields == Counters \cup {"burst_active", "burst_expires"}

\* The reserved counter of a tenant that runs nothing is what its reservations hold.
ReservedExact == \A t \in Tenant : Idle(t) => usage[t].reserved = Held(t)

UsageShaped == DOMAIN usage = Tenant /\ \A x \in Tenant : DOMAIN usage[x] = UsageFields

===============================================================================
