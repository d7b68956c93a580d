----------------------------- MODULE CounterProofs -----------------------------
(***************************************************************************)
(* The counters of the engine - windows, usage counters, the usage of an   *)
(* allocation - and the records they sum up.                               *)
(***************************************************************************)
EXTENDS EngineProperties, SumProofs

-----------------------------------------------------------------------------
(***************************************************************************)
(* Rolling windows.                                                        *)
(***************************************************************************)
\* Every window is exact.
WindowsExact ==
  /\ windows = [t \in Tenant |-> [d \in Consumable |-> windows[t][d]]]
  /\ \A t \in Tenant : \A d \in Consumable : WindowExact(windows[t][d])

\* Every step keeps the windows exact and forgets nothing that is in them.
LEMMA StepWindows ==
  IInv /\ WindowsExact /\ WindowsFit /\ [Next]_vars => WindowsExact' /\ WindowStep
\* A window that receives a sample; the others stay as they are.
<1>ObservationExact.
  ASSUME IInv, WindowsExact, WindowsFit, NEW t \in Tenant, NEW d \in Consumable,
         NEW amount \in Samples, NEW at \in 0..now, ObserveWindow(t, d, amount, at)
  PROVE  WindowsExact' /\ WindowStep
  <2> USE <1>ObservationExact
  <2>1. now \in Nat /\ amount \in Int
    BY InputAssumption DEF IInv, AuthorityTyped
  <2>2. PICK y, w : y = (IF at > 0 THEN at ELSE now) /\ w = windows[t][d]
    BY Zenon
  <2>3. y \in Nat /\ y <= now
    BY <2>1, <2>2
  <2>4. WindowExact(w) /\ w.total + amount <= MaxInt
    BY <2>2, Zenon DEF WindowsExact, WindowsFit
  <2>5. PICK v : v = AddSample(w, y, amount)
    BY Zenon
  <2>6. WindowExact(v) /\ v.total >= InWindow(w, now)
    BY <2>1, <2>3, <2>4, <2>5, SampleAdded, Zenon
  <2>7. windows' = [windows EXCEPT ![t][d] = v]
    BY <2>2, <2>5 DEF ObserveWindow
  <2>8. windows = [x \in Tenant |-> [e \in Consumable |-> windows[x][e]]]
    BY Zenon DEF WindowsExact
  <2>9. /\ windows' = [x \in Tenant |-> [e \in Consumable |-> windows'[x][e]]]
        /\ \A x \in Tenant : \A e \in Consumable :
             windows'[x][e] = IF x = t /\ e = d THEN v ELSE windows[x][e]
    BY <2>7, <2>8, Zenon
  <2>10. ASSUME NEW x \in Tenant, NEW e \in Consumable
         PROVE  WindowExact(windows'[x][e]) /\ windows'[x][e].total >= InWindow(windows[x][e], now)
    <3>1. WindowExact(windows[x][e])
      BY Zenon DEF WindowsExact
    <3>2. windows[x][e].total >= InWindow(windows[x][e], now)
      BY <2>1, <3>1, RecentWithinTotal, Zenon
    <3> QED
      BY <2>2, <2>6, <2>9, <3>1, <3>2, Zenon
  <2> QED
    BY <2>9, <2>10, Zenon DEF WindowsExact, WindowStep
\* A step that leaves the windows alone.
<1>WindowsLeft.
  ASSUME IInv, WindowsExact, windows' = windows
  PROVE  WindowsExact' /\ WindowStep
  <2> USE <1>WindowsLeft
  <2>1. now \in Nat
    BY DEF IInv, AuthorityTyped
  <2>2. ASSUME NEW x \in Tenant, NEW e \in Consumable
        PROVE  windows[x][e].total >= InWindow(windows[x][e], now)
    <3>1. WindowExact(windows[x][e])
      BY Zenon DEF WindowsExact
    <3> QED
      BY <2>1, <3>1, RecentWithinTotal, Zenon
  <2> QED
    BY <2>2, Zenon DEF WindowsExact, WindowStep
<1> SUFFICES ASSUME IInv, WindowsExact, WindowsFit, [Next]_vars
             PROVE  WindowsExact' /\ WindowStep
  BY Zenon
<1>1. CASE windows' = windows
  BY <1>1, <1>WindowsLeft, Zenon
<1>2. CASE \E t \in Tenant : \E d \in Consumable : \E amount \in Samples : \E at \in 0..now :
             ObserveWindow(t, d, amount, at)
  BY <1>2, <1>ObservationExact, Zenon
<1>3. Observe => \/ windows' = windows
                 \/ \E t \in Tenant : \E d \in Consumable : \E amount \in Samples :
                      \E at \in 0..now : ObserveWindow(t, d, amount, at)
  BY Zenon DEF Observe, ObserveDelta, ResidencyAdded, ResidencyRemoved
<1>4. Configure \/ Tick \/ UNCHANGED vars => windows' = windows
  BY Zenon DEF Configure, SetPolicy, AdvanceEpoch, SetTenantQuota, SetGroupQuota, Tick, vars
<1>5. ASSUME NEW auth, Call(auth) PROVE windows' = windows
  <2>1. ASSUME NEW t, NEW req, Reserve(t, req, auth) PROVE windows' = windows
    <3>1. UNCHANGED <<authVars, quotaVars, windows, allocations, now>>
      BY <2>1, Zenon DEF Reserve
    <3> QED
      BY <3>1
  <2>2. \A t, req : ReserveRolledBack(t, req, auth) => windows' = windows
    BY Zenon DEF ReserveRolledBack
  <2>3. \A t, rid, req : StartAllocation(t, rid, req, auth) \/ Release(t, rid, auth)
                          => windows' = windows
    BY Zenon DEF StartAllocation, Release
  <2>4. \A t, aid, delta : ResizeAllocation(t, aid, delta, auth) \/ ReleaseAllocation(t, aid, auth)
                          => windows' = windows
    BY Zenon DEF ResizeAllocation, ReleaseAllocation
  <2>5. \A t, lender, amount : Borrow(t, amount, auth) \/ Lend(lender, t, amount, auth)
                          => windows' = windows
    BY Zenon DEF Borrow, Lend
  <2>6. \A t, lender, bid : RecallBorrow(bid, t, lender, auth) => windows' = windows
    BY Zenon DEF RecallBorrow
  <2> QED
    BY <1>5, <2>1, <2>2, <2>3, <2>4, <2>5, <2>6, Zenon DEF Call
<1> QED
  BY <1>1, <1>2, <1>3, <1>4, <1>5, Zenon DEF Next

\* All windows are empty at first.
LEMMA InitWindows == Init => WindowsExact
<1> SUFFICES ASSUME Init PROVE WindowsExact
  BY Zenon
<1>1. windows = [t \in Tenant |-> [d \in Consumable |-> EmptyWindow]]
  BY Zenon DEF Init
<1>2. <<>> \in Seq(Sample) /\ Len(<<>>) = 0 /\ 1..0 = {}
  OBVIOUS
<1>3. Amount(<<>>) = 0
  BY <1>2, AmountIs, SumEmpty, Zenon
<1>4. EmptyWindow.samples = <<>> /\ EmptyWindow.total = 0
  BY DEF EmptyWindow
<1>5. WindowExact(EmptyWindow)
  BY <1>2, <1>3, <1>4, Zenon DEF WindowExact, EmptyWindow
<1>6. \A t \in Tenant : \A d \in Consumable : windows[t][d] = EmptyWindow
  BY <1>1, Zenon
<1>7. windows = [t \in Tenant |-> [d \in Consumable |-> windows[t][d]]]
  BY <1>1
<1> QED
  BY <1>5, <1>6, <1>7, Zenon DEF WindowsExact

-----------------------------------------------------------------------------
(***************************************************************************)
(* The counters.                                                           *)
(***************************************************************************)

\* u is a set of counters: every amount in it is a vector.
UsageTyped(u) ==
  /\ DOMAIN u = UsageFields
  /\ \A f \in Counters : u[f] \in Vector

CountersTyped == \A t \in Tenant : UsageTyped(usage[t])

\* Every amount in the records is a vector.
AmountsTyped ==
  /\ LoansTyped(lends)
  /\ \A b \in DOMAIN borrows : borrows[b].amount \in Vector /\ borrows[b].consumed \in Vector
  /\ \A a \in DOMAIN allocations : allocations[a].used \in Vector
  /\ \A r \in DOMAIN funding : funding[r].burst \in Vector

\* What the lending records say a tenant has lent, without overflow.
LentTotal(t, d) == LentIn(lends, t, d)

\* The lent counter covers it.
LentCovered ==
  \A t \in Tenant : \A d \in Dim : LentTotal(t, d) <= Get(usage[t].lent, d)

CInv == IInv /\ AmountsTyped /\ CountersTyped /\ LentCovered

-----------------------------------------------------------------------------
\* The limits of every tenant are vectors (effective_lattice).
LimitsTyped ==
  \A t \in Tenant : \A kind \in LimitKinds : effective_lattice(t)[kind] \in Vector

\* The limits in force are vectors whenever the quotas are well formed.
LEMMA LimitsAreTyped == QuotasTyped => LimitsTyped
<1> SUFFICES ASSUME QuotasTyped, NEW t \in Tenant, NEW kind \in LimitKinds
             PROVE  effective_lattice(t)[kind] \in Vector
  BY DEF LimitsTyped
<1> DEFINE groups == AncestorGroups(t) \cap DOMAIN group_quota
           own == {local_quota[x] : x \in {t} \cap DOMAIN local_quota}
           quotas == {group_quota[g] : g \in groups} \cup own
           last == IF own = {} THEN group_quota[CHOOSE g \in groups : groups \subseteq Ancestors[g]]
                   ELSE local_quota[t]
<1>1. quotas \subseteq Quota
  BY InputAssumption DEF QuotasTyped
<1>2. effective_lattice(t) = IF quotas = {} THEN NoQuota ELSE EffectiveLattice(quotas, last)
  BY DEF effective_lattice
<1> HIDE DEF quotas, last
<1>3. NoQuota[kind] \in Vector
  BY EmptyVector DEF NoQuota, LimitKinds
<1> QED
  BY <1>1, <1>2, <1>3, EffectiveVectors

-----------------------------------------------------------------------------
(***************************************************************************)
(* What sync_usage computes from the records.                              *)
(***************************************************************************)
ComputedTyped ==
  \A t \in Tenant :
    /\ computed_consumed(t) \in Vector
    /\ RemainingReserved(t) \in Vector
    /\ computed_borrowed(t) \in Vector
    /\ computed_debt(t) \in Vector
    /\ computed_lent(t) \in Vector
    /\ computed_burst(t) \in Vector

\* The tables are finite.
LEMMA TablesFinite ==
  ASSUME Records
  PROVE  /\ IsFiniteSet(DOMAIN lends)
         /\ IsFiniteSet(DOMAIN borrows)
         /\ IsFiniteSet(DOMAIN allocations)
         /\ IsFiniteSet(DOMAIN reservations)
         /\ DOMAIN funding = DOMAIN reservations
<1>1. /\ Len(lends) \in Nat /\ DOMAIN lends = 1..Len(lends)
      /\ Len(borrows) \in Nat /\ DOMAIN borrows = 1..Len(borrows)
      /\ Len(allocations) \in Nat /\ DOMAIN allocations = 1..Len(allocations)
  BY DEF Records, LedgerTyped, AllocationsTyped, IsSequence
<1>2. nextRes \in Nat /\ DOMAIN reservations \subseteq 1..(nextRes - 1) /\ nextRes - 1 \in Int
  BY DEF Records, ReservationsTyped
<1>3. \A n \in Int : IsFiniteSet(1..n)
  BY IntervalFinite
<1>4. IsFiniteSet(DOMAIN reservations)
  BY <1>2, <1>3, SubsetFinite, Zenon
<1>5. DOMAIN funding = DOMAIN reservations
  BY DEF Records, ReservationsTyped
<1> QED
  BY <1>1, <1>3, <1>4, <1>5

\* Every counter a sync computes from the records is a vector.
LEMMA SumsAreTyped == Records /\ AmountsTyped => ComputedTyped
<1> SUFFICES ASSUME Records, AmountsTyped, NEW t \in Tenant
             PROVE  /\ computed_consumed(t) \in Vector
                    /\ RemainingReserved(t) \in Vector
                    /\ computed_borrowed(t) \in Vector
                    /\ computed_debt(t) \in Vector
                    /\ computed_lent(t) \in Vector
                    /\ computed_burst(t) \in Vector
  BY DEF ComputedTyped
<1>0. ASSUME NEW S, IsFiniteSet(S), NEW T \in SUBSET S, NEW f, \A x \in T : f[x] \in Vector
      PROVE  VSum(f, T) \in Vector
  BY <1>0, VSumAtMost, SubsetFinite DEF Vectors
<1>1. computed_consumed(t) \in Vector
  <2> DEFINE T == ActiveAllocations(t)
             f == [a \in T |-> allocations[a].used]
  <2>1. T \in SUBSET DOMAIN allocations /\ \A x \in T : f[x] \in Vector
    BY DEF ActiveAllocations, AmountsTyped
  <2> HIDE DEF f, T
  <2>2. VSum(f, T) \in Vector
    BY <1>0, <2>1, TablesFinite
  <2> QED
    BY <2>2 DEF computed_consumed, f, T
<1>2. ASSUME NEW r \in LiveReservations(t)
      PROVE  Remaining(t, r) \in Vector
  <2> DEFINE under == {a \in ActiveAllocations(t) : allocations[a].reservation = r}
             f == [a \in under |-> allocations[a].used]
             used == VSum(f, under)
             res == reservations[r].resources
  <2>1. under \in SUBSET DOMAIN allocations /\ \A x \in under : f[x] \in Vector
    BY DEF ActiveAllocations, AmountsTyped
  <2>2. res \in Vector
    BY InputAssumption DEF LiveReservations, Records, ReservationsTyped
  <2>3. Remaining(t, r) = IF under = {} THEN res ELSE Sub(res, Min2(used, res))
    BY DEF Remaining
  <2> HIDE DEF f, under, res
  <2>4. used \in Vector
    BY <1>0, <2>1, TablesFinite
  <2> HIDE DEF used
  <2> QED
    BY <2>2, <2>3, <2>4, Min2Vector, SubVector, Zenon
<1>3. RemainingReserved(t) \in Vector
  <2> DEFINE T == LiveReservations(t)
             f == [r \in T |-> Remaining(t, r)]
  <2>1. T \in SUBSET DOMAIN reservations /\ \A x \in T : f[x] \in Vector
    BY <1>2 DEF LiveReservations
  <2> HIDE DEF f, T
  <2>2. VSum(f, T) \in Vector
    BY <1>0, <2>1, TablesFinite
  <2> QED
    BY <2>2 DEF RemainingReserved, f, T
<1>4. computed_borrowed(t) \in Vector /\ computed_debt(t) \in Vector
  <2> DEFINE T == OpenBorrows(t)
             f == [b \in T |-> borrows[b].consumed]
             g == [b \in T |-> borrows[b].amount]
  <2>1. T \in SUBSET DOMAIN borrows /\ \A x \in T : f[x] \in Vector /\ g[x] \in Vector
    BY DEF OpenBorrows, AmountsTyped
  <2> HIDE DEF f, g, T
  <2>2. VSum(f, T) \in Vector /\ VSum(g, T) \in Vector
    BY <1>0, <2>1, TablesFinite
  <2> QED
    BY <2>2 DEF computed_borrowed, computed_debt, f, g, T
<1>5. computed_lent(t) \in Vector
  <2> DEFINE T == {l \in DOMAIN lends : lends[l].lender = t}
             f == [l \in T |-> lends[l].outstanding]
  <2>1. T \in SUBSET DOMAIN lends /\ \A x \in T : f[x] \in Vector
    BY DEF AmountsTyped, LoansTyped
  <2> HIDE DEF f, T
  <2>2. VSum(f, T) \in Vector
    BY <1>0, <2>1, TablesFinite
  <2> QED
    BY <2>2 DEF computed_lent, f, T
<1>6. computed_burst(t) \in Vector
  <2> DEFINE T == LiveReservations(t)
             f == [r \in T |-> funding[r].burst]
  <2>1. T \in SUBSET DOMAIN reservations /\ \A x \in T : f[x] \in Vector
    BY TablesFinite DEF LiveReservations, AmountsTyped
  <2> HIDE DEF f, T
  <2>2. VSum(f, T) \in Vector
    BY <1>0, <2>1, TablesFinite
  <2> QED
    BY <2>2 DEF computed_burst, f, T
<1> QED
  BY <1>1, <1>3, <1>4, <1>5, <1>6

\* The lent counter of a sync is never more than the records say, and exactly
\* that where it fits.
LentSums ==
  \A t \in Tenant :
    /\ \A d \in Dim : LentTotal(t, d) \in Nat /\ Get(computed_lent(t), d) <= LentTotal(t, d)
    /\ (\A d \in Dim : LentTotal(t, d) <= MaxInt)
         => \A d \in Dim : Get(computed_lent(t), d) = LentTotal(t, d)

\* The lent counter a sync computes is the sum over the lends, up to MaxInt.
LEMMA LentSumsHold == Records /\ AmountsTyped => LentSums
<1> SUFFICES ASSUME Records, AmountsTyped, NEW t \in Tenant
             PROVE  /\ \A d \in Dim : /\ LentTotal(t, d) \in Nat
                                      /\ Get(computed_lent(t), d) <= LentTotal(t, d)
                    /\ (\A d \in Dim : LentTotal(t, d) <= MaxInt)
                         => \A d \in Dim : Get(computed_lent(t), d) = LentTotal(t, d)
  BY DEF LentSums
<1>1. computed_lent(t) = VSum([l \in LendsOf(lends, t) |-> lends[l].outstanding], LendsOf(lends, t))
  BY Zenon DEF computed_lent, LendsOf
<1>2. IsFiniteSet(DOMAIN lends) /\ LoansTyped(lends)
  BY TablesFinite DEF AmountsTyped
<1> QED
  BY <1>1, <1>2, LentSummed, Zenon DEF LentTotal

(***************************************************************************)
(* A call first updates counters by hand, to W, and then syncs some of the *)
(* tenants.  If W covers the lending records the call leaves behind, so do *)
(* the counters it leaves behind: what a sync recomputes then fits.        *)
(***************************************************************************)
LEMMA SyncKeeps ==
  ASSUME Records', AmountsTyped', NEW W,
         \A x \in Tenant : /\ UsageTyped(W[x])
                           /\ \A d \in Dim : LentTotal(x, d)' <= Get(W[x].lent, d),
         \A x \in Tenant : \/ usage'[x] = W[x]
                           \/ \E u : UsageTyped(u) /\ usage'[x] = Synced(x, u)
  PROVE  CountersTyped' /\ LentCovered'
\* The counters sync_usage leaves behind.
<1>SyncedCounters.
  ASSUME ComputedTyped', NEW x \in Tenant, NEW u, UsageTyped(u)
  PROVE  /\ UsageTyped(Synced(x, u))
         /\ Synced(x, u).lent = computed_lent(x)'
         /\ Synced(x, u).reserved = RemainingReserved(x)'
         /\ Synced(x, u).consumption = computed_consumed(x)'
         /\ Synced(x, u).burst_expires = u.burst_expires
  <2> USE <1>SyncedCounters
  <2> DEFINE s == Synced(x, u)
             expired == u.burst_active /\ now >= u.burst_expires
  <2>1. /\ DOMAIN s = UsageFields
        /\ s.consumption = computed_consumed(x)'
        /\ s.reserved = RemainingReserved(x)'
        /\ s.borrowed_consumed = computed_borrowed(x)'
        /\ s.lent = computed_lent(x)'
        /\ s.burst = IF expired THEN Empty ELSE computed_burst(x)'
        /\ s.debt = computed_debt(x)'
        /\ s.burst_expires = u.burst_expires
    <3>1. DOMAIN u = UsageFields
      BY DEF UsageTyped
    <3> QED
      BY <3>1, Zenon DEF Synced, UsageFields, Counters
  <2>2. /\ computed_consumed(x)' \in Vector /\ RemainingReserved(x)' \in Vector
        /\ computed_borrowed(x)' \in Vector /\ computed_debt(x)' \in Vector
        /\ computed_lent(x)' \in Vector /\ computed_burst(x)' \in Vector
    BY DEF ComputedTyped
  <2> HIDE DEF s, expired
  <2>3. UsageTyped(s)
    BY <2>1, <2>2, EmptyVector DEF UsageTyped, Counters
  <2> QED
    BY <2>1, <2>3 DEF s
<1>1. ComputedTyped' /\ LentSums'
  <2>1. Records' /\ AmountsTyped' => ComputedTyped'
    BY SumsAreTyped, PTL
  <2>2. Records' /\ AmountsTyped' => LentSums'
    BY LentSumsHold, PTL
  <2> QED
    BY <2>1, <2>2
<1>2. ASSUME NEW x \in Tenant
      PROVE  UsageTyped(usage'[x]) /\ \A d \in Dim : LentTotal(x, d)' <= Get(usage'[x].lent, d)
  <2>1. CASE usage'[x] = W[x]
    BY <2>1
  <2>2. ASSUME NEW u, UsageTyped(u), usage'[x] = Synced(x, u)
        PROVE  UsageTyped(usage'[x]) /\ \A d \in Dim : LentTotal(x, d)' <= Get(usage'[x].lent, d)
    <3>1. UsageTyped(usage'[x]) /\ usage'[x].lent = computed_lent(x)'
      BY <1>1, <2>2, <1>SyncedCounters
    <3>2. W[x].lent \in Vector
      BY DEF UsageTyped, Counters
    <3>3. \A d \in Dim : LentTotal(x, d)' \in Nat /\ Get(W[x].lent, d) \in 0..MaxInt
      BY <1>1, <3>2, VectorShape DEF LentSums
    <3>4. \A d \in Dim : LentTotal(x, d)' <= MaxInt
      BY <3>3, MaxIntAssumption
    <3>5. \A d \in Dim : Get(computed_lent(x)', d) = LentTotal(x, d)'
      BY <1>1, <3>4 DEF LentSums
    <3> QED
      BY <3>1, <3>3, <3>5
  <2> QED
    BY <2>1, <2>2
<1> QED
  BY <1>2 DEF CountersTyped, LentCovered

-----------------------------------------------------------------------------
(***************************************************************************)
(* Lending.  What a lender is asked for in one dimension fits beside what  *)
(* it holds and has lent (available_to_lend).                              *)
(***************************************************************************)
LEMMA LendRoom ==
  ASSUME QuotasTyped, CountersTyped, NEW x \in Tenant, NEW t, NEW amount \in Vector,
         CanLend(x, t, amount), NEW d
  PROVE  /\ Get(amount, d) > 0 =>
              Get(Committed(x), d) + Get(usage[x].lent, d) + Get(amount, d)
                <= Lesser(Get(effective_lattice(x).borrowable, d),
                          Get(effective_lattice(x).guaranteed, d))
         /\ Get(usage[x].lent, d) + Get(amount, d) <= MaxInt
<1>1. /\ effective_lattice(x).borrowable \in Vector /\ effective_lattice(x).guaranteed \in Vector
      /\ usage[x].lent \in Vector /\ usage[x].consumption \in Vector
      /\ usage[x].reserved \in Vector
  BY LimitsAreTyped DEF LimitsTyped, LimitKinds, CountersTyped, UsageTyped, Counters
<1>2. Committed(x) \in Vector
  BY <1>1, AddVector DEF Committed
<1> DEFINE g == Lesser(Get(effective_lattice(x).borrowable, d),
                       Get(effective_lattice(x).guaranteed, d))
           c == Get(Committed(x), d)
           l == Get(usage[x].lent, d)
           a == Get(amount, d)
<1>3. /\ Get(effective_lattice(x).borrowable, d) \in 0..MaxInt
      /\ Get(effective_lattice(x).guaranteed, d) \in 0..MaxInt
      /\ c \in 0..MaxInt /\ l \in 0..MaxInt /\ a \in 0..MaxInt
  BY <1>1, <1>2, VectorShape
<1>4. g \in 0..MaxInt
  BY <1>3 DEF Lesser
<1>5. a > 0 => Greater(0, Greater(0, g - c) - l) >= a
  <2>1. a > 0 => d \in DOMAIN amount /\ amount[d] = a
    BY DEF Get
  <2> QED
    BY <2>1 DEF CanLend, available_to_lend
<1> HIDE DEF g, c, l, a
<1>6. a > 0 => c + l + a <= g
  BY <1>3, <1>4, <1>5, MaxIntAssumption DEF Greater
<1>7. l + a <= MaxInt
  BY <1>3, <1>4, <1>6, MaxIntAssumption
<1> QED
  BY <1>6, <1>7 DEF g, c, l, a

\* A run of borrow_impl calls for t, no two of which ask for the same dimension.
Run(t, n, need, from) ==
  /\ Asks(n, need)
  /\ from \in [1..n -> Tenant]
  /\ \A i \in 1..n : CanLend(from[i], t, need[i])

\* The lenders' counters after the run show all of it.
LEMMA RunCounted ==
  ASSUME QuotasTyped, CountersTyped, NEW t, NEW n, NEW need, NEW from, Run(t, n, need, from),
         NEW x \in Tenant
  PROVE  /\ UsageTyped(WithLent(need, from)[x])
         /\ \A f \in UsageFields \ {"lent"} : WithLent(need, from)[x][f] = usage[x][f]
         /\ \A d \in Dim : Get(WithLent(need, from)[x].lent, d)
                             = Get(usage[x].lent, d) + Total(need, FromOf(n, from, x), d)
<1> DEFINE I == FromOf(n, from, x)
           u == usage[x]
           w == WithLent(need, from)[x]
<1>1. n \in Nat /\ DOMAIN need = 1..n /\ I \subseteq 1..n /\ IsFiniteSet(I) /\ Vectors(need, I)
  <2>1. n \in Nat /\ DOMAIN need = 1..n /\ Vectors(need, 1..n)
    BY DEF Run, Asks
  <2> QED
    BY <2>1, AsksFinite, Zenon
<1>2. /\ DOMAIN u = UsageFields /\ u.lent \in Vector
      /\ \A f \in Counters : u[f] \in Vector
  BY DEF CountersTyped, UsageTyped, Counters
<1>3. w = [u EXCEPT !.lent = Add(u.lent, VSum(need, I))]
  BY <1>1 DEF WithLent, FromOf
<1>4. ASSUME NEW d \in Dim
      PROVE  /\ Total(need, I, d) \in Nat /\ Get(u.lent, d) \in Nat
             /\ Get(u.lent, d) + Total(need, I, d) <= MaxInt
  <2>1. Total(need, I, d) \in Nat
    BY <1>1, TotalNat
  <2>2. Get(u.lent, d) \in 0..MaxInt
    BY <1>2, VectorShape
  <2>3. CASE Total(need, I, d) = 0
    BY <2>2, <2>3, MaxIntAssumption
  <2>4. ASSUME NEW i \in I, Total(need, I, d) = Get(need[i], d)
        PROVE  Get(u.lent, d) + Total(need, I, d) <= MaxInt
    <3>1. CanLend(x, t, need[i]) /\ need[i] \in Vector
      BY <1>1 DEF Run, FromOf, Vectors
    <3> QED
      BY <2>4, <3>1, LendRoom
  <2>5. \/ Total(need, I, d) = 0
        \/ \E i \in I : Get(need[i], d) > 0 /\ Total(need, I, d) = Get(need[i], d)
    <3>1. Asks(n, need)
      BY Zenon DEF Run
    <3> QED
      BY <3>1, AskedOnce
  <2> HIDE DEF I, u
  <2> QED
    BY <2>1, <2>2, <2>3, <2>4, <2>5, MaxIntAssumption
<1>5. \A d \in Dim : Total(need, I, d) <= MaxInt
  BY <1>4, MaxIntAssumption
<1>6. VSum(need, I) \in Vector /\ \A d \in Dim : Get(VSum(need, I), d) = Total(need, I, d)
  BY <1>1, <1>5, VSumExact
<1>7. /\ Add(u.lent, VSum(need, I)) \in Vector
      /\ \A d \in Dim : Get(Add(u.lent, VSum(need, I)), d) = Get(u.lent, d) + Total(need, I, d)
  <2>1. \A d \in Dim : Get(u.lent, d) + Get(VSum(need, I), d) <= MaxInt
    BY <1>4, <1>6
  <2>2. u.lent \in Vector /\ VSum(need, I) \in Vector
    BY <1>2, <1>6
  <2> DEFINE a == u.lent
             b == VSum(need, I)
  <2> HIDE DEF a, b
  <2>3. Add(a, b) \in Vector
    BY <2>2, AddVector DEF a, b
  <2>4. \A d \in Dim : Get(Add(a, b), d) = Get(a, d) + Get(b, d)
    BY <2>1, <2>2, AddExact, Zenon DEF a, b
  <2> QED
    BY <1>6, <2>3, <2>4, Zenon DEF a, b
<1> HIDE DEF I, u, w
<1>8. /\ DOMAIN w = UsageFields /\ w.lent = Add(u.lent, VSum(need, I))
      /\ \A f \in UsageFields \ {"lent"} : w[f] = u[f]
  BY <1>2, <1>3 DEF UsageFields, Counters
<1>9. UsageTyped(w)
  BY <1>2, <1>7, <1>8 DEF UsageTyped, UsageFields, Counters
<1> QED
  BY <1>7, <1>8, <1>9 DEF I, u, w

-----------------------------------------------------------------------------
(***************************************************************************)
(* Returning a set B of borrows: the lending records show no more than     *)
(* before, and no lender's counter is lowered.                             *)
(***************************************************************************)
LEMMA LoansReturned ==
  ASSUME Records, AmountsTyped, NEW B \in SUBSET DOMAIN borrows,
         borrows' = ReturnedBorrows(B), lends' = ReturnedLends(B)
  PROVE  /\ LoansTyped(lends')
         /\ \A b \in DOMAIN borrows' : borrows'[b].amount \in Vector /\ borrows'[b].consumed \in Vector
         /\ \A x \in Tenant : \A d \in Dim : LentTotal(x, d)' <= LentTotal(x, d)
         /\ \A b \in B : ~IsEmpty(lends[borrows[b].lending].amount)
                           => ~IsEmpty(lends'[borrows[b].lending].outstanding)
<1> DEFINE R == Returning(B)
<1>1. /\ DOMAIN lends' = DOMAIN lends /\ DOMAIN borrows' = DOMAIN borrows
      /\ \A l \in DOMAIN lends : lends'[l].lender = lends[l].lender /\ lends'[l].amount = lends[l].amount
  BY Zenon DEF ReturnedLends, ReturnedBorrows, Records, LedgerTyped, LendFields
<1>2. ASSUME NEW l \in DOMAIN lends
      PROVE  \/ lends'[l].outstanding = lends[l].outstanding
             \/ \E b \in R : lends'[l].outstanding = Sub(lends[l].outstanding, borrows[b].consumed)
  <2>1. CASE \E b \in R : borrows[b].lending = l
    <3> DEFINE c == CHOOSE b \in R : borrows[b].lending = l
    <3>1. c \in R
      BY <2>1
    <3>2. lends'[l] = [lends[l] EXCEPT !.outstanding = Sub(@, borrows[c].consumed)]
      BY <2>1, Zenon DEF ReturnedLends
    <3> HIDE DEF c
    <3>3. lends'[l].outstanding = Sub(lends[l].outstanding, borrows[c].consumed)
      BY <3>2 DEF Records, LedgerTyped, LendFields
    <3> QED
      BY <3>1, <3>3
  <2>2. CASE ~\E b \in R : borrows[b].lending = l
    BY <2>2 DEF ReturnedLends
  <2> QED
    BY <2>1, <2>2
<1>3. \A b \in R : b \in DOMAIN borrows /\ borrows[b].consumed \in Vector
  BY DEF Returning, AmountsTyped
<1>4. ASSUME NEW l \in DOMAIN lends
      PROVE  /\ lends'[l].outstanding \in Vector
             /\ DOMAIN lends'[l].outstanding = DOMAIN lends[l].outstanding
             /\ \A d : Get(lends'[l].outstanding, d) <= Get(lends[l].outstanding, d)
  <2>1. PICK o, p : o = lends[l].outstanding /\ p = lends'[l].outstanding
    OBVIOUS
  <2>2. o \in Vector
    BY <2>1 DEF AmountsTyped, LoansTyped
  <2>3. CASE p = o
    BY <2>1, <2>2, <2>3, VectorShape, MaxIntAssumption
  <2>4. ASSUME NEW v \in Vector, p = Sub(o, v)
        PROVE  p \in Vector /\ DOMAIN p = DOMAIN o /\ \A d : Get(p, d) <= Get(o, d)
    BY <2>2, <2>4, SubVector
  <2>5. p = o \/ \E v \in Vector : p = Sub(o, v)
    BY <1>2, <1>3, <2>1, Zenon
  <2> QED
    BY <2>1, <2>3, <2>4, <2>5
<1>5. ASSUME NEW b \in DOMAIN borrows
      PROVE  borrows'[b].amount \in Vector /\ borrows'[b].consumed \in Vector
  <2>1. /\ borrows[b].amount \in Vector /\ borrows[b].consumed \in Vector
        /\ DOMAIN borrows[b] = BorrowFields
    BY DEF AmountsTyped, Records, LedgerTyped
  <2>2. CASE b \in R
    <3>1. borrows'[b] = [borrows[b] EXCEPT !.consumed = Sub(@, @), !.recalled = TRUE]
      BY <2>2, Zenon DEF ReturnedBorrows
    <3>2. /\ borrows'[b].amount = borrows[b].amount
          /\ borrows'[b].consumed = Sub(borrows[b].consumed, borrows[b].consumed)
      BY <2>1, <3>1, Zenon DEF BorrowFields
    <3> QED
      BY <2>1, <3>2, SubVector
  <2>3. CASE b \notin R
    BY <2>1, <2>3, Zenon DEF ReturnedBorrows
  <2> QED
    BY <2>2, <2>3
<1>6. ASSUME NEW x \in Tenant, NEW d \in Dim
      PROVE  LentTotal(x, d)' <= LentTotal(x, d)
  <2>1. LoansTyped(lends) /\ IsFiniteSet(DOMAIN lends)
    BY TablesFinite DEF AmountsTyped
  <2>2. LentIn(lends', x, d) <= LentIn(lends, x, d)
    BY <1>1, <1>4, <2>1, LentShrinks, Zenon
  <2> QED
    BY <2>2 DEF LentTotal
<1>7. ASSUME NEW b \in B, ~IsEmpty(lends[borrows[b].lending].amount)
      PROVE  ~IsEmpty(lends'[borrows[b].lending].outstanding)
  <2> DEFINE l == borrows[b].lending
  <2>1. b \in DOMAIN borrows /\ l \in DOMAIN lends
    BY DEF Records, LedgerTyped
  <2>2. Agree(borrows[b], lends[l])
    BY <2>1 DEF Records, LedgerConserved
  <2>3. DOMAIN lends[l].outstanding = DOMAIN lends[l].amount
    BY <2>2 DEF Agree, Sub
  <2>4. DOMAIN lends'[l].outstanding = DOMAIN lends[l].outstanding
    BY <1>4, <2>1
  <2> QED
    BY <1>7, <2>3, <2>4 DEF IsEmpty
<1>8. LoansTyped(lends')
  BY <1>1, <1>4 DEF AmountsTyped, LoansTyped
<1> QED
  BY <1>1, <1>5, <1>6, <1>7, <1>8

-----------------------------------------------------------------------------
(***************************************************************************)
(* The shares of a request: what is charged to the burst, and what has to  *)
(* be borrowed.                                                            *)
(***************************************************************************)
LEMMA LimitNumbers ==
  ASSUME QuotasTyped, NEW t \in Tenant, NEW d
  PROVE  /\ SoftOf(effective_lattice(t), d) \in 0..MaxInt
         /\ HardOf(effective_lattice(t), d) \in 0..MaxInt
<1>1. /\ effective_lattice(t).soft_limit \in Vector /\ effective_lattice(t).guaranteed \in Vector
      /\ effective_lattice(t).hard_limit \in Vector
  BY LimitsAreTyped DEF LimitsTyped, LimitKinds
<1> QED
  BY <1>1, VectorShape, MaxIntAssumption DEF SoftOf, HardOf

\* Committed is a vector.
LEMMA CommittedVector ==
  ASSUME CountersTyped, NEW t \in Tenant
  PROVE  /\ Committed(t) \in Vector
         /\ \A d : /\ Get(usage[t].consumption, d) <= Get(Committed(t), d)
                   /\ Get(Committed(t), d)
                        <= Get(usage[t].consumption, d) + Get(usage[t].reserved, d)
<1>1. usage[t].consumption \in Vector /\ usage[t].reserved \in Vector
  BY DEF CountersTyped, UsageTyped, Counters
<1> QED
  BY <1>1, AddVector DEF Committed

\* Neither share is more than the request.
LEMMA Shares ==
  ASSUME QuotasTyped, CountersTyped, NEW t \in Tenant, NEW req \in Requests, NEW d \in DOMAIN req
  PROVE  /\ req \in Vector /\ d \in Dim /\ req[d] \in 0..MaxInt
         /\ BurstPart(effective_lattice(t), d, Get(Committed(t), d),
                      SatAdd(Get(Committed(t), d), req[d])) \in 0..req[d]
         /\ ExcessOf(t, req, d) \in 0..req[d]
<1>1. req \in Vector
  BY InputAssumption
<1>2. d \in Dim /\ req[d] \in 0..MaxInt
  BY <1>1, VectorShape
<1>3. Get(Committed(t), d) \in 0..MaxInt
  BY CommittedVector, VectorShape
<1>4. PICK base, soft, hard : /\ base = Get(Committed(t), d)
                              /\ soft = SoftOf(effective_lattice(t), d)
                              /\ hard = HardOf(effective_lattice(t), d)
  OBVIOUS
<1>5. base \in 0..MaxInt /\ soft \in 0..MaxInt /\ hard \in 0..MaxInt
  BY <1>3, <1>4, LimitNumbers
<1>6. LET nc == SatAdd(base, req[d])
          over(x) == Lesser(Greater(x - soft, 0), hard - soft)
      IN  /\ Greater(0, over(nc) - over(base)) \in 0..req[d]
          /\ Greater(0, Greater(0, nc - hard) - Greater(0, base - hard)) \in 0..req[d]
  BY <1>2, <1>5, ShareNumbers
<1> QED
  BY <1>1, <1>2, <1>4, <1>6, Zenon DEF BurstPart, ExcessOf, BorrowPart

\* The burst of a request is a vector, within the request.
LEMMA BurstVector ==
  ASSUME QuotasTyped, CountersTyped, NEW t \in Tenant, NEW req \in Requests
  PROVE  /\ BurstOf(t, req) \in Vector
         /\ \A d \in Dim : Get(BurstOf(t, req), d) <= Get(req, d)
<1> DEFINE part(d) == BurstPart(effective_lattice(t), d, Get(Committed(t), d),
                                SatAdd(Get(Committed(t), d), req[d]))
           D == {e \in DOMAIN req \ Consumable : part(e) > 0}
           v == [d \in D |-> part(d)]
<1>1. BurstOf(t, req) = v
  BY DEF BurstOf
<1>2. \A d \in DOMAIN req : d \in Dim /\ req[d] \in 0..MaxInt /\ part(d) \in 0..req[d]
  BY Shares, Zenon
<1> HIDE DEF part
<1>3. DOMAIN v = D /\ D \subseteq DOMAIN req /\ \A d \in D : v[d] = part(d)
  OBVIOUS
<1>4. v = [d \in DOMAIN v |-> v[d]]
  OBVIOUS
<1>5. \A d \in DOMAIN req : part(d) \in 0..MaxInt
  BY <1>2, MaxIntAssumption
<1> HIDE DEF D, v
<1>6. DOMAIN v \subseteq Dim /\ \A d \in DOMAIN v : v[d] \in 0..MaxInt
  BY <1>2, <1>3, <1>5
<1>7. v \in Vector
  BY <1>4, <1>6, IsVector
<1>8. \A d \in Dim : Get(v, d) <= Get(req, d)
  <2> TAKE d \in Dim
  <2>1. CASE d \in D
    BY <1>2, <1>3, <2>1, MaxIntAssumption DEF Get
  <2>2. CASE d \notin D
    <3>1. Get(v, d) = 0
      BY <1>3, <2>2 DEF Get
    <3>2. Get(req, d) \in 0..MaxInt
      BY InputAssumption, VectorShape
    <3> QED
      BY <3>1, <3>2, MaxIntAssumption
  <2> QED
    BY <2>1, <2>2
<1> QED
  BY <1>1, <1>7, <1>8

\* The loans of a request are a run.
LEMMA ExcessRun ==
  ASSUME QuotasTyped, CountersTyped, NEW t \in Tenant, NEW req \in Requests,
         NEW m \in Nat, NEW dims \in InOrder(ExcessDims(t, req), m),
         NEW n \in 0..m, NEW from \in [1..n -> Tenant],
         NEW need, need = Excesses(t, req, dims, n),
         \A i \in 1..n : CanLend(from[i], t, need[i])
  PROVE  /\ Run(t, n, need, from)
         /\ \A i \in 1..n : /\ dims[i] \in DOMAIN req \ Consumable
                            /\ need[i] = FromScalar(dims[i], ExcessOf(t, req, dims[i]))
<1>2. n \in Nat /\ 1..n \subseteq 1..m
  OBVIOUS
<1>3. /\ dims \in [1..m -> ExcessDims(t, req)]
      /\ \A i, j \in 1..m : i < j => dims[i] < dims[j]
  BY DEF InOrder
<1>4. \A i \in 1..n : dims[i] \in DOMAIN req \ Consumable
  BY <1>2, <1>3 DEF ExcessDims
<1>5. need = [i \in 1..n |-> need[i]]
  BY DEF Excesses
<1>6. \A i \in 1..n : need[i] = FromScalar(dims[i], ExcessOf(t, req, dims[i]))
  BY DEF Excesses
<1>7. \A d \in DOMAIN req : d \in Dim /\ ExcessOf(t, req, d) \in 0..MaxInt
  <2> TAKE d \in DOMAIN req
  <2>1. d \in Dim /\ req[d] \in 0..MaxInt /\ ExcessOf(t, req, d) \in 0..req[d]
    BY Shares
  <2> QED
    BY <2>1, MaxIntAssumption
<1>8. ASSUME NEW i \in 1..n
      PROVE  need[i] \in Vector /\ \A e : Get(need[i], e) > 0 => e = dims[i]
  <2>1. PICK d, x : d = dims[i] /\ x = ExcessOf(t, req, dims[i])
    OBVIOUS
  <2>2. d \in Dim /\ x \in 0..MaxInt
    BY <1>4, <1>7, <2>1
  <2>3. FromScalar(d, x) \in Vector /\ \A e : Get(FromScalar(d, x), e) = IF e = d THEN x ELSE 0
    BY <2>2, ScalarVector, Zenon
  <2>4. \A e : Get(FromScalar(d, x), e) > 0 => e = d
    BY <2>3
  <2> QED
    BY <1>6, <2>1, <2>3, <2>4, Zenon
<1>9. \A i, j \in 1..n : dims[i] = dims[j] => i = j
  <2> SUFFICES ASSUME NEW i \in 1..n, NEW j \in 1..n, dims[i] = dims[j], i # j PROVE FALSE
    BY Zenon
  <2>1. dims[i] \in Nat /\ dims[j] \in Nat
    BY <1>4, <1>7, DimAssumption, Zenon
  <2>2. i < j \/ j < i
    BY <1>2
  <2>3. i \in 1..m /\ j \in 1..m
    BY <1>2
  <2> QED
    BY <1>3, <2>1, <2>2, <2>3
<1>10. Vectors(need, 1..n)
  BY <1>8 DEF Vectors
<1>11. \A d : \A i, j \in 1..n : Get(need[i], d) > 0 /\ Get(need[j], d) > 0 => i = j
  BY <1>8, <1>9, Zenon
<1> QED
  BY <1>2, <1>4, <1>5, <1>6, <1>10, <1>11 DEF Run, Asks

-----------------------------------------------------------------------------
(***************************************************************************)
(* Each call keeps the amounts typed and the lent counters covering what   *)
(* the lending records show.                                               *)
(***************************************************************************)
CountersKept == AmountsTyped' /\ CountersTyped' /\ LentCovered'

\* The step leaves every tenant with the counters W, or synced.
SyncedFrom(W) ==
  \A x \in Tenant : \/ usage'[x] = W[x]
                    \/ \E u : UsageTyped(u) /\ usage'[x] = Synced(x, u)

\* The step appends the loans of a run and leaves everyone with W, or synced.
LoanStep(t, n, need, from, nl, nb, W) ==
  /\ Run(t, n, need, from)
  /\ LendsFit(n, need, from, nl)
  /\ lends' = lends \o nl
  /\ nb = [i \in 1..n |-> nb[i]]
  /\ \A i \in 1..n : nb[i].amount \in Vector /\ nb[i].consumed \in Vector
  /\ \A i \in 1..n : nb[i].lending = Len(lends) + i
  /\ borrows' = borrows \o nb
  /\ allocations' = allocations
  /\ \A r \in DOMAIN funding' : funding'[r].burst \in Vector
  /\ SyncedFrom(W)
  /\ \A x \in Tenant : UsageTyped(W[x]) /\ W[x].lent = WithLent(need, from)[x].lent

LoansTaken(t) ==
  \E n, need, from, nl, nb, W : LoanStep(t, n, need, from, nl, nb, W)

\* The lending records show no more than a run lent.
LEMMA LentWritten ==
  ASSUME Records, AmountsTyped, NEW n \in Nat, NEW need, Vectors(need, 1..n), NEW from,
         NEW nl, LendsFit(n, need, from, nl), lends' = lends \o nl
  PROVE  /\ LoansTyped(lends')
         /\ \A x, d : LentTotal(x, d)' <= LentTotal(x, d) + Total(need, FromOf(n, from, x), d)
<1>1. lends \in Seq(Range(lends)) /\ LoansTyped(lends)
  BY DEF Records, LedgerTyped, IsSequence, AmountsTyped
<1> QED
  BY <1>1, LentGrows, Zenon DEF LentTotal

\* What reserve does: a run of loans, a reservation they back, and a sync.
ReserveRun(t, req, n, need, from) ==
  /\ Run(t, n, need, from)
  /\ \A i \in 1..n : \E d \in ExcessDims(t, req) : need[i] = FromScalar(d, ExcessOf(t, req, d))
  /\ \A d \in ExcessDims(t, req) : \E i \in 1..n : need[i] = FromScalar(d, ExcessOf(t, req, d))
  /\ lends' = lends \o NewLends(t, need, from)
  /\ borrows' = borrows \o NewBorrows(t, need, from)
  /\ AddReservation(t, req, BurstOf(t, req), {Len(borrows) + i : i \in 1..n})
  /\ UNCHANGED <<authVars, quotaVars, windows, allocations, now>>
  /\ usage' = [WithLent(need, from) EXCEPT ![t] = Synced(t,
       IF IsEmpty(BurstOf(t, req)) THEN @
       ELSE [@ EXCEPT !.burst_active = TRUE, !.burst_expires = BurstUntil(t)])]

\* reserve is such a run.
LEMMA ReserveRuns ==
  ASSUME CInv, NEW t \in Tenant, NEW req \in Requests, NEW auth, Reserve(t, req, auth)
  PROVE  \E n, need, from : ReserveRun(t, req, n, need, from)
<1>1. QuotasTyped /\ CountersTyped
  BY DEF CInv, IInv
<1>2. PICK n, dims : n \in 0..MaxBorrows /\ dims \in InOrder(ExcessDims(t, req), n) /\
        \E from \in [1..n -> Tenant] :
          LET need == Excesses(t, req, dims, n)
              burst == BurstOf(t, req)
          IN  /\ Range(dims) = ExcessDims(t, req)
              /\ \A i \in 1..n : CanLend(from[i], t, need[i])
              /\ lends' = lends \o NewLends(t, need, from)
              /\ borrows' = borrows \o NewBorrows(t, need, from)
              /\ AddReservation(t, req, burst, {Len(borrows) + i : i \in 1..n})
              /\ UNCHANGED <<authVars, quotaVars, windows, allocations, now>>
              /\ usage' = [WithLent(need, from) EXCEPT ![t] = Synced(t,
                     IF IsEmpty(burst) THEN @
                     ELSE [@ EXCEPT !.burst_active = TRUE,
                                    !.burst_expires = BurstUntil(t)])]
  BY Zenon DEF Reserve
<1>3. n \in Nat /\ n \in 0..n
  BY <1>2, BoundAssumption
<1>5. PICK need : need = Excesses(t, req, dims, n)
  OBVIOUS
<1>6. PICK from \in [1..n -> Tenant] :
        /\ Range(dims) = ExcessDims(t, req)
        /\ \A i \in 1..n : CanLend(from[i], t, need[i])
        /\ lends' = lends \o NewLends(t, need, from)
        /\ borrows' = borrows \o NewBorrows(t, need, from)
        /\ AddReservation(t, req, BurstOf(t, req), {Len(borrows) + i : i \in 1..n})
        /\ UNCHANGED <<authVars, quotaVars, windows, allocations, now>>
        /\ usage' = [WithLent(need, from) EXCEPT ![t] = Synced(t,
             IF IsEmpty(BurstOf(t, req)) THEN @
             ELSE [@ EXCEPT !.burst_active = TRUE, !.burst_expires = BurstUntil(t)])]
  BY <1>2, <1>5, Zenon
<1>7. /\ Run(t, n, need, from)
      /\ \A i \in 1..n : need[i] = FromScalar(dims[i], ExcessOf(t, req, dims[i]))
  <2>1. \A i \in 1..n : CanLend(from[i], t, need[i])
    BY <1>6, Zenon
  <2> QED
    BY <1>1, <1>2, <1>3, <1>5, <2>1, ExcessRun, SMTT(20)
<1>8. dims \in [1..n -> ExcessDims(t, req)]
  BY <1>2 DEF InOrder
<1>9. \A i \in 1..n : \E d \in ExcessDims(t, req) : need[i] = FromScalar(d, ExcessOf(t, req, d))
  BY <1>7, <1>8, Zenon
<1>10. \A d \in ExcessDims(t, req) : \E i \in 1..n : need[i] = FromScalar(d, ExcessOf(t, req, d))
  <2> TAKE d \in ExcessDims(t, req)
  <2>3. \E i \in 1..n : dims[i] = d
    BY <1>6, <1>8, Zenon DEF Range
  <2> QED
    BY <1>7, <2>3, Zenon
<1>11. ReserveRun(t, req, n, need, from)
  BY <1>6, <1>7, <1>9, <1>10, Zenon DEF ReserveRun
<1> QED
  BY <1>11, Zenon

\* reserve takes a run of loans.
LEMMA ReserveLoans ==
  ASSUME CInv, NEW t \in Tenant, NEW req \in Requests, NEW auth, Reserve(t, req, auth)
  PROVE  LoansTaken(t)
<1>1. PICK n, need, from : ReserveRun(t, req, n, need, from)
  BY ReserveRuns, Zenon
<1>2. /\ Run(t, n, need, from)
      /\ n \in Nat /\ need = [i \in 1..n |-> need[i]] /\ Vectors(need, 1..n)
  BY <1>1 DEF ReserveRun, Run, Asks
<1>3. Len(need) = n
  BY <1>2
<1> DEFINE nl == NewLends(t, need, from)
           nb == NewBorrows(t, need, from)
           W == WithLent(need, from)
<1>4. LendsFit(n, need, from, nl)
  <2>1. \A i \in 1..n : \A d : Get(need[i], d) <= Get(need[i], d)
    BY <1>2, VectorShape, MaxIntAssumption DEF Vectors
  <2> QED
    BY <1>2, <1>3, <2>1 DEF LendsFit, NewLends, Vectors
<1>5. /\ nb = [i \in 1..n |-> nb[i]]
      /\ \A i \in 1..n : nb[i].amount \in Vector /\ nb[i].consumed \in Vector
      /\ \A i \in 1..n : nb[i].lending = Len(lends) + i
  BY <1>2, <1>3 DEF NewBorrows, Vectors
<1>6. \A r \in DOMAIN funding' : funding'[r].burst \in Vector
  <2>1. BurstOf(t, req) \in Vector
    BY BurstVector DEF CInv, IInv
  <2>2. funding' = [r \in DOMAIN funding \cup {nextRes} |->
           IF r = nextRes THEN Funding(t, BurstOf(t, req), {Len(borrows) + i : i \in 1..n})
           ELSE funding[r]]
    BY <1>1, Zenon DEF ReserveRun, AddReservation
  <2> QED
    BY <2>1, <2>2, Zenon DEF Funding, CInv, AmountsTyped
<1>7. \A x \in Tenant : UsageTyped(W[x])
  BY <1>2, RunCounted DEF CInv, IInv
<1>8. SyncedFrom(W)
  <2> DEFINE u == IF IsEmpty(BurstOf(t, req)) THEN W[t]
                  ELSE [W[t] EXCEPT !.burst_active = TRUE, !.burst_expires = BurstUntil(t)]
  <2>1. usage' = [W EXCEPT ![t] = Synced(t, u)]
    BY <1>1, Zenon DEF ReserveRun
  <2>2. UsageTyped(u)
    <3>1. UsageTyped(W[t])
      BY <1>7
    <3> HIDE DEF W
    <3> QED
      BY <3>1 DEF UsageTyped, UsageFields, Counters
  <2>3. DOMAIN W = Tenant
    BY DEF WithLent
  <2> HIDE DEF u, W
  <2> QED
    BY <2>1, <2>2, <2>3, Zenon DEF SyncedFrom
<1>9. lends' = lends \o nl /\ borrows' = borrows \o nb /\ allocations' = allocations
  BY <1>1 DEF ReserveRun
<1> HIDE DEF nl, nb
<1>10. LoanStep(t, n, need, from, nl, nb, W)
  BY <1>2, <1>4, <1>5, <1>6, <1>7, <1>8, <1>9, Zenon DEF LoanStep
<1> HIDE DEF W
<1> QED
  BY <1>10, Zenon DEF LoansTaken

\* A reserve that undoes its loans.
LEMMA RollbackLoans ==
  ASSUME CInv, NEW t \in Tenant, NEW req \in Requests, NEW auth,
         ReserveRolledBack(t, req, auth)
  PROVE  LoansTaken(t)
<1>1. QuotasTyped /\ CountersTyped /\ AmountsTyped
  BY DEF CInv, IInv
<1>3. PICK n, dims : n \in 1..MaxBorrows /\ dims \in InOrder(ExcessDims(t, req), n + 1) /\
        LET need == Excesses(t, req, dims, n)
        IN  \E from \in [1..n -> Tenant] :
              /\ \A i \in 1..n : CanLend(from[i], t, need[i])
              /\ lends' = lends \o CancelledLends(t, need, from)
              /\ borrows' = borrows \o CancelledBorrows(t, need, from)
              /\ usage' = CancelledUsage(t, need, from)
  BY Zenon DEF ReserveRolledBack
<1>4. PICK need : need = Excesses(t, req, dims, n)
  OBVIOUS
<1>5. PICK from \in [1..n -> Tenant] :
        /\ \A i \in 1..n : CanLend(from[i], t, need[i])
        /\ lends' = lends \o CancelledLends(t, need, from)
        /\ borrows' = borrows \o CancelledBorrows(t, need, from)
        /\ usage' = CancelledUsage(t, need, from)
  BY <1>3, <1>4, Zenon
<1>6. n \in Nat /\ n + 1 \in Nat /\ n \in 0..(n + 1)
  BY <1>3, BoundAssumption
<1>7. Run(t, n, need, from)
  <2>1. \A i \in 1..n : CanLend(from[i], t, need[i])
    BY <1>5, Zenon
  <2> QED
    BY <1>1, <1>3, <1>4, <1>6, <2>1, ExcessRun, Zenon
<1>8. need = [i \in 1..n |-> need[i]] /\ Vectors(need, 1..n) /\ DOMAIN need = 1..n
  BY <1>7 DEF Run, Asks
<1>9. Len(need) = n
  BY <1>6, <1>8
<1> DEFINE nl == CancelledLends(t, need, from)
           nb == CancelledBorrows(t, need, from)
           back == VSum(need, DOMAIN need)
           V == WithLent(need, from)
           W == [V EXCEPT ![t].borrowed_consumed = Sub(Add(@, back), back),
                          ![t].debt = Sub(Add(@, back), back)]
<1>10. ASSUME NEW i \in 1..n
       PROVE  /\ Sub(need[i], need[i]) \in Vector
              /\ \A d : Get(Sub(need[i], need[i]), d) <= Get(need[i], d)
  <2>1. PICK v : v = need[i]
    OBVIOUS
  <2>2. v \in Vector
    BY <1>8, <2>1 DEF Vectors
  <2>3. /\ Sub(v, v) \in Vector
        /\ \A d : Get(Sub(v, v), d) = Greater(0, Get(v, d) - Get(v, d)) /\ Get(v, d) \in 0..MaxInt
    BY <2>2, SubVector, VectorShape
  <2>4. \A d : Get(Sub(v, v), d) <= Get(v, d)
    BY <2>3, MaxIntAssumption DEF Greater
  <2> QED
    BY <2>1, <2>3, <2>4, Zenon
<1>11. LendsFit(n, need, from, nl)
  <2>1. nl = [i \in 1..n |-> [lender |-> from[i], borrower |-> t, amount |-> need[i],
                              outstanding |-> Sub(need[i], need[i])]]
    BY <1>9 DEF CancelledLends, NewLends
  <2> HIDE DEF nl
  <2> QED
    BY <1>10, <2>1, Zenon DEF LendsFit
<1>12. /\ nb = [i \in 1..n |-> nb[i]]
       /\ \A i \in 1..n : nb[i].amount \in Vector /\ nb[i].consumed \in Vector
       /\ \A i \in 1..n : nb[i].lending = Len(lends) + i
  <2>1. nb = [i \in 1..n |->
                [[borrower |-> t, lender |-> from[i], lending |-> Len(lends) + i,
                  amount |-> need[i], consumed |-> need[i], recalled |-> FALSE]
                 EXCEPT !.consumed = Sub(@, @), !.recalled = TRUE]]
    BY <1>9 DEF CancelledBorrows, NewBorrows
  <2> HIDE DEF nb
  <2>2. /\ nb = [i \in 1..n |-> nb[i]]
        /\ \A i \in 1..n : nb[i].amount = need[i] /\ nb[i].consumed = Sub(need[i], need[i])
        /\ \A i \in 1..n : nb[i].lending = Len(lends) + i
    BY <2>1, Zenon
  <2> QED
    BY <1>8, <1>10, <2>2, Zenon DEF Vectors
<1>13. \A x \in Tenant : UsageTyped(V[x]) /\ DOMAIN V = Tenant
  <2>1. DOMAIN V = Tenant
    BY Zenon DEF WithLent
  <2> QED
    BY <1>1, <1>7, <2>1, RunCounted
<1>14. \A x \in Tenant : UsageTyped(W[x]) /\ W[x].lent = V[x].lent
  <2>1. back \in Vector
    <3>1. IsFiniteSet(1..n)
      BY <1>6, IntervalFinite
    <3> QED
      BY <1>8, <3>1, VSumAtMost
  <2> HIDE DEF V, back
  <2>2. \A v \in Vector : Sub(Add(v, back), back) \in Vector
    BY <2>1, AddVector, SubVector
  <2> SUFFICES ASSUME NEW x \in Tenant
               PROVE  UsageTyped(W[x]) /\ W[x].lent = V[x].lent
    BY Zenon
  <2>3. CASE x # t
    BY <1>13, <2>3, Zenon
  <2>4. CASE x = t
    <3>1. W[t] = [V[t] EXCEPT !.borrowed_consumed = Sub(Add(@, back), back),
                              !.debt = Sub(Add(@, back), back)]
      BY <1>13, Zenon
    <3>2. UsageTyped(V[t])
      BY <1>13
    <3> HIDE DEF W
    <3>3. /\ DOMAIN W[t] = UsageFields
          /\ W[t].borrowed_consumed = Sub(Add(V[t].borrowed_consumed, back), back)
          /\ W[t].debt = Sub(Add(V[t].debt, back), back)
          /\ \A f \in UsageFields \ {"borrowed_consumed", "debt"} : W[t][f] = V[t][f]
      BY <3>1, <3>2, Zenon DEF UsageTyped, UsageFields, Counters
    <3>4. V[t].borrowed_consumed \in Vector /\ V[t].debt \in Vector
      BY <3>2 DEF UsageTyped, Counters
    <3>5. \A f \in Counters : W[t][f] \in Vector
      BY <2>2, <3>2, <3>3, <3>4, SMTT(20) DEF UsageTyped, UsageFields, Counters
    <3>6. W[t].lent = V[t].lent
      BY <3>3 DEF UsageFields, Counters
    <3> QED
      BY <2>4, <3>3, <3>5, <3>6 DEF UsageTyped
  <2> QED
    BY <2>3, <2>4
<1>15. usage' = W
  BY <1>5, Zenon DEF CancelledUsage
<1>16. SyncedFrom(W)
  BY <1>15, Zenon DEF SyncedFrom
<1>17. lends' = lends \o nl /\ borrows' = borrows \o nb
  BY <1>5, Zenon DEF CancelledUsage
<1>18. allocations' = allocations /\ \A r \in DOMAIN funding' : funding'[r].burst \in Vector
  BY <1>1, Zenon DEF ReserveRolledBack, resVars, AmountsTyped
<1> HIDE DEF nl, nb, W, back
<1>19. \A x \in Tenant : UsageTyped(W[x]) /\ W[x].lent = WithLent(need, from)[x].lent
  BY <1>14, Zenon
<1>20. LoanStep(t, n, need, from, nl, nb, W)
  BY <1>7, <1>11, <1>12, <1>16, <1>17, <1>18, <1>19, Zenon DEF LoanStep
<1> QED
  BY <1>20, Zenon DEF LoansTaken

\* borrow and lend open one loan.
LEMMA OpenLoanRuns ==
  ASSUME NEW t \in Tenant, NEW amount \in Vector, NEW x \in Tenant, OpenLoan(t, amount, x)
  PROVE  Run(t, 1, <<amount>>, <<x>>)
<1>1. PICK need, from : need = <<amount>> /\ from = <<x>>
  BY Zenon
<1>2. /\ need = [i \in 1..1 |-> need[i]] /\ need[1] = amount
      /\ from \in [1..1 -> Tenant] /\ from[1] = x
      /\ \A i \in 1..1 : i = 1
  BY <1>1
<1>3. CanLend(x, t, amount)
  BY DEF OpenLoan
<1>4. Run(t, 1, need, from)
  BY <1>2, <1>3 DEF Run, Asks, Vectors
<1> QED
  BY <1>1, <1>4, Zenon

\* The counters after one loan, with whoever is synced then.
LEMMA OpenLoanTaken ==
  ASSUME CInv, NEW t \in Tenant, NEW amount \in Vector, NEW x \in Tenant,
         OpenLoan(t, amount, x), allocations' = allocations, funding' = funding,
         (\A y \in Tenant : UsageTyped(WithLent(<<amount>>, <<x>>)[y]))
           => SyncedFrom(WithLent(<<amount>>, <<x>>))
  PROVE  LoansTaken(t)
<1>1. PICK need, from : need = <<amount>> /\ from = <<x>>
  OBVIOUS
<1>2. Run(t, 1, need, from) /\ Len(need) = 1 /\ need[1] = amount
  BY <1>1, OpenLoanRuns, Zenon
<1> DEFINE nl == NewLends(t, need, from)
           nb == NewBorrows(t, need, from)
           W == WithLent(need, from)
<1>3. LendsFit(1, need, from, nl)
  <2>1. \A d : Get(amount, d) <= Get(amount, d)
    BY VectorShape, MaxIntAssumption
  <2>2. \A i \in 1..1 : i = 1
    OBVIOUS
  <2> QED
    BY <1>2, <2>1, <2>2 DEF LendsFit, NewLends
<1>4. /\ nb = [i \in 1..1 |-> nb[i]]
      /\ \A i \in 1..1 : nb[i].amount \in Vector /\ nb[i].consumed \in Vector
      /\ \A i \in 1..1 : nb[i].lending = Len(lends) + i
  BY <1>2 DEF NewBorrows
<1>5. \A y \in Tenant : UsageTyped(W[y])
  BY <1>2, RunCounted, Zenon DEF CInv, IInv
<1>6. SyncedFrom(W)
  BY <1>1, <1>5, Zenon
<1>7. lends' = lends \o nl /\ borrows' = borrows \o nb
  BY <1>1, Zenon DEF OpenLoan
<1>8. \A r \in DOMAIN funding' : funding'[r].burst \in Vector
  BY DEF CInv, AmountsTyped
<1>9. LoanStep(t, 1, need, from, nl, nb, W)
  BY <1>2, <1>3, <1>4, <1>5, <1>6, <1>7, <1>8, Zenon DEF LoanStep
<1> HIDE DEF nl, nb, W
<1> QED
  BY <1>9, Zenon DEF LoansTaken

\* The counters w synced twice are some counters synced once.
OnceEnough(x, w) == \E u : UsageTyped(u) /\ Synced(x, Synced(x, w)) = Synced(x, u)

\* Syncing twice is syncing once.
LEMMA SyncedTwice ==
  ASSUME NEW x, NEW w, UsageTyped(w)
  PROVE  OnceEnough(x, w)
<1>1. PICK s : s = Synced(x, w)
  OBVIOUS
<1> DEFINE u == [w EXCEPT !.burst_active = s.burst_active]
<1>2. DOMAIN s = DOMAIN w /\ s.burst_expires = w.burst_expires
  BY <1>1 DEF Synced, UsageTyped, UsageFields, Counters
<1>3. /\ UsageTyped(u)
      /\ DOMAIN u = UsageFields /\ DOMAIN s = UsageFields
      /\ u.burst_active = s.burst_active /\ u.burst_expires = s.burst_expires
  BY <1>2 DEF UsageTyped, UsageFields, Counters
<1>4. ASSUME NEW r, DOMAIN r = UsageFields,
             r.burst_active = s.burst_active, r.burst_expires = s.burst_expires
      PROVE  Synced(x, r) = [f \in UsageFields |->
               LET expired == s.burst_active /\ now >= s.burst_expires
               IN  CASE f = "consumption" -> computed_consumed(x)'
                     [] f = "reserved" -> RemainingReserved(x)'
                     [] f = "borrowed_consumed" -> computed_borrowed(x)'
                     [] f = "lent" -> computed_lent(x)'
                     [] f = "burst" -> (IF expired THEN Empty ELSE computed_burst(x)')
                     [] f = "debt" -> computed_debt(x)'
                     [] f = "burst_active" -> (s.burst_active /\ ~expired)
                     [] OTHER -> s.burst_expires]
  BY <1>4, Zenon DEF Synced, UsageFields, Counters
<1>5. Synced(x, s) = Synced(x, u)
  <2> HIDE DEF u
  <2> QED
    BY <1>3, <1>4
<1> QED
  BY <1>1, <1>3, <1>5, Zenon DEF OnceEnough

\* borrow.
LEMMA BorrowLoans ==
  ASSUME CInv, NEW t \in Tenant, NEW amount \in Loans, NEW auth,
         Borrow(t, amount, auth)
  PROVE  LoansTaken(t)
<1>1. amount \in Vector
  BY InputAssumption
<1>2. PICK x \in Tenant :
        /\ OpenLoan(t, amount, x)
        /\ UNCHANGED <<authVars, quotaVars, windows, resVars, allocations, now>>
        /\ usage' = [WithLent(<<amount>>, <<x>>) EXCEPT ![t] = Synced(t, @)]
  BY Zenon DEF Borrow
<1>3. PICK W : W = WithLent(<<amount>>, <<x>>)
  OBVIOUS
<1>4. DOMAIN W = Tenant
  BY <1>3, Zenon DEF WithLent
<1>5. usage' = [W EXCEPT ![t] = Synced(t, W[t])]
  BY <1>2, <1>3, Zenon
<1>6. ASSUME \A y \in Tenant : UsageTyped(W[y]) PROVE SyncedFrom(W)
  BY <1>4, <1>5, <1>6, Zenon DEF SyncedFrom
<1>7. allocations' = allocations /\ funding' = funding
  BY <1>2 DEF resVars
<1> QED
  BY <1>1, <1>2, <1>3, <1>6, <1>7, OpenLoanTaken, Zenon

\* lend.
LEMMA LendLoans ==
  ASSUME CInv, NEW t \in Tenant, NEW amount \in Loans, NEW lender \in Tenant, NEW auth,
         Lend(lender, t, amount, auth)
  PROVE  LoansTaken(t)
<1>1. amount \in Vector
  BY InputAssumption
<1>2. PICK x \in Tenant :
        /\ OpenLoan(t, amount, x)
        /\ UNCHANGED <<authVars, quotaVars, windows, resVars, allocations, now>>
        /\ usage' = [[WithLent(<<amount>>, <<x>>) EXCEPT ![lender] = Synced(lender, @)]
                       EXCEPT ![t] = Synced(t, @)]
  BY Zenon DEF Lend
<1>3. PICK W : W = WithLent(<<amount>>, <<x>>)
  OBVIOUS
<1>4. DOMAIN W = Tenant
  BY <1>3, Zenon DEF WithLent
<1>5. PICK U : U = [W EXCEPT ![lender] = Synced(lender, W[lender])]
  BY Zenon
<1>6. ASSUME \A y \in Tenant : UsageTyped(W[y]) PROVE SyncedFrom(W)
  <2>1. usage' = [U EXCEPT ![t] = Synced(t, U[t])]
    BY <1>2, <1>3, <1>5, Zenon
  <2>2. /\ DOMAIN U = Tenant
        /\ U[lender] = Synced(lender, W[lender])
        /\ \A y \in Tenant \ {lender} : U[y] = W[y]
    BY <1>4, <1>5, Zenon
  <2>3. usage'[t] = Synced(t, U[t]) /\ \A y \in Tenant \ {t} : usage'[y] = U[y]
    BY <2>1, <2>2, Zenon
  <2>4. OnceEnough(lender, W[lender])
    BY <1>6, SyncedTwice
  <2> QED
    BY <1>6, <2>2, <2>3, <2>4, ZenonT(30) DEF SyncedFrom, OnceEnough
<1>7. allocations' = allocations /\ funding' = funding
  BY <1>2 DEF resVars
<1> QED
  BY <1>1, <1>2, <1>3, <1>6, <1>7, OpenLoanTaken, Zenon

\* A tenant's counters after a step: lent untouched, or synced.
LentLeft(x) ==
  \/ UsageTyped(usage'[x]) /\ usage'[x].lent = usage[x].lent
  \/ \E u : UsageTyped(u) /\ usage'[x] = Synced(x, u)

\* A call that opens and returns no loan.
LEMMA OthersCounted ==
  ASSUME CInv, Records', lends' = lends, borrows' = borrows,
         \A a \in DOMAIN allocations' : allocations'[a].used \in Vector,
         \A r \in DOMAIN funding' : funding'[r].burst \in Vector,
         \A x \in Tenant : LentLeft(x)
  PROVE  CountersKept
<1>1. Records /\ AmountsTyped /\ CountersTyped /\ LentCovered
  BY Zenon DEF CInv, IInv
<1>2. AmountsTyped'
  BY <1>1, Zenon DEF AmountsTyped
<1> DEFINE Same(x) == UsageTyped(usage'[x]) /\ usage'[x].lent = usage[x].lent
<1>3. PICK W : W = [x \in Tenant |-> IF Same(x) THEN usage'[x] ELSE usage[x]]
  BY Zenon
<1>4. ASSUME NEW x \in Tenant
      PROVE  /\ UsageTyped(W[x])
             /\ \A d \in Dim : LentTotal(x, d)' <= Get(W[x].lent, d)
  <2>1. UsageTyped(W[x]) /\ W[x].lent = usage[x].lent
    <3>1. UsageTyped(usage[x])
      BY <1>1 DEF CountersTyped
    <3> QED
      BY <1>3, <3>1, Zenon
  <2>2. \A d \in Dim : LentTotal(x, d)' = LentTotal(x, d)
    BY Zenon DEF LentTotal
  <2>3. \A d \in Dim : LentTotal(x, d) <= Get(usage[x].lent, d)
    BY <1>1, Zenon DEF LentCovered
  <2> QED
    BY <2>1, <2>2, <2>3, Zenon
<1>5. \A x \in Tenant : \/ usage'[x] = W[x]
                        \/ \E u : UsageTyped(u) /\ usage'[x] = Synced(x, u)
  BY <1>3, Zenon DEF LentLeft
<1>6. CountersTyped' /\ LentCovered'
  BY <1>2, <1>4, <1>5, SyncKeeps, Zenon
<1> QED
  BY <1>2, <1>6, Zenon DEF CountersKept

\* Every step.
LEMMA StepCounts == CInv /\ IInv' /\ [Next]_vars => CInv'
\* What return_borrow leaves in the counters before anyone is synced.
<1>ReturnCounted.
  ASSUME Records, AmountsTyped, CountersTyped, NEW B \in SUBSET DOMAIN borrows,
         borrows' = ReturnedBorrows(B), lends' = ReturnedLends(B), NEW x \in Tenant
  PROVE  /\ UsageTyped(ReturnedUsage(B)[x])
         /\ \A f \in UsageFields \ {"borrowed_consumed", "debt", "lent"} :
              ReturnedUsage(B)[x][f] = usage[x][f]
         /\ \A d \in Dim : Get(ReturnedUsage(B)[x].lent, d) = Get(usage[x].lent, d)
  <2> USE <1>ReturnCounted
  <2> DEFINE given == {b \in Returning(B) : borrows[b].borrower = x}
             f == [b \in given |-> borrows[b].consumed]
             back == VSum(f, given)
             closed == {l \in {borrows[b].lending : b \in Returning(B)} :
                          /\ lends[l].lender = x
                          /\ IsEmpty(ReturnedLends(B)[l].outstanding)
                          /\ ~IsEmpty(lends[l].amount)}
             h == [l \in closed |-> lends[l].amount]
             u == usage[x]
             w == ReturnedUsage(B)[x]
  <2>1. w = [u EXCEPT !.borrowed_consumed = Sub(@, back), !.debt = Sub(@, back),
                      !.lent = Sub(@, VSum(h, closed))]
    BY Zenon DEF ReturnedUsage
  <2>2. closed = {}
    <3>1. \A b \in Returning(B) : b \in B
      BY DEF Returning
    <3>2. \A b \in B : ~IsEmpty(lends[borrows[b].lending].amount)
                         => ~IsEmpty(ReturnedLends(B)[borrows[b].lending].outstanding)
      BY LoansReturned, Zenon
    <3> QED
      BY <3>1, <3>2, Zenon
  <2>3. VSum(h, closed) = Empty
    <3> HIDE DEF h, closed
    <3> QED
      BY <2>2, VSumStep, EmptyFinite
  <2>4. back \in Vector
    <3>1. given \subseteq DOMAIN borrows /\ \A b \in given : f[b] \in Vector
      BY DEF Returning, AmountsTyped
    <3>2. IsFiniteSet(given) /\ Vectors(f, given)
      BY <3>1, TablesFinite, SubsetFinite DEF Vectors
    <3> HIDE DEF given, f
    <3> QED
      BY <3>2, VSumAtMost
  <2>5. DOMAIN u = UsageFields /\ \A c \in Counters : u[c] \in Vector
    BY DEF CountersTyped, UsageTyped
  <2> HIDE DEF given, f, back, closed, h, u, w
  <2>6. /\ DOMAIN w = UsageFields
        /\ w.borrowed_consumed = Sub(u.borrowed_consumed, back)
        /\ w.debt = Sub(u.debt, back)
        /\ w.lent = Sub(u.lent, Empty)
    BY <2>1, <2>3, <2>5, Zenon DEF UsageFields, Counters
  <2>7. \A c \in UsageFields \ {"borrowed_consumed", "debt", "lent"} : w[c] = u[c]
    BY <2>1, <2>5, Zenon DEF UsageFields, Counters
  <2>8. /\ Sub(u.borrowed_consumed, back) \in Vector /\ Sub(u.debt, back) \in Vector
        /\ Sub(u.lent, Empty) \in Vector
    BY <2>4, <2>5, SubVector, EmptyVector DEF Counters
  <2>9. UsageTyped(w)
    <3>1. \A c \in Counters : w[c] \in Vector
      BY <2>5, <2>6, <2>7, <2>8, SMTT(20) DEF UsageFields, Counters
    <3> QED
      BY <2>6, <3>1 DEF UsageTyped
  <2>10. \A d \in Dim : Get(w.lent, d) = Get(u.lent, d)
    <3>1. u.lent \in Vector
      BY <2>5 DEF Counters
    <3>2. \A d : /\ Get(u.lent, d) \in 0..MaxInt /\ Get(Empty, d) = 0
                 /\ Get(Sub(u.lent, Empty), d) = Greater(0, Get(u.lent, d) - Get(Empty, d))
      BY <3>1, SubVector, EmptyVector, VectorShape
    <3>3. \A d : Get(Sub(u.lent, Empty), d) = Get(u.lent, d)
      BY <3>2, MaxIntAssumption DEF Greater
    <3> QED
      BY <2>6, <3>3
  <2> QED
    BY <2>7, <2>9, <2>10 DEF u, w
\* A call that returns the borrows of B.
<1>ReturnsCounted.
  ASSUME CInv, Records', NEW B \in SUBSET DOMAIN borrows,
         borrows' = ReturnedBorrows(B), lends' = ReturnedLends(B),
         \A a \in DOMAIN allocations' : allocations'[a].used \in Vector,
         \A r \in DOMAIN funding' : funding'[r].burst \in Vector,
         (\A x \in Tenant : UsageTyped(ReturnedUsage(B)[x])) => SyncedFrom(ReturnedUsage(B))
  PROVE  CountersKept
  <2> USE <1>ReturnsCounted
  <2>1. PICK W : W = ReturnedUsage(B)
    BY Zenon
  <2>2. Records /\ AmountsTyped /\ CountersTyped /\ LentCovered
    BY Zenon DEF CInv, IInv
  <2>3. AmountsTyped'
    <3>1. /\ LoansTyped(lends')
          /\ \A b \in DOMAIN borrows' : borrows'[b].amount \in Vector /\ borrows'[b].consumed \in Vector
      BY <2>2, LoansReturned, Zenon
    <3> QED
      BY <3>1, Zenon DEF AmountsTyped
  <2>4. ASSUME NEW x \in Tenant
        PROVE  /\ UsageTyped(W[x])
               /\ \A d \in Dim : LentTotal(x, d)' <= Get(W[x].lent, d)
    <3>1. /\ UsageTyped(W[x])
          /\ \A d \in Dim : Get(W[x].lent, d) = Get(usage[x].lent, d)
      BY <2>1, <2>2, <1>ReturnCounted, Zenon
    <3>2. \A d \in Dim : LentTotal(x, d)' <= LentTotal(x, d)
      BY <2>2, LoansReturned, Zenon
    <3>3. \A d \in Dim : LentTotal(x, d) <= Get(usage[x].lent, d)
      BY <2>2 DEF LentCovered
    <3>4. \A d \in Dim : LentTotal(x, d) \in Nat
      BY <2>2, LentSumsHold, SMTT(20) DEF LentSums
    <3>5. \A d \in Dim : LentTotal(x, d)' \in Nat
      <4>1. Records' /\ AmountsTyped' => LentSums'
        BY LentSumsHold, PTL
      <4> QED
        BY <2>3, <4>1 DEF LentSums
    <3>6. \A d \in Dim : Get(usage[x].lent, d) \in Nat
      BY <2>2, VectorShape, MaxIntAssumption DEF CountersTyped, UsageTyped, Counters
    <3>7. ASSUME NEW d \in Dim PROVE LentTotal(x, d)' <= Get(W[x].lent, d)
      <4>1. PICK a, b, c, e : /\ a = LentTotal(x, d)' /\ b = LentTotal(x, d)
                              /\ c = Get(usage[x].lent, d) /\ e = Get(W[x].lent, d)
        BY Zenon
      <4>2. a \in Nat /\ b \in Nat /\ c \in Nat /\ a <= b /\ b <= c /\ e = c
        BY <3>1, <3>2, <3>3, <3>4, <3>5, <3>6, <3>7, <4>1, Zenon
      <4>3. a <= e
        BY <4>2
      <4> QED
        BY <4>1, <4>3, Zenon
    <3> QED
      BY <3>1, <3>7, Zenon
  <2>5. SyncedFrom(W)
    BY <2>1, <2>4, Zenon
  <2>6. CountersTyped' /\ LentCovered'
    BY <2>3, <2>4, <2>5, SyncKeeps, Zenon DEF SyncedFrom
  <2> QED
    BY <2>3, <2>6, Zenon DEF CountersKept
\* release.
<1>ReleaseCounts.
  ASSUME CInv, Records', NEW t \in Tenant, NEW rid \in LiveReservations(t), NEW auth,
         Release(t, rid, auth)
  PROVE  CountersKept
  <2> USE <1>ReleaseCounts
  <2>1. PICK B : B = funding[rid].borrows
    BY Zenon
  <2>2. /\ borrows' = ReturnedBorrows(B) /\ lends' = ReturnedLends(B)
        /\ allocations' = EndedAllocations(rid)
        /\ funding' = Restrict(funding, DOMAIN funding \ {rid})
        /\ usage' = [ReturnedUsage(B) EXCEPT ![t] = Synced(t, @)]
    BY <2>1, Zenon DEF Release
  <2>3. rid \in DOMAIN reservations
    BY Zenon DEF LiveReservations
  <2>4. B \in SUBSET DOMAIN borrows
    BY <2>1, <2>3 DEF CInv, IInv, Records, ReservationsTyped
  <2>5. \A a \in DOMAIN allocations' : allocations'[a].used \in Vector
    <3>1. \A a \in DOMAIN allocations : DOMAIN allocations[a] = AllocationFields
      BY SMTT(20) DEF CInv, IInv, Records, AllocationsTyped
    <3> QED
      BY <2>2, <3>1 DEF EndedAllocations, CInv, AmountsTyped, AllocationFields
  <2>6. \A r \in DOMAIN funding' : funding'[r].burst \in Vector
    BY <2>2 DEF Restrict, CInv, AmountsTyped
  <2>7. PICK W : W = ReturnedUsage(B)
    BY Zenon
  <2>8. DOMAIN W = Tenant
    BY <2>7, Zenon DEF ReturnedUsage
  <2>9. usage' = [W EXCEPT ![t] = Synced(t, W[t])]
    BY <2>2, <2>7, Zenon
  <2>10. ASSUME \A x \in Tenant : UsageTyped(W[x]) PROVE SyncedFrom(W)
    BY <2>8, <2>9, <2>10, Zenon DEF SyncedFrom
  <2> QED
    BY <2>2, <2>4, <2>5, <2>6, <2>7, <2>10, <1>ReturnsCounted, Zenon
\* recall_borrow.
<1>RecallCounts.
  ASSUME CInv, Records', NEW t \in Tenant, NEW lender \in Tenant, NEW bid \in OpenBorrows(t),
         NEW auth, RecallBorrow(bid, t, lender, auth)
  PROVE  CountersKept
  <2> USE <1>RecallCounts
  <2>2. /\ borrows' = ReturnedBorrows({bid}) /\ lends' = ReturnedLends({bid})
        /\ allocations' = allocations /\ funding' = funding
        /\ usage' = [[ReturnedUsage({bid}) EXCEPT ![t] = Synced(t, @)]
                       EXCEPT ![lender] = Synced(lender, @)]
    BY Zenon DEF RecallBorrow, resVars
  <2>4. {bid} \in SUBSET DOMAIN borrows
    BY DEF OpenBorrows
  <2>5. \A a \in DOMAIN allocations' : allocations'[a].used \in Vector
    BY <2>2 DEF CInv, AmountsTyped
  <2>6. \A r \in DOMAIN funding' : funding'[r].burst \in Vector
    BY <2>2 DEF CInv, AmountsTyped
  <2>7. PICK W : W = ReturnedUsage({bid})
    BY Zenon
  <2>8. DOMAIN W = Tenant
    BY <2>7, Zenon DEF ReturnedUsage
  <2>9. PICK U : U = [W EXCEPT ![t] = Synced(t, W[t])]
    BY Zenon
  <2>10. ASSUME \A x \in Tenant : UsageTyped(W[x]) PROVE SyncedFrom(W)
    <3>1. usage' = [U EXCEPT ![lender] = Synced(lender, U[lender])]
      BY <2>2, <2>7, <2>9, Zenon
    <3>2. /\ DOMAIN U = Tenant
          /\ U[t] = Synced(t, W[t])
          /\ \A y \in Tenant \ {t} : U[y] = W[y]
      BY <2>8, <2>9, Zenon
    <3>3. usage'[lender] = Synced(lender, U[lender]) /\ \A y \in Tenant \ {lender} : usage'[y] = U[y]
      BY <3>1, <3>2, Zenon
    <3>4. OnceEnough(t, W[t])
      BY <2>10, SyncedTwice
    <3> QED
      BY <2>10, <3>2, <3>3, <3>4, ZenonT(30) DEF SyncedFrom, OnceEnough
  <2> QED
    BY <2>2, <2>4, <2>5, <2>6, <2>7, <2>10, <1>ReturnsCounted, Zenon
\* One tenant is synced and the others are left alone.
<1>OneSynced.
  ASSUME CInv, NEW t \in Tenant, usage' = [usage EXCEPT ![t] = Synced(t, @)], NEW x \in Tenant
  PROVE  LentLeft(x)
  <2> USE <1>OneSynced
  <2>1. UsageTyped(usage[x]) /\ DOMAIN usage = Tenant
    BY Zenon DEF CInv, CountersTyped, IInv, QuotasTyped
  <2> QED
    BY <2>1, Zenon DEF LentLeft
\* start_allocation.
<1>StartCounts.
  ASSUME CInv, Records', NEW t \in Tenant, NEW rid, NEW req, NEW auth,
         StartAllocation(t, rid, req, auth)
  PROVE  CountersKept
  <2> USE <1>StartCounts
  <2>1. /\ lends' = lends /\ borrows' = borrows /\ funding' = funding
        /\ usage' = [usage EXCEPT ![t] = Synced(t, @)]
        /\ allocations' = Append(allocations,
             [tenant |-> t, reservation |-> rid,
              resources |-> req, used |-> Empty, active |-> TRUE])
    BY Zenon DEF StartAllocation, ledgerVars
  <2>2. \A x \in Tenant : LentLeft(x)
    BY <2>1, <1>OneSynced, Zenon
  <2>3. \A r \in DOMAIN funding' : funding'[r].burst \in Vector
    BY <2>1, Zenon DEF CInv, AmountsTyped
  <2>4. \A a \in DOMAIN allocations' : allocations'[a].used \in Vector
    <3>1. \A a \in DOMAIN allocations : allocations[a].used \in Vector
      BY Zenon DEF CInv, AmountsTyped
    <3>2. IsSequence(allocations)
      BY Zenon DEF CInv, IInv, Records, AllocationsTyped
    <3> QED
      BY <2>1, <3>1, <3>2, EmptyVector DEF IsSequence
  <2> QED
    BY <2>1, <2>2, <2>3, <2>4, OthersCounted, Zenon
\* resize_allocation, denied or not.
<1>ResizeCounts.
  ASSUME CInv, Records', NEW t \in Tenant, NEW aid \in ActiveAllocations(t),
         NEW delta \in Deltas, NEW auth, ResizeAllocation(t, aid, delta, auth)
  PROVE  CountersKept
  <2> USE <1>ResizeCounts
  <2>1. /\ lends' = lends /\ borrows' = borrows /\ funding' = funding
        /\ usage' = usage \/ usage' = [usage EXCEPT ![t] = Synced(t, @)]
        /\ allocations' = [allocations EXCEPT
             ![aid].used = Resized(@, delta, allocations[aid].resources)]
    BY Zenon DEF ResizeAllocation, ledgerVars, resVars
  <2>2. \A x \in Tenant : LentLeft(x)
    <3>1. CASE usage' = usage
      BY <3>1, Zenon DEF LentLeft, CInv, CountersTyped
    <3>2. CASE usage' = [usage EXCEPT ![t] = Synced(t, @)]
      BY <3>2, <1>OneSynced, Zenon
    <3> QED
      BY <2>1, <3>1, <3>2, Zenon
  <2>3. \A r \in DOMAIN funding' : funding'[r].burst \in Vector
    BY <2>1, Zenon DEF CInv, AmountsTyped
  <2>4. \A a \in DOMAIN allocations' : allocations'[a].used \in Vector
    <3>1. \A a \in DOMAIN allocations : allocations[a].used \in Vector
      BY Zenon DEF CInv, AmountsTyped
    <3>2. aid \in DOMAIN allocations
      BY Zenon DEF ActiveAllocations
    <3>3. /\ allocations[aid].resources \in Vector
          /\ DOMAIN allocations[aid] = AllocationFields
      BY <3>2, InputAssumption, Zenon DEF CInv, IInv, Records, AllocationsTyped
    <3>4. delta \in Vector
      BY InputAssumption
    <3>5. PICK r : r = Resized(allocations[aid].used, delta, allocations[aid].resources)
      BY Zenon
    <3>6. r \in Vector
      <4>1. AddSaturating(allocations[aid].used, delta) \in Vector
        BY <3>1, <3>2, <3>4, AddSaturatingVector
      <4> QED
        BY <3>3, <3>5, <4>1, Min2Vector, Zenon DEF Resized
    <3>7. allocations' = [allocations EXCEPT ![aid].used = r]
      BY <2>1, <3>5, Zenon
    <3> QED
      BY <3>1, <3>2, <3>3, <3>6, <3>7 DEF AllocationFields
  <2> QED
    BY <2>1, <2>2, <2>3, <2>4, OthersCounted, Zenon
\* release_allocation.
<1>ReleaseAllocationCounts.
  ASSUME CInv, Records', NEW t \in Tenant, NEW aid \in ActiveAllocations(t), NEW auth,
         ReleaseAllocation(t, aid, auth)
  PROVE  CountersKept
  <2> USE <1>ReleaseAllocationCounts
  <2>1. /\ lends' = lends /\ borrows' = borrows /\ funding' = funding
        /\ usage' = [usage EXCEPT ![t] = Synced(t, @)]
        /\ allocations' = [allocations EXCEPT ![aid].active = FALSE]
    BY Zenon DEF ReleaseAllocation, ledgerVars, resVars
  <2>2. \A x \in Tenant : LentLeft(x)
    BY <2>1, <1>OneSynced, Zenon
  <2>3. \A r \in DOMAIN funding' : funding'[r].burst \in Vector
    BY <2>1, Zenon DEF CInv, AmountsTyped
  <2>4. \A a \in DOMAIN allocations' : allocations'[a].used \in Vector
    <3>1. \A a \in DOMAIN allocations : allocations[a].used \in Vector
      BY Zenon DEF CInv, AmountsTyped
    <3>2. \A a \in DOMAIN allocations : DOMAIN allocations[a] = AllocationFields
      BY Zenon DEF CInv, IInv, Records, AllocationsTyped
    <3> QED
      BY <2>1, <3>1, <3>2 DEF AllocationFields
  <2> QED
    BY <2>1, <2>2, <2>3, <2>4, OthersCounted, Zenon
\* Nothing the counters are about changes.
<1>QuietCounts.
  ASSUME CInv, Records', UNCHANGED <<usage, funding, allocations, borrows, lends>>
  PROVE  CountersKept
  <2> USE <1>QuietCounts
  <2>1. \A x \in Tenant : LentLeft(x)
    BY Zenon DEF CInv, CountersTyped, LentLeft
  <2> QED
    BY <2>1, OthersCounted, Zenon DEF CInv, AmountsTyped
\* apply_observation.
<1>ObserveCounts.
  ASSUME CInv, Records', Observe
  PROVE  CountersKept
  <2> USE <1>ObserveCounts
  \* set keeps a vector a vector.
  <2>SetVector.
    ASSUME NEW v \in Vector, NEW d \in Dim, NEW x \in Int, x <= MaxInt
    PROVE  SetAmount(v, d, x) \in Vector
    <3> USE <2>SetVector
    <3>1. CASE x < 0
      BY <3>1 DEF SetAmount
    <3>2. CASE ~(x < 0)
      <4>1. PICK w : w = SetAmount(v, d, x)
        BY Zenon
      <4>2. w = [e \in DOMAIN v \cup {d} |-> IF e = d THEN x ELSE v[e]]
        BY <3>2, <4>1 DEF SetAmount
      <4>3. DOMAIN v \subseteq Dim /\ \A e \in DOMAIN v : v[e] \in 0..MaxInt
        BY VectorShape
      <4>4. x \in 0..MaxInt
        BY <3>2, MaxIntAssumption
      <4>5. w = [e \in DOMAIN w |-> w[e]] /\ DOMAIN w \subseteq Dim
        BY <4>2, <4>3
      <4>6. \A e \in DOMAIN w : w[e] \in 0..MaxInt
        BY <4>2, <4>3, <4>4
      <4> QED
        BY <4>1, <4>5, <4>6, IsVector, Zenon
    <3> QED
      BY <3>1, <3>2, Zenon
  \* An observation sets the consumption of one tenant.
  <2>ConsumptionSet.
    ASSUME CInv, NEW t \in Tenant, NEW d \in Dim, NEW total \in Int, total <= MaxInt,
           usage' = [usage EXCEPT ![t].consumption = SetAmount(@, d, total)], NEW x \in Tenant
    PROVE  LentLeft(x)
    <3> USE <2>ConsumptionSet
    <3>1. \A y \in Tenant : UsageTyped(usage[y])
      BY Zenon DEF CInv, CountersTyped
    <3>2. DOMAIN usage = Tenant
      BY Zenon DEF CInv, IInv, QuotasTyped
    <3>3. PICK c : c = SetAmount(usage[t].consumption, d, total)
      BY Zenon
    <3>4. c \in Vector
      BY <3>1, <3>3, <2>SetVector DEF UsageTyped, Counters
    <3>5. usage' = [usage EXCEPT ![t].consumption = c]
      BY <3>3, Zenon
    <3>6. UsageTyped(usage'[x]) /\ usage'[x].lent = usage[x].lent
      BY <3>1, <3>2, <3>4, <3>5 DEF UsageTyped, UsageFields, Counters
    <3> QED
      BY <3>6, Zenon DEF LentLeft
  \* The new total is a number that fits, if the call goes through.
  <2>TotalsFit.
    ASSUME CInv, NEW t \in Tenant, NEW d, NEW amount \in UsageDeltas
    PROVE  /\ Get(usage[t].consumption, d) + amount \in Int
           /\ Greater(0, Get(usage[t].consumption, d) - amount) \in Int
    <3> USE <2>TotalsFit
    <3>1. Get(usage[t].consumption, d) \in 0..MaxInt
      BY VectorShape, Zenon DEF CInv, CountersTyped, UsageTyped, Counters
    <3>2. amount \in Int
      BY InputAssumption, Zenon
    <3>3. PICK x : x = Get(usage[t].consumption, d)
      BY Zenon
    <3> QED
      BY <3>1, <3>2, <3>3 DEF Greater
  <2>1. PICK t \in Tenant :
          \/ \E d \in Consumable, amount \in Samples, at \in 0..now :
               ObserveWindow(t, d, amount, at)
          \/ \E amount \in UsageDeltas :
               \/ \E d \in Dim : ObserveDelta(t, d, amount)
               \/ \E aid \in 0..Len(allocations) : ResidencyAdded(t, aid, amount)
               \/ ResidencyRemoved(t, amount)
    BY Zenon DEF Observe
  <2>2. AmountsTyped /\ CountersTyped
    BY Zenon DEF CInv
  <2>3. ASSUME NEW d, NEW amount, NEW at, ObserveWindow(t, d, amount, at)
        PROVE  CountersKept
    BY <2>3, <1>QuietCounts, Zenon DEF ObserveWindow, resVars, ledgerVars
  <2>4. ASSUME NEW amount \in UsageDeltas, NEW d \in Dim, ObserveDelta(t, d, amount)
        PROVE  CountersKept
    <3>1. PICK total : total = Get(usage[t].consumption, d) + amount
      BY Zenon
    <3>2. /\ total \in Int /\ total <= MaxInt
          /\ usage' = [usage EXCEPT ![t].consumption = SetAmount(@, d, total)]
          /\ lends' = lends /\ borrows' = borrows /\ funding' = funding /\ allocations' = allocations
      BY <2>4, <3>1, <2>TotalsFit, Zenon DEF ObserveDelta, resVars, ledgerVars
    <3>3. \A x \in Tenant : LentLeft(x)
      BY <3>2, <2>ConsumptionSet, Zenon
    <3> QED
      BY <2>2, <3>2, <3>3, OthersCounted, Zenon DEF AmountsTyped
  <2>5. ASSUME NEW amount \in UsageDeltas, NEW aid, ResidencyAdded(t, aid, amount)
        PROVE  CountersKept
    <3>1. PICK total : total = Get(usage[t].consumption, ModelResidency) + amount
      BY Zenon
    <3>2. /\ total \in Int /\ total <= MaxInt
          /\ usage' = [usage EXCEPT ![t].consumption = SetAmount(@, ModelResidency, total)]
          /\ allocations' = [a \in DOMAIN allocations |->
               IF a = aid THEN [allocations[a] EXCEPT !.used = SetAmount(@, ModelResidency, total)]
               ELSE allocations[a]]
          /\ lends' = lends /\ borrows' = borrows /\ funding' = funding
      BY <2>5, <3>1, <2>TotalsFit, Zenon DEF ResidencyAdded, resVars, ledgerVars
    <3>3. \A x \in Tenant : LentLeft(x)
      BY <3>2, <2>ConsumptionSet, InputAssumption, Zenon
    <3>4. \A a \in DOMAIN allocations' : allocations'[a].used \in Vector
      <4>1. \A a \in DOMAIN allocations : DOMAIN allocations[a] = AllocationFields
        BY Zenon DEF CInv, IInv, Records, AllocationsTyped
      <4>2. \A a \in DOMAIN allocations : SetAmount(allocations[a].used, ModelResidency, total) \in Vector
        BY <2>2, <3>2, <2>SetVector, InputAssumption DEF AmountsTyped
      <4>3. \A a \in DOMAIN allocations : allocations[a].used \in Vector
        BY <2>2 DEF AmountsTyped
      <4> QED
        BY <3>2, <4>1, <4>2, <4>3 DEF AllocationFields
    <3>5. \A r \in DOMAIN funding' : funding'[r].burst \in Vector
      BY <2>2, <3>2, Zenon DEF AmountsTyped
    <3> QED
      BY <3>2, <3>3, <3>4, <3>5, OthersCounted, Zenon
  <2>6. ASSUME NEW amount \in UsageDeltas, ResidencyRemoved(t, amount)
        PROVE  CountersKept
    <3>1. PICK total : total = Greater(0, Get(usage[t].consumption, ModelResidency) - amount)
      BY Zenon
    <3>2. /\ total \in Int /\ total <= MaxInt
          /\ usage' = [usage EXCEPT ![t].consumption = SetAmount(@, ModelResidency, total)]
          /\ lends' = lends /\ borrows' = borrows /\ funding' = funding /\ allocations' = allocations
      BY <2>6, <3>1, <2>TotalsFit, Zenon DEF ResidencyRemoved, resVars, ledgerVars
    <3>3. \A x \in Tenant : LentLeft(x)
      BY <3>2, <2>ConsumptionSet, InputAssumption, Zenon
    <3> QED
      BY <2>2, <3>2, <3>3, OthersCounted, Zenon DEF AmountsTyped
  <2> QED
    BY <2>1, <2>3, <2>4, <2>5, <2>6, Zenon
\* One call.
<1>CallCounts.
  ASSUME CInv, Records', NEW auth, Call(auth)
  PROVE  CountersKept
  <2> USE <1>CallCounts
  \* A call that appends loans: the lenders' counters grow with the records.
  <2>LoansCounted.
    ASSUME CInv, Records', NEW t, LoansTaken(t)
    PROVE  CountersKept
    <3> USE <2>LoansCounted
    <3> PICK n, need, from, nl, nb, W : LoanStep(t, n, need, from, nl, nb, W)
      BY Zenon DEF LoansTaken
    <3>0. /\ Run(t, n, need, from) /\ LendsFit(n, need, from, nl)
          /\ lends' = lends \o nl
          /\ nb = [i \in 1..n |-> nb[i]]
          /\ \A i \in 1..n : nb[i].amount \in Vector /\ nb[i].consumed \in Vector
          /\ borrows' = borrows \o nb
          /\ allocations' = allocations
          /\ \A r \in DOMAIN funding' : funding'[r].burst \in Vector
          /\ SyncedFrom(W)
          /\ \A x \in Tenant : UsageTyped(W[x]) /\ W[x].lent = WithLent(need, from)[x].lent
      BY Zenon DEF LoanStep
    <3> USE <3>0
    <3>1. Records /\ AmountsTyped /\ CountersTyped /\ LentCovered /\ QuotasTyped
      BY DEF CInv, IInv
    <3>2. n \in Nat /\ Vectors(need, 1..n)
      BY DEF Run, Asks
    <3>3. /\ LoansTyped(lends')
          /\ \A x, d : LentTotal(x, d)' <= LentTotal(x, d) + Total(need, FromOf(n, from, x), d)
      BY <3>1, <3>2, LentWritten
    <3>4. \A b \in DOMAIN borrows' : borrows'[b].amount \in Vector /\ borrows'[b].consumed \in Vector
      <4>1. Joined(borrows', borrows, n, nb)
        BY <3>1, <3>2, JoinedIs, Zenon DEF Records, LedgerTyped, IsSequence
      <4>2. \A b \in DOMAIN borrows : borrows[b].amount \in Vector /\ borrows[b].consumed \in Vector
        BY <3>1 DEF AmountsTyped
      <4>3. ASSUME NEW b \in DOMAIN borrows'
            PROVE  borrows'[b].amount \in Vector /\ borrows'[b].consumed \in Vector
        <5>1. (b \in DOMAIN borrows /\ borrows'[b] = borrows[b]) \/ \E i \in 1..n : borrows'[b] = nb[i]
          BY <4>1, <4>3, ZenonT(30) DEF Joined
        <5> QED
          BY <4>2, <5>1, ZenonT(30)
      <4> QED
        BY <4>3, Zenon
    <3>5. AmountsTyped'
      BY <3>1, <3>3, <3>4, ZenonT(30) DEF AmountsTyped
    <3>6. ASSUME NEW x \in Tenant, NEW d \in Dim
          PROVE  LentTotal(x, d)' <= Get(W[x].lent, d)
      <4>1. PICK l, l1, u, w, s : /\ l = LentTotal(x, d) /\ l1 = LentTotal(x, d)'
                                  /\ u = Get(usage[x].lent, d) /\ w = Get(W[x].lent, d)
                                  /\ s = Total(need, FromOf(n, from, x), d)
        OBVIOUS
      <4>2. w = u + s
        <5>1. Get(WithLent(need, from)[x].lent, d)
                = Get(usage[x].lent, d) + Total(need, FromOf(n, from, x), d)
          BY <3>1, RunCounted
        <5> QED
          BY <4>1, <5>1, Zenon
      <4>3. l1 <= l + s /\ l <= u
        BY <3>1, <3>3, <4>1, Zenon DEF LentCovered
      <4>4. l \in Nat /\ l1 \in Nat
        <5>1. LentSums
          BY <3>1, LentSumsHold
        <5>2. LentSums'
          <6>1. Records' /\ AmountsTyped' => LentSums'
            BY LentSumsHold, PTL
          <6> QED
            BY <3>5, <6>1
        <5> QED
          BY <4>1, <5>1, <5>2, Zenon DEF LentSums
      <4>5. s \in Nat
        BY <3>2, <4>1, AsksFinite
      <4>6. u \in Nat
        <5>1. usage[x].lent \in Vector
          BY <3>1 DEF CountersTyped, UsageTyped, Counters
        <5> QED
          BY <4>1, <5>1, VectorShape, MaxIntAssumption, SMTT(20)
      <4>7. l1 <= w
        BY <4>2, <4>3, <4>4, <4>5, <4>6
      <4> QED
        BY <4>1, <4>7, Zenon
    <3>7. CountersTyped' /\ LentCovered'
      <4>1. \A x \in Tenant : /\ UsageTyped(W[x])
                              /\ \A d \in Dim : LentTotal(x, d)' <= Get(W[x].lent, d)
        BY <3>6, Zenon
      <4> QED
        BY <3>5, <4>1, SyncKeeps, Zenon DEF SyncedFrom
    <3> QED
      BY <3>5, <3>7 DEF CountersKept
  <2>1. PICK t \in Tenant :
          \/ \E req \in Requests :
               Reserve(t, req, auth) \/ ReserveRolledBack(t, req, auth)
          \/ \E rid \in LiveReservations(t) :
               \/ \E req \in Requests : StartAllocation(t, rid, req, auth)
               \/ Release(t, rid, auth)
          \/ \E aid \in ActiveAllocations(t) :
               \/ \E delta \in Deltas : ResizeAllocation(t, aid, delta, auth)
               \/ ReleaseAllocation(t, aid, auth)
          \/ \E amount \in Loans :
               \/ Borrow(t, amount, auth)
               \/ \E lender \in Tenant : Lend(lender, t, amount, auth)
          \/ \E bid \in OpenBorrows(t), lender \in Tenant :
               RecallBorrow(bid, t, lender, auth)
    BY Zenon DEF Call
  <2>2. CASE \E req \in Requests : Reserve(t, req, auth) \/ ReserveRolledBack(t, req, auth)
    BY <2>2, ReserveLoans, RollbackLoans, <2>LoansCounted, Zenon
  <2>3. CASE \E rid \in LiveReservations(t) :
               \/ \E req \in Requests : StartAllocation(t, rid, req, auth)
               \/ Release(t, rid, auth)
    BY <2>3, <1>StartCounts, <1>ReleaseCounts, Zenon
  <2>4. CASE \E aid \in ActiveAllocations(t) :
               \/ \E delta \in Deltas : ResizeAllocation(t, aid, delta, auth)
               \/ ReleaseAllocation(t, aid, auth)
    BY <2>4, <1>ResizeCounts, <1>ReleaseAllocationCounts, Zenon
  <2>5. CASE \E amount \in Loans :
               \/ Borrow(t, amount, auth)
               \/ \E lender \in Tenant : Lend(lender, t, amount, auth)
    BY <2>5, BorrowLoans, LendLoans, <2>LoansCounted, Zenon
  <2>6. CASE \E bid \in OpenBorrows(t), lender \in Tenant : RecallBorrow(bid, t, lender, auth)
    BY <2>6, <1>RecallCounts, Zenon
  <2> QED
    BY <2>1, <2>2, <2>3, <2>4, <2>5, <2>6, Zenon
<1> SUFFICES ASSUME CInv, IInv', [Next]_vars PROVE CInv'
  BY Zenon
<1>2. Records'
  BY Zenon DEF IInv
<1>3. CountersKept
  <2>1. CASE Configure
    BY <1>2, <2>1, <1>QuietCounts, Zenon DEF Configure, SetPolicy, AdvanceEpoch, SetTenantQuota,
       SetGroupQuota, resVars, ledgerVars
  <2>2. CASE \E auth \in Authority : Call(auth)
    BY <1>2, <2>2, <1>CallCounts, Zenon
  <2>3. CASE Observe
    BY <1>2, <2>3, <1>ObserveCounts, Zenon
  <2>4. CASE Tick
    BY <1>2, <2>4, <1>QuietCounts, Zenon DEF Tick, resVars, ledgerVars
  <2>5. CASE UNCHANGED vars
    BY <1>2, <2>5, <1>QuietCounts, Zenon DEF vars, resVars, ledgerVars
  <2> QED
    BY <2>1, <2>2, <2>3, <2>4, <2>5, Zenon DEF Next
<1> QED
  BY <1>3, Zenon DEF CInv, CountersKept

\* Counters of zero are counters.
LEMMA NoUsageTyped == UsageTyped(NoUsage)
BY EmptyVector DEF UsageTyped, NoUsage, UsageFields, Counters

\* A new engine has nothing to count.
LEMMA InitCounts ==
  ASSUME Init, IInv
  PROVE  CInv
<1>2. AmountsTyped
  BY DEF Init, AmountsTyped, LoansTyped
<1>3. usage = [t \in Tenant |-> NoUsage] /\ lends = <<>>
  BY Zenon DEF Init
<1>4. CountersTyped
  BY <1>3, NoUsageTyped, Zenon DEF CountersTyped
<1>5. ASSUME NEW t \in Tenant, NEW d \in Dim
      PROVE  LentTotal(t, d) <= Get(usage[t].lent, d)
  <2>1. LendsOf(lends, t) = {}
    BY <1>3 DEF LendsOf
  <2>2. LentTotal(t, d) = 0
    BY <2>1, TotalEmpty, Zenon DEF LentTotal, LentIn
  <2>3. Get(usage[t].lent, d) = 0
    BY <1>3, EmptyVector DEF NoUsage
  <2> QED
    BY <2>2, <2>3
<1> QED
  BY <1>2, <1>4, <1>5 DEF CInv, LentCovered

\* A call that syncs every tenant and changes no record.
LEMMA AllSyncedCounts ==
  ASSUME CInv, Records', UNCHANGED <<funding, allocations, borrows, lends>>,
         usage' = [t \in Tenant |-> Synced(t, NoUsage)]
  PROVE  CountersKept
<1>1. \A x \in Tenant : LentLeft(x)
  BY NoUsageTyped, Zenon DEF LentLeft
<1> QED
  BY <1>1, OthersCounted, Zenon DEF CInv, AmountsTyped

\* What the counter covers covers the sum the code computes.
LEMMA CoveredSums == CInv => LentNeverUnderstated
<1> SUFFICES ASSUME CInv, NEW t \in Tenant, NEW d \in Dim
             PROVE  Get(usage[t].lent, d) >= Get(computed_lent(t), d)
  BY DEF LentNeverUnderstated
<1>1. Records /\ AmountsTyped /\ CountersTyped /\ LentCovered
  BY Zenon DEF CInv, IInv
<1>2. LentTotal(t, d) \in Nat /\ Get(computed_lent(t), d) <= LentTotal(t, d)
  BY <1>1, LentSumsHold DEF LentSums
<1>3. LentTotal(t, d) <= Get(usage[t].lent, d)
  BY <1>1 DEF LentCovered
<1>4. Get(computed_lent(t), d) \in Int
  BY <1>1, SumsAreTyped, VectorShape, MaxIntAssumption DEF ComputedTyped
<1>5. Get(usage[t].lent, d) \in Int
  BY <1>1, VectorShape, MaxIntAssumption DEF CountersTyped, UsageTyped, Counters
<1> QED
  BY <1>2, <1>3, <1>4, <1>5

-----------------------------------------------------------------------------

\* A new engine has reserved nothing.
LEMMA InitReserved == Init => ReservedExact
<1> SUFFICES ASSUME Init, NEW t \in Tenant PROVE usage[t].reserved = Held(t)
  BY Zenon DEF ReservedExact
<1>1. LiveReservations(t) = {}
  BY DEF Init, LiveReservations
<1>2. Held(t) = Empty
  BY <1>1, VSumStep, EmptyFinite DEF Held
<1> QED
  BY <1>2 DEF Init, NoUsage

-----------------------------------------------------------------------------
(***************************************************************************)
(* What reservations hold, without overflow.                               *)
(***************************************************************************)
Resources == [r \in DOMAIN reservations |-> reservations[r].resources]

ReservationsOf(S) == {r \in DOMAIN reservations : reservations[r].tenant \in S}

\* The resources of a reservation are a vector.
LEMMA ResourcesTyped ==
  ASSUME Records
  PROVE  /\ IsFiniteSet(DOMAIN reservations)
         /\ Vectors(Resources, DOMAIN reservations)
         /\ \A r \in DOMAIN reservations : reservations[r].tenant \in Tenant
<1>1. \A r \in DOMAIN reservations : reservations[r].resources \in Vector /\ reservations[r].tenant \in Tenant
  BY InputAssumption DEF Records, ReservationsTyped
<1> QED
  BY <1>1, TablesFinite, Zenon DEF Vectors, Resources

\* The parts of the reservations the sums are over.
LEMMA HeldParts ==
  ASSUME Records, NEW t, NEW S, NEW d
  PROVE  /\ IsFiniteSet(LiveReservations(t)) /\ Vectors(Resources, LiveReservations(t))
         /\ LiveReservations(t) \in SUBSET DOMAIN reservations
         /\ ReservationsOf(S) \in SUBSET DOMAIN reservations
         /\ Total(Resources, LiveReservations(t), d) \in Nat
         /\ Total(Resources, ReservationsOf(S), d) \in Nat
         /\ Total(Resources, DOMAIN reservations, d) \in Nat
         /\ Total(Resources, LiveReservations(t), d) <= Total(Resources, DOMAIN reservations, d)
         /\ Total(Resources, ReservationsOf(S), d) <= Total(Resources, DOMAIN reservations, d)
<1>1. /\ LiveReservations(t) \in SUBSET DOMAIN reservations
      /\ ReservationsOf(S) \in SUBSET DOMAIN reservations
  BY DEF LiveReservations, ReservationsOf
<1>2. IsFiniteSet(DOMAIN reservations) /\ Vectors(Resources, DOMAIN reservations)
  BY ResourcesTyped, Zenon
<1>3. /\ IsFiniteSet(LiveReservations(t)) /\ Vectors(Resources, LiveReservations(t))
      /\ IsFiniteSet(ReservationsOf(S)) /\ Vectors(Resources, ReservationsOf(S))
  BY <1>1, <1>2, SubsetFinite, Zenon DEF Vectors
<1> HIDE DEF LiveReservations, ReservationsOf
<1> QED
  BY <1>1, <1>2, <1>3, TotalNat, TotalPart

\* What one tenant holds.
LEMMA HeldOfTenant ==
  ASSUME Records, NEW t
  PROVE  /\ Held(t) \in Vector
         /\ \A d : Get(Held(t), d) <= Total(Resources, LiveReservations(t), d)
         /\ (\A d \in Dim : Total(Resources, LiveReservations(t), d) <= MaxInt)
              => \A d \in Dim : Get(Held(t), d) = Total(Resources, LiveReservations(t), d)
<1>1. PICK L, f, R : /\ L = LiveReservations(t) /\ R = Resources
                     /\ f = [r \in LiveReservations(t) |-> reservations[r].resources]
  BY Zenon
<1>2. IsFiniteSet(L) /\ Vectors(R, L) /\ \A r \in L : f[r] = R[r]
  <2>1. \A r \in L : f[r] = R[r]
    BY <1>1 DEF Resources, LiveReservations
  <2> QED
    BY <1>1, <2>1, HeldParts, Zenon
<1>3. Vectors(f, L)
  BY <1>2, Zenon DEF Vectors
<1>4. \A d : Total(f, L, d) = Total(R, L, d)
  BY <1>2, TotalSame
<1>5. Held(t) = VSum(f, L)
  BY <1>1, Zenon DEF Held
<1>6. VSum(f, L) \in Vector /\ \A d : Get(VSum(f, L), d) <= Total(R, L, d)
  BY <1>2, <1>3, <1>4, VSumAtMost, SMTT(20)
<1>7. (\A d \in Dim : Total(R, L, d) <= MaxInt) => \A d \in Dim : Get(VSum(f, L), d) = Total(R, L, d)
  BY <1>2, <1>3, <1>4, VSumExact
<1> QED
  BY <1>1, <1>5, <1>6, <1>7, Zenon

\* The sums over the reservations of some tenants.
LEMMA HeldByTenant ==
  ASSUME Records, NEW S \in SUBSET Tenant, NEW d
  PROVE  SumFunctionOnSet([t \in S |-> Total(Resources, LiveReservations(t), d)], S)
           = Total(Resources, ReservationsOf(S), d)
<1>1. PICK R, own, f, g : /\ R = DOMAIN reservations
                          /\ own = [r \in R |-> reservations[r].tenant]
                          /\ f = [r \in R |-> Get(Resources[r], d)]
                          /\ g = [t \in S |-> Total(Resources, LiveReservations(t), d)]
  BY Zenon
<1>2. IsFiniteSet(R) /\ IsFiniteSet(S) /\ AllNat(f, R)
  <2>1. IsFiniteSet(R) /\ Vectors(Resources, R)
    BY <1>1, ResourcesTyped, Zenon
  <2>2. \A r \in R : Get(Resources[r], d) \in Nat
    BY <2>1, VectorShape, MaxIntAssumption DEF Vectors
  <2>3. IsFiniteSet(S)
    BY HierarchyAssumption, SubsetFinite
  <2> QED
    BY <1>1, <2>1, <2>2, <2>3 DEF AllNat
<1>3. \A T \in SUBSET R : Total(Resources, T, d) = SumFunctionOnSet(f, T)
  BY <1>1, <1>2, TotalOver, SMTT(20)
<1>4. OwnedBy(own, R, S) = ReservationsOf(S) /\ ReservationsOf(S) \in SUBSET R
  BY <1>1 DEF OwnedBy, ReservationsOf
<1>5. ASSUME NEW t \in S PROVE g[t] = SumFunctionOnSet(f, OwnedBy(own, R, {t}))
  <2>1. OwnedBy(own, R, {t}) = LiveReservations(t) /\ LiveReservations(t) \in SUBSET R
    BY <1>1 DEF OwnedBy, LiveReservations
  <2>2. g[t] = Total(Resources, LiveReservations(t), d)
    BY <1>1, Zenon
  <2> QED
    BY <1>3, <2>1, <2>2, Zenon
<1>6. SumFunctionOnSet(g, S) = SumFunctionOnSet(f, OwnedBy(own, R, S))
  <2>1. OwnerSums(g, S, own, R, f)
    BY <1>5, Zenon DEF OwnerSums
  <2> QED
    BY <1>2, <2>1, SumByOwner, Zenon
<1> QED
  BY <1>1, <1>3, <1>4, <1>6, Zenon

-----------------------------------------------------------------------------
(***************************************************************************)
(* What is committed, while everything fits.                               *)
(***************************************************************************)
Consumed(d) == SumFunctionOnSet([t \in Tenant |-> Get(usage[t].consumption, d)], Tenant)

\* InUse in terms of totals.
LEMMA InUseIs ==
  ASSUME CInv, NEW d \in Dim
  PROVE  /\ Consumed(d) \in Nat
         /\ Total(Resources, DOMAIN reservations, d) \in Nat
         /\ InUse(d) = Consumed(d) + Total(Resources, DOMAIN reservations, d)
<1>1. PICK c, f, g : /\ c = [t \in Tenant |-> Get(usage[t].consumption, d)]
                     /\ f = [r \in DOMAIN reservations |-> Get(reservations[r].resources, d)]
                     /\ g = [r \in DOMAIN reservations |-> Get(Resources[r], d)]
  BY Zenon
<1>2. InUse(d) = SumFunction(c) + SumFunction(f)
  BY <1>1, Zenon DEF InUse
<1>3. SumFunction(c) = Consumed(d) /\ SumFunction(f) = SumFunctionOnSet(f, DOMAIN reservations)
  <2>1. DOMAIN c = Tenant /\ DOMAIN f = DOMAIN reservations
    BY <1>1
  <2> QED
    BY <1>1, <2>1, Zenon DEF SumFunction, Consumed
<1>4. f = g
  BY <1>1 DEF Resources
<1>5. Total(Resources, DOMAIN reservations, d) = SumFunctionOnSet(f, DOMAIN reservations)
  BY <1>1, <1>4, Zenon DEF Total
<1>6. Total(Resources, DOMAIN reservations, d) \in Nat
  BY HeldParts, SMTT(20) DEF CInv, IInv
<1>7. AllNat(c, Tenant) /\ IsFiniteSet(Tenant)
  BY <1>1, VectorShape, MaxIntAssumption, HierarchyAssumption
     DEF AllNat, CInv, CountersTyped, UsageTyped, Counters
<1>8. Consumed(d) \in Nat
  BY <1>1, <1>7, SumNat DEF Consumed
<1> QED
  BY <1>2, <1>3, <1>5, <1>6, <1>8, Zenon

\* While the resources fit, so do their parts.
LEMMA FitTotals ==
  ASSUME CInv, ResourcesFit, NEW d \in Dim
  PROVE  /\ Consumed(d) \in Nat
         /\ Total(Resources, DOMAIN reservations, d) \in Nat
         /\ Consumed(d) + Total(Resources, DOMAIN reservations, d) <= MaxInt
         /\ Total(Resources, DOMAIN reservations, d) <= MaxInt
<1>1. PICK c, r : c = Consumed(d) /\ r = Total(Resources, DOMAIN reservations, d)
  BY Zenon
<1>2. c \in Nat /\ r \in Nat /\ c + r <= MaxInt
  BY <1>1, InUseIs, Zenon DEF ResourcesFit
<1>3. r <= MaxInt
  BY <1>2, MaxIntAssumption
<1> QED
  BY <1>1, <1>2, <1>3, Zenon

\* Then what a tenant that runs nothing has reserved is what it holds, exactly.
LEMMA ReservedIsHeld ==
  ASSUME CInv, ReservedExact, ResourcesFit, NEW t \in Tenant, Idle(t), NEW d \in Dim
  PROVE  /\ Get(usage[t].reserved, d) = Total(Resources, LiveReservations(t), d)
         /\ Get(Held(t), d) = Total(Resources, LiveReservations(t), d)
<1>1. \A e \in Dim : Total(Resources, LiveReservations(t), e) <= MaxInt
  <2> SUFFICES ASSUME NEW e \in Dim PROVE Total(Resources, LiveReservations(t), e) <= MaxInt
    OBVIOUS
  <2>1. PICK x, w : /\ x = Total(Resources, LiveReservations(t), e)
                    /\ w = Total(Resources, DOMAIN reservations, e)
    BY Zenon
  <2>2. Records
    BY DEF CInv, IInv
  <2>3. x \in Nat /\ x <= w
    BY <2>1, <2>2, HeldParts, Zenon
  <2>4. w \in Nat /\ w <= MaxInt
    BY <2>1, FitTotals, Zenon
  <2> QED
    BY <2>1, <2>3, <2>4, MaxIntAssumption
<1>2. Get(Held(t), d) = Total(Resources, LiveReservations(t), d)
  BY <1>1, HeldOfTenant DEF CInv, IInv
<1>3. usage[t].reserved = Held(t)
  BY Zenon DEF ReservedExact
<1> QED
  BY <1>2, <1>3, Zenon

===============================================================================
