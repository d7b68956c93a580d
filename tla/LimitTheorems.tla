---------------------------- MODULE LimitTheorems ----------------------------
(***************************************************************************)
(* What the engine guarantees about the hard and the soft limit of a       *)
(* tenant.                                                                 *)
(***************************************************************************)
EXTENDS CounterProofs, EngineProofs

-----------------------------------------------------------------------------
(***************************************************************************)
(* The limits of a tenant.  What a reservation holds above them was paid   *)
(* for when it was made: above the soft limit by burst, above the hard     *)
(* limit by borrows.  As reservations may go in any order, that has to be  *)
(* known of every set of reservations a tenant may be left with.           *)
(***************************************************************************)
Amounts == [b \in DOMAIN borrows |-> borrows[b].amount]
Backing(r, d) == Total(Amounts, funding[r].borrows, d)
BackedBy(S, d) == SumFunctionOnSet([r \in S |-> Backing(r, d)], S)

Bursts == [r \in DOMAIN funding |-> funding[r].burst]

\* Nothing is borrowed or charged to the burst beyond the reservation itself.
PaidWithin ==
  \A r \in DOMAIN reservations : \A d \in Dim :
    /\ Backing(r, d) <= Get(reservations[r].resources, d)
    /\ Get(funding[r].burst, d) <= Get(reservations[r].resources, d)

HardCovered ==
  \A t \in Tenant : NeverRan(t) =>
    \A S \in SUBSET LiveReservations(t) : \A d \in Dim \ Consumable :
      Total(Resources, S, d) <= HardOf(effective_lattice(t), d) + BackedBy(S, d)

SoftCovered ==
  \A t \in Tenant : NeverRan(t) =>
    \A S \in SUBSET LiveReservations(t) : (\A r \in S : funding[r].borrows = {}) =>
      \A d \in Dim \ Consumable :
        Total(Resources, S, d) <= SoftOf(effective_lattice(t), d) + Total(Bursts, S, d)

LInv == PaidWithin /\ HardCovered /\ SoftCovered

\* What is borrowed for a reservation, and charged to the burst, are amounts.
LEMMA PaidTyped ==
  ASSUME CInv
  PROVE  /\ IsFiniteSet(DOMAIN reservations)
         /\ Vectors(Resources, DOMAIN reservations) /\ Vectors(Bursts, DOMAIN reservations)
         /\ IsFiniteSet(DOMAIN borrows) /\ Vectors(Amounts, DOMAIN borrows)
         /\ \A r \in DOMAIN reservations : \A d :
              /\ funding[r].borrows \subseteq DOMAIN borrows
              /\ Backing(r, d) \in Nat
<1>1. Records /\ AmountsTyped
  BY DEF CInv, IInv
<1>2. IsFiniteSet(DOMAIN reservations) /\ Vectors(Resources, DOMAIN reservations)
  BY <1>1, ResourcesTyped, Zenon
<1>3. IsFiniteSet(DOMAIN borrows) /\ DOMAIN funding = DOMAIN reservations
  BY <1>1, TablesFinite, Zenon
<1>4. Vectors(Bursts, DOMAIN reservations) /\ Vectors(Amounts, DOMAIN borrows)
  BY <1>1, <1>3 DEF AmountsTyped, Vectors, Bursts, Amounts
<1>5. ASSUME NEW r \in DOMAIN reservations, NEW d
      PROVE  funding[r].borrows \subseteq DOMAIN borrows /\ Backing(r, d) \in Nat
  <2>1. funding[r].borrows \subseteq DOMAIN borrows
    BY <1>1 DEF Records, ReservationsTyped
  <2>2. IsFiniteSet(funding[r].borrows) /\ Vectors(Amounts, funding[r].borrows)
    BY <1>3, <1>4, <2>1, SubsetFinite DEF Vectors
  <2> QED
    BY <2>1, <2>2, TotalNat DEF Backing
<1> QED
  BY <1>2, <1>3, <1>4, <1>5, Zenon

\* The sums over a set of reservations, and over one more.
SumsOver ==
  \A T \in SUBSET DOMAIN reservations : \A d \in Dim :
    /\ Total(Resources, T, d) \in Nat /\ BackedBy(T, d) \in Nat /\ Total(Bursts, T, d) \in Nat
    /\ \A e \in DOMAIN reservations \ T :
         /\ Total(Resources, T \cup {e}, d) = Get(reservations[e].resources, d) + Total(Resources, T, d)
         /\ BackedBy(T \cup {e}, d) = Backing(e, d) + BackedBy(T, d)
         /\ Total(Bursts, T \cup {e}, d) = Get(funding[e].burst, d) + Total(Bursts, T, d)

\* The sums over reservations are naturals and grow by the one that is added.
LEMMA SumsOverHold == CInv => SumsOver
<1> SUFFICES ASSUME CInv, NEW T \in SUBSET DOMAIN reservations, NEW d \in Dim
             PROVE  /\ Total(Resources, T, d) \in Nat /\ BackedBy(T, d) \in Nat
                    /\ Total(Bursts, T, d) \in Nat
                    /\ \A e \in DOMAIN reservations \ T :
                         /\ Total(Resources, T \cup {e}, d)
                              = Get(reservations[e].resources, d) + Total(Resources, T, d)
                         /\ BackedBy(T \cup {e}, d) = Backing(e, d) + BackedBy(T, d)
                         /\ Total(Bursts, T \cup {e}, d) = Get(funding[e].burst, d) + Total(Bursts, T, d)
  BY Zenon DEF SumsOver
<1>1. PICK D, R, B : D = DOMAIN reservations /\ R = Resources /\ B = Bursts
  BY Zenon
<1>2. /\ IsFiniteSet(D) /\ Vectors(R, D) /\ Vectors(B, D) /\ T \in SUBSET D
      /\ \A r \in D : Backing(r, d) \in Nat
  BY <1>1, PaidTyped, Zenon
<1>3. DOMAIN funding = D
  BY <1>1 DEF CInv, IInv, Records, ReservationsTyped
<1>4. \A e \in D : R[e] = reservations[e].resources /\ B[e] = funding[e].burst
  BY <1>1, <1>3 DEF Resources, Bursts
<1>5. ASSUME NEW S \in SUBSET D
      PROVE  IsFiniteSet(S) /\ Vectors(R, S) /\ Vectors(B, S) /\ AllNat([r \in S |-> Backing(r, d)], S)
  BY <1>2, SubsetFinite DEF Vectors, AllNat
<1>6. Total(R, T, d) \in Nat /\ BackedBy(T, d) \in Nat /\ Total(B, T, d) \in Nat
  <2>1. IsFiniteSet(T) /\ Vectors(R, T) /\ Vectors(B, T) /\ AllNat([r \in T |-> Backing(r, d)], T)
    BY <1>2, <1>5
  <2> QED
    BY <2>1, TotalNat, SumNat DEF BackedBy
<1>7. ASSUME NEW e \in D \ T
      PROVE  /\ Total(R, T \cup {e}, d) = Get(reservations[e].resources, d) + Total(R, T, d)
             /\ BackedBy(T \cup {e}, d) = Backing(e, d) + BackedBy(T, d)
             /\ Total(B, T \cup {e}, d) = Get(funding[e].burst, d) + Total(B, T, d)
  <2>1. PICK S : S = T \cup {e}
    BY Zenon
  <2>2. S \in SUBSET D /\ e \in S /\ S \ {e} = T
    BY <1>2, <2>1
  <2>3. IsFiniteSet(S) /\ Vectors(R, S) /\ Vectors(B, S)
    BY <1>5, <2>2, Zenon
  <2>4. /\ Total(R, S, d) = Get(R[e], d) + Total(R, S \ {e}, d)
        /\ Total(B, S, d) = Get(B[e], d) + Total(B, S \ {e}, d)
    BY <2>2, <2>3, TotalRemove
  <2>5. PICK f, g : f = [r \in S |-> Backing(r, d)] /\ g = [r \in T |-> Backing(r, d)]
    BY Zenon
  <2>6. AllNat(f, S) /\ f[e] = Backing(e, d) /\ \A r \in T : f[r] = g[r]
    BY <1>5, <2>2, <2>5
  <2>7. SumFunctionOnSet(f, S) = f[e] + SumFunctionOnSet(f, S \ {e})
    BY <2>2, <2>3, <2>6, SumRemove
  <2>8. IsFiniteSet(T)
    BY <1>2, <1>5, Zenon
  <2>9. SumFunctionOnSet(f, T) = SumFunctionOnSet(g, T)
    BY <2>6, <2>8, SumSame
  <2>10. BackedBy(S, d) = Backing(e, d) + BackedBy(T, d)
    BY <2>2, <2>5, <2>6, <2>7, <2>9, Zenon DEF BackedBy
  <2> QED
    BY <1>4, <2>1, <2>2, <2>4, <2>10, Zenon
<1> QED
  BY <1>1, <1>6, <1>7, Zenon

\* Room for a request is room for none.
LEMMA RequestsLeaveRoom == CInv /\ RequestsFit => ResourcesFit
<1>1. \A d : Get(Empty, d) = 0
  BY EmptyVector
<1> SUFFICES ASSUME CInv, RequestsFit, NEW d \in Dim PROVE InUse(d) <= MaxInt
  BY Zenon DEF ResourcesFit
<1>2. InUse(d) + Get(Empty, d) <= MaxInt
  BY Zenon DEF RequestsFit
<1>3. InUse(d) \in Nat
  BY InUseIs
<1> QED
  BY <1>1, <1>2, <1>3

LimitsAreNatural ==
  \A t \in Tenant : \A d : /\ HardOf(effective_lattice(t), d) \in Nat
                            /\ SoftOf(effective_lattice(t), d) \in Nat

\* Limits are amounts.
LEMMA LimitsAreNumbers == CInv => LimitsAreNatural
<1>1. 0..MaxInt \subseteq Nat
  BY MaxIntAssumption
<1> QED
  BY <1>1, LimitNumbers DEF LimitsAreNatural, CInv, IInv

\* Every step keeps everything covered.
LEMMA StepLimits ==
  CInv /\ CInv' /\ ReservedExact /\ RequestsFit /\ LInv /\ [LimitsStep]_vars /\ [Next]_vars => LInv'
\* The borrows of a new reservation come to what exceeds the hard limit.
<1>RunTotal.
  ASSUME CInv, NEW t \in Tenant, NEW req \in Requests, NEW n, NEW need, NEW from,
         ReserveRun(t, req, n, need, from), NEW d \in Dim
  PROVE  Total(need, 1..n, d) = IF d \in ExcessDims(t, req) THEN ExcessOf(t, req, d) ELSE 0
  <2> USE <1>RunTotal
  <2>1. /\ n \in Nat /\ Vectors(need, 1..n)
        /\ \A i, j \in 1..n : Get(need[i], d) > 0 /\ Get(need[j], d) > 0 => i = j
    BY DEF ReserveRun, Run, Asks
  <2>2. IsFiniteSet(1..n)
    BY <2>1, IntervalFinite
  <2>3. \A e \in ExcessDims(t, req) : /\ e \in Dim /\ ExcessOf(t, req, e) \in 0..MaxInt
                                      /\ ExcessOf(t, req, e) > 0
    <3>1. \A e \in DOMAIN req : e \in Dim /\ req[e] \in 0..MaxInt /\ ExcessOf(t, req, e) \in 0..req[e]
      BY Shares, Zenon DEF CInv, IInv
    <3> QED
      BY <3>1, MaxIntAssumption DEF ExcessDims
  <2>4. \A e \in ExcessDims(t, req) :
          \A c : Get(FromScalar(e, ExcessOf(t, req, e)), c) = IF c = e THEN ExcessOf(t, req, e) ELSE 0
    BY <2>3, ScalarVector, ZenonT(30)
  <2>5. CASE d \in ExcessDims(t, req)
    <3>1. PICK i \in 1..n : need[i] = FromScalar(d, ExcessOf(t, req, d))
      BY <2>5, Zenon DEF ReserveRun
    <3>2. Get(need[i], d) = ExcessOf(t, req, d) /\ Get(need[i], d) > 0 /\ Get(need[i], d) \in 0..MaxInt
      BY <2>3, <2>4, <2>5, <3>1
    <3>3. \A j \in 1..n : Get(need[j], d) \in 0..MaxInt
      BY <2>1, VectorShape DEF Vectors
    <3>4. \A j \in 1..n \ {i} : Get(need[j], d) = 0
      BY <2>1, <3>2, <3>3, MaxIntAssumption
    <3>5. IsFiniteSet(1..n \ {i})
      BY <2>2, SubsetFinite, Zenon
    <3>6. Total(need, 1..n \ {i}, d) = 0
      BY <3>4, <3>5, TotalZero
    <3>7. Total(need, 1..n, d) = Get(need[i], d) + Total(need, 1..n \ {i}, d)
      <4>1. PICK I : I = 1..n
        BY Zenon
      <4>2. IsFiniteSet(I) /\ Vectors(need, I) /\ i \in I
        BY <2>1, <2>2, <4>1, Zenon
      <4>3. Total(need, I, d) = Get(need[i], d) + Total(need, I \ {i}, d)
        BY <4>2, TotalRemove
      <4> QED
        BY <4>1, <4>3, Zenon
    <3> QED
      BY <2>5, <3>2, <3>6, <3>7, MaxIntAssumption
  <2>6. CASE d \notin ExcessDims(t, req)
    <3>1. \A i \in 1..n : \E e \in ExcessDims(t, req) : need[i] = FromScalar(e, ExcessOf(t, req, e))
      BY Zenon DEF ReserveRun
    <3>2. \A i \in 1..n : Get(need[i], d) = 0
      BY <2>4, <2>6, <3>1
    <3> QED
      BY <2>2, <2>6, <3>2, TotalZero, Zenon
  <2> QED
    BY <2>5, <2>6
\* How reserve pays for what it grants.
<1>NewFunding.
  ASSUME CInv, NEW t \in Tenant, NEW req \in Requests, NEW auth, Reserve(t, req, auth)
  PROVE  /\ funding'[nextRes].burst = BurstOf(t, req)
         /\ funding'[nextRes].borrows = {} => ExcessDims(t, req) = {}
         /\ \A r : r = nextRes => \A d \in Dim :
              Backing(r, d)' = IF d \in ExcessDims(t, req) THEN ExcessOf(t, req, d) ELSE 0
         /\ UNCHANGED <<quotaVars, allocations>>
  <2> USE <1>NewFunding
  <2>1. PICK n, need, from : ReserveRun(t, req, n, need, from)
    BY ReserveRuns, Zenon
  <2>2. PICK k, T : k = Len(borrows) /\ T = {Len(borrows) + i : i \in 1..n}
    BY Zenon
  <2>3. n \in Nat /\ need = [i \in 1..n |-> need[i]] /\ Vectors(need, 1..n)
    BY <2>1, Zenon DEF ReserveRun, Run, Asks
  <2>4. funding'[nextRes].burst = BurstOf(t, req) /\ funding'[nextRes].borrows = T
    BY <2>1, <2>2 DEF ReserveRun, AddReservation, Funding
  <2>5. nextRes' = nextRes + 1 /\ UNCHANGED <<quotaVars, allocations>>
    BY <2>1, Zenon DEF ReserveRun, AddReservation
  <2>6. T = {} => ExcessDims(t, req) = {}
    <3>1. \A e \in ExcessDims(t, req) : \E i \in 1..n : TRUE
      BY <2>1, Zenon DEF ReserveRun
    <3> QED
      BY <2>2, <3>1, Zenon
  <2>7. Len(need) = n /\ need \in Seq(Range(need))
    BY <2>3 DEF Range
  <2>8. k \in Nat /\ borrows \in Seq(Range(borrows))
    BY <2>2 DEF CInv, IInv, Records, LedgerTyped, IsSequence
  <2>9. PICK N : N = NewBorrows(t, need, from)
    BY Zenon
  <2>10. N \in Seq(Range(N)) /\ Len(N) = n /\ \A i \in 1..n : N[i].amount = need[i]
    <3>1. N = [i \in 1..n |-> [borrower |-> t, lender |-> from[i], lending |-> Len(lends) + i,
                               amount |-> need[i], consumed |-> need[i], recalled |-> FALSE]]
      BY <2>7, <2>9, Zenon DEF NewBorrows
    <3>2. \A i \in 1..n : N[i].amount = need[i]
      BY <3>1
    <3>3. DOMAIN N = 1..n /\ N = [i \in 1..n |-> N[i]]
      BY <3>1
    <3>4. n \in Nat
      BY <2>3
    <3>5. \A i \in 1..n : N[i] \in Range(N)
      BY <3>3, Zenon DEF Range
    <3>6. N \in [1..n -> Range(N)]
      BY <3>3, <3>5
    <3>7. N \in Seq(Range(N)) /\ Len(N) = n
      BY <3>4, <3>6
    <3> QED
      BY <3>2, <3>7, Zenon
  <2>11. borrows' = borrows \o N
    BY <2>1, <2>9, Zenon DEF ReserveRun
  <2>12. \A i \in 1..n : k + i \in DOMAIN borrows' /\ borrows'[k + i] = N[i]
    BY <2>2, <2>3, <2>8, <2>10, <2>11
  <2>13. PICK A : A = Amounts'
    BY Zenon
  <2>14. \A i \in 1..n : A[k + i] = need[i]
    BY <2>10, <2>12, <2>13 DEF Amounts
  <2>15. Shifts(k, 1..n, T, need, A)
    BY <2>2, <2>14, Zenon DEF Shifts
  <2>16. IsFiniteSet(1..n) /\ 1..n \in SUBSET Nat
    <3>1. 1..n \in SUBSET Nat /\ 1 \in Int /\ n \in Int
      BY <2>3
    <3> QED
      BY <2>3, <3>1, IntervalFinite, Zenon
  <2>17. ASSUME NEW r, r = nextRes, NEW d \in Dim
         PROVE  Backing(r, d)' = IF d \in ExcessDims(t, req) THEN ExcessOf(t, req, d) ELSE 0
    <3>1. Total(A, T, d) = Total(need, 1..n, d)
      BY <2>3, <2>8, <2>15, <2>16, TotalShifted
    <3>2. Total(need, 1..n, d) = IF d \in ExcessDims(t, req) THEN ExcessOf(t, req, d) ELSE 0
      BY <2>1, <1>RunTotal, Zenon
    <3> QED
      BY <2>4, <2>13, <2>17, <3>1, <3>2, Zenon DEF Backing
  <2> QED
    BY <2>4, <2>5, <2>6, <2>17, Zenon
\* Nothing changes in what is known of the reservations that stay.
<1>SumsSurvive.
  ASSUME CInv, FrameKept, NEW S, S \subseteq DOMAIN reservations, S \subseteq DOMAIN reservations',
         DOMAIN funding' = DOMAIN reservations',
         \A r \in S : reservations'[r].resources = reservations[r].resources, NEW d
  PROVE  /\ \A r \in S : /\ Backing(r, d)' = Backing(r, d)
                         /\ funding'[r] = funding[r]
         /\ Total(Resources, S, d)' = Total(Resources, S, d)
         /\ BackedBy(S, d)' = BackedBy(S, d)
         /\ Total(Bursts, S, d)' = Total(Bursts, S, d)
  <2> USE <1>SumsSurvive
  <2>1. IsFiniteSet(S)
    BY PaidTyped, SubsetFinite
  <2>2. \A r \in S : funding'[r] = funding[r]
    BY Zenon DEF FrameKept
  <2>3. ASSUME NEW r \in S PROVE Backing(r, d)' = Backing(r, d)
    <3>1. PICK B, A, A1 : B = funding[r].borrows /\ A = Amounts /\ A1 = Amounts'
      BY Zenon
    <3>2. B \subseteq DOMAIN borrows /\ IsFiniteSet(DOMAIN borrows)
      BY <3>1, PaidTyped, Zenon
    <3>3. IsFiniteSet(B)
      BY <3>2, SubsetFinite
    <3>4. \A b \in B : A1[b] = A[b]
      BY <3>1, <3>2 DEF FrameKept, Amounts
    <3>5. Total(A1, B, d) = Total(A, B, d)
      BY <3>3, <3>4, TotalSame
    <3> QED
      BY <2>2, <3>1, <3>5, Zenon DEF Backing
  <2>4. PICK R, R1, B, B1 : R = Resources /\ R1 = Resources' /\ B = Bursts /\ B1 = Bursts'
    BY Zenon
  <2>5. DOMAIN funding = DOMAIN reservations
    BY DEF CInv, IInv, Records, ReservationsTyped
  <2>6. \A r \in S : R1[r] = R[r] /\ B1[r] = B[r]
    BY <2>2, <2>4, <2>5 DEF Resources, Bursts
  <2>7. Total(R1, S, d) = Total(R, S, d) /\ Total(B1, S, d) = Total(B, S, d)
    BY <2>1, <2>6, TotalSame
  <2>8. [r \in S |-> Backing(r, d)]' = [r \in S |-> Backing(r, d)]
    BY <2>3, Zenon
  <2>9. BackedBy(S, d)' = BackedBy(S, d)
    BY <2>8, Zenon DEF BackedBy
  <2> QED
    BY <2>2, <2>3, <2>4, <2>7, <2>9, Zenon
\* The two shares of a request pay for what it adds above a limit.
<1>HardShare.
  ASSUME NEW hard \in 0..MaxInt, NEW base \in Nat, NEW amt \in Nat, base + amt <= MaxInt,
         NEW held \in Nat, held <= base, NEW paid \in Nat, held <= hard + paid
  PROVE  amt + held <= hard + (Greater(0, Greater(0, SatAdd(base, amt) - hard)
                                            - Greater(0, base - hard)) + paid)
  <2> USE <1>HardShare
  <2>1. SatAdd(base, amt) = base + amt
    BY MaxIntAssumption DEF SatAdd, Lesser
  <2> QED
    BY <2>1, MaxIntAssumption DEF Greater
\* The arithmetic of an admission within the hard limit: the soft limit
\* and what was paid for cover the new holdings.
<1>SoftShare.
  ASSUME NEW hard \in 0..MaxInt, NEW soft \in 0..MaxInt,
         NEW base \in Nat, NEW amt \in Nat, base + amt <= MaxInt,
         NEW held \in Nat, held <= base, NEW paid \in Nat, held <= soft + paid,
         ~(Greater(0, Greater(0, SatAdd(base, amt) - hard) - Greater(0, base - hard)) > 0)
  PROVE  LET over(x) == Lesser(Greater(x - soft, 0), hard - soft)
         IN  amt + held <= soft + (Greater(0, over(SatAdd(base, amt)) - over(base)) + paid)
  <2> USE <1>SoftShare
  <2>1. SatAdd(base, amt) = base + amt
    BY MaxIntAssumption DEF SatAdd, Lesser
  <2>2. amt = 0 \/ base + amt <= hard
    BY <2>1, MaxIntAssumption DEF Greater
  <2>3. CASE amt = 0
    BY <2>1, <2>3, MaxIntAssumption DEF Greater, Lesser
  <2>4. CASE base + amt <= hard
    BY <2>1, <2>4, MaxIntAssumption DEF Greater, Lesser
  <2> QED
    BY <2>2, <2>3, <2>4
\* What reserve adds a request to covers what the tenant holds.
<1>CommittedBase.
  ASSUME CInv, ReservedExact, RequestsFit, NEW t \in Tenant, NeverRan(t),
         NEW req \in Requests, NEW d \in Dim
  PROVE  /\ Get(Committed(t), d) \in Nat
         /\ Get(Committed(t), d) + Get(req, d) <= MaxInt
         /\ Total(Resources, LiveReservations(t), d) <= Get(Committed(t), d)
  <2> USE <1>CommittedBase
  <2>1. ResourcesFit /\ Records
    BY RequestsLeaveRoom DEF CInv, IInv
  <2>2. Idle(t)
    BY DEF NeverRan, Idle, ActiveAllocations
  <2>3. PICK c, r : c = usage[t].consumption /\ r = usage[t].reserved
    BY Zenon
  <2>4. c \in Vector /\ r \in Vector
    BY <2>3 DEF CInv, CountersTyped, UsageTyped, Counters
  <2>5. ASSUME NEW e \in Dim
        PROVE  /\ Get(c, e) \in Nat /\ Get(r, e) \in Nat
               /\ Get(r, e) = Total(Resources, LiveReservations(t), e)
               /\ Get(c, e) + Get(r, e) <= InUse(e)
               /\ Get(c, e) + Get(r, e) <= MaxInt
               /\ InUse(e) \in Nat
    <3>1. PICK f, x, y, z, w : /\ f = [u \in Tenant |-> Get(usage[u].consumption, e)]
                               /\ x = Get(c, e) /\ y = Get(r, e)
                               /\ z = Consumed(e) /\ w = Total(Resources, DOMAIN reservations, e)
      BY Zenon
    <3>2. x \in Nat /\ y \in Nat
      BY <2>4, <3>1, VectorShape, MaxIntAssumption
    <3>3. Get(r, e) = Total(Resources, LiveReservations(t), e)
      BY <2>1, <2>2, <2>3, ReservedIsHeld, Zenon
    <3>4. y <= w
      BY <2>1, <3>1, <3>3, HeldParts, Zenon
    <3>5. AllNat(f, Tenant) /\ f[t] = x
      BY <2>3, <3>1, VectorShape, MaxIntAssumption DEF AllNat, CInv, CountersTyped, UsageTyped, Counters
    <3>6. IsFiniteSet(Tenant) /\ {t} \in SUBSET Tenant
      BY HierarchyAssumption
    <3>7. SumFunctionOnSet(f, {t}) <= SumFunctionOnSet(f, Tenant) /\ SumFunctionOnSet(f, {t}) = f[t]
      BY <3>2, <3>5, <3>6, SumPart, SumSingle
    <3>8. x <= z
      BY <3>1, <3>5, <3>7, Zenon DEF Consumed
    <3>9. z \in Nat /\ w \in Nat /\ InUse(e) = z + w
      BY <3>1, InUseIs, Zenon
    <3>10. InUse(e) <= MaxInt
      BY <2>1, Zenon DEF ResourcesFit
    <3>11. x + y <= InUse(e) /\ x + y <= MaxInt /\ InUse(e) \in Nat
      BY <3>2, <3>4, <3>8, <3>9, <3>10, MaxIntAssumption
    <3> QED
      BY <3>1, <3>2, <3>3, <3>11, Zenon
  <2>6. Get(Add(c, r), d) = Get(c, d) + Get(r, d)
    BY <2>4, <2>5, AddExact, Zenon
  <2>7. Get(Committed(t), d) = Get(c, d) + Get(r, d)
    BY <2>3, <2>6, Zenon DEF Committed
  <2>8. InUse(d) + Get(req, d) <= MaxInt /\ Get(req, d) \in Nat
    <3>1. InUse(d) + Get(req, d) <= MaxInt
      BY Zenon DEF RequestsFit
    <3>2. req \in Vector
      BY InputAssumption
    <3> QED
      BY <3>1, <3>2, VectorShape, MaxIntAssumption
  <2>9. PICK x, y, b, a, m : /\ x = Get(c, d) /\ y = Get(r, d) /\ b = Get(Committed(t), d)
                             /\ a = Get(req, d) /\ m = InUse(d)
    BY Zenon
  <2>10. x \in Nat /\ y \in Nat /\ b = x + y /\ x + y <= m /\ m \in Nat /\ a \in Nat /\ m + a <= MaxInt
    BY <2>5, <2>7, <2>8, <2>9, Zenon
  <2>11. b \in Nat /\ b + a <= MaxInt /\ y <= b
    BY <2>10, MaxIntAssumption
  <2> QED
    BY <2>5, <2>9, <2>11, Zenon
\* A reservation that is added pays for what it holds above the limits.
<1>ReserveCovers.
  ASSUME CInv, ReservedExact, RequestsFit, NEW t \in Tenant, NeverRan(t),
         NEW req \in Requests, NEW d \in Dim \ Consumable,
         NEW held \in Nat, held <= Total(Resources, LiveReservations(t), d), NEW paid \in Nat
  PROVE  LET eff == effective_lattice(t)
             excess == IF d \in ExcessDims(t, req) THEN ExcessOf(t, req, d) ELSE 0
         IN  /\ held <= HardOf(eff, d) + paid
                  => Get(req, d) + held <= HardOf(eff, d) + (excess + paid)
             /\ ExcessDims(t, req) = {} /\ held <= SoftOf(eff, d) + paid
                  => Get(req, d) + held <= SoftOf(eff, d) + (Get(BurstOf(t, req), d) + paid)
  <2> USE <1>ReserveCovers
  <2>1. PICK base, hard, soft, amt, live, excess, burst :
          /\ base = Get(Committed(t), d)
          /\ hard = HardOf(effective_lattice(t), d) /\ soft = SoftOf(effective_lattice(t), d)
          /\ amt = Get(req, d) /\ live = Total(Resources, LiveReservations(t), d)
          /\ excess = IF d \in ExcessDims(t, req) THEN ExcessOf(t, req, d) ELSE 0
          /\ burst = Get(BurstOf(t, req), d)
    BY Zenon
  <2>2. hard \in 0..MaxInt /\ soft \in 0..MaxInt
    BY <2>1, LimitNumbers DEF CInv, IInv
  <2>3. base \in Nat /\ base + amt <= MaxInt /\ live <= base
    BY <2>1, <1>CommittedBase, Zenon
  <2>4. amt \in 0..MaxInt
    BY <2>1, InputAssumption, VectorShape
  <2>5. live \in Nat
    BY <2>1, HeldParts, Zenon DEF CInv, IInv
  <2>6. held <= base /\ amt \in Nat
    BY <2>1, <2>3, <2>4, <2>5, MaxIntAssumption
  <2>7. CASE d \notin DOMAIN req
    <3>1. amt = 0 /\ excess = 0 /\ burst = 0
      BY <2>1, <2>7, Zenon DEF Get, ExcessDims, BurstOf
    <3>2. held <= hard + paid => amt + held <= hard + (excess + paid)
      BY <2>2, <3>1, MaxIntAssumption
    <3>3. held <= soft + paid => amt + held <= soft + (burst + paid)
      BY <2>2, <3>1, MaxIntAssumption
    <3> QED
      BY <2>1, <3>2, <3>3, Zenon
  <2>8. CASE d \in DOMAIN req
    <3>1. amt = req[d]
      BY <2>1, <2>8, Zenon DEF Get
    <3>2. PICK x, p : /\ x = Greater(0, Greater(0, SatAdd(base, amt) - hard) - Greater(0, base - hard))
                      /\ p = LET over(z) == Lesser(Greater(z - soft, 0), hard - soft)
                             IN  Greater(0, over(SatAdd(base, amt)) - over(base))
      BY Zenon
    <3>3. ExcessOf(t, req, d) = x
      BY <2>1, <3>1, <3>2, Zenon DEF ExcessOf, BorrowPart
    <3>4. BurstPart(effective_lattice(t), d, base, SatAdd(base, amt)) = p
      BY <2>1, <3>2, Zenon DEF BurstPart
    <3>5. x \in Nat /\ p \in Nat
      <4>1. x \in 0..amt /\ p \in 0..amt
        <5>1. base \in 0..MaxInt
          BY <2>3, <2>4, MaxIntAssumption
        <5> QED
          BY <2>2, <2>4, <3>2, <5>1, ShareNumbers
      <4> QED
        BY <2>6, <4>1
    <3>6. excess = x /\ (ExcessDims(t, req) = {} => ~(x > 0))
      BY <2>1, <2>8, <3>3, <3>5 DEF ExcessDims
    <3>7. burst = p
      <4>1. BurstPart(effective_lattice(t), d, Get(Committed(t), d), SatAdd(Get(Committed(t), d), req[d])) = p
        BY <2>1, <3>1, <3>4, Zenon
      <4> QED
        BY <2>1, <2>8, <3>5, <4>1 DEF BurstOf, Get
    <3>8. held <= hard + paid => amt + held <= hard + (excess + paid)
      BY <2>2, <2>3, <2>6, <3>2, <3>6, <1>HardShare, Zenon
    <3>9. ~(x > 0) /\ held <= soft + paid => amt + held <= soft + (burst + paid)
      BY <2>2, <2>3, <2>6, <3>2, <3>7, <1>SoftShare, Zenon
    <3> QED
      BY <2>1, <3>6, <3>8, <3>9, Zenon
  <2> QED
    BY <2>7, <2>8
\* The reservations that a step leaves are covered as before.
<1>SurvivorsCovered.
  ASSUME CInv, CInv', FrameKept, LInv, LimitsStep, NEW t \in Tenant, NeverRan(t)',
         NEW S, S \subseteq LiveReservations(t), S \subseteq DOMAIN reservations',
         \A r \in S : reservations'[r].resources = reservations[r].resources,
         NEW d \in Dim \ Consumable
  PROVE  /\ Total(Resources, S, d)' <= HardOf(effective_lattice(t), d)' + BackedBy(S, d)'
         /\ (\A r \in S : funding'[r].borrows = {}) =>
              Total(Resources, S, d)' <= SoftOf(effective_lattice(t), d)' + Total(Bursts, S, d)'
  <2> USE <1>SurvivorsCovered
  <2>1. NeverRan(t)
    BY Zenon DEF FrameKept, NeverRan
  <2>2. S \subseteq DOMAIN reservations
    BY Zenon DEF LiveReservations
  <2>3. DOMAIN funding' = DOMAIN reservations'
    BY Zenon DEF CInv, IInv, Records, ReservationsTyped
  <2>4. /\ \A r \in S : funding'[r] = funding[r]
        /\ Total(Resources, S, d)' = Total(Resources, S, d)
        /\ BackedBy(S, d)' = BackedBy(S, d)
        /\ Total(Bursts, S, d)' = Total(Bursts, S, d)
    BY <2>2, <2>3, <1>SumsSurvive, Zenon
  <2>5. PICK h, b, u, x, y, x1, y1 :
          /\ h = Total(Resources, S, d) /\ b = BackedBy(S, d) /\ u = Total(Bursts, S, d)
          /\ x = HardOf(effective_lattice(t), d) /\ y = SoftOf(effective_lattice(t), d)
          /\ x1 = HardOf(effective_lattice(t), d)' /\ y1 = SoftOf(effective_lattice(t), d)'
    BY Zenon
  <2>6. h \in Nat /\ b \in Nat /\ u \in Nat
    BY <2>2, <2>5, SumsOverHold, Zenon DEF SumsOver
  <2>7. x \in Nat /\ y \in Nat /\ x1 \in Nat /\ y1 \in Nat
    <3>1. LimitsAreNatural /\ LimitsAreNatural'
      BY LimitsAreNumbers, PTL
    <3> QED
      BY <2>5, <3>1, Zenon DEF LimitsAreNatural
  <2>8. h <= x + b /\ ((\A r \in S : funding[r].borrows = {}) => h <= y + u)
    BY <2>1, <2>5, Zenon DEF LInv, HardCovered, SoftCovered
  <2>9. h <= x1 + b /\ ((\A r \in S : funding[r].borrows = {}) => h <= y1 + u)
    <3>1. CASE S = {}
      <4>1. h = 0
        BY <2>5, <3>1, TotalEmpty, Zenon
      <4> QED
        BY <2>6, <2>7, <4>1
    <3>2. CASE S # {}
      <4>1. LiveReservations(t) # {}
        BY <3>2
      <4>2. x1 >= x /\ y1 >= y
        BY <2>5, <4>1, Zenon DEF LimitsStep
      <4> QED
        BY <2>6, <2>7, <2>8, <4>2
    <3> QED
      BY <3>1, <3>2, Zenon
  <2> QED
    BY <2>4, <2>5, <2>9, Zenon
\* Where reservations only go, or stay as they are, all that is left is covered.
<1>LeftCovered.
  ASSUME CInv, CInv', FrameKept, LInv, LimitsStep, SameHoldings \/ ReservationRemoved
  PROVE  LInv'
  <2> USE <1>LeftCovered
  <2>1. /\ DOMAIN reservations' \subseteq DOMAIN reservations
        /\ \A r \in DOMAIN reservations' : /\ reservations'[r].tenant = reservations[r].tenant
                                           /\ reservations'[r].resources = reservations[r].resources
    BY Zenon DEF SameHoldings, ReservationRemoved
  <2>2. ASSUME NEW t PROVE LiveReservations(t)' \subseteq LiveReservations(t) \cap DOMAIN reservations'
    BY <2>1 DEF LiveReservations
  <2>3. PaidWithin'
    <3> SUFFICES ASSUME NEW r \in DOMAIN reservations', NEW d \in Dim
                 PROVE  /\ Backing(r, d)' <= Get(reservations'[r].resources, d)
                        /\ Get(funding'[r].burst, d) <= Get(reservations'[r].resources, d)
      BY Zenon DEF PaidWithin
    <3>1. {r} \subseteq DOMAIN reservations /\ {r} \subseteq DOMAIN reservations'
      BY <2>1
    <3>2. DOMAIN funding' = DOMAIN reservations'
      BY DEF CInv, IInv, Records, ReservationsTyped
    <3>3. \A s \in {r} : reservations'[s].resources = reservations[s].resources
      BY <2>1
    <3>4. \A s \in {r} : Backing(s, d)' = Backing(s, d) /\ funding'[s] = funding[s]
      BY <3>1, <3>2, <3>3, <1>SumsSurvive, Zenon
    <3>5. Backing(r, d)' = Backing(r, d) /\ funding'[r] = funding[r]
      BY <3>4
    <3>6. /\ Backing(r, d) <= Get(reservations[r].resources, d)
          /\ Get(funding[r].burst, d) <= Get(reservations[r].resources, d)
      BY <2>1, Zenon DEF LInv, PaidWithin
    <3> QED
      BY <2>1, <3>5, <3>6, Zenon
  <2>4. ASSUME NEW t \in Tenant, NeverRan(t)', NEW S \in SUBSET LiveReservations(t)',
               NEW d \in Dim \ Consumable
        PROVE  /\ Total(Resources, S, d)' <= HardOf(effective_lattice(t), d)' + BackedBy(S, d)'
               /\ (\A r \in S : funding'[r].borrows = {}) =>
                    Total(Resources, S, d)' <= SoftOf(effective_lattice(t), d)' + Total(Bursts, S, d)'
    <3>1. S \subseteq LiveReservations(t) /\ S \subseteq DOMAIN reservations'
      BY <2>2, <2>4, Zenon
    <3>2. \A r \in S : reservations'[r].resources = reservations[r].resources
      BY <2>1, <3>1
    <3> QED
      BY <2>4, <3>1, <3>2, <1>SurvivorsCovered, Zenon
  <2> QED
    BY <2>3, <2>4, Zenon DEF LInv, HardCovered, SoftCovered
\* reserve keeps everything covered.
<1>ReserveKeepsCover.
  ASSUME CInv, CInv', FrameKept, ReservedExact, RequestsFit, LInv, LimitsStep,
         NEW t \in Tenant, NEW req \in Requests, NEW auth, Reserve(t, req, auth),
         ReservationAdded(t, req)
  PROVE  LInv'
  <2> USE <1>ReserveKeepsCover
  <2>1. PICK e : e = nextRes
    BY Zenon
  <2>2. /\ e \notin DOMAIN reservations /\ DOMAIN reservations' = DOMAIN reservations \cup {e}
        /\ reservations'[e].tenant = t /\ reservations'[e].resources = req
        /\ \A r \in DOMAIN reservations : reservations'[r] = reservations[r]
    BY <2>1, Zenon DEF ReservationAdded
  <2>3. /\ funding'[e].burst = BurstOf(t, req)
        /\ funding'[e].borrows = {} => ExcessDims(t, req) = {}
        /\ \A d \in Dim : Backing(e, d)' = IF d \in ExcessDims(t, req) THEN ExcessOf(t, req, d) ELSE 0
        /\ UNCHANGED <<quotaVars, allocations>>
    BY <2>1, <1>NewFunding, Zenon
  <2>4. DOMAIN funding' = DOMAIN reservations'
    BY DEF CInv, IInv, Records, ReservationsTyped
  <2>5. ASSUME NEW x
        PROVE  /\ LiveReservations(x)' \ {e} \subseteq LiveReservations(x)
               /\ e \in LiveReservations(x)' => x = t
    BY <2>2 DEF LiveReservations
  <2>6. PaidWithin'
    <3> SUFFICES ASSUME NEW r \in DOMAIN reservations', NEW d \in Dim
                 PROVE  /\ Backing(r, d)' <= Get(reservations'[r].resources, d)
                        /\ Get(funding'[r].burst, d) <= Get(reservations'[r].resources, d)
      BY Zenon DEF PaidWithin
    <3>1. CASE r = e
      <4>1. Get(BurstOf(t, req), d) <= Get(req, d)
        BY BurstVector DEF CInv, IInv
      <4>2. (IF d \in ExcessDims(t, req) THEN ExcessOf(t, req, d) ELSE 0) <= Get(req, d)
        <5>1. CASE d \in ExcessDims(t, req)
          <6>1. d \in DOMAIN req
            BY <5>1 DEF ExcessDims
          <6>2. ExcessOf(t, req, d) \in 0..req[d] /\ req[d] \in 0..MaxInt
            BY <6>1, Shares DEF CInv, IInv
          <6> QED
            BY <5>1, <6>1, <6>2, MaxIntAssumption DEF Get
        <5>2. CASE d \notin ExcessDims(t, req)
          <6>1. Get(req, d) \in 0..MaxInt
            BY InputAssumption, VectorShape
          <6> QED
            BY <5>2, <6>1, MaxIntAssumption
        <5> QED
          BY <5>1, <5>2
      <4> QED
        BY <2>2, <2>3, <3>1, <4>1, <4>2, Zenon
    <3>2. CASE r # e
      <4>1. {r} \subseteq DOMAIN reservations /\ {r} \subseteq DOMAIN reservations'
        BY <2>2, <3>2
      <4>2. \A s \in {r} : reservations'[s].resources = reservations[s].resources
        BY <2>2, <4>1
      <4>3. \A s \in {r} : Backing(s, d)' = Backing(s, d) /\ funding'[s] = funding[s]
        BY <2>4, <4>1, <4>2, <1>SumsSurvive, Zenon
      <4>4. Backing(r, d)' = Backing(r, d) /\ funding'[r] = funding[r] /\ r \in DOMAIN reservations
        BY <4>1, <4>3
      <4>5. /\ Backing(r, d) <= Get(reservations[r].resources, d)
            /\ Get(funding[r].burst, d) <= Get(reservations[r].resources, d)
        BY <4>4, Zenon DEF LInv, PaidWithin
      <4> QED
        BY <2>2, <4>4, <4>5, Zenon
    <3> QED
      BY <3>1, <3>2, Zenon
  <2>7. ASSUME NEW x \in Tenant, NeverRan(x)', NEW S \in SUBSET LiveReservations(x)',
               NEW d \in Dim \ Consumable
        PROVE  /\ Total(Resources, S, d)' <= HardOf(effective_lattice(x), d)' + BackedBy(S, d)'
               /\ (\A r \in S : funding'[r].borrows = {}) =>
                    Total(Resources, S, d)' <= SoftOf(effective_lattice(x), d)' + Total(Bursts, S, d)'
    <3>1. PICK T : T = S \ {e}
      BY Zenon
    <3>2. T \subseteq LiveReservations(x) /\ T \subseteq DOMAIN reservations
      BY <2>5, <2>7, <3>1, Zenon DEF LiveReservations
    <3>3. T \subseteq DOMAIN reservations' /\ \A r \in T : reservations'[r].resources = reservations[r].resources
      BY <2>2, <3>2
    <3>4. CASE e \notin S
      <4>1. S = T
        BY <3>1, <3>4
      <4> QED
        BY <2>7, <3>2, <3>3, <4>1, <1>SurvivorsCovered, Zenon
    <3>5. CASE e \in S
      <4>1. x = t /\ S = T \cup {e} /\ e \notin T
        BY <2>5, <2>7, <3>1, <3>5
      <4>2. NeverRan(t)
        BY <2>3, <2>7, <4>1, Zenon DEF NeverRan
      <4>3. SumsOver /\ SumsOver'
        BY SumsOverHold, PTL
      <4>4. /\ \A r \in T : funding'[r] = funding[r]
            /\ Total(Resources, T, d)' = Total(Resources, T, d)
            /\ BackedBy(T, d)' = BackedBy(T, d)
            /\ Total(Bursts, T, d)' = Total(Bursts, T, d)
        BY <2>4, <3>2, <3>3, <1>SumsSurvive, Zenon
      <4>5. /\ Total(Resources, S, d)' = Get(req, d) + Total(Resources, T, d)
            /\ BackedBy(S, d)' = Backing(e, d)' + BackedBy(T, d)
            /\ Total(Bursts, S, d)' = Get(BurstOf(t, req), d) + Total(Bursts, T, d)
        <5>1. T \in SUBSET DOMAIN reservations' /\ e \in DOMAIN reservations' \ T
          BY <2>2, <3>3, <4>1
        <5>2. /\ Total(Resources, T \cup {e}, d)' = Get(reservations'[e].resources, d) + Total(Resources, T, d)'
              /\ BackedBy(T \cup {e}, d)' = Backing(e, d)' + BackedBy(T, d)'
              /\ Total(Bursts, T \cup {e}, d)' = Get(funding'[e].burst, d) + Total(Bursts, T, d)'
          BY <4>3, <5>1, Zenon DEF SumsOver
        <5> QED
          BY <2>2, <2>3, <4>1, <4>4, <5>2, Zenon
      <4>6. PICK held, b, u, ex, br, hard, soft :
              /\ held = Total(Resources, T, d) /\ b = BackedBy(T, d) /\ u = Total(Bursts, T, d)
              /\ ex = IF d \in ExcessDims(t, req) THEN ExcessOf(t, req, d) ELSE 0
              /\ br = Get(BurstOf(t, req), d)
              /\ hard = HardOf(effective_lattice(t), d) /\ soft = SoftOf(effective_lattice(t), d)
        BY Zenon
      <4>7. held \in Nat /\ b \in Nat /\ u \in Nat
        BY <3>2, <4>3, <4>6, Zenon DEF SumsOver
      <4>8. held <= Total(Resources, LiveReservations(t), d)
        <5>1. IsFiniteSet(LiveReservations(t)) /\ Vectors(Resources, LiveReservations(t))
          BY HeldParts, Zenon DEF CInv, IInv
        <5>2. T \in SUBSET LiveReservations(t)
          BY <3>2, <4>1, Zenon
        <5> QED
          BY <4>6, <5>1, <5>2, TotalPart, Zenon
      <4>9. held <= hard + b /\ ((\A r \in T : funding[r].borrows = {}) => held <= soft + u)
        BY <3>2, <4>1, <4>2, <4>6, Zenon DEF LInv, HardCovered, SoftCovered
      <4>10. Get(req, d) + held <= hard + (ex + b)
        BY <4>2, <4>6, <4>7, <4>8, <4>9, <1>ReserveCovers, Zenon
      <4>11. ExcessDims(t, req) = {} /\ (\A r \in T : funding[r].borrows = {})
               => Get(req, d) + held <= soft + (br + u)
        BY <4>2, <4>6, <4>7, <4>8, <4>9, <1>ReserveCovers, Zenon
      <4>12. (\A r \in S : funding'[r].borrows = {})
               => ExcessDims(t, req) = {} /\ (\A r \in T : funding[r].borrows = {})
        BY <2>3, <4>1, <4>4, Zenon
      <4>13. HardOf(effective_lattice(x), d)' = hard /\ SoftOf(effective_lattice(x), d)' = soft
        <5>1. effective_lattice(t)' = effective_lattice(t)
          BY <2>3, LimitsUnchanged, Zenon
        <5> QED
          BY <4>1, <4>6, <5>1, Zenon DEF HardOf, SoftOf
      <4>14. Backing(e, d)' = ex
        BY <2>3, <4>6, Zenon
      <4> QED
        BY <4>5, <4>6, <4>10, <4>11, <4>12, <4>13, <4>14, Zenon
    <3> QED
      BY <3>4, <3>5, Zenon
  <2> QED
    BY <2>6, <2>7, Zenon DEF LInv, HardCovered, SoftCovered
<1> SUFFICES ASSUME CInv, CInv', ReservedExact, RequestsFit, LInv, [LimitsStep]_vars, [Next]_vars
             PROVE  LInv'
  OBVIOUS
<1>1. FrameKept
  BY FrameSteps, Zenon DEF CInv
<1>2. LimitsStep
  <2>1. CASE UNCHANGED vars
    <3>1. UNCHANGED quotaVars
      BY <2>1, Zenon DEF vars
    <3>2. ASSUME NEW t \in Tenant, NEW d
          PROVE  /\ HardOf(effective_lattice(t), d)' >= HardOf(effective_lattice(t), d)
                 /\ SoftOf(effective_lattice(t), d)' >= SoftOf(effective_lattice(t), d)
      <4>1. PICK x, y : x = HardOf(effective_lattice(t), d) /\ y = SoftOf(effective_lattice(t), d)
        BY Zenon
      <4>2. x \in Nat /\ y \in Nat
        BY <4>1, LimitsAreNumbers, Zenon DEF LimitsAreNatural
      <4>3. effective_lattice(t)' = effective_lattice(t)
        BY <3>1, LimitsUnchanged, Zenon
      <4>4. HardOf(effective_lattice(t), d)' = x /\ SoftOf(effective_lattice(t), d)' = y
        BY <4>1, <4>3, Zenon DEF HardOf, SoftOf
      <4>5. x >= x /\ y >= y
        BY <4>2
      <4> QED
        BY <4>1, <4>4, <4>5, Zenon
    <3> QED
      BY <3>2, Zenon DEF LimitsStep
  <2> QED
    BY <2>1, Zenon
<1>3. \/ SameHoldings
      \/ ReservationRemoved
      \/ \E t \in Tenant : \E req \in Requests : \E auth :
           Reserve(t, req, auth) /\ ReservationAdded(t, req)
  BY HoldingSteps, Zenon DEF CInv
<1>4. CASE SameHoldings \/ ReservationRemoved
  BY <1>1, <1>2, <1>4, <1>LeftCovered, Zenon
<1>5. ASSUME NEW t \in Tenant, NEW req \in Requests, NEW auth,
             Reserve(t, req, auth), ReservationAdded(t, req)
      PROVE  LInv'
  BY <1>1, <1>2, <1>5, <1>ReserveKeepsCover, Zenon
<1> QED
  BY <1>3, <1>4, <1>5, Zenon

\* At first there are no reservations to cover.
LEMMA InitLimits == Init /\ CInv => LInv
<1> SUFFICES ASSUME Init, CInv PROVE LInv
  OBVIOUS
<1>1. DOMAIN reservations = {}
  BY DEF Init
<1>3. ASSUME NEW t \in Tenant, NEW S \in SUBSET LiveReservations(t), NEW d \in Dim
      PROVE  /\ Total(Resources, S, d) <= HardOf(effective_lattice(t), d) + BackedBy(S, d)
             /\ Total(Resources, S, d) <= SoftOf(effective_lattice(t), d) + Total(Bursts, S, d)
  <2>1. S = {}
    BY <1>1 DEF LiveReservations
  <2>2. PICK x, y, b : /\ x = HardOf(effective_lattice(t), d) /\ y = SoftOf(effective_lattice(t), d)
                       /\ b = BackedBy(S, d)
    BY Zenon
  <2>3. x \in Nat /\ y \in Nat
    BY <2>2, LimitsAreNumbers, Zenon DEF LimitsAreNatural
  <2>4. b = 0
    BY <2>1, <2>2, SumEmpty DEF BackedBy
  <2>5. Total(Resources, S, d) = 0 /\ Total(Bursts, S, d) = 0
    BY <2>1, TotalEmpty, Zenon
  <2>6. 0 <= x + b /\ 0 <= y + 0
    BY <2>3, <2>4
  <2> QED
    BY <2>2, <2>5, <2>6, Zenon
<1>4. PaidWithin
  BY <1>1 DEF PaidWithin
<1> QED
  BY <1>3, <1>4, Zenon DEF LInv, HardCovered, SoftCovered

\* So everything stays covered: what any set of reservations holds above a
\* limit was paid for by the loans and the burst of its own reservations.
THEOREM ReservationsAlwaysCovered ==
  Spec /\ []RequestsFit /\ LimitsKept => [](CInv /\ ReservedExact /\ LInv)
<1>1. Init => CInv
  BY InitKeeps, InitCounts, Zenon
<1>2. CInv => UsageShaped
  BY Zenon DEF CInv, IInv, QuotasTyped, CountersTyped, UsageTyped, UsageShaped
<1>3. Spec => []CInv
  BY <1>1, StepCounts, Invariance, PTL DEF Spec
<1>4. Spec => []ReservedExact
  BY <1>2, <1>3, InitReserved, StepReserved, Invariance, PTL DEF Spec
<1> QED
  BY <1>1, <1>3, <1>4, InitLimits, StepLimits, PTL DEF Spec, LimitsKept

\* Within what a tenant holds, the sums of what paid for it do not overflow.
LEMMA PaidFits ==
  ASSUME CInv, LInv, ResourcesFit, NEW t \in Tenant, NEW d \in Dim
  PROVE  /\ BackedBy(LiveReservations(t), d) <= MaxInt
         /\ Total(Bursts, LiveReservations(t), d) <= MaxInt
<1>1. PICK S, R, B : S = LiveReservations(t) /\ R = Resources /\ B = Bursts
  BY Zenon
<1>2. PICK h, w : h = Total(R, S, d) /\ w = Total(R, DOMAIN reservations, d)
  BY Zenon
<1>3. h \in Nat /\ h <= w /\ IsFiniteSet(S) /\ Vectors(R, S) /\ S \in SUBSET DOMAIN reservations
  BY <1>1, <1>2, HeldParts, Zenon DEF CInv, IInv
<1>4. w \in Nat /\ w <= MaxInt
  BY <1>1, <1>2, FitTotals, Zenon
<1>5. Vectors(B, S) /\ \A r \in S : Backing(r, d) \in Nat
  BY <1>1, <1>3, PaidTyped DEF Vectors
<1>6. DOMAIN funding = DOMAIN reservations
  BY DEF CInv, IInv, Records, ReservationsTyped
<1>7. \A r \in S : R[r] = reservations[r].resources /\ B[r] = funding[r].burst
  BY <1>1, <1>3, <1>6 DEF Resources, Bursts
<1>8. \A r \in S : Backing(r, d) <= Get(R[r], d) /\ Get(B[r], d) <= Get(R[r], d)
  BY <1>3, <1>7 DEF LInv, PaidWithin
<1>9. Total(B, S, d) <= h /\ Total(B, S, d) \in Nat
  BY <1>2, <1>3, <1>5, <1>8, TotalMonotone, TotalNat
<1>10. PICK f, g : f = [r \in S |-> Backing(r, d)] /\ g = [r \in S |-> Get(R[r], d)]
  BY Zenon
<1>11. AllNat(f, S) /\ AllNat(g, S) /\ \A r \in S : f[r] <= g[r]
  BY <1>3, <1>5, <1>8, <1>10, VectorShape, MaxIntAssumption DEF AllNat, Vectors
<1>12. SumFunctionOnSet(f, S) <= SumFunctionOnSet(g, S) /\ SumFunctionOnSet(f, S) \in Nat
  BY <1>3, <1>11, SumMonotone, SumNat
<1>13. PICK x, u : x = SumFunctionOnSet(f, S) /\ u = Total(B, S, d)
  BY Zenon
<1>14. SumFunctionOnSet(g, S) = h
  BY <1>2, <1>10, Zenon DEF Total
<1>15. x <= MaxInt /\ u <= MaxInt
  BY <1>3, <1>4, <1>9, <1>12, <1>13, <1>14, MaxIntAssumption
<1> QED
  BY <1>1, <1>10, <1>13, <1>15, Zenon DEF BackedBy

\* The hard limit of a tenant holds in every order of reserving and releasing,
\* whatever other tenants do: reserve never grants more above it than it
\* borrows for it, as long as the sums stay below INT64_MAX and no
\* limit is lowered under live reservations.
THEOREM HardLimitAlwaysHeld == Spec /\ []RequestsFit /\ LimitsKept => []HardLimitHeld
\* What is covered reservation by reservation is covered for the tenant.
<1>HardLimits.      CInv /\ ReservedExact /\ ResourcesFit /\ LInv => HardLimitHeld
  \* The borrows behind a tenant's reservations come to what they back.
  <2>FundedIs.
    ASSUME CInv, NEW t \in Tenant, NEW d,
           \A r \in LiveReservations(t) : \A b \in funding[r].borrows : ~borrows[b].recalled
    PROVE  LET bids == UNION {funding[r].borrows : r \in LiveReservations(t)}
               out == [b \in bids |-> borrows[b].consumed]
           IN  /\ IsFiniteSet(bids) /\ Vectors(out, bids)
               /\ Total(out, bids, d) = BackedBy(LiveReservations(t), d)
    <3> USE <2>FundedIs
    <3>1. PICK S, bids : /\ S = LiveReservations(t)
                         /\ bids = UNION {funding[r].borrows : r \in LiveReservations(t)}
      BY Zenon
    <3>2. PICK out, own, f, g, A :
            /\ out = [b \in bids |-> borrows[b].consumed]
            /\ own = [b \in bids |-> CHOOSE r \in S : b \in funding[r].borrows]
            /\ f = [b \in bids |-> Get(out[b], d)]
            /\ g = [r \in S |-> Backing(r, d)]
            /\ A = Amounts
      BY Zenon
    <3>3. S \subseteq DOMAIN reservations /\ IsFiniteSet(S)
      BY <3>1, HeldParts DEF CInv, IInv
    <3>4. \A r \in S : funding[r].borrows \subseteq DOMAIN borrows
      BY <3>3, PaidTyped
    <3>5. /\ bids \subseteq DOMAIN borrows
          /\ \A b \in bids : \E r \in S : b \in funding[r].borrows
          /\ \A r \in S : funding[r].borrows \subseteq bids
      BY <3>1, <3>4
    <3>6. IsFiniteSet(bids)
      BY <3>5, PaidTyped, SubsetFinite
    <3>7. \A b \in bids : out[b] = A[b] /\ out[b] \in Vector
      <4>1. \A b \in bids : ~borrows[b].recalled
        BY <3>1, <3>5
      <4>2. \A b \in DOMAIN borrows : borrows[b].consumed \in Vector /\ Agree(borrows[b], lends[borrows[b].lending])
        BY Zenon DEF CInv, IInv, Records, LedgerConserved, AmountsTyped
      <4>3. \A b \in bids : borrows[b].consumed = borrows[b].amount
        BY <3>5, <4>1, <4>2 DEF Agree
      <4> QED
        BY <3>2, <3>5, <4>2, <4>3, Zenon DEF Amounts
    <3>8. Vectors(out, bids)
      BY <3>7 DEF Vectors
    <3>9. AllNat(f, bids)
      BY <3>2, <3>7, VectorShape, MaxIntAssumption DEF AllNat
    <3>10. \A b \in bids : own[b] \in S /\ b \in funding[own[b]].borrows
      BY <3>2, <3>5
    <3>11. \A r, s \in S : \A b : b \in funding[r].borrows /\ b \in funding[s].borrows => r = s
      <4>1. DOMAIN funding = DOMAIN reservations /\ FundingSound
        BY DEF CInv, IInv, Records, ReservationsTyped
      <4> QED
        BY <3>3, <4>1 DEF FundingSound
    <3>12. OwnedBy(own, bids, S) = bids /\ \A r \in S : OwnedBy(own, bids, {r}) = funding[r].borrows
      BY <3>5, <3>10, <3>11 DEF OwnedBy
    <3>13. ASSUME NEW r \in S PROVE g[r] = SumFunctionOnSet(f, OwnedBy(own, bids, {r}))
      <4>1. PICK B : B = funding[r].borrows
        BY Zenon
      <4>2. B \in SUBSET bids /\ IsFiniteSet(B)
        BY <3>5, <3>6, <4>1, SubsetFinite
      <4>3. Total(out, B, d) = SumFunctionOnSet(f, B)
        <5>1. Total(out, B, d) = SumFunctionOnSet([b \in bids |-> Get(out[b], d)], B)
          BY <3>6, <4>2, TotalOver
        <5> QED
          BY <3>2, <5>1, Zenon
      <4>4. \A b \in B : Get(A[b], d) = Get(out[b], d)
        BY <3>7, <4>2
      <4>5. Total(A, B, d) = Total(out, B, d)
        BY <4>2, <4>4, TotalSame
      <4>6. g[r] = Total(A, B, d)
        BY <3>2, <4>1, Zenon DEF Backing
      <4> QED
        BY <3>12, <4>1, <4>3, <4>5, <4>6, Zenon
    <3>14. SumFunctionOnSet(g, S) = SumFunctionOnSet(f, OwnedBy(own, bids, S))
      <4>1. OwnerSums(g, S, own, bids, f)
        BY <3>13, Zenon DEF OwnerSums
      <4> QED
        BY <3>3, <3>6, <3>9, <4>1, SumByOwner, Zenon
    <3>15. Total(out, bids, d) = BackedBy(S, d)
      BY <3>2, <3>12, <3>14, Zenon DEF Total, BackedBy
    <3> QED
      BY <3>1, <3>2, <3>6, <3>8, <3>15, Zenon
  <2> SUFFICES ASSUME CInv, ReservedExact, ResourcesFit, LInv, NEW t \in Tenant, NeverRan(t),
                      \A r \in LiveReservations(t) : \A b \in funding[r].borrows : ~borrows[b].recalled,
                      NEW d \in Dim \ Consumable
               PROVE  Get(Held(t), d) <= HardOf(effective_lattice(t), d) + Get(Funded(t), d)
    BY Zenon DEF HardLimitHeld
  <2>1. PICK bids, out : /\ bids = UNION {funding[r].borrows : r \in LiveReservations(t)}
                         /\ out = [b \in bids |-> borrows[b].consumed]
    BY Zenon
  <2>2. \A e : /\ IsFiniteSet(bids) /\ Vectors(out, bids)
               /\ Total(out, bids, e) = BackedBy(LiveReservations(t), e)
    BY <2>1, <2>FundedIs, Zenon
  <2>3. \A e \in Dim : Total(out, bids, e) <= MaxInt
    BY <2>2, PaidFits, Zenon
  <2>4. Get(VSum(out, bids), d) = Total(out, bids, d)
    BY <2>2, <2>3, VSumExact
  <2>5. Get(Funded(t), d) = BackedBy(LiveReservations(t), d)
    BY <2>1, <2>2, <2>4, Zenon DEF Funded
  <2>6. Idle(t)
    BY DEF NeverRan, Idle, ActiveAllocations
  <2>7. Get(Held(t), d) = Total(Resources, LiveReservations(t), d)
    BY <2>6, ReservedIsHeld, Zenon
  <2>8. Total(Resources, LiveReservations(t), d)
          <= HardOf(effective_lattice(t), d) + BackedBy(LiveReservations(t), d)
    BY Zenon DEF LInv, HardCovered
  <2> QED
    BY <2>5, <2>7, <2>8, Zenon
<1>1. CInv /\ ReservedExact /\ RequestsFit /\ LInv => HardLimitHeld
  BY <1>HardLimits, RequestsLeaveRoom
<1> QED
  BY <1>1, ReservationsAlwaysCovered, PTL

\* Under the same conditions, the burst that reserve charges covers what a
\* tenant holds above its soft limit.
THEOREM BurstAlwaysCovers == Spec /\ []RequestsFit /\ LimitsKept => []BurstCoversSoft
\* Reservations that are covered at the soft limit keep BurstCoversSoft.
<1>SoftLimits.      CInv /\ ReservedExact /\ ResourcesFit /\ LInv => BurstCoversSoft
  <2> SUFFICES ASSUME CInv, ReservedExact, ResourcesFit, LInv, NEW t \in Tenant, NeverRan(t),
                      \A r \in LiveReservations(t) : funding[r].borrows = {}, NEW d \in Dim \ Consumable
               PROVE  Above(Get(Held(t), d), SoftOf(effective_lattice(t), d)) <= Get(computed_burst(t), d)
    BY Zenon DEF BurstCoversSoft
  <2>1. PICK S, B, f : /\ S = LiveReservations(t) /\ B = Bursts
                       /\ f = [r \in LiveReservations(t) |-> funding[r].burst]
    BY Zenon
  <2>2. S \subseteq DOMAIN reservations /\ IsFiniteSet(S)
    BY <2>1, HeldParts, Zenon DEF CInv, IInv
  <2>3. DOMAIN funding = DOMAIN reservations
    BY Zenon DEF CInv, IInv, Records, ReservationsTyped
  <2>4. Vectors(B, S) /\ \A r \in S : f[r] = B[r]
    BY <2>1, <2>2, <2>3, PaidTyped, Zenon DEF Vectors, Bursts
  <2>5. VSum(f, S) = VSum(B, S)
    BY <2>2, <2>4, VSumSame, Zenon
  <2>6. \A e \in Dim : Total(B, S, e) <= MaxInt
    BY <2>1, PaidFits, Zenon
  <2>7. Get(VSum(B, S), d) = Total(B, S, d)
    BY <2>2, <2>4, <2>6, VSumExact, Zenon
  <2>8. PICK h, u, x : /\ h = Total(Resources, S, d) /\ u = Total(B, S, d)
                       /\ x = SoftOf(effective_lattice(t), d)
    BY Zenon
  <2>9. Get(computed_burst(t), d) = u
    BY <2>1, <2>5, <2>7, <2>8, Zenon DEF computed_burst
  <2>10. Idle(t)
    BY Zenon DEF NeverRan, Idle, ActiveAllocations
  <2>11. Get(Held(t), d) = h
    BY <2>1, <2>8, <2>10, ReservedIsHeld, Zenon
  <2>12. h <= x + u
    BY <2>1, <2>8, Zenon DEF LInv, SoftCovered
  <2>13. h \in Nat /\ u \in Nat /\ x \in Nat
    <3>1. h \in Nat /\ u \in Nat
      BY <2>1, <2>2, <2>8, SumsOverHold, Zenon DEF SumsOver
    <3>2. x \in Nat
      BY <2>8, LimitsAreNumbers, Zenon DEF LimitsAreNatural
    <3> QED
      BY <3>1, <3>2, Zenon
  <2>14. Above(h, x) <= u
    BY <2>12, <2>13 DEF Above, Greater
  <2> QED
    BY <2>8, <2>9, <2>11, <2>14, Zenon
<1>1. CInv /\ ReservedExact /\ RequestsFit /\ LInv => BurstCoversSoft
  BY <1>SoftLimits, RequestsLeaveRoom
<1> QED
  BY <1>1, ReservationsAlwaysCovered, PTL

==============================================================================
