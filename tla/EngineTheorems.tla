---------------------------- MODULE EngineTheorems ----------------------------
(***************************************************************************)
(* What the engine guarantees for any tenants, quotas, requests and        *)
(* bounds, from the inductive invariants IInv of module EngineProofs and   *)
(* CInv of module CounterProofs, also across restarts (module Recovery).   *)
(***************************************************************************)
EXTENDS Recovery, CounterProofs, EngineProofs

(***************************************************************************)
(* The counters and the amounts of the records are vectors in every state  *)
(* the engine reaches, and a lent counter shows at least what the lending  *)
(* records of its tenant add up to.                                        *)
(***************************************************************************)
THEOREM CountersSound == Spec => []CInv
<1>1. Init => CInv
  BY InitKeeps, InitCounts, Zenon
<1> QED
  BY <1>1, StepCounts, Invariance, PTL DEF Spec

(***************************************************************************)
(* The lent counter, which available_to_lend trusts, never shows less than *)
(* the lending records do, whatever is borrowed, returned, rolled back,    *)
(* synced or left unsynced: a stale counter may only be too high.          *)
(***************************************************************************)
THEOREM LentIsNeverUnderstated == Spec => []LentNeverUnderstated
BY CountersSound, CoveredSums, PTL

\* The reserved counter of a tenant that runs nothing is what its reservations
\* hold: every call that changes the one syncs the other.
THEOREM ReservedAlwaysExact == Spec => []ReservedExact
<1>1. CInv => UsageShaped
  BY Zenon DEF CInv, IInv, QuotasTyped, CountersTyped, UsageTyped, UsageShaped
<1> QED
  BY <1>1, InitReserved, StepReserved, Invariance, CountersSound, PTL DEF Spec

-----------------------------------------------------------------------------
(***************************************************************************)
(* Restarts: what the records and the counters promise survives any number *)
(* of reloads from a saved state.                                          *)
(***************************************************************************)

\* deserialize_state brings back records, quotas and generations as they were
\* and gives every tenant a usage and windows again.
LEMMA ReloadKeeps ==
  ASSUME IInv, Reload
  PROVE  IInv'
<1>1. Records'
  BY RecordsStutter DEF IInv, Reload
<1>2. /\ DOMAIN usage' = Tenant /\ DOMAIN windows' = Tenant
      /\ UNCHANGED <<authVars, quotaVars, now>>
  BY DEF Reload, NoWindows
<1> QED
  BY <1>1, <1>2, HeadFrame DEF IInv

\* A load that returns early leaves fewer records, and none that needs a lost one.
LEMMA StoppedLoadKeeps ==
  ASSUME IInv, StoppedLoad
  PROVE  IInv'
<1>1. PICK read \in ReservationsRead :
        /\ reservations' = [r \in read |-> reservations[r]]
        /\ funding' = [r \in read |-> [burst |-> funding[r].burst, borrows |-> {}]]
  BY DEF StoppedLoad
<1>2. read \subseteq DOMAIN reservations
  BY DEF ReservationsRead, Readable
<1>3. borrows' = <<>> /\ lends' = <<>> /\ nextRes' = nextRes
  BY DEF StoppedLoad
<1>4. LedgerTyped' /\ LedgerConserved'
  BY <1>3 DEF LedgerTyped, LedgerConserved, IsSequence
<1>5. ReservationsTyped'
  BY <1>1, <1>2, <1>3 DEF IInv, Records, ReservationsTyped
<1>6. FundingSound'
  BY <1>1 DEF FundingSound
<1>7. AllocationsTyped' /\ AllocationsLive'
  <2>1. CASE AllocationsLoad
    <3>1. allocations' = allocations
      BY <2>1 DEF StoppedLoad
    <3>2. read = DOMAIN reservations
      BY <2>1 DEF AllocationsLoad, ReservationsLoad, ReservationsRead
    <3>3. AllocationsTyped'
      BY <1>3, <3>1 DEF IInv, Records, AllocationsTyped
    <3>4. AllocationsLive'
      BY <1>1, <3>1, <3>2 DEF IInv, Records, AllocationsLive
    <3> QED
      BY <3>3, <3>4
  <2>2. CASE ~AllocationsLoad
    <3>1. allocations' = <<>>
      BY <2>2 DEF StoppedLoad
    <3> QED
      BY <3>1 DEF AllocationsTyped, AllocationsLive, IsSequence
  <2> QED
    BY <2>1, <2>2
<1>8. /\ DOMAIN usage' = Tenant /\ DOMAIN windows' = Tenant
      /\ UNCHANGED <<authVars, quotaVars, now>>
  BY DEF StoppedLoad, NoWindows
<1> QED
  BY <1>4, <1>5, <1>6, <1>7, <1>8, HeadFrame DEF IInv, Records

\* The engine's inductive invariant holds across restarts.
LEMMA RecoveryInvariance == AnyLoadSpec => []IInv
<1>1. Init => IInv
  BY InitKeeps
<1>2. IInv /\ [AnyLoadNext]_vars => IInv'
  BY NextKeeps, ReloadKeeps, StoppedLoadKeeps DEF AnyLoadNext, RecoveryNext
<1> QED
  BY <1>1, <1>2, PTL DEF AnyLoadSpec

(***************************************************************************)
(* The two sides of every loan agree, whenever the engine was saved and    *)
(* loaded in between, and wherever deserialize_state gave up.              *)
(***************************************************************************)
THEOREM LedgerSurvivesReload == AnyLoadSpec => []LedgerConserved
<1>1. IInv => LedgerConserved
  BY DEF IInv, Records
<1> QED
  BY <1>1, RecoveryInvariance, PTL

(***************************************************************************)
(* No borrow is counted twice by the reservations a restart brings back:   *)
(* each that is still there funds one reservation of its own tenant.       *)
(***************************************************************************)
THEOREM FundingSurvivesReload == AnyLoadSpec => []FundingSound
<1>1. IInv => FundingSound
  BY DEF IInv, Records
<1> QED
  BY <1>1, RecoveryInvariance, PTL

(***************************************************************************)
(* An allocation that is active after a restart still has its reservation: *)
(* deserialize_state reads all reservations before the first allocation.   *)
(***************************************************************************)
THEOREM AllocationsSurviveReload == AnyLoadSpec => []AllocationsLive
<1>1. IInv => AllocationsLive
  BY DEF IInv, Records
<1> QED
  BY <1>1, RecoveryInvariance, PTL

\* The counters are recomputed when all was read, each tenant's from the records.
LEMMA ReloadCounts ==
  ASSUME CInv, Reload
  PROVE  CInv'
<1>1. IInv'
  BY ReloadKeeps, Zenon DEF CInv
<1>2. CountersKept
  BY <1>1, AllSyncedCounts, Zenon DEF Reload, IInv, resVars, ledgerVars
<1> QED
  BY <1>1, <1>2, Zenon DEF CInv, CountersKept

\* A load that returns early leaves empty counters, and no lending record.
LEMMA StoppedLoadCounts ==
  ASSUME CInv, StoppedLoad
  PROVE  CInv'
<1>1. IInv'
  BY StoppedLoadKeeps, Zenon DEF CInv
<1>2. usage' = [t \in Tenant |-> NoUsage] /\ lends' = <<>> /\ borrows' = <<>>
  BY Zenon DEF StoppedLoad
<1>3. AmountsTyped'
  <2>1. \A a \in DOMAIN allocations' : allocations'[a].used \in Vector
    BY DEF StoppedLoad, CInv, AmountsTyped
  <2>2. PICK read \in ReservationsRead :
          funding' = [r \in read |-> [burst |-> funding[r].burst, borrows |-> {}]]
    BY DEF StoppedLoad
  <2>3. read \subseteq DOMAIN funding
    BY DEF ReservationsRead, Readable, CInv, IInv, Records, ReservationsTyped
  <2>4. \A r \in DOMAIN funding' : funding'[r].burst \in Vector
    BY <2>2, <2>3 DEF CInv, AmountsTyped
  <2> QED
    BY <1>2, <2>1, <2>4 DEF AmountsTyped, LoansTyped
<1>4. CountersTyped'
  BY <1>2, NoUsageTyped, Zenon DEF CountersTyped
<1>5. LentCovered'
  <2> SUFFICES ASSUME NEW t \in Tenant, NEW d \in Dim
               PROVE  LentTotal(t, d)' <= Get(usage'[t].lent, d)
    BY DEF LentCovered
  <2>1. LendsOf(lends', t) = {}
    BY <1>2 DEF LendsOf
  <2>2. LentTotal(t, d)' = 0
    BY <2>1, TotalEmpty, Zenon DEF LentTotal, LentIn
  <2>3. Get(usage'[t].lent, d) = 0
    BY <1>2, EmptyVector DEF NoUsage
  <2> QED
    BY <2>2, <2>3
<1> QED
  BY <1>1, <1>3, <1>4, <1>5, Zenon DEF CInv

\* So the counters' invariant holds across restarts.
LEMMA RecoveryCounters == AnyLoadSpec => []CInv
<1>1. Init => CInv
  BY InitKeeps, InitCounts, Zenon
<1>2. CInv /\ IInv' /\ [AnyLoadNext]_vars => CInv'
  BY StepCounts, ReloadCounts, StoppedLoadCounts, Zenon DEF AnyLoadNext, RecoveryNext
<1> QED
  BY <1>1, <1>2, RecoveryInvariance, PTL DEF AnyLoadSpec

(***************************************************************************)
(* A load lowers a lent counter that was too high, and never below what    *)
(* the lending records it has read show.                                   *)
(***************************************************************************)
THEOREM LentSurvivesReload == AnyLoadSpec => []LentNeverUnderstated
BY RecoveryCounters, CoveredSums, PTL

-----------------------------------------------------------------------------
(***************************************************************************)
(* Lending.                                                                *)
(***************************************************************************)
\* As the lent counter covers it, the sum of what is lent cannot overflow.
LentExact == \A t \in Tenant : \A d \in Dim : Get(computed_lent(t), d) = LentTotal(t, d)

LentNumbers ==
  \A t \in Tenant : \A d \in Dim : LentTotal(t, d) \in Nat /\ Get(usage[t].lent, d) \in Nat

\* So computed_lent is exact.
LEMMA LentExactHolds == CInv => LentExact /\ LentNumbers
<1> SUFFICES ASSUME CInv PROVE LentExact /\ LentNumbers
  BY Zenon
<1>1. Records /\ AmountsTyped /\ CountersTyped /\ LentCovered
  BY Zenon DEF CInv, IInv
<1>2. LentSums
  BY <1>1, LentSumsHold
<1>3. \A t \in Tenant : \A d \in Dim : Get(usage[t].lent, d) \in 0..MaxInt
  BY <1>1, VectorShape DEF CountersTyped, UsageTyped, Counters
<1>4. \A t \in Tenant : \A d \in Dim : LentTotal(t, d) \in Nat /\ LentTotal(t, d) <= MaxInt
  BY <1>1, <1>2, <1>3, MaxIntAssumption DEF LentSums, LentCovered
<1>5. LentExact
  BY <1>2, <1>4, Zenon DEF LentSums, LentExact
<1> QED
  BY <1>3, <1>4, <1>5, MaxIntAssumption DEF LentNumbers

(***************************************************************************)
(* What a step does to the loan book: it adds loans, changing no other     *)
(* tenant's reservations; or it returns some; or nothing.                  *)
(***************************************************************************)
LendingCall ==
  \E b \in Tenant : LoansTaken(b) /\ \A x \in Tenant \ {b} : Held(x)' = Held(x)

ReturningCall ==
  \E B \in SUBSET DOMAIN borrows : borrows' = ReturnedBorrows(B) /\ lends' = ReturnedLends(B)

BookLeft == lends' = lends /\ borrows' = borrows

\* There is no other kind of step.
LEMMA BookSteps ==
  ASSUME CInv, [Next]_vars
  PROVE  LendingCall \/ ReturningCall \/ BookLeft
<1>1. Records
  BY Zenon DEF CInv, IInv
<1>4. ASSUME NEW t \in Tenant, NEW req \in Requests, NEW auth, Reserve(t, req, auth)
      PROVE  LendingCall
  <2>1. LoansTaken(t)
    BY <1>4, ReserveLoans, Zenon
  <2>2. nextRes \notin DOMAIN reservations
    BY <1>1 DEF Records, ReservationsTyped
  <2>3. reservations' = [r \in DOMAIN reservations \cup {nextRes} |->
          IF r = nextRes THEN [tenant |-> t, resources |-> req, status |-> "COMMITTED"]
          ELSE reservations[r]]
    BY <1>4, Zenon DEF Reserve, AddReservation
  <2>4. ASSUME NEW y \in Tenant \ {t}
        PROVE  /\ LiveReservations(y)' = LiveReservations(y)
               /\ \A r \in LiveReservations(y) : reservations'[r].resources = reservations[r].resources
    BY <2>2, <2>3, <2>4 DEF LiveReservations
  <2>5. \A y \in Tenant \ {t} : Held(y)' = Held(y)
    BY <2>4, HeldKept, Zenon
  <2> QED
    BY <2>1, <2>5, Zenon DEF LendingCall
<1>5. ASSUME NEW t \in Tenant, LoansTaken(t), reservations' = reservations
      PROVE  LendingCall
  <2>1. \A y \in Tenant \ {t} : Held(y)' = Held(y)
    BY <1>5, Zenon DEF Held, LiveReservations
  <2> QED
    BY <1>5, <2>1, Zenon DEF LendingCall
<1>6. ASSUME NEW auth, Call(auth) PROVE LendingCall \/ ReturningCall \/ BookLeft
  <2>1. ASSUME NEW t \in Tenant, NEW req \in Requests, ReserveRolledBack(t, req, auth)
        PROVE  LendingCall
    BY <1>5, <2>1, RollbackLoans, Zenon DEF ReserveRolledBack, resVars
  <2>2. ASSUME NEW t \in Tenant, NEW amount \in Loans, Borrow(t, amount, auth)
        PROVE  LendingCall
    BY <1>5, <2>2, BorrowLoans, Zenon DEF Borrow, resVars
  <2>3. ASSUME NEW t \in Tenant, NEW amount \in Loans, NEW y \in Tenant, Lend(y, t, amount, auth)
        PROVE  LendingCall
    BY <1>5, <2>3, LendLoans, Zenon DEF Lend, resVars
  <2>4. ASSUME NEW t \in Tenant, NEW rid \in LiveReservations(t), Release(t, rid, auth)
        PROVE  ReturningCall
    <3>1. funding[rid].borrows \in SUBSET DOMAIN borrows
      BY <1>1, <2>4 DEF Records, ReservationsTyped, LiveReservations
    <3> QED
      BY <2>4, <3>1, Zenon DEF Release, ReturningCall
  <2>5. ASSUME NEW t \in Tenant, NEW bid \in OpenBorrows(t), NEW y, RecallBorrow(bid, t, y, auth)
        PROVE  ReturningCall
    <3>1. {bid} \in SUBSET DOMAIN borrows
      BY <2>5 DEF OpenBorrows
    <3> QED
      BY <2>5, <3>1, Zenon DEF RecallBorrow, ReturningCall
  <2>6. ASSUME NEW t, NEW rid, NEW req, StartAllocation(t, rid, req, auth) PROVE BookLeft
    BY <2>6, Zenon DEF StartAllocation, ledgerVars, BookLeft
  <2>7. ASSUME NEW t, NEW aid, NEW delta, ResizeAllocation(t, aid, delta, auth) PROVE BookLeft
    BY <2>7, Zenon DEF ResizeAllocation, ledgerVars, BookLeft
  <2>8. ASSUME NEW t, NEW aid, ReleaseAllocation(t, aid, auth) PROVE BookLeft
    BY <2>8, Zenon DEF ReleaseAllocation, ledgerVars, BookLeft
  <2> QED
    BY <1>4, <1>6, <2>1, <2>2, <2>3, <2>4, <2>5, <2>6, <2>7, <2>8, Zenon DEF Call
<1>7. ASSUME Configure \/ Tick \/ UNCHANGED vars PROVE BookLeft
  BY <1>7, Zenon DEF Configure, SetPolicy, AdvanceEpoch, SetTenantQuota, SetGroupQuota, Tick, vars, ledgerVars, BookLeft
<1>8. ASSUME Observe PROVE BookLeft
  BY <1>8, Zenon DEF Observe, ObserveWindow, ObserveDelta, ResidencyAdded, ResidencyRemoved, ledgerVars, BookLeft
<1> QED
  BY <1>6, <1>7, <1>8, Zenon DEF Next

\* While the counters fit, what an idle tenant has committed covers what its
\* reservations hold.
LEMMA CommittedCoversHeld ==
  ASSUME CInv, ReservedExact, CountersFit, NEW t \in Tenant, Idle(t), NEW d \in Dim
  PROVE  /\ Get(Held(t), d) \in Nat
         /\ Get(Committed(t), d) \in Nat
         /\ Get(Held(t), d) <= Get(Committed(t), d)
         /\ Get(Committed(t), d) + Get(usage[t].lent, d) <= MaxInt
<1>1. usage[t].consumption \in Vector /\ usage[t].reserved \in Vector /\ usage[t].lent \in Vector
  BY DEF CInv, CountersTyped, UsageTyped, Counters
<1>2. \A e \in Dim : /\ Get(usage[t].consumption, e) \in 0..MaxInt
                     /\ Get(usage[t].reserved, e) \in 0..MaxInt
                     /\ Get(usage[t].lent, e) \in 0..MaxInt
  BY <1>1, VectorShape
<1>3. \A e \in Dim : Get(usage[t].consumption, e) + Get(usage[t].reserved, e) <= MaxInt
  BY <1>2, MaxIntAssumption DEF CountersFit
<1>4. Get(Committed(t), d) = Get(usage[t].consumption, d) + Get(usage[t].reserved, d)
  <2>1. PICK c, r : c = usage[t].consumption /\ r = usage[t].reserved
    BY Zenon
  <2>2. c \in Vector /\ r \in Vector /\ \A e \in Dim : Get(c, e) + Get(r, e) <= MaxInt
    BY <1>1, <1>3, <2>1, Zenon
  <2>3. Get(Add(c, r), d) = Get(c, d) + Get(r, d)
    BY <2>2, AddExact, Zenon
  <2> QED
    BY <2>1, <2>3, Zenon DEF Committed
<1>5. usage[t].reserved = Held(t)
  BY DEF ReservedExact
<1> QED
  BY <1>2, <1>4, <1>5, MaxIntAssumption DEF CountersFit

\* Lending leaves an idle lender's own reservations and everything it lends
\* within what it may lend (available_to_lend, borrow_impl), as long as the
\* counters do not overflow.
THEOREM LendingKeepsGuarantee == Spec /\ []CountersFit => LendWithinGuarantee
\* A step that lends leaves the lender its guarantee.
<1>LendSteps.
  CInv /\ CInv' /\ ReservedExact /\ CountersFit /\ [Next]_vars => LendStep
  \* Whoever lends more has room for it: what it holds and has lent, counted
  \* together, is within what it may lend (the tests of borrow_impl).
  <2>LoanRoom.
    ASSUME CInv, NEW b, LoansTaken(b), NEW x \in Tenant, NEW d \in Dim,
           LentTotal(x, d)' \in Nat, LentTotal(x, d)' > LentTotal(x, d)
    PROVE  /\ x # b
           /\ Get(Committed(x), d) + LentTotal(x, d)'
                <= Lesser(Get(effective_lattice(x).borrowable, d),
                          Get(effective_lattice(x).guaranteed, d))
    <3> USE <2>LoanRoom
    <3>1. Records /\ AmountsTyped /\ CountersTyped /\ LentCovered /\ QuotasTyped
      BY Zenon DEF CInv, IInv
    <3>2. PICK n, need, from, nl, nb, W : LoanStep(b, n, need, from, nl, nb, W)
      BY Zenon DEF LoansTaken
    <3>3. Run(b, n, need, from) /\ LendsFit(n, need, from, nl) /\ lends' = lends \o nl
      BY <3>2, Zenon DEF LoanStep
    <3>4. Asks(n, need) /\ n \in Nat /\ Vectors(need, 1..n)
      BY <3>3, Zenon DEF Run, Asks
    <3>5. PICK asked, old, new, lent :
            /\ asked = Total(need, FromOf(n, from, x), d)
            /\ old = LentTotal(x, d) /\ new = LentTotal(x, d)' /\ lent = Get(usage[x].lent, d)
      BY Zenon
    <3>6. old \in Nat /\ new \in Nat /\ lent \in Nat /\ new > old /\ old <= lent
      BY <3>1, <3>5, LentExactHolds, Zenon DEF LentNumbers, LentCovered
    <3>7. new <= old + asked
      BY <3>1, <3>3, <3>4, <3>5, LentWritten, Zenon
    <3>8. asked \in Nat
      BY <3>4, <3>5, AsksFinite, Zenon
    <3>9. asked # 0
      BY <3>6, <3>7, <3>8
    <3>10. PICK i \in FromOf(n, from, x) : Get(need[i], d) > 0 /\ asked = Get(need[i], d)
      <4>1. \/ Total(need, FromOf(n, from, x), d) = 0
            \/ \E i \in FromOf(n, from, x) :
                 Get(need[i], d) > 0 /\ Total(need, FromOf(n, from, x), d) = Get(need[i], d)
        BY <3>4, AskedOnce
      <4> QED
        BY <3>5, <3>9, <4>1, Zenon
    <3>11. i \in 1..n /\ from[i] = x
      BY <3>10, Zenon DEF FromOf
    <3>12. CanLend(x, b, need[i]) /\ need[i] \in Vector
      BY <3>3, <3>4, <3>11, Zenon DEF Run, Vectors
    <3>13. x # b
      BY <3>12, Zenon DEF CanLend
    <3>14. PICK room, held :
             /\ room = Lesser(Get(effective_lattice(x).borrowable, d),
                              Get(effective_lattice(x).guaranteed, d))
             /\ held = Get(Committed(x), d)
      BY Zenon
    <3>15. held + lent + asked <= room
      BY <3>1, <3>5, <3>10, <3>12, <3>14, LendRoom
    <3>16. held \in Nat
      BY <3>1, <3>14, CommittedVector, VectorShape, MaxIntAssumption
    <3>17. room \in Int
      <4>1. effective_lattice(x).borrowable \in Vector /\ effective_lattice(x).guaranteed \in Vector
        BY <3>1, LimitsAreTyped DEF LimitsTyped, LimitKinds
      <4> QED
        BY <3>14, <4>1, VectorShape, MaxIntAssumption DEF Lesser
    <3>18. held + new <= room
      BY <3>6, <3>7, <3>8, <3>15, <3>16, <3>17
    <3> QED
      BY <3>5, <3>13, <3>14, <3>18, Zenon
  \* Only a call that borrows makes a lender lend more.
  <2>LendingSteps.
    ASSUME CInv, [Next]_vars, NEW x \in Tenant, NEW d \in Dim
    PROVE  LendingCall \/ LentTotal(x, d)' <= LentTotal(x, d)
    <3> USE <2>LendingSteps
    <3>1. Records /\ AmountsTyped /\ LentNumbers
      BY LentExactHolds, Zenon DEF CInv, IInv
    <3>2. CASE ReturningCall
      BY <3>1, <3>2, LoansReturned, Zenon DEF ReturningCall
    <3>3. CASE BookLeft
      <4>1. LentTotal(x, d)' = LentTotal(x, d)
        BY <3>3, Zenon DEF LentTotal, BookLeft
      <4> QED
        BY <3>1, <4>1 DEF LentNumbers
    <3> QED
      BY <3>2, <3>3, BookSteps, Zenon
  <2> SUFFICES ASSUME CInv, CInv', ReservedExact, CountersFit, [Next]_vars,
                      NEW t \in Tenant, NEW d \in Dim, Idle(t),
                      Get(computed_lent(t)', d) > Get(computed_lent(t), d)
               PROVE  Get(computed_lent(t)', d) + Get(Held(t)', d) <=
                        Lesser(Get(effective_lattice(t).borrowable, d),
                               Get(effective_lattice(t).guaranteed, d))
    BY Zenon DEF LendStep
  <2>1. LentExact /\ LentNumbers /\ LentExact' /\ LentNumbers'
    BY LentExactHolds, PTL
  <2>2. PICK old, new : old = LentTotal(t, d) /\ new = LentTotal(t, d)'
    BY Zenon
  <2>3. /\ Get(computed_lent(t), d) = old /\ Get(computed_lent(t)', d) = new
        /\ old \in Nat /\ new \in Nat
    BY <2>1, <2>2, Zenon DEF LentExact, LentNumbers
  <2>4. new > old
    BY <2>3
  <2>5. LendingCall
    <3>1. ~(new <= old)
      BY <2>3, <2>4
    <3> QED
      BY <2>2, <3>1, <2>LendingSteps, Zenon
  <2>6. PICK b \in Tenant : LoansTaken(b) /\ \A x \in Tenant \ {b} : Held(x)' = Held(x)
    BY <2>5, Zenon DEF LendingCall
  <2>7. PICK room : room = Lesser(Get(effective_lattice(t).borrowable, d),
                                  Get(effective_lattice(t).guaranteed, d))
    BY Zenon
  <2>8. t # b /\ Get(Committed(t), d) + new <= room
    <3>1. LentTotal(t, d)' \in Nat /\ LentTotal(t, d)' > LentTotal(t, d)
      BY <2>2, <2>3, <2>4, Zenon
    <3> QED
      BY <2>2, <2>6, <2>7, <3>1, <2>LoanRoom, Zenon
  <2>9. Held(t)' = Held(t)
    BY <2>6, <2>8, Zenon
  <2>10. PICK held, com : held = Get(Held(t), d) /\ com = Get(Committed(t), d)
    BY Zenon
  <2>11. held \in Nat /\ com \in Nat /\ held <= com
    BY <2>10, CommittedCoversHeld, Zenon
  <2>12. room \in Int
    <3>1. effective_lattice(t).borrowable \in Vector /\ effective_lattice(t).guaranteed \in Vector
      BY LimitsAreTyped DEF LimitsTyped, LimitKinds, CInv, IInv
    <3> QED
      BY <2>7, <3>1, VectorShape, MaxIntAssumption DEF Lesser
  <2>13. new + held <= room
    BY <2>3, <2>8, <2>10, <2>11, <2>12
  <2> QED
    BY <2>3, <2>7, <2>9, <2>10, <2>13, Zenon
<1>1. CInv /\ CInv' /\ ReservedExact /\ CountersFit /\ [Next]_vars => [LendStep]_vars
  BY <1>LendSteps
<1> QED
  BY <1>1, CountersSound, ReservedAlwaysExact, PTL DEF Spec, LendWithinGuarantee

\* Loan number i is borrow i and lending record i (borrow_impl writes both).
Paired == Len(lends) = Len(borrows) /\ \A b \in DOMAIN borrows : borrows[b].lending = b

\* Every lending record keeps its borrow.
LEMMA StepPairs == CInv /\ Paired /\ [Next]_vars => Paired'
<1> SUFFICES ASSUME CInv, Paired, [Next]_vars PROVE Paired'
  BY Zenon
<1>1. /\ IsSequence(lends) /\ IsSequence(borrows)
      /\ Len(lends) \in Nat /\ DOMAIN lends = 1..Len(lends)
      /\ Len(borrows) \in Nat /\ DOMAIN borrows = 1..Len(borrows)
  BY SequenceIsFunction DEF CInv, IInv, Records, LedgerTyped
<1>2. CASE LendingCall
  <2>1. PICK t, n, need, from, nl, nb, W : LoanStep(t, n, need, from, nl, nb, W)
    BY <1>2, Zenon DEF LendingCall, LoansTaken
  <2>2. /\ n \in Nat
        /\ nl = [i \in 1..n |-> nl[i]] /\ nb = [i \in 1..n |-> nb[i]]
        /\ \A i \in 1..n : nb[i].lending = Len(lends) + i
        /\ lends' = lends \o nl /\ borrows' = borrows \o nb
    BY <2>1, Zenon DEF LoanStep, Run, Asks, LendsFit
  <2>3. IsSequence(nl) /\ Len(nl) = n /\ IsSequence(nb) /\ Len(nb) = n
    BY <2>2, FunctionIsSequence, Zenon
  <2>4. Joins(lends', lends, nl) /\ Joins(borrows', borrows, nb)
    BY <1>1, <2>2, <2>3, ConcatIsSequence, Zenon
  <2>5. PICK m : m = Len(borrows)
    BY Zenon
  <2>6. /\ m \in Nat /\ Len(lends) = m
        /\ IsSequence(borrows') /\ Len(lends') = m + n /\ Len(borrows') = m + n
        /\ \A b \in 1..m : borrows'[b] = borrows[b]
        /\ \A i \in 1..n : borrows'[m + i] = nb[i]
    BY <1>1, <2>3, <2>4, <2>5, Zenon DEF Joins, Paired
  <2>7. DOMAIN borrows' = 1..(m + n)
    BY <2>6, SequenceIsFunction, Zenon
  <2>8. ASSUME NEW b \in 1..(m + n) PROVE borrows'[b].lending = b
    <3>1. CASE b \in 1..m
      BY <1>1, <2>5, <2>6, <3>1, Zenon DEF Paired
    <3>2. CASE b \notin 1..m
      <4>1. b - m \in 1..n /\ b = m + (b - m)
        BY <2>2, <2>6, <3>2
      <4>2. borrows'[b] = nb[b - m] /\ nb[b - m].lending = m + (b - m)
        BY <2>2, <2>6, <4>1, Zenon
      <4> QED
        BY <4>1, <4>2, Zenon
    <3> QED
      BY <3>1, <3>2, Zenon
  <2> QED
    BY <2>6, <2>7, <2>8, Zenon DEF Paired
<1>3. CASE ReturningCall
  <2>1. PICK B \in SUBSET DOMAIN borrows : borrows' = ReturnedBorrows(B) /\ lends' = ReturnedLends(B)
    BY <1>3, Zenon DEF ReturningCall
  <2>2. lends' = [l \in 1..Len(lends) |-> lends'[l]]
    BY <1>1, <2>1, Zenon DEF ReturnedLends
  <2>3. /\ borrows' = [b \in 1..Len(borrows) |-> borrows'[b]]
        /\ \A b \in DOMAIN borrows : borrows'[b].lending = borrows[b].lending
    <3>1. \A b \in DOMAIN borrows : DOMAIN borrows[b] = BorrowFields
      BY DEF CInv, IInv, Records, LedgerTyped
    <3>2. \A b \in DOMAIN borrows :
            [borrows[b] EXCEPT !.consumed = Sub(@, @), !.recalled = TRUE].lending = borrows[b].lending
      BY <3>1 DEF BorrowFields
    <3> QED
      BY <1>1, <2>1, <3>2, Zenon DEF ReturnedBorrows
  <2>4. Len(lends') = Len(lends) /\ Len(borrows') = Len(borrows) /\ DOMAIN borrows' = DOMAIN borrows
    BY <1>1, <2>2, <2>3, FunctionIsSequence, Zenon
  <2> QED
    BY <2>3, <2>4, Zenon DEF Paired
<1>4. CASE BookLeft
  BY <1>4, Zenon DEF BookLeft, Paired
<1> QED
  BY <1>2, <1>3, <1>4, BookSteps, Zenon

\* At first there are no loans.
LEMMA InitPairs == Init => Paired
BY DEF Init, Paired

\* borrow_impl and return_borrow keep the two lists in step.
THEOREM AlwaysPaired == Spec => []Paired
BY InitPairs, StepPairs, CountersSound, PTL DEF Spec

\* Where the invariants hold, a lend that is active can be recalled.
LEMMA RecallOffered == CInv /\ ReservedExact /\ Paired /\ CountersFit => RecallPossible
\* What is lent is lent to somebody who has not returned it.
<1>LoanOpen.
  ASSUME CInv, Paired, NEW t \in Tenant, NEW d \in Dim, Get(computed_lent(t), d) > 0
  PROVE  \E b \in DOMAIN borrows : borrows[b].lender = t /\ ~borrows[b].recalled
  <2> USE <1>LoanOpen
  <2>1. Get(computed_lent(t), d) = LentTotal(t, d)
    BY LentExactHolds, Zenon DEF LentExact
  <2>2. LentTotal(t, d) # 0
    <3>1. PICK n : n = Get(computed_lent(t), d)
      BY Zenon
    <3>2. n # 0
      BY <3>1
    <3> QED
      BY <2>1, <3>1, <3>2, Zenon
  <2>3. IsFiniteSet(LendsOf(lends, t))
    <3>1. IsFiniteSet(DOMAIN lends) /\ LendsOf(lends, t) \subseteq DOMAIN lends
      BY TablesFinite DEF CInv, IInv, LendsOf
    <3> QED
      BY <3>1, SubsetFinite, Zenon
  <2>4. PICK l \in LendsOf(lends, t) : Get(Outstanding(lends)[l], d) # 0
    BY <2>2, <2>3, TotalZero, Zenon DEF LentTotal, LentIn
  <2>5. l \in DOMAIN lends /\ lends[l].lender = t /\ Get(lends[l].outstanding, d) # 0
    BY <2>4, Zenon DEF LendsOf, Outstanding
  <2>6. l \in DOMAIN borrows /\ borrows[l].lending = l
    <3>1. DOMAIN lends = 1..Len(lends) /\ DOMAIN borrows = 1..Len(borrows)
      BY SequenceIsFunction DEF CInv, IInv, Records, LedgerTyped
    <3> QED
      BY <2>5, <3>1, Zenon DEF Paired
  <2>7. Agree(borrows[l], lends[l])
    BY <2>6, Zenon DEF CInv, IInv, Records, LedgerConserved
  <2>8. ASSUME borrows[l].recalled PROVE FALSE
    <3>1. PICK v : v = borrows[l].amount
      BY Zenon
    <3>2. lends[l].outstanding = Sub(v, v)
      BY <2>7, <2>8, <3>1, Zenon DEF Agree
    <3>3. v \in Vector
      BY <2>6, <3>1 DEF CInv, AmountsTyped
    <3>4. Get(Sub(v, v), d) = Greater(0, Get(v, d) - Get(v, d)) /\ Get(v, d) \in 0..MaxInt
      BY <3>3, SubVector, VectorShape
    <3>5. Get(Sub(v, v), d) = 0
      BY <3>4, MaxIntAssumption DEF Greater
    <3> QED
      BY <2>5, <3>2, <3>5, Zenon
  <2> QED
    BY <2>5, <2>6, <2>7, <2>8, Zenon DEF Agree
<1> SUFFICES ASSUME CInv, ReservedExact, Paired, CountersFit,
                    NEW t \in Tenant, NEW d \in Dim \ Consumable, Get(computed_lent(t), d) > 0
             PROVE  /\ "REQUEST_RECLAIM" \in recall_decision(t)
                    /\ (/\ Idle(t)
                        /\ d \in DOMAIN effective_lattice(t).guaranteed
                        /\ Get(Held(t), d) + Get(computed_lent(t), d)
                             > effective_lattice(t).guaranteed[d])
                         => "RECALL_BORROWED_CAPACITY" \in recall_decision(t)
  BY Zenon DEF RecallPossible
<1>1. "REQUEST_RECLAIM" \in recall_decision(t)
  <2>1. \E b \in DOMAIN borrows : borrows[b].lender = t /\ ~borrows[b].recalled
    BY <1>LoanOpen, Zenon
  <2> QED
    BY <2>1, Zenon DEF recall_decision
<1>2. ASSUME Idle(t), d \in DOMAIN effective_lattice(t).guaranteed,
             Get(Held(t), d) + Get(computed_lent(t), d) > effective_lattice(t).guaranteed[d]
      PROVE  "RECALL_BORROWED_CAPACITY" \in recall_decision(t)
  <2>1. PICK held, com, lent, shown, g :
          /\ held = Get(Held(t), d) /\ com = Get(Committed(t), d)
          /\ lent = Get(computed_lent(t), d) /\ shown = Get(usage[t].lent, d)
          /\ g = effective_lattice(t).guaranteed[d]
    BY Zenon
  <2>2. held \in Nat /\ com \in Nat /\ held <= com /\ com + shown <= MaxInt
    BY <1>2, <2>1, CommittedCoversHeld, Zenon
  <2>3. lent \in Nat /\ shown \in Nat /\ lent <= shown
    <3>1. lent = LentTotal(t, d) /\ LentTotal(t, d) \in Nat /\ shown \in Nat
      BY <2>1, LentExactHolds, Zenon DEF LentExact, LentNumbers
    <3>2. LentTotal(t, d) <= shown
      BY <2>1, Zenon DEF CInv, LentCovered
    <3> QED
      BY <3>1, <3>2, Zenon
  <2>4. lent > 0 /\ held + lent > g
    BY <1>2, <2>1, Zenon
  <2>5. g \in Int
    <3>1. PICK v : v = effective_lattice(t).guaranteed
      BY Zenon
    <3>2. v \in Vector
      BY <3>1, LimitsAreTyped DEF LimitsTyped, LimitKinds, CInv, IInv
    <3>3. v[d] \in 0..MaxInt
      BY <1>2, <3>1, <3>2, VectorShape
    <3> QED
      BY <2>1, <3>1, <3>3, MaxIntAssumption
  <2>6. SatAdd(com, shown) > g /\ shown > 0
    BY <2>2, <2>3, <2>4, <2>5, MaxIntAssumption DEF SatAdd, Lesser
  <2>7. GuaranteeShort(t, d)
    BY <1>2, <2>1, <2>6, Zenon DEF GuaranteeShort, CommittedOf
  <2>8. compute_compliance(t) = "RECALL_REQUIRED"
    BY <2>7, Zenon DEF compute_compliance
  <2> QED
    BY <2>8, Zenon DEF recall_decision
<1> QED
  BY <1>1, <1>2, Zenon

\* A lender can always have its capacity back: it is told where to reclaim
\* while anything is outstanding, and to recall once it is short of its
\* guarantee (compute_compliance, recall_decision), as long as the counters
\* do not overflow.
THEOREM RecallAlwaysPossible == Spec /\ []CountersFit => []RecallPossible
BY RecallOffered, CountersSound, ReservedAlwaysExact, AlwaysPaired, PTL

-----------------------------------------------------------------------------
(***************************************************************************)
(* Rolling windows.                                                        *)
(***************************************************************************)
\* The running total of a rolling window is the sum of its samples, however
\* late samples arrive, as long as no total reaches INT64_MAX.
THEOREM WindowsAlwaysExact == Spec /\ []WindowsFit => []WindowTotalExact
<1>1. WindowsExact => WindowTotalExact
  BY Zenon DEF WindowsExact, WindowExact, WindowTotalExact
<1> QED
  BY <1>1, InitWindows, StepWindows, Invariance, PTL DEF Spec

\* No step forgets consumption that is still inside the window (expire).
THEOREM WindowsNeverForget == Spec /\ []WindowsFit => WindowRemembers
<1>1. Spec /\ []WindowsFit => []WindowsExact
  BY InitWindows, StepWindows, Invariance, PTL DEF Spec
<1>2. IInv /\ WindowsExact /\ WindowsFit /\ [Next]_vars => [WindowStep]_vars
  BY StepWindows
<1> QED
  BY <1>1, <1>2, Invariance, PTL DEF Spec, WindowRemembers

-----------------------------------------------------------------------------
(***************************************************************************)
(* Envelopes.                                                              *)
(***************************************************************************)
\* An envelope promises nothing the engine would refuse.
LEMMA EnvelopesHold == CInv /\ WindowsExact => EnvelopeHonest
\* What an envelope reads of a tenant are numbers.
<1>EnvelopeNumbers.
  ASSUME CInv, WindowsExact, NEW t \in Tenant, NEW d \in Dim
  PROVE  /\ CommittedOf(t, d) \in Nat
         /\ \A f \in Counters : Get(usage[t][f], d) \in 0..MaxInt
         /\ \A kind \in LimitKinds : Get(effective_lattice(t)[kind], d) \in 0..MaxInt
         /\ SoftOf(effective_lattice(t), d) \in 0..MaxInt
         /\ HardOf(effective_lattice(t), d) \in 0..MaxInt
  <2> USE <1>EnvelopeNumbers
  <2>1. \A f \in Counters : Get(usage[t][f], d) \in 0..MaxInt
    BY VectorShape DEF CInv, CountersTyped, UsageTyped
  <2>2. \A kind \in LimitKinds : Get(effective_lattice(t)[kind], d) \in 0..MaxInt
    BY LimitsAreTyped, VectorShape DEF CInv, IInv, LimitsTyped
  <2>3. SoftOf(effective_lattice(t), d) \in 0..MaxInt /\ HardOf(effective_lattice(t), d) \in 0..MaxInt
    BY LimitNumbers DEF CInv, IInv
  <2>4. CASE d \in Consumable
    <3>1. PICK w : w = windows[t][d]
      BY Zenon
    <3>2. w.samples \in Seq(Sample) /\ w.total = Amount(w.samples)
      BY <2>4, <3>1, Zenon DEF WindowsExact, WindowExact
    <3>3. PICK s : s = w.samples
      BY Zenon
    <3>4. Amount(s) \in Nat
      BY <3>2, <3>3, AmountIs, SumNat
    <3> QED
      BY <2>1, <2>2, <2>3, <2>4, <3>1, <3>2, <3>3, <3>4, Zenon DEF CommittedOf, WindowUsage
  <2>5. CASE d \notin Consumable
    <3>1. Committed(t) \in Vector
      BY CommittedVector, Zenon DEF CInv
    <3>2. Get(Committed(t), d) \in Nat
      BY <3>1, VectorShape, MaxIntAssumption
    <3> QED
      BY <2>1, <2>2, <2>3, <2>5, <3>2, Zenon DEF CommittedOf
  <2> QED
    BY <2>4, <2>5, Zenon
\* No group limits a tenant outside all groups (parent_hard_ok, pool_ok).
<1>NoParentLimits.
  ASSUME NEW t \in Tenant, Home[t] = NoGroup, NEW d, NEW amt
  PROVE  ParentHardOk(t, d, amt) /\ PoolOk(t, d, amt)
  BY <1>NoParentLimits, HierarchyAssumption DEF ParentHardOk, PoolOk, Limiting, AncestorGroups
\* What is decided about one resource of such a tenant, in terms of what the
\* envelope reads.
<1>OwnLimitsDecide.
  ASSUME CInv, WindowsExact, NEW t \in Tenant, Home[t] = NoGroup,
         NEW d \in Dim \ DOMAIN effective_lattice(t).physical_capacity,
         NEW amt \in Int, NEW base, base = CommittedOf(t, d),
         NEW eff, eff = effective_lattice(t)
  PROVE  /\ base + amt <= Get(eff.guaranteed, d) => DimCode(t, d, amt) = "ALLOW_GUARANTEED"
         /\ base + amt <= SoftOf(eff, d) => DimCode(t, d, amt) \in {"ALLOW", "ALLOW_GUARANTEED"}
         /\ burst_ok(t, d, eff) => DimCode(t, d, amt) # "DENY_SOFT"
  <2> USE <1>OwnLimitsDecide
  <2>1. PICK new, guarantee, soft, hard, physical :
          /\ new = SatAdd(base, amt)
          /\ guarantee = Get(eff.guaranteed, d)
          /\ soft = SoftOf(eff, d)
          /\ hard = HardOf(eff, d)
          /\ physical = SatAdd(SatAdd(new, Get(usage[t].borrowed_consumed, d)),
                               Get(usage[t].burst, d))
    BY Zenon
  <2>2. DimCode(t, d, amt) =
          IF d \in Consumable
          THEN IF new <= guarantee THEN "ALLOW_GUARANTEED"
               ELSE IF new <= soft \/ new <= hard THEN "ALLOW" ELSE "DENY_HARD"
          ELSE IF ~ParentHardOk(t, d, amt) THEN "DENY_PARENT"
          ELSE IF physical > PhysicalAllowance(eff, d) THEN "DENY_PHYSICAL"
          ELSE IF new <= guarantee /\ PoolOk(t, d, Lesser(new, guarantee))
               THEN "ALLOW_GUARANTEED"
          ELSE IF new <= soft THEN "ALLOW"
          ELSE IF new <= hard
               THEN IF burst_ok(t, d, eff) THEN "ALLOW_BURST" ELSE "DENY_SOFT"
          ELSE IF borrow_available(d) THEN "ALLOW_BORROW" ELSE "DENY_HARD"
    BY <2>1, Zenon DEF DimCode, CommittedOf
  <2>3. /\ base \in Nat /\ guarantee \in Nat /\ soft \in Nat /\ hard \in Nat
        /\ Get(usage[t].borrowed_consumed, d) \in Int /\ Get(usage[t].burst, d) \in Int
    BY <2>1, <1>EnvelopeNumbers, MaxIntAssumption, SMTT(20) DEF LimitKinds, Counters
  <2>4. new \in Int /\ new <= base + amt
    BY <2>1, <2>3, MaxIntAssumption, SMTT(20) DEF SatAdd, Lesser
  <2>5. physical <= MaxInt /\ physical \in Int
    BY <2>1, <2>3, <2>4, MaxIntAssumption DEF SatAdd, Lesser
  <2>6. PhysicalAllowance(eff, d) = MaxInt
    BY Zenon DEF PhysicalAllowance
  <2>7. ~(physical > PhysicalAllowance(eff, d))
    BY <2>5, <2>6, MaxIntAssumption
  <2>8. /\ base + amt <= guarantee => new <= guarantee
        /\ base + amt <= soft => new <= soft
    BY <2>3, <2>4
  <2>9. ParentHardOk(t, d, amt) /\ PoolOk(t, d, Lesser(new, guarantee))
    BY <1>NoParentLimits, Zenon
  <2> QED
    BY <2>1, <2>2, <2>7, <2>8, <2>9, Zenon
<1> SUFFICES ASSUME CInv, WindowsExact, NEW t \in Tenant,
                    NEW d \in Dim \ DOMAIN effective_lattice(t).physical_capacity,
                    Home[t] = NoGroup
             PROVE  LET code(amount) == classify(t, FromScalar(d, amount))
                    IN  /\ available_guaranteed(t, d) > 0 =>
                             code(available_guaranteed(t, d)) = "ALLOW_GUARANTEED"
                        /\ available_soft(t, d) > 0 =>
                             code(available_soft(t, d)) \in {"ALLOW", "ALLOW_GUARANTEED"}
                        /\ (/\ available_burst(t, d) > 0
                            /\ usage[t].burst_active /\ now < usage[t].burst_expires)
                             => code(1) # "DENY_SOFT"
  BY Zenon DEF EnvelopeHonest
<1>1. PICK eff, base : eff = effective_lattice(t) /\ base = CommittedOf(t, d)
  BY Zenon
<1>2. PICK g, s, b, l, u : /\ g = Get(eff.guaranteed, d) /\ s = SoftOf(eff, d)
                           /\ b = Get(eff.burst_limit, d)
                           /\ l = Get(usage[t].lent, d) /\ u = Get(usage[t].burst, d)
  BY Zenon
<1>3. base \in Nat /\ g \in Nat /\ s \in Nat /\ b \in Nat /\ l \in Nat /\ u \in Nat
  BY <1>1, <1>2, <1>EnvelopeNumbers, MaxIntAssumption DEF LimitKinds, Counters
<1>4. HasEntitlement(eff) <=> \/ DOMAIN eff.guaranteed # {} \/ DOMAIN eff.soft_limit # {}
                              \/ DOMAIN eff.hard_limit # {} \/ DOMAIN eff.burst_limit # {}
                              \/ DOMAIN eff.borrowable # {}
  BY DEF HasEntitlement, LimitKinds, IsEmpty
<1>5. /\ g > 0 => HasEntitlement(eff)
      /\ b > 0 => HasEntitlement(eff)
      /\ d \in DOMAIN eff.soft_limit => HasEntitlement(eff)
  BY <1>2, <1>4 DEF Get
<1>6. ASSUME available_guaranteed(t, d) > 0
      PROVE  classify(t, FromScalar(d, available_guaranteed(t, d))) = "ALLOW_GUARANTEED"
  <2>1. PICK amt : amt = available_guaranteed(t, d)
    BY Zenon
  <2>2. amt = g - base - l
    BY <1>1, <1>2, <2>1, Zenon DEF available_guaranteed
  <2>3. amt \in Int /\ base + amt <= g /\ g > 0
    BY <1>3, <1>6, <2>1, <2>2
  <2>4. DimCode(t, d, amt) = "ALLOW_GUARANTEED"
    BY <1>1, <1>2, <2>3, <1>OwnLimitsDecide
  <2> QED
    BY <1>1, <1>5, <2>1, <2>3, <2>4, ClassifyScalar, Zenon
<1>7. ASSUME available_soft(t, d) > 0
      PROVE  classify(t, FromScalar(d, available_soft(t, d))) \in {"ALLOW", "ALLOW_GUARANTEED"}
  <2>1. PICK amt : amt = available_soft(t, d)
    BY Zenon
  <2>2. PICK x : x = IF d \in DOMAIN eff.soft_limit THEN eff.soft_limit[d] ELSE g
    BY Zenon
  <2>3. amt = x - base
    BY <1>1, <1>2, <2>1, <2>2, Zenon DEF available_soft
  <2>4. x \in Nat /\ x > 0 => x = s /\ HasEntitlement(eff)
    BY <1>2, <1>5, <2>2, SMTT(20) DEF SoftOf, Get
  <2>5. x \in Nat
    BY <1>2, <1>3, <2>2 DEF SoftOf
  <2>6. amt \in Int /\ base + amt <= x /\ x > 0
    BY <1>3, <1>7, <2>1, <2>3, <2>5
  <2>7. DimCode(t, d, amt) \in {"ALLOW", "ALLOW_GUARANTEED"}
    BY <1>1, <1>2, <2>4, <2>5, <2>6, <1>OwnLimitsDecide
  <2> QED
    BY <1>1, <2>1, <2>4, <2>5, <2>6, <2>7, ClassifyScalar, Zenon
<1>8. ASSUME available_burst(t, d) > 0, usage[t].burst_active, now < usage[t].burst_expires
      PROVE  classify(t, FromScalar(d, 1)) # "DENY_SOFT"
  <2>1. u < b /\ b > 0
    BY <1>1, <1>2, <1>3, <1>8 DEF available_burst
  <2>2. burst_ok(t, d, eff)
    BY <1>2, <1>8, <2>1, Zenon DEF burst_ok
  <2>3. DimCode(t, d, 1) # "DENY_SOFT"
    BY <1>1, <2>2, <1>OwnLimitsDecide
  <2> QED
    BY <1>1, <1>5, <2>1, <2>3, ClassifyScalar, Zenon
<1> QED
  BY <1>6, <1>7, <1>8, Zenon

\* The headroom an envelope shows is headroom evaluate_reservation grants, in
\* every state, as long as no window reaches INT64_MAX.
THEOREM EnvelopesAlwaysHonest == Spec /\ []WindowsFit => []EnvelopeHonest
BY EnvelopesHold, InitWindows, StepWindows, Invariance, CountersSound, PTL DEF Spec

-----------------------------------------------------------------------------
(***************************************************************************)
(* The ceiling of a group.                                                 *)
(***************************************************************************)
\* Held and GroupHeld never show more than there is.
HeldAtMost ==
  /\ \A t \in Tenant : /\ Held(t) \in Vector
                       /\ \A d \in Dim : Get(Held(t), d) <= Total(Resources, LiveReservations(t), d)
  /\ \A g : /\ GroupHeld(g) \in Vector
            /\ \A d \in Dim : Get(GroupHeld(g), d) <= Total(Resources, ReservationsOf(Subtree(g)), d)
  /\ \A S : \A d \in Dim : Total(Resources, ReservationsOf(S), d) \in Nat

\* What the tenants below a group hold.
LEMMA HeldOfGroup ==
  ASSUME Records, NEW g
  PROVE  /\ GroupHeld(g) \in Vector
         /\ \A d : Get(GroupHeld(g), d) <= Total(Resources, ReservationsOf(Subtree(g)), d)
         /\ (\A d \in Dim : Total(Resources, DOMAIN reservations, d) <= MaxInt)
              => \A d \in Dim : Get(GroupHeld(g), d) = Total(Resources, ReservationsOf(Subtree(g)), d)
<1>1. PICK S, h : S = Subtree(g) /\ h = [t \in Subtree(g) |-> Held(t)]
  BY Zenon
<1>2. S \in SUBSET Tenant /\ IsFiniteSet(S)
  BY <1>1, HierarchyAssumption, SubsetFinite DEF Subtree
<1>3. \A t \in S : h[t] = Held(t)
  BY <1>1, Zenon
<1>4. Vectors(h, S)
  BY <1>3, HeldOfTenant DEF Vectors
<1>5. GroupHeld(g) = VSum(h, S)
  BY <1>1, Zenon DEF GroupHeld
<1>6. VSum(h, S) \in Vector /\ \A d : Get(VSum(h, S), d) <= Total(h, S, d)
  BY <1>2, <1>4, VSumAtMost
<1>7. ASSUME NEW d
      PROVE  /\ Total(h, S, d) <= Total(Resources, ReservationsOf(S), d)
             /\ Total(h, S, d) \in Nat /\ Total(Resources, ReservationsOf(S), d) \in Nat
             /\ (\A t \in S : Get(Held(t), d) = Total(Resources, LiveReservations(t), d))
                  => Total(h, S, d) = Total(Resources, ReservationsOf(S), d)
  <2>1. PICK a, b : /\ a = [t \in S |-> Get(h[t], d)]
                    /\ b = [t \in S |-> Total(Resources, LiveReservations(t), d)]
    BY Zenon
  <2>2. \A t \in S : a[t] = Get(Held(t), d) /\ b[t] = Total(Resources, LiveReservations(t), d)
    BY <1>3, <2>1, Zenon
  <2>3. \A t \in S : b[t] \in Nat
    BY <2>2, HeldParts, SMTT(20)
  <2>4. \A t \in S : a[t] \in Nat
    BY <2>2, HeldOfTenant, VectorShape, MaxIntAssumption
  <2>5. \A t \in S : a[t] <= b[t]
    BY <2>2, HeldOfTenant
  <2>6. Total(h, S, d) = SumFunctionOnSet(a, S)
    BY <2>1, Zenon DEF Total
  <2>7. Total(Resources, ReservationsOf(S), d) = SumFunctionOnSet(b, S)
    BY <1>2, <2>1, HeldByTenant, Zenon
  <2>8. AllNat(a, S) /\ AllNat(b, S)
    BY <2>3, <2>4, Zenon DEF AllNat
  <2>9. SumFunctionOnSet(a, S) <= SumFunctionOnSet(b, S)
    BY <1>2, <2>5, <2>8, SumMonotone, Zenon
  <2>10. (\A t \in S : Get(Held(t), d) = Total(Resources, LiveReservations(t), d))
            => SumFunctionOnSet(a, S) = SumFunctionOnSet(b, S)
    BY <1>2, <2>2, SumSame
  <2>11. SumFunctionOnSet(a, S) \in Nat /\ SumFunctionOnSet(b, S) \in Nat
    BY <1>2, <2>8, SumNat, Zenon
  <2> QED
    BY <2>6, <2>7, <2>9, <2>10, <2>11, Zenon
<1>8. ASSUME NEW d PROVE Get(VSum(h, S), d) <= Total(Resources, ReservationsOf(S), d)
  <2>1. Get(VSum(h, S), d) \in Nat
    BY <1>6, VectorShape, MaxIntAssumption
  <2>2. Get(VSum(h, S), d) <= Total(h, S, d)
    BY <1>6, Zenon
  <2> QED
    BY <1>7, <2>1, <2>2
<1>9. ASSUME \A d \in Dim : Total(Resources, DOMAIN reservations, d) <= MaxInt, NEW d \in Dim
      PROVE  Get(VSum(h, S), d) = Total(Resources, ReservationsOf(S), d)
  <2>1. \A e \in Dim : /\ \A t \in S : Total(Resources, LiveReservations(t), e) <= MaxInt
                       /\ Total(Resources, ReservationsOf(S), e) <= MaxInt
    BY <1>9, HeldParts, MaxIntAssumption
  <2>2. \A e \in Dim : \A t \in S : Get(Held(t), e) = Total(Resources, LiveReservations(t), e)
    BY <2>1, HeldOfTenant
  <2>3. \A e \in Dim : Total(h, S, e) = Total(Resources, ReservationsOf(S), e)
    BY <1>7, <2>2, Zenon
  <2>4. \A e \in Dim : Total(h, S, e) <= MaxInt
    BY <2>1, <2>3, Zenon
  <2>5. \A e \in Dim : Get(VSum(h, S), e) = Total(h, S, e)
    BY <1>2, <1>4, <2>4, VSumExact
  <2> QED
    BY <2>3, <2>5, Zenon
<1> QED
  BY <1>1, <1>5, <1>6, <1>8, <1>9, Zenon

\* In every state.
LEMMA HeldIsAtMost == Records => HeldAtMost
BY HeldOfTenant, HeldOfGroup, HeldParts, Zenon DEF HeldAtMost

\* A parent ceiling binds the whole subtree (parent_hard_ok): no reserve takes
\* idle tenants below a group above its hard limit, as long as all that is
\* consumed and reserved stays below INT64_MAX.
THEOREM GroupCeilingHeld == Spec /\ []ResourcesFit => GroupCeiling
\* No step takes the tenants below a group above its hard limit.
<1>GroupSteps.
  CInv /\ CInv' /\ ReservedExact /\ ResourcesFit /\ [Next]_vars => GroupStep
  \* The counters of one kind, as subtree_committed goes through them.
  <2>PartTotal.
    ASSUME CInv, NEW S \in SUBSET Tenant, NEW kind \in {"consumption", "reserved"},
           NEW f, \A t \in S : f[<<t, kind>>] = usage[t][kind], NEW d
    PROVE  /\ IsFiniteSet(S \X {kind}) /\ Vectors(f, S \X {kind})
           /\ Total(f, S \X {kind}, d) = SumFunctionOnSet([t \in S |-> Get(usage[t][kind], d)], S)
    <3> USE <2>PartTotal
    <3>1. PICK P, m, a, b : /\ P = S \X {kind}
                            /\ m = [t \in S |-> <<t, kind>>]
                            /\ a = [t \in S |-> Get(usage[t][kind], d)]
                            /\ b = [p \in P |-> Get(f[p], d)]
      BY Zenon
    <3>2. \A t \in S : m[t] = <<t, kind>> /\ m[t] \in P
      BY <3>1
    <3>3. \A p \in P : \E t \in S : p = m[t]
      BY <3>1
    <3>4. P = {m[t] : t \in S}
      BY <3>2, <3>3
    <3>5. IsFiniteSet(S)
      BY HierarchyAssumption, SubsetFinite
    <3>6. IsFiniteSet(P)
      BY <3>4, <3>5, RenamedFinite
    <3>7. \A t \in S : usage[t][kind] \in Vector
      BY DEF CInv, CountersTyped, UsageTyped, Counters
    <3>8. Vectors(f, P)
      <4>1. \A t \in S : f[m[t]] \in Vector
        BY <3>2, <3>7
      <4> QED
        BY <3>3, <4>1 DEF Vectors
    <3>9. AllNat(a, S)
      BY <3>1, <3>7, VectorShape, MaxIntAssumption DEF AllNat
    <3>10. Renames(m, S, P, a, b)
      <4>1. \A t \in S : b[m[t]] = a[t]
        BY <3>1, <3>2, Zenon
      <4>2. \A x, y \in S : m[x] = m[y] => x = y
        BY <3>2
      <4> QED
        BY <3>2, <3>3, <4>1, <4>2, Zenon DEF Renames
    <3>11. SumFunctionOnSet(b, P) = SumFunctionOnSet(a, S)
      BY <3>5, <3>9, <3>10, SumRenamed
    <3> QED
      BY <3>1, <3>6, <3>8, <3>11, Zenon DEF Total
  \* parent_hard_ok sees all that the tenants below the group hold.
  <2>SubtreeCovers.
    ASSUME CInv, ReservedExact, ResourcesFit, NEW g, \A t \in Subtree(g) : Idle(t), NEW d \in Dim
    PROVE  /\ Get(subtree_committed(g), d) \in Nat
           /\ Total(Resources, ReservationsOf(Subtree(g)), d) <= Get(subtree_committed(g), d)
    <3> USE <2>SubtreeCovers
    <3>1. PICK S, C, R, f : /\ S = Subtree(g)
                            /\ C = S \X {"consumption"} /\ R = S \X {"reserved"}
                            /\ f = [p \in Subtree(g) \X {"consumption", "reserved"} |-> usage[p[1]][p[2]]]
      BY Zenon
    <3>2. S \in SUBSET Tenant
      BY <3>1 DEF Subtree
    <3>3. /\ Subtree(g) \X {"consumption", "reserved"} = C \cup R /\ C \cap R = {}
          /\ \A t \in S : f[<<t, "consumption">>] = usage[t].consumption
          /\ \A t \in S : f[<<t, "reserved">>] = usage[t].reserved
      BY <3>1
    <3>4. subtree_committed(g) = VSum(f, C \cup R)
      BY <3>1, <3>3, Zenon DEF subtree_committed
    <3>5. ASSUME NEW e \in Dim
          PROVE  /\ IsFiniteSet(C) /\ Vectors(f, C) /\ IsFiniteSet(R) /\ Vectors(f, R)
                 /\ Total(f, C, e) = SumFunctionOnSet([t \in S |-> Get(usage[t].consumption, e)], S)
                 /\ Total(f, R, e) = SumFunctionOnSet([t \in S |-> Get(usage[t].reserved, e)], S)
      <4>1. PICK k : k = "consumption"
        BY Zenon
      <4>2. k \in {"consumption", "reserved"} /\ \A t \in S : f[<<t, k>>] = usage[t][k]
        BY <3>3, <4>1
      <4>3. /\ IsFiniteSet(S \X {k}) /\ Vectors(f, S \X {k})
            /\ Total(f, S \X {k}, e) = SumFunctionOnSet([t \in S |-> Get(usage[t][k], e)], S)
        BY <3>2, <4>2, <2>PartTotal, Zenon
      <4>4. PICK l : l = "reserved"
        BY Zenon
      <4>5. l \in {"consumption", "reserved"} /\ \A t \in S : f[<<t, l>>] = usage[t][l]
        BY <3>3, <4>4
      <4>6. /\ IsFiniteSet(S \X {l}) /\ Vectors(f, S \X {l})
            /\ Total(f, S \X {l}, e) = SumFunctionOnSet([t \in S |-> Get(usage[t][l], e)], S)
        BY <3>2, <4>5, <2>PartTotal, Zenon
      <4> QED
        BY <3>1, <4>1, <4>3, <4>4, <4>6, Zenon
    <3>6. ASSUME NEW e \in Dim
          PROVE  SumFunctionOnSet([t \in S |-> Get(usage[t].consumption, e)], S) <= Consumed(e)
      <4>1. PICK a, b : /\ a = [t \in S |-> Get(usage[t].consumption, e)]
                        /\ b = [t \in Tenant |-> Get(usage[t].consumption, e)]
        BY Zenon
      <4>2. AllNat(b, Tenant) /\ IsFiniteSet(Tenant) /\ IsFiniteSet(S)
        BY <3>2, <4>1, VectorShape, MaxIntAssumption, HierarchyAssumption, SubsetFinite
           DEF AllNat, CInv, CountersTyped, UsageTyped, Counters
      <4>3. SumFunctionOnSet(b, S) <= SumFunctionOnSet(b, Tenant)
        BY <3>2, <4>2, SumPart
      <4>4. \A t \in S : a[t] = b[t]
        BY <3>2, <4>1
      <4>5. SumFunctionOnSet(a, S) = SumFunctionOnSet(b, S)
        BY <4>2, <4>4, SumSame
      <4> QED
        BY <4>1, <4>3, <4>5, Zenon DEF Consumed
    <3>7. ASSUME NEW e \in Dim
          PROVE  SumFunctionOnSet([t \in S |-> Get(usage[t].reserved, e)], S)
                   = Total(Resources, ReservationsOf(S), e)
      <4>1. \A t \in S : Get(usage[t].reserved, e) = Total(Resources, LiveReservations(t), e)
        BY <3>1, <3>2, ReservedIsHeld
      <4>2. [t \in S |-> Get(usage[t].reserved, e)] = [t \in S |-> Total(Resources, LiveReservations(t), e)]
        BY <4>1, Zenon
      <4>3. Records
        BY DEF CInv, IInv
      <4> QED
        BY <3>2, <4>2, <4>3, HeldByTenant, Zenon
    <3>8. ASSUME NEW e \in Dim
          PROVE  /\ Total(f, C \cup R, e) = Total(f, C, e) + Total(Resources, ReservationsOf(S), e)
                 /\ Total(f, C \cup R, e) <= MaxInt
                 /\ Total(f, C, e) \in Nat /\ Total(Resources, ReservationsOf(S), e) \in Nat
      <4>1. IsFiniteSet(C) /\ IsFiniteSet(R) /\ Vectors(f, C \cup R) /\ Vectors(f, C)
        BY <3>5, Zenon DEF Vectors
      <4>2. Total(f, C \cup R, e) = Total(f, C, e) + Total(f, R, e)
        BY <3>3, <4>1, TotalDisjoint
      <4>3. Total(f, C, e) \in Nat
        BY <4>1, TotalNat
      <4>4. PICK x, y, z, w : /\ x = Total(f, C, e) /\ y = Total(Resources, ReservationsOf(S), e)
                              /\ z = Consumed(e) /\ w = Total(Resources, DOMAIN reservations, e)
        BY Zenon
      <4>5. y \in Nat /\ y <= w
        BY <4>4, HeldParts DEF CInv, IInv
      <4>6. z \in Nat /\ w \in Nat /\ z + w <= MaxInt
        BY <4>4, FitTotals
      <4>7. x <= z
        BY <3>5, <3>6, <4>4, Zenon
      <4>8. x + y <= MaxInt
        BY <4>3, <4>4, <4>5, <4>6, <4>7, MaxIntAssumption
      <4>9. Total(f, C \cup R, e) = x + y
        BY <3>5, <3>7, <4>2, <4>4, Zenon
      <4> QED
        BY <4>3, <4>4, <4>5, <4>8, <4>9, Zenon
    <3>9. Get(VSum(f, C \cup R), d) = Total(f, C \cup R, d)
      <4>1. IsFiniteSet(C \cup R) /\ Vectors(f, C \cup R)
        BY <3>5, UnionFinite, Zenon DEF Vectors
      <4>2. \A e \in Dim : Total(f, C \cup R, e) <= MaxInt
        BY <3>8, Zenon
      <4> QED
        BY <4>1, <4>2, VSumExact, Zenon
    <3>10. PICK c, x, y : /\ c = Get(subtree_committed(g), d) /\ x = Total(f, C, d)
                          /\ y = Total(Resources, ReservationsOf(S), d)
      BY Zenon
    <3>11. c = x + y /\ x \in Nat /\ y \in Nat
      BY <3>4, <3>8, <3>9, <3>10, Zenon
    <3>12. c \in Nat /\ y <= c
      BY <3>11
    <3> QED
      BY <3>1, <3>10, <3>12, Zenon
  \* What a reservation that is added or removed does to the totals.
  <2>HoldingTotals.
    ASSUME Records, Records', NEW S, NEW d
    PROVE  /\ SameHoldings => Total(Resources, ReservationsOf(S), d)' = Total(Resources, ReservationsOf(S), d)
           /\ ReservationRemoved =>
                Total(Resources, ReservationsOf(S), d)' <= Total(Resources, ReservationsOf(S), d)
           /\ \A t, req : ReservationAdded(t, req) =>
                Total(Resources, ReservationsOf(S), d)' =
                  (IF t \in S THEN Get(req, d) ELSE 0) + Total(Resources, ReservationsOf(S), d)
    <3> USE <2>HoldingTotals
    <3>1. PICK f, g, A, B : /\ f = Resources /\ g = Resources'
                            /\ A = ReservationsOf(S) /\ B = ReservationsOf(S)'
      BY Zenon
    <3>2. /\ Total(Resources, ReservationsOf(S), d) = Total(f, A, d)
          /\ Total(Resources, ReservationsOf(S), d)' = Total(g, B, d)
      BY <3>1, Zenon DEF Total
    <3>3. /\ A = {r \in DOMAIN reservations : reservations[r].tenant \in S}
          /\ B = {r \in DOMAIN reservations' : reservations'[r].tenant \in S}
          /\ f = [r \in DOMAIN reservations |-> reservations[r].resources]
          /\ g = [r \in DOMAIN reservations' |-> reservations'[r].resources]
      BY <3>1, Zenon DEF ReservationsOf, Resources
    <3>4. IsFiniteSet(A) /\ Vectors(f, A)
      <4>1. A \subseteq DOMAIN reservations
        BY <3>3
      <4> QED
        BY <3>1, <4>1, ResourcesTyped, SubsetFinite DEF Vectors
    <3>5. ASSUME SameHoldings PROVE Total(g, B, d) = Total(f, A, d)
      <4>1. A = B /\ \A r \in A : g[r] = f[r]
        BY <3>3, <3>5 DEF SameHoldings
      <4> QED
        BY <3>4, <4>1, TotalSame, SMTT(20)
    <3>6. ASSUME ReservationRemoved PROVE Total(g, B, d) <= Total(f, A, d)
      <4>1. B \in SUBSET A /\ \A r \in B : g[r] = f[r]
        BY <3>3, <3>6 DEF ReservationRemoved
      <4> QED
        BY <3>4, <4>1, TotalShrinks
    <3>7. ASSUME NEW t, NEW req, ReservationAdded(t, req)
          PROVE  Total(g, B, d) = (IF t \in S THEN Get(req, d) ELSE 0) + Total(f, A, d)
      <4>1. nextRes \notin A /\ \A r \in A : g[r] = f[r]
        BY <3>3, <3>7 DEF ReservationAdded
      <4>2. CASE t \in S
        <5>1. B = A \cup {nextRes} /\ g[nextRes] = req
          BY <3>3, <3>7, <4>2 DEF ReservationAdded
        <5>2. g[nextRes] \in Vector
          <6>1. reservations'[nextRes].resources \in Vector
            BY <3>7, InputAssumption DEF Records, ReservationsTyped, ReservationAdded
          <6> QED
            BY <3>7, <5>1, <6>1, Zenon DEF ReservationAdded
        <5>3. Total(g, A \cup {nextRes}, d) = Get(g[nextRes], d) + Total(f, A, d)
          BY <3>4, <4>1, <5>2, TotalGrows
        <5> QED
          BY <4>2, <5>1, <5>3, Zenon
      <4>3. CASE t \notin S
        <5>1. B = A
          BY <3>3, <3>7, <4>3 DEF ReservationAdded
        <5>2. Total(g, B, d) = Total(f, A, d)
          BY <3>4, <4>1, <5>1, TotalSame
        <5>3. Total(f, A, d) \in Nat
          BY <3>4, TotalNat
        <5> QED
          BY <4>3, <5>2, <5>3
      <4> QED
        BY <4>2, <4>3
    <3> QED
      BY <3>2, <3>5, <3>6, <3>7, Zenon
  <2> SUFFICES ASSUME CInv, CInv', ReservedExact, ResourcesFit, [Next]_vars,
                      NEW g \in DOMAIN group_quota, NEW d \in DOMAIN group_quota[g].hard_limit \ Consumable,
                      \A t \in Subtree(g) : Idle(t),
                      Get(GroupHeld(g)', d) > Get(GroupHeld(g), d)
               PROVE  Get(GroupHeld(g)', d) <= group_quota[g].hard_limit[d]
    BY Zenon DEF GroupStep
  <2>0. IInv /\ Records /\ Records'
    BY DEF CInv, IInv
  <2>1. PICK S, old, new, hold, hnew, limit :
          /\ S = Subtree(g)
          /\ old = Get(GroupHeld(g), d) /\ new = Get(GroupHeld(g)', d)
          /\ hold = Total(Resources, ReservationsOf(S), d)
          /\ hnew = Total(Resources, ReservationsOf(S), d)'
          /\ limit = group_quota[g].hard_limit[d]
    BY Zenon
  <2>2. group_quota[g].hard_limit \in Vector /\ d \in Dim /\ limit \in Nat
    <3>1. g \in Group /\ group_quota[g] \in GroupQuotas[g]
      BY DEF CInv, IInv, QuotasTyped
    <3>2. group_quota[g].hard_limit \in Vector
      BY <3>1, InputAssumption DEF Quota
    <3> QED
      BY <2>1, <3>2, VectorShape, MaxIntAssumption
  <2>3. old = hold /\ hold \in Nat
    <3>1. \A e \in Dim : Total(Resources, DOMAIN reservations, e) <= MaxInt
      BY FitTotals
    <3>2. Get(GroupHeld(g), d) = Total(Resources, ReservationsOf(Subtree(g)), d)
      BY <2>0, <2>2, <3>1, HeldOfGroup, Zenon
    <3>3. hold \in Nat
      BY <2>0, <2>1, HeldParts, Zenon
    <3> QED
      BY <2>1, <3>2, <3>3, Zenon
  <2>4. new \in 0..MaxInt /\ new <= hnew
    <3>1. HeldAtMost'
      BY <2>0, HeldIsAtMost, PTL
    <3>2. GroupHeld(g)' \in Vector /\ Get(GroupHeld(g)', d) <= Total(Resources, ReservationsOf(Subtree(g)), d)'
      BY <2>2, <3>1 DEF HeldAtMost
    <3>3. new \in 0..MaxInt
      BY <2>1, <3>2, VectorShape
    <3> QED
      BY <2>1, <3>2, <3>3, Zenon
  <2>5. new > old
    BY <2>1, Zenon
  <2>6. PICK t, req, auth :
          t \in Tenant /\ req \in Requests /\ Reserve(t, req, auth) /\ ReservationAdded(t, req)
    <3>1. SameHoldings => hnew = hold
      BY <2>0, <2>1, <2>HoldingTotals, Zenon
    <3>2. ReservationRemoved => hnew <= hold
      BY <2>0, <2>1, <2>HoldingTotals, Zenon
    <3>3. hnew \in Nat
      <4>1. HeldAtMost'
        BY <2>0, HeldIsAtMost, PTL
      <4> QED
        BY <2>1, <2>2, <4>1, Zenon DEF HeldAtMost
    <3>4. ~SameHoldings /\ ~ReservationRemoved
      BY <2>3, <2>4, <2>5, <3>1, <3>2, <3>3
    <3> QED
      BY <2>0, <3>4, HoldingSteps, Zenon
  <2>7. hnew = (IF t \in S THEN Get(req, d) ELSE 0) + hold
    BY <2>0, <2>1, <2>6, <2>HoldingTotals, Zenon
  <2>8. t \in S /\ d \in DOMAIN req
    BY <2>3, <2>4, <2>5, <2>7 DEF Get
  <2>9. req[d] \in Nat /\ hnew = req[d] + hold
    <3>1. req[d] \in Nat
      <4>1. req \in Vector
        BY <2>6, InputAssumption
      <4> QED
        BY <2>8, <4>1, VectorShape, MaxIntAssumption
    <3> QED
      BY <2>7, <2>8, <3>1 DEF Get
  <2>10. PICK c : c = Get(subtree_committed(g), d)
    BY Zenon
  <2>11. c \in Nat /\ hold <= c
    BY <2>1, <2>2, <2>10, <2>SubtreeCovers, Zenon
  <2>12. SatAdd(c, req[d]) <= limit
    <3>1. ParentHardOk(t, d, req[d])
      BY <2>6, <2>8, ReserveBelowParents
    <3>2. g \in Limiting(t, d, "hard_limit")
      BY <2>1, <2>8, Zenon DEF Limiting, Subtree
    <3> QED
      BY <2>1, <2>10, <3>1, <3>2, Zenon DEF ParentHardOk
  <2>13. new <= limit
    BY <2>2, <2>4, <2>9, <2>11, <2>12, <2>3, MaxIntAssumption DEF SatAdd, Lesser
  <2> QED
    BY <2>1, <2>13, Zenon
<1>1. CInv /\ CInv' /\ ReservedExact /\ ResourcesFit /\ [Next]_vars => [GroupStep]_vars
  BY <1>GroupSteps
<1> QED
  BY <1>1, CountersSound, ReservedAlwaysExact, PTL DEF Spec, GroupCeiling

===============================================================================
