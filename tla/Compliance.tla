------------------------------ MODULE Compliance ------------------------------
(***************************************************************************)
(* What the engine reports about a tenant: its compliance and envelope,    *)
(* the recall decision of a lender, and the engine's own audit,            *)
(* invariants_ok.  All are functions of the engine's state.                *)
(***************************************************************************)
EXTENDS EngineProperties

\* Mutant: leaves the reservations out of what is committed.
CommittedOfConsumption(t, d) ==
  IF d \in Consumable THEN WindowUsage(windows[t][d])
  ELSE Get(usage[t].consumption, d)

\* A consumable is measured by its window, everything else by the counters.
CommittedOf(t, d) ==
  IF d \in Consumable THEN WindowUsage(windows[t][d]) ELSE Get(Committed(t), d)

\* Lent out, and what is left no longer covers what the tenant itself holds.
GuaranteeShort(t, d) ==
  LET eff  == effective_lattice(t)
      lent == Get(usage[t].lent, d)
  IN  /\ d \in DOMAIN eff.guaranteed
      /\ lent > 0
      /\ SatAdd(CommittedOf(t, d), lent) > eff.guaranteed[d]

compute_compliance(t) ==
  LET eff == effective_lattice(t)
  IN  IF \E d \in Dim : GuaranteeShort(t, d) THEN "RECALL_REQUIRED"
      ELSE IF \E d \in Dim : CommittedOf(t, d) > HardOf(eff, d) THEN "OVER_HARD"
      ELSE IF \E d \in Dim : CommittedOf(t, d) > SoftOf(eff, d) THEN "OVER_SOFT"
      ELSE "COMPLIANT"

\* The headroom fields of an envelope: signed, and zero where nothing is set.
available_guaranteed(t, d) ==
  Get(effective_lattice(t).guaranteed, d) - CommittedOf(t, d) - Get(usage[t].lent, d)

available_soft(t, d) ==
  LET eff == effective_lattice(t)
  IN  (IF d \in DOMAIN eff.soft_limit THEN eff.soft_limit[d]
       ELSE Get(eff.guaranteed, d)) - CommittedOf(t, d)

available_burst(t, d) ==
  Get(effective_lattice(t).burst_limit, d) - Get(usage[t].burst, d)

\* Mutant: looks for loans the tenant has taken instead of given.
recall_decision_of_borrower(t) ==
  (IF compute_compliance(t) = "RECALL_REQUIRED"
   THEN {"RECALL_BORROWED_CAPACITY", "STOP_NEW_BORROWING"}
   ELSE {"NO_ACTION"})
    \cup (IF OpenBorrows(t) # {} THEN {"REQUEST_RECLAIM"} ELSE {})

recall_decision(t) ==
  (IF compute_compliance(t) = "RECALL_REQUIRED"
   THEN {"RECALL_BORROWED_CAPACITY", "STOP_NEW_BORROWING"}
   ELSE {"NO_ACTION"})
    \cup (IF \E b \in DOMAIN borrows :
                borrows[b].lender = t /\ ~borrows[b].recalled
          THEN {"REQUEST_RECLAIM"} ELSE {})

\* covers: every dimension b names, a names too, with at least as much.
Covers(a, b) == \A d \in DOMAIN b : d \in DOMAIN a /\ a[d] >= b[d]

(***************************************************************************)
(* The audit.  Acyclicity and the absence of negative amounts hold by the  *)
(* shape of the model's state and are left out; vectors are compared with  *)
(* their present bits.                                                     *)
(***************************************************************************)
invariants_ok ==
  /\ \A t \in Tenant :
       /\ usage[t].reserved = RemainingReserved(t)
       /\ usage[t].consumption = computed_consumed(t)
       /\ usage[t].borrowed_consumed = computed_borrowed(t)
       /\ usage[t].lent = computed_lent(t)
  /\ \A b \in DOMAIN borrows :
       Covers(lends[borrows[b].lending].amount, borrows[b].amount)
  /\ \A a \in DOMAIN allocations :
       Min2(allocations[a].used, allocations[a].resources) = allocations[a].used
  /\ \A t \in Tenant :
       (\A f \in {"consumption", "reserved", "borrowed_consumed", "lent", "debt"} :
          IsEmpty(usage[t][f])) => IsEmpty(usage[t].burst)

-----------------------------------------------------------------------------
(***************************************************************************)
(* "Unused guarantee may be lent, but recall must remain possible": an     *)
(* idle lender is told where to reclaim as long as anything it lent is     *)
(* outstanding, and is told to recall as soon as the lending records and   *)
(* its own reservations together exceed its guarantee - although           *)
(* compute_compliance reads counters that return_borrow does not always    *)
(* bring up to date.                                                       *)
(***************************************************************************)
RecallPossible ==
  \A t \in Tenant : \A d \in Dim \ Consumable :
    LET lent == Get(computed_lent(t), d)
    IN  lent > 0 =>
          /\ "REQUEST_RECLAIM" \in recall_decision(t)
          /\ (/\ Idle(t)
              /\ d \in DOMAIN effective_lattice(t).guaranteed
              /\ Get(Held(t), d) + lent > effective_lattice(t).guaranteed[d])
               => "RECALL_BORROWED_CAPACITY" \in recall_decision(t)

(***************************************************************************)
(* An envelope promises nothing evaluate_reservation would refuse.  For a  *)
(* tenant outside any group, whose limits are not cut by a physical        *)
(* capacity, a request for one resource is guaranteed within the           *)
(* guaranteed headroom, needs neither burst nor a borrow within the soft   *)
(* headroom, and is not refused for lack of burst while the burst window   *)
(* is open and burst headroom is shown.                                    *)
(***************************************************************************)
EnvelopeHonest ==
  \A t \in Tenant : \A d \in Dim \ DOMAIN effective_lattice(t).physical_capacity :
    LET code(amount) == classify(t, FromScalar(d, amount))
    IN  Home[t] = NoGroup =>
          /\ available_guaranteed(t, d) > 0 =>
               code(available_guaranteed(t, d)) = "ALLOW_GUARANTEED"
          /\ available_soft(t, d) > 0 =>
               code(available_soft(t, d)) \in {"ALLOW", "ALLOW_GUARANTEED"}
          /\ (/\ available_burst(t, d) > 0
              /\ usage[t].burst_active /\ now < usage[t].burst_expires)
               => code(1) # "DENY_SOFT"

(***************************************************************************)
(* CONTRIBUTING.md asks every change to "keep `invariants_ok()` true".     *)
(* Stated of the states in which every allocation has reported usage of    *)
(* all its resources: min(used, resources) differs from used before that,  *)
(* so the audit calls every new allocation one that exceeds its            *)
(* reservation.                                                            *)
(***************************************************************************)
InvariantsOk ==
  (\A a \in DOMAIN allocations :
     DOMAIN allocations[a].resources \subseteq DOMAIN allocations[a].used)
    => invariants_ok
===============================================================================
