----------------------------- MODULE QuotaLattice -----------------------------
(***************************************************************************)
(* Resource quotas and how a tenant's effective quota is folded from the   *)
(* quotas of its ancestor groups and its own (struct ResourceQuota,        *)
(* merge_min, effective_lattice, lattice_coherent, physical_allowance).    *)
(***************************************************************************)
EXTENDS Integers, ResourceVectors

LimitKinds == {"guaranteed", "soft_limit", "hard_limit", "burst_limit",
               "borrowable", "physical_capacity"}

(***************************************************************************)
(* The fields of a quota the engine has a use for.  window and cooldown    *)
(* are those of burst_rule (the engine never reads the second); factor is  *)
(* the overcommit factor, at least 1, and 1 when the overcommit mode is    *)
(* NONE.                                                                   *)
(***************************************************************************)
Quota == [guaranteed : Vector, soft_limit : Vector, hard_limit : Vector,
          burst_limit : Vector, borrowable : Vector,
          physical_capacity : Vector, window : Nat, cooldown : Nat,
          factor : Nat \ {0}]

NoQuota == [guaranteed |-> Empty, soft_limit |-> Empty, hard_limit |-> Empty,
            burst_limit |-> Empty, borrowable |-> Empty,
            physical_capacity |-> Empty, window |-> 0, cooldown |-> 0,
            factor |-> 1]

\* The least limit of one kind any of the quotas sets, per dimension.
MergeMin(quotas, kind) ==
  LET limits(d) == {q[kind][d] : q \in {p \in quotas : d \in DOMAIN p[kind]}}
  IN  [d \in UNION {DOMAIN q[kind] : q \in quotas} |->
         CHOOSE m \in limits(d) : \A l \in limits(d) : m <= l]

(***************************************************************************)
(* The quotas from the outermost group to the tenant's own, folded.  The   *)
(* least of the limits does not depend on their order; what is not a limit *)
(* is taken from the last of them.                                         *)
(***************************************************************************)
EffectiveLattice(quotas, last) ==
  [guaranteed        |-> MergeMin(quotas, "guaranteed"),
   soft_limit        |-> MergeMin(quotas, "soft_limit"),
   hard_limit        |-> MergeMin(quotas, "hard_limit"),
   burst_limit       |-> MergeMin(quotas, "burst_limit"),
   borrowable        |-> MergeMin(quotas, "borrowable"),
   physical_capacity |-> MergeMin(quotas, "physical_capacity"),
   window            |-> last.window,
   cooldown          |-> last.cooldown,
   factor            |-> last.factor]

\* guaranteed <= soft <= hard wherever both are set.
LatticeCoherent(q) ==
  \A d \in Dim :
    /\ d \in DOMAIN q.guaranteed \cap DOMAIN q.hard_limit
         => q.guaranteed[d] <= q.hard_limit[d]
    /\ d \in DOMAIN q.soft_limit \cap DOMAIN q.hard_limit
         => q.soft_limit[d] <= q.hard_limit[d]
    /\ d \in DOMAIN q.guaranteed \cap DOMAIN q.soft_limit
         => q.guaranteed[d] <= q.soft_limit[d]

HasEntitlement(q) ==
  \E kind \in LimitKinds \ {"physical_capacity"} : ~IsEmpty(q[kind])

\* The limits as the checks read them: what an unset one defaults to.
SoftOf(q, d) == IF d \in DOMAIN q.soft_limit THEN q.soft_limit[d]
                ELSE IF d \in DOMAIN q.guaranteed THEN q.guaranteed[d]
                ELSE MaxInt
HardOf(q, d) == IF d \in DOMAIN q.hard_limit THEN q.hard_limit[d] ELSE MaxInt

PhysicalAllowance(q, d) ==
  IF d \in DOMAIN q.physical_capacity
  THEN Lesser(q.physical_capacity[d] * q.factor, MaxInt)
  ELSE MaxInt
===============================================================================
