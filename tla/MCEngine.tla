-------------------------------- MODULE MCEngine --------------------------------
(***************************************************************************)
(* Values of the constants of the quota engine for TLC.  Amounts are units *)
(* of one resource, dimension 1, unless a definition says otherwise.       *)
(***************************************************************************)
EXTENDS Recovery, TLC

CONSTANTS alice, bob, org, team

V(x) == FromScalar(1, x)

\* A quota on dimension 1; an argument below zero leaves the limit unset.
MakeQuota(guaranteed, soft, hard, burst, borrowable) ==
  LET limit(x) == IF x < 0 THEN Empty ELSE V(x)
  IN  [NoQuota EXCEPT !.guaranteed = limit(guaranteed),
                      !.soft_limit = limit(soft),
                      !.hard_limit = limit(hard),
                      !.burst_limit = limit(burst),
                      !.borrowable = limit(borrowable),
                      !.window = IF burst > 0 THEN 1 ELSE 0,
                      !.cooldown = IF burst > 0 THEN 2 ELSE 0]

Homeless == [t \in Tenant |-> NoGroup]
NoParents == [g \in Group |-> NoGroup]
NoGroupQuotas == [g \in Group |-> {}]

One == {V(1)}
OneOrTwo == {V(1), V(2)}

\* alice may lend two units of a guarantee of three; bob has a hard limit and
\* nothing else, so that whatever exceeds it is borrowed.
LedgerQuotas ==
  [t \in Tenant |->
     IF t = alice THEN {MakeQuota(3, 3, 3, -1, 2)}
                  ELSE {MakeQuota(-1, -1, 1, -1, -1)}]

\* Guarantee and soft limit 1, hard limit 4 and burst limit 2 for everyone, and
\* a budget of 2 for dimension 3, which is consumed over a rolling window.
BurstQuotas ==
  [t \in Tenant |->
     {[MakeQuota(1, 1, 4, 2, -1) EXCEPT !.soft_limit = (1 :> 1 @@ 3 :> 2),
                                         !.hard_limit = (1 :> 4 @@ 3 :> 2)]}]

\* The same without the budget.
BurstOnlyQuotas == [t \in Tenant |-> {MakeQuota(1, 1, 4, 2, -1)}]

\* Guarantee 2, soft limit 3, hard limit 3 for everyone.
PlainQuotas == [t \in Tenant |-> {MakeQuota(2, 3, 3, -1, -1)}]

\* Guarantee 1, soft limit 2 and hard limit 3.
StepQuotas == [t \in Tenant |-> {MakeQuota(1, 2, 3, -1, -1)}]

\* alice is in the team, bob directly in the organisation above it.
TwoLevelHome == [t \in Tenant |-> IF t = alice THEN team ELSE org]
TwoLevelParent == [g \in Group |-> IF g = team THEN org ELSE NoGroup]
OrgQuotas ==
  [g \in Group |-> IF g = org THEN {MakeQuota(2, -1, 3, -1, -1), MakeQuota(1, -1, 1, -1, -1)}
                              ELSE {}]

(***************************************************************************)
(* Two dimensions: alice may lend in the first only, or in both.  A        *)
(* request of bob for (1, 2) exceeds both of bob's hard limits, so it      *)
(* borrows in the first dimension and then in the second, or fails there.  *)
(***************************************************************************)
Pair(x, y) == [d \in {1, 2} |-> IF d = 1 THEN x ELSE y]
PairQuotas ==
  [t \in Tenant |->
     IF t = alice
     THEN {[NoQuota EXCEPT !.guaranteed = Pair(2, 2), !.borrowable = V(2)],
           [NoQuota EXCEPT !.guaranteed = Pair(2, 2), !.borrowable = Pair(2, 2)]}
     ELSE {[NoQuota EXCEPT !.hard_limit = Pair(0, 1)]}]
PairRequests == {Pair(1, 2), V(1)}
PairOrTwo == {Pair(1, 1), V(2)}

\* Dimension 3 is budgeted over a rolling window.
BudgetQuotas ==
  LET two == [d \in {1, 3} |-> 2]
  IN  [t \in Tenant |-> {[NoQuota EXCEPT !.soft_limit = two, !.hard_limit = two]}]
BudgetRequests == {V(1), FromScalar(3, 1)}
=================================================================================
