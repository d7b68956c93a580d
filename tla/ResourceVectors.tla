--------------------------- MODULE ResourceVectors ---------------------------
(***************************************************************************)
(* The class ResourceVector (include/quota_fabric/core/resource_vector.hpp) *)
(* keeps an amount and a "present" bit for every resource dimension.  Here *)
(* a vector is a partial function: its domain is the set of the dimensions *)
(* whose bit is set, so an explicit zero differs from an unset dimension,  *)
(* as it does in the code.                                                 *)
(*                                                                         *)
(* Dimensions are numbered as in the enumeration ResourceDimension: the    *)
(* loops of the code run in that order, which matters where one stops half *)
(* way.  MaxInt stands for INT64_MAX.                                      *)
(***************************************************************************)
EXTENDS Integers, FiniteSets, Functions

CONSTANTS Dim,      \* the dimensions, a set of naturals
          MaxInt    \* the largest amount

ASSUME DimAssumption == Dim \subseteq Nat /\ IsFiniteSet(Dim)
ASSUME MaxIntAssumption == MaxInt \in Nat \ {0}

Vector == UNION {[S -> 0..MaxInt] : S \in SUBSET Dim}

Empty == [d \in {} |-> 0]

FromScalar(d, amount) == [e \in {d} |-> amount]

Get(v, d) == IF d \in DOMAIN v THEN v[d] ELSE 0

IsEmpty(v) == DOMAIN v = {}

Lesser(a, b) == IF a < b THEN a ELSE b
Greater(a, b) == IF a < b THEN b ELSE a

SatAdd(a, b) == Lesser(a + b, MaxInt)

(***************************************************************************)
(* add(o) without saturation: it returns at the first dimension that would *)
(* overflow and leaves that one and the later ones as they were.  No call  *)
(* site looks at the status it returns.                                    *)
(***************************************************************************)
Add(a, b) ==
  LET overflow == {d \in DOMAIN b : Get(a, d) + b[d] > MaxInt}
      added    == {d \in DOMAIN b : \A o \in overflow : d < o}
  IN  [d \in DOMAIN a \cup added |->
         IF d \in added THEN Get(a, d) + b[d] ELSE a[d]]

\* add(o, true): an overflowing dimension is set to the maximum.
AddSaturating(a, b) ==
  [d \in DOMAIN a \cup DOMAIN b |-> SatAdd(Get(a, d), Get(b, d))]

\* sub(o, true): floors at zero and keeps every present bit.
Sub(a, b) ==
  [d \in DOMAIN a |-> Greater(0, a[d] - Get(b, d))]

\* min(a, b): where only one side is present, that side's amount.
Min2(a, b) ==
  [d \in DOMAIN a \cup DOMAIN b |->
     IF d \notin DOMAIN a THEN b[d]
     ELSE IF d \notin DOMAIN b THEN a[d]
     ELSE Lesser(a[d], b[d])]

\* A loop "for (...) sum.add(f[i])" over the records i in S.
VSum(f, S) == FoldFunctionOnSet(LAMBDA x, acc : Add(acc, x), Empty, f, S)

\* Equality of amounts, whatever the present bits say.
SameAmounts(a, b) == \A d \in Dim : Get(a, d) = Get(b, d)
=============================================================================
