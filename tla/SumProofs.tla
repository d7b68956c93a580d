------------------------------- MODULE SumProofs -------------------------------
(***************************************************************************)
(* Facts about the two sums the engine is built on: SumFunctionOnSet, the  *)
(* sum of natural numbers over the members of a set, and VSum, the loop    *)
(* "for (...) sum.add(f[i])" over resource vectors, in which an addition   *)
(* that overflows stops half way.  The order in which the members are      *)
(* taken is not known (the tables of the engine are hash tables); every    *)
(* fact here holds of any order.                                           *)
(***************************************************************************)
EXTENDS QuotaLattice, RollingWindows, Sequences, WellFoundedInduction, TLAPS

(***************************************************************************)
(* Finite sets.  These few facts are proved here, from the definition of   *)
(* a finite set as the range of a sequence, rather than taken from the     *)
(* library: tlapm carries every fact of an extended module through every   *)
(* obligation of the modules above.                                        *)
(***************************************************************************)
\* The empty set is finite.
LEMMA EmptyFinite == IsFiniteSet({})
<1>1. <<>> \in Seq({})
  OBVIOUS
<1> QED
  BY <1>1, Zenon DEF IsFiniteSet

\* One element is finitely many.
LEMMA SingletonFinite ==
  ASSUME NEW x
  PROVE  IsFiniteSet({x})
<1>1. <<x>> \in Seq({x}) /\ Len(<<x>>) = 1 /\ <<x>>[1] = x
  OBVIOUS
<1>2. \A y \in {x} : 1 \in 1..Len(<<x>>) /\ <<x>>[1] = y
  BY <1>1
<1> QED
  BY <1>1, <1>2, Zenon DEF IsFiniteSet

\* So is every part of a finite set.
LEMMA SubsetFinite ==
  ASSUME NEW S, IsFiniteSet(S), NEW T \in SUBSET S
  PROVE  IsFiniteSet(T)
<1>1. PICK q \in Seq(S) : \A x \in S : \E n \in 1..Len(q) : q[n] = x
  BY DEF IsFiniteSet
<1>2. CASE T = {}
  BY <1>2, EmptyFinite
<1>3. CASE T # {}
  <2>1. PICK y : y \in T
    BY <1>3
  <2> DEFINE r == [i \in 1..Len(q) |-> IF q[i] \in T THEN q[i] ELSE y]
  <2>2. r \in Seq(T) /\ Len(r) = Len(q)
    BY <2>1
  <2>3. \A x \in T : \E n \in 1..Len(r) : r[n] = x
    BY <1>1, <2>2
  <2> QED
    BY <2>2, <2>3, Zenon DEF IsFiniteSet
<1> QED
  BY <1>2, <1>3

\* So are two finite sets together.
LEMMA UnionFinite ==
  ASSUME NEW S, IsFiniteSet(S), NEW T, IsFiniteSet(T)
  PROVE  IsFiniteSet(S \cup T)
<1>1. PICK q \in Seq(S) : \A x \in S : \E n \in 1..Len(q) : q[n] = x
  BY DEF IsFiniteSet
<1>2. PICK r \in Seq(T) : \A x \in T : \E n \in 1..Len(r) : r[n] = x
  BY DEF IsFiniteSet
<1> DEFINE m == Len(q)
           w == [i \in 1..(m + Len(r)) |-> IF i <= m THEN q[i] ELSE r[i - m]]
<1>3. m \in Nat /\ Len(r) \in Nat
  OBVIOUS
<1>4. w \in Seq(S \cup T) /\ Len(w) = m + Len(r)
  BY <1>3
<1>5. \A x \in S : \E n \in 1..Len(w) : w[n] = x
  <2> TAKE x \in S
  <2>1. PICK n \in 1..m : q[n] = x
    BY <1>1
  <2> WITNESS n \in 1..Len(w)
  <2> QED
    BY <1>3, <1>4, <2>1
<1>6. \A x \in T : \E n \in 1..Len(w) : w[n] = x
  <2> TAKE x \in T
  <2>1. PICK n \in 1..Len(r) : r[n] = x
    BY <1>2
  <2>2. m + n \in 1..Len(w) /\ ~(m + n <= m) /\ (m + n) - m = n
    BY <1>3, <1>4
  <2>3. w[m + n] = x
    BY <2>1, <2>2, <1>4
  <2> QED
    BY <2>2, <2>3
<1> HIDE DEF w
<1> QED
  BY <1>4, <1>5, <1>6, Zenon DEF IsFiniteSet

\* So is an interval.
LEMMA IntervalFinite ==
  ASSUME NEW a \in Int, NEW b \in Int
  PROVE  IsFiniteSet(a..b)
<1>1. CASE b < a
  <2>1. a..b = {}
    BY <1>1
  <2> QED
    BY <2>1, EmptyFinite
<1>2. CASE a <= b
  <2> DEFINE q == [i \in 1..(b - a + 1) |-> a + i - 1]
  <2>1. q \in Seq(a..b) /\ Len(q) = b - a + 1
    BY <1>2
  <2>2. \A x \in a..b : x - a + 1 \in 1..Len(q) /\ q[x - a + 1] = x
    BY <2>1
  <2> HIDE DEF q
  <2> QED
    BY <2>1, <2>2, Zenon DEF IsFiniteSet
<1> QED
  BY <1>1, <1>2

\* A set of naturals that has an element has a smallest one.
LEMMA SmallestOf ==
  ASSUME NEW S, S \subseteq Nat, S # {}
  PROVE  \E m \in S : \A n \in S : m <= n
<1>1. PICK m \in S : \A n \in S : ~(<<n, m>> \in OpToRel(<, Nat))
  BY NatLessThanWellFounded, WFMin, Zenon
<1>2. ASSUME NEW n \in S, n < m PROVE FALSE
  <2>1. <<n, m>> \in OpToRel(<, Nat)
    BY <1>2 DEF OpToRel
  <2> QED
    BY <1>1, <2>1, Zenon
<1> QED
  BY <1>2

(***************************************************************************)
(* Induction over the subsets of a finite set, as the existence of a       *)
(* smallest counterexample: one that the fewest numbers can index.         *)
(***************************************************************************)
LEMMA MinimalSubset ==
  ASSUME NEW S, IsFiniteSet(S), NEW Bad, Bad \subseteq SUBSET S, Bad # {}
  PROVE  \E s \in Bad : \A x \in s : s \ {x} \notin Bad
<1> DEFINE Indexed(s, n) == \E q : \A x \in s : \E i \in 1..n : q[i] = x
           Sizes == {n \in Nat : \E s \in Bad : Indexed(s, n)}
<1>1. PICK q \in Seq(S) : \A x \in S : \E n \in 1..Len(q) : q[n] = x
  BY DEF IsFiniteSet
<1>2. PICK s0 \in Bad : TRUE
  OBVIOUS
<1>3. Indexed(s0, Len(q)) /\ Len(q) \in Nat
  BY <1>1, <1>2
<1>4. Len(q) \in Sizes
  BY <1>2, <1>3
<1>5. PICK n \in Sizes : \A k \in Sizes : n <= k
  BY <1>4, SmallestOf, Zenon
<1>6. PICK s \in Bad : Indexed(s, n)
  BY <1>5
<1>7. ASSUME NEW x \in s, s \ {x} \in Bad PROVE FALSE
  <2>1. PICK r : \A y \in s : \E i \in 1..n : r[i] = y
    BY <1>6
  <2>2. PICK i \in 1..n : r[i] = x
    BY <2>1
  <2>3. n \in Nat /\ n - 1 \in Nat
    BY <1>5, <2>2
  <2> DEFINE w == [j \in 1..(n - 1) |-> IF j < i THEN r[j] ELSE r[j + 1]]
  <2>4. ASSUME NEW y \in s \ {x} PROVE \E j \in 1..(n - 1) : w[j] = y
    <3>1. PICK k \in 1..n : r[k] = y
      BY <2>1
    <3>2. k # i
      BY <2>2, <3>1, <2>4
    <3>3. CASE k < i
      <4>1. k \in 1..(n - 1) /\ w[k] = y
        BY <2>3, <3>1, <3>3
      <4> QED
        BY <4>1
    <3>4. CASE i < k
      <4>1. k - 1 \in 1..(n - 1) /\ ~(k - 1 < i) /\ (k - 1) + 1 = k
        BY <2>3, <3>4
      <4>2. w[k - 1] = y
        BY <3>1, <4>1
      <4> QED
        BY <4>1, <4>2
    <3> QED
      BY <2>3, <3>2, <3>3, <3>4
  <2> HIDE DEF w
  <2>5. Indexed(s \ {x}, n - 1)
    BY <2>4
  <2>6. n - 1 \in Sizes
    BY <1>7, <2>3, <2>5
  <2>7. n <= n - 1
    BY <1>5, <2>6, Zenon
  <2> QED
    BY <2>3, <2>7
<1> QED
  BY <1>6, <1>7

-----------------------------------------------------------------------------
\* The member a fold takes first, and the recursion of a sum of naturals.
First(s) == CHOOSE x \in s : TRUE

SumsOf(g, f, S) ==
  g = [s \in SUBSET S |-> IF s = {} THEN 0 ELSE f[First(s)] + g[s \ {First(s)}]]

\* SumFunctionOnSet, by the function its definition chooses.
LEMMA SumUnfolds ==
  ASSUME NEW f, NEW S
  PROVE  SumFunctionOnSet(f, S) = (CHOOSE g : SumsOf(g, f, S))[S]
BY DEF SumFunctionOnSet, FoldFunctionOnSet, MapThenFoldSet, SumsOf, First

\* Two such functions agree where both are defined.
LEMMA SumsAgree ==
  ASSUME NEW f, NEW S, NEW T, NEW g, NEW h, SumsOf(g, f, S), SumsOf(h, f, T),
         NEW R, IsFiniteSet(R), R \subseteq S, R \subseteq T
  PROVE  g[R] = h[R]
<1> DEFINE Bad == {s \in SUBSET R : g[s] # h[s]}
<1>1. ASSUME Bad # {} PROVE FALSE
  <2>1. PICK s \in Bad : \A x \in s : s \ {x} \notin Bad
    BY <1>1, MinimalSubset, Zenon
  <2>2. /\ g[s] = IF s = {} THEN 0 ELSE f[First(s)] + g[s \ {First(s)}]
        /\ h[s] = IF s = {} THEN 0 ELSE f[First(s)] + h[s \ {First(s)}]
    BY Zenon DEF SumsOf
  <2>3. s # {} => First(s) \in s
    BY DEF First
  <2>4. s # {} => g[s \ {First(s)}] = h[s \ {First(s)}]
    BY <2>1, <2>3
  <2> QED
    BY <2>1, <2>2, <2>4
<1> QED
  BY <1>1

\* Such a function exists over every finite set.
LEMMA SumsDefined ==
  ASSUME NEW f, NEW S, IsFiniteSet(S)
  PROVE  SumsOf(CHOOSE g : SumsOf(g, f, S), f, S)
<1> DEFINE Of(s) == CHOOSE g : SumsOf(g, f, s)
           Bad == {s \in SUBSET S : ~SumsOf(Of(s), f, s)}
<1>1. ASSUME Bad # {} PROVE FALSE
  <2>1. PICK s \in Bad : \A x \in s : s \ {x} \notin Bad
    BY <1>1, MinimalSubset, Zenon
  <2>2. ASSUME NEW u \in SUBSET s, u # s
        PROVE  SumsOf(Of(u), f, u)
    <3>1. PICK x \in s : u \subseteq s \ {x}
      BY <2>2
    <3>2. SumsOf(Of(s \ {x}), f, s \ {x})
      BY <2>1
    <3> DEFINE g == Of(s \ {x})
               h == [v \in SUBSET u |-> g[v]]
    <3> HIDE DEF Of
    <3>3. \A v \in SUBSET u : v # {} => First(v) \in v
      BY DEF First
    <3>4. SumsOf(h, f, u)
      BY <3>1, <3>2, <3>3 DEF SumsOf
    <3> QED
      BY <3>4 DEF Of
  <2> DEFINE val(u) == Of(u)[u]
             k == [u \in SUBSET s |-> IF u = {} THEN 0 ELSE f[First(u)] + val(u \ {First(u)})]
  <2> HIDE DEF Of
  <2>3. ASSUME NEW u \in SUBSET s, u # s
        PROVE  k[u] = val(u)
    <3>1. SumsOf(Of(u), f, u)
      BY <2>2, <2>3
    <3>2. val(u) = IF u = {} THEN 0 ELSE f[First(u)] + Of(u)[u \ {First(u)}]
      BY <3>1, Zenon DEF SumsOf
    <3>3. CASE u # {}
      <4>1. First(u) \in u
        BY <3>3 DEF First
      <4> DEFINE w == u \ {First(u)}
      <4>2. w \in SUBSET s /\ w # s
        BY <4>1, <2>3
      <4>3. SumsOf(Of(w), f, w)
        BY <4>2, <2>2
      <4>4. IsFiniteSet(w)
        BY <4>2, SubsetFinite
      <4>5. Of(u)[w] = Of(w)[w]
        BY <3>1, <4>3, <4>4, SumsAgree
      <4> QED
        BY <3>2, <3>3, <4>5
    <3>4. CASE u = {}
      BY <3>2, <3>4
    <3> QED
      BY <3>3, <3>4
  <2>4. ASSUME NEW u \in SUBSET s, u # {}
        PROVE  k[u \ {First(u)}] = val(u \ {First(u)})
    <3>1. First(u) \in u
      BY <2>4 DEF First
    <3> QED
      BY <3>1, <2>3, <2>4, Zenon
  <2> DEFINE K(u) == IF u = {} THEN 0 ELSE f[First(u)] + k[u \ {First(u)}]
  <2>5. k = [u \in SUBSET s |-> K(u)]
    BY <2>4, Zenon
  <2>6. SumsOf(k, f, s)
    BY <2>5, Zenon DEF SumsOf
  <2> QED
    BY <2>1, <2>6 DEF Of
<1>2. S \notin Bad
  BY <1>1
<1> QED
  BY <1>2

\* A sum is the member taken first, plus the sum of the others.
LEMMA SumStep ==
  ASSUME NEW f, NEW S, IsFiniteSet(S)
  PROVE  SumFunctionOnSet(f, S)
           = IF S = {} THEN 0
             ELSE f[First(S)] + SumFunctionOnSet(f, S \ {First(S)})
<1> DEFINE g == CHOOSE g : SumsOf(g, f, S)
           R == S \ {First(S)}
           h == CHOOSE h : SumsOf(h, f, R)
<1>1. SumsOf(g, f, S)
  BY SumsDefined
<1>2. IsFiniteSet(R)
  BY SubsetFinite
<1>3. SumsOf(h, f, R)
  BY <1>2, SumsDefined
<1>4. SumFunctionOnSet(f, S) = g[S] /\ SumFunctionOnSet(f, R) = h[R]
  BY SumUnfolds
<1> HIDE DEF g, h
<1>5. g[R] = h[R]
  BY <1>1, <1>2, <1>3, SumsAgree
<1>6. g[S] = IF S = {} THEN 0 ELSE f[First(S)] + g[R]
  BY <1>1, Zenon DEF SumsOf
<1> QED
  BY <1>4, <1>5, <1>6

-----------------------------------------------------------------------------
(***************************************************************************)
(* Sums of naturals, in whatever order the members are taken.              *)
(***************************************************************************)
AllNat(f, S) == \A x \in S : f[x] \in Nat

\* The sum over no element is 0.
LEMMA SumEmpty ==
  ASSUME NEW f
  PROVE  SumFunctionOnSet(f, {}) = 0
BY SumStep, EmptyFinite, Zenon

\* A sum of naturals is a natural.
LEMMA SumNat ==
  ASSUME NEW f, NEW S, IsFiniteSet(S), AllNat(f, S)
  PROVE  SumFunctionOnSet(f, S) \in Nat
<1> DEFINE Bad == {s \in SUBSET S : SumFunctionOnSet(f, s) \notin Nat}
<1>1. ASSUME Bad # {} PROVE FALSE
  <2>1. PICK s \in Bad : \A x \in s : s \ {x} \notin Bad
    BY <1>1, MinimalSubset, Zenon
  <2>2. IsFiniteSet(s)
    BY SubsetFinite
  <2>3. SumFunctionOnSet(f, s)
          = IF s = {} THEN 0 ELSE f[First(s)] + SumFunctionOnSet(f, s \ {First(s)})
    BY <2>2, SumStep
  <2>4. s # {} => First(s) \in s
    BY DEF First
  <2>5. s # {} => f[First(s)] \in Nat /\ SumFunctionOnSet(f, s \ {First(s)}) \in Nat
    BY <2>1, <2>4 DEF AllNat
  <2> QED
    BY <2>1, <2>3, <2>5
<1> QED
  BY <1>1

\* Any member can be taken out first.
LEMMA SumRemove ==
  ASSUME NEW f, NEW S, IsFiniteSet(S), AllNat(f, S), NEW e \in S
  PROVE  SumFunctionOnSet(f, S) = f[e] + SumFunctionOnSet(f, S \ {e})
<1> DEFINE Sum(s) == SumFunctionOnSet(f, s)
           Bad == {s \in SUBSET S : \E x \in s : Sum(s) # f[x] + Sum(s \ {x})}
<1>0. \A s \in SUBSET S : IsFiniteSet(s) /\ AllNat(f, s) /\ Sum(s) \in Nat
  BY SubsetFinite, SumNat DEF AllNat
<1>1. ASSUME Bad # {} PROVE FALSE
  <2>1. PICK s \in Bad : \A x \in s : s \ {x} \notin Bad
    BY <1>1, MinimalSubset, Zenon
  <2>2. PICK x \in s : Sum(s) # f[x] + Sum(s \ {x})
    BY <2>1
  <2> DEFINE y == First(s)
  <2>3. y \in s
    BY <2>2 DEF First
  <2>4. Sum(s) = f[y] + Sum(s \ {y})
    BY <1>0, <2>2, SumStep
  <2> HIDE DEF Sum, y
  <2>5. x # y
    BY <2>2, <2>4
  <2> DEFINE r == (s \ {x}) \ {y}
  <2>6. Sum(s \ {y}) = f[x] + Sum((s \ {y}) \ {x})
    BY <2>1, <2>3, <2>5, Zenon
  <2>7. Sum(s \ {x}) = f[y] + Sum(r)
    BY <2>1, <2>3, <2>5, Zenon
  <2>8. (s \ {y}) \ {x} = r
    OBVIOUS
  <2>9. f[x] \in Nat /\ f[y] \in Nat /\ Sum(r) \in Nat
    BY <1>0, <2>3 DEF AllNat
  <2> HIDE DEF r
  <2> QED
    BY <2>2, <2>4, <2>6, <2>7, <2>8, <2>9
<1> QED
  BY <1>1, Zenon

\* Only the terms matter.
LEMMA SumSame ==
  ASSUME NEW f, NEW g, NEW S, IsFiniteSet(S), \A x \in S : f[x] = g[x]
  PROVE  SumFunctionOnSet(f, S) = SumFunctionOnSet(g, S)
<1> DEFINE Bad == {s \in SUBSET S : SumFunctionOnSet(f, s) # SumFunctionOnSet(g, s)}
<1>1. ASSUME Bad # {} PROVE FALSE
  <2>1. PICK s \in Bad : \A x \in s : s \ {x} \notin Bad
    BY <1>1, MinimalSubset, Zenon
  <2>2. IsFiniteSet(s)
    BY SubsetFinite
  <2>3. /\ SumFunctionOnSet(f, s)
             = IF s = {} THEN 0 ELSE f[First(s)] + SumFunctionOnSet(f, s \ {First(s)})
        /\ SumFunctionOnSet(g, s)
             = IF s = {} THEN 0 ELSE g[First(s)] + SumFunctionOnSet(g, s \ {First(s)})
    BY <2>2, SumStep
  <2>4. s # {} => First(s) \in s
    BY DEF First
  <2> QED
    BY <2>1, <2>3, <2>4
<1> QED
  BY <1>1

\* A sum grows with its terms.
LEMMA SumMonotone ==
  ASSUME NEW f, NEW g, NEW S, IsFiniteSet(S), AllNat(f, S), AllNat(g, S),
         \A x \in S : f[x] <= g[x]
  PROVE  SumFunctionOnSet(f, S) <= SumFunctionOnSet(g, S)
<1> DEFINE F(s) == SumFunctionOnSet(f, s)
           G(s) == SumFunctionOnSet(g, s)
           Bad == {s \in SUBSET S : ~(F(s) <= G(s))}
<1>0. \A s \in SUBSET S : /\ IsFiniteSet(s) /\ AllNat(f, s) /\ AllNat(g, s)
                          /\ F(s) \in Nat /\ G(s) \in Nat
  BY SubsetFinite, SumNat DEF AllNat
<1>1. ASSUME Bad # {} PROVE FALSE
  <2>1. PICK s \in Bad : \A x \in s : s \ {x} \notin Bad
    BY <1>1, MinimalSubset, Zenon
  <2>2. /\ F(s) = IF s = {} THEN 0 ELSE f[First(s)] + F(s \ {First(s)})
        /\ G(s) = IF s = {} THEN 0 ELSE g[First(s)] + G(s \ {First(s)})
    BY <1>0, SumStep
  <2>3. s # {} => First(s) \in s
    BY DEF First
  <2> HIDE DEF F, G
  <2>4. CASE s # {}
    <3>1. F(s \ {First(s)}) <= G(s \ {First(s)})
      BY <2>1, <2>3, <2>4
    <3>2. f[First(s)] \in Nat /\ g[First(s)] \in Nat /\ f[First(s)] <= g[First(s)]
      BY <2>3, <2>4 DEF AllNat
    <3>3. F(s \ {First(s)}) \in Nat /\ G(s \ {First(s)}) \in Nat
      BY <1>0
    <3> QED
      BY <2>1, <2>2, <2>4, <3>1, <3>2, <3>3
  <2> QED
    BY <2>1, <2>2, <2>4
<1> QED
  BY <1>1

\* The sum over two sets that share nothing.
LEMMA SumDisjoint ==
  ASSUME NEW f, NEW S, IsFiniteSet(S), NEW T, IsFiniteSet(T), S \cap T = {},
         AllNat(f, S \cup T)
  PROVE  SumFunctionOnSet(f, S \cup T) = SumFunctionOnSet(f, S) + SumFunctionOnSet(f, T)
<1> DEFINE F(s) == SumFunctionOnSet(f, s)
           Bad == {s \in SUBSET S : F(s \cup T) # F(s) + F(T)}
<1>0. \A s \in SUBSET S : /\ IsFiniteSet(s) /\ AllNat(f, s) /\ F(s) \in Nat
                          /\ IsFiniteSet(s \cup T) /\ AllNat(f, s \cup T) /\ F(s \cup T) \in Nat
  BY SubsetFinite, UnionFinite, SumNat, Zenon DEF AllNat
<1>1. F(T) \in Nat
  BY SumNat DEF AllNat
<1>2. ASSUME Bad # {} PROVE FALSE
  <2>1. PICK s \in Bad : \A x \in s : s \ {x} \notin Bad
    BY <1>2, MinimalSubset, Zenon
  <2>2. CASE s = {}
    <3>1. s \cup T = T /\ F(s) = 0
      BY <2>2, SumEmpty
    <3> HIDE DEF F
    <3> QED
      BY <2>1, <3>1, <1>1
  <2>3. CASE s # {}
    <3>1. PICK x \in s : TRUE
      BY <2>3
    <3>2. F(s) = f[x] + F(s \ {x})
      BY <1>0, SumRemove
    <3>3. F(s \cup T) = f[x] + F((s \cup T) \ {x})
      BY <1>0, SumRemove
    <3>4. (s \cup T) \ {x} = (s \ {x}) \cup T
      OBVIOUS
    <3> HIDE DEF F
    <3>5. F((s \ {x}) \cup T) = F(s \ {x}) + F(T)
      BY <2>1
    <3>6. f[x] \in Nat /\ F(s \ {x}) \in Nat
      BY <1>0, Zenon DEF AllNat
    <3> QED
      BY <2>1, <3>2, <3>3, <3>4, <3>5, <3>6, <1>1
  <2> QED
    BY <2>2, <2>3
<1>3. S \notin Bad
  BY <1>2
<1> QED
  BY <1>3

\* A part of a sum is no more than the whole.
LEMMA SumPart ==
  ASSUME NEW f, NEW S, IsFiniteSet(S), AllNat(f, S), NEW T \in SUBSET S
  PROVE  SumFunctionOnSet(f, T) <= SumFunctionOnSet(f, S)
<1>1. IsFiniteSet(T) /\ IsFiniteSet(S \ T) /\ T \cup (S \ T) = S /\ T \cap (S \ T) = {}
  BY SubsetFinite
<1>2. SumFunctionOnSet(f, T) \in Nat /\ SumFunctionOnSet(f, S \ T) \in Nat
  BY <1>1, SumNat DEF AllNat
<1>3. SumFunctionOnSet(f, S) = SumFunctionOnSet(f, T) + SumFunctionOnSet(f, S \ T)
  BY <1>1, SumDisjoint
<1> QED
  BY <1>2, <1>3

\* The sum over one element is its value.
LEMMA SumSingle ==
  ASSUME NEW f, NEW e, f[e] \in Nat
  PROVE  SumFunctionOnSet(f, {e}) = f[e]
<1>1. IsFiniteSet({e}) /\ {e} \ {e} = {} /\ AllNat(f, {e})
  BY SingletonFinite, Zenon DEF AllNat
<1>2. SumFunctionOnSet(f, {e}) = f[e] + SumFunctionOnSet(f, {e} \ {e})
  BY <1>1, SumRemove
<1> QED
  BY <1>1, <1>2, SumEmpty

\* A sum of zeros is 0.
LEMMA SumZero ==
  ASSUME NEW f, NEW S, IsFiniteSet(S), \A x \in S : f[x] = 0
  PROVE  SumFunctionOnSet(f, S) = 0
<1> DEFINE Bad == {s \in SUBSET S : SumFunctionOnSet(f, s) # 0}
<1>1. ASSUME Bad # {} PROVE FALSE
  <2>1. PICK s \in Bad : \A x \in s : s \ {x} \notin Bad
    BY <1>1, MinimalSubset, Zenon
  <2>2. IsFiniteSet(s)
    BY SubsetFinite
  <2>3. SumFunctionOnSet(f, s)
          = IF s = {} THEN 0 ELSE f[First(s)] + SumFunctionOnSet(f, s \ {First(s)})
    BY <2>2, SumStep
  <2>4. s # {} => First(s) \in s
    BY DEF First
  <2> QED
    BY <2>1, <2>3, <2>4
<1> QED
  BY <1>1

-----------------------------------------------------------------------------
(***************************************************************************)
(* The same for sums of vectors.                                           *)
(***************************************************************************)
VSumsOf(g, f, S) ==
  g = [s \in SUBSET S |-> IF s = {} THEN Empty ELSE Add(g[s \ {First(s)}], f[First(s)])]

\* VSum, by the function its definition chooses.
LEMMA VSumUnfolds ==
  ASSUME NEW f, NEW S
  PROVE  VSum(f, S) = (CHOOSE g : VSumsOf(g, f, S))[S]
BY DEF VSum, FoldFunctionOnSet, MapThenFoldSet, VSumsOf, First

\* Two such functions agree where both are defined.
LEMMA VSumsAgree ==
  ASSUME NEW f, NEW S, NEW T, NEW g, NEW h, VSumsOf(g, f, S), VSumsOf(h, f, T),
         NEW R, IsFiniteSet(R), R \subseteq S, R \subseteq T
  PROVE  g[R] = h[R]
<1> DEFINE Bad == {s \in SUBSET R : g[s] # h[s]}
<1>1. ASSUME Bad # {} PROVE FALSE
  <2>1. PICK s \in Bad : \A x \in s : s \ {x} \notin Bad
    BY <1>1, MinimalSubset, Zenon
  <2>2. /\ g[s] = IF s = {} THEN Empty ELSE Add(g[s \ {First(s)}], f[First(s)])
        /\ h[s] = IF s = {} THEN Empty ELSE Add(h[s \ {First(s)}], f[First(s)])
    BY Zenon DEF VSumsOf
  <2>3. s # {} => First(s) \in s
    BY DEF First
  <2>4. s # {} => g[s \ {First(s)}] = h[s \ {First(s)}]
    BY <2>1, <2>3
  <2> QED
    BY <2>1, <2>2, <2>4
<1> QED
  BY <1>1

\* Such a function exists over every finite set.
LEMMA VSumsDefined ==
  ASSUME NEW f, NEW S, IsFiniteSet(S)
  PROVE  VSumsOf(CHOOSE g : VSumsOf(g, f, S), f, S)
<1> DEFINE Of(s) == CHOOSE g : VSumsOf(g, f, s)
           Bad == {s \in SUBSET S : ~VSumsOf(Of(s), f, s)}
<1>1. ASSUME Bad # {} PROVE FALSE
  <2>1. PICK s \in Bad : \A x \in s : s \ {x} \notin Bad
    BY <1>1, MinimalSubset, Zenon
  <2>2. ASSUME NEW u \in SUBSET s, u # s
        PROVE  VSumsOf(Of(u), f, u)
    <3>1. PICK x \in s : u \subseteq s \ {x}
      BY <2>2
    <3>2. VSumsOf(Of(s \ {x}), f, s \ {x})
      BY <2>1
    <3> DEFINE g == Of(s \ {x})
               h == [v \in SUBSET u |-> g[v]]
    <3> HIDE DEF Of
    <3>3. \A v \in SUBSET u : v # {} => First(v) \in v
      BY DEF First
    <3>4. VSumsOf(h, f, u)
      BY <3>1, <3>2, <3>3, Zenon DEF VSumsOf
    <3> QED
      BY <3>4 DEF Of
  <2> DEFINE val(u) == Of(u)[u]
             k == [u \in SUBSET s |-> IF u = {} THEN Empty ELSE Add(val(u \ {First(u)}), f[First(u)])]
  <2> HIDE DEF Of
  <2>3. ASSUME NEW u \in SUBSET s, u # s
        PROVE  k[u] = val(u)
    <3>1. VSumsOf(Of(u), f, u)
      BY <2>2, <2>3
    <3>2. val(u) = IF u = {} THEN Empty ELSE Add(Of(u)[u \ {First(u)}], f[First(u)])
      BY <3>1, Zenon DEF VSumsOf
    <3>3. CASE u # {}
      <4>1. First(u) \in u
        BY <3>3 DEF First
      <4> DEFINE w == u \ {First(u)}
      <4>2. w \in SUBSET s /\ w # s
        BY <4>1, <2>3
      <4>3. VSumsOf(Of(w), f, w)
        BY <4>2, <2>2
      <4>4. IsFiniteSet(w)
        BY <4>2, SubsetFinite
      <4>5. Of(u)[w] = Of(w)[w]
        BY <3>1, <4>3, <4>4, VSumsAgree
      <4> QED
        BY <3>2, <3>3, <4>5
    <3>4. CASE u = {}
      BY <3>2, <3>4
    <3> QED
      BY <3>3, <3>4
  <2>4. ASSUME NEW u \in SUBSET s, u # {}
        PROVE  k[u \ {First(u)}] = val(u \ {First(u)})
    <3>1. First(u) \in u
      BY <2>4 DEF First
    <3> QED
      BY <3>1, <2>3, <2>4, Zenon
  <2> DEFINE K(u) == IF u = {} THEN Empty ELSE Add(k[u \ {First(u)}], f[First(u)])
  <2>5. k = [u \in SUBSET s |-> K(u)]
    BY <2>4, Zenon
  <2>6. VSumsOf(k, f, s)
    BY <2>5, Zenon DEF VSumsOf
  <2> QED
    BY <2>1, <2>6 DEF Of
<1>2. S \notin Bad
  BY <1>1
<1> QED
  BY <1>2

\* A sum of vectors is the sum of the others, with the member taken first added last.
LEMMA VSumStep ==
  ASSUME NEW f, NEW S, IsFiniteSet(S)
  PROVE  VSum(f, S)
           = IF S = {} THEN Empty
             ELSE Add(VSum(f, S \ {First(S)}), f[First(S)])
<1> DEFINE g == CHOOSE g : VSumsOf(g, f, S)
           R == S \ {First(S)}
           h == CHOOSE h : VSumsOf(h, f, R)
<1>1. VSumsOf(g, f, S)
  BY VSumsDefined
<1>2. IsFiniteSet(R)
  BY SubsetFinite
<1>3. VSumsOf(h, f, R)
  BY <1>2, VSumsDefined
<1>4. VSum(f, S) = g[S] /\ VSum(f, R) = h[R]
  BY VSumUnfolds
<1> HIDE DEF g, h
<1>5. g[R] = h[R]
  BY <1>1, <1>2, <1>3, VSumsAgree
<1>6. g[S] = IF S = {} THEN Empty ELSE Add(g[R], f[First(S)])
  BY <1>1, Zenon DEF VSumsOf
<1> QED
  BY <1>4, <1>5, <1>6

-----------------------------------------------------------------------------
(***************************************************************************)
(* Vectors.                                                                *)
(***************************************************************************)
LEMMA VectorShape ==
  ASSUME NEW v \in Vector
  PROVE  /\ DOMAIN v \subseteq Dim
         /\ v = [d \in DOMAIN v |-> v[d]]
         /\ \A d \in DOMAIN v : v[d] \in 0..MaxInt
         /\ \A d : Get(v, d) \in 0..MaxInt
<1>1. PICK S \in SUBSET Dim : v \in [S -> 0..MaxInt]
  BY DEF Vector
<1>2. 0 \in 0..MaxInt
  BY MaxIntAssumption
<1> QED
  BY <1>1, <1>2 DEF Get

\* What makes a function a resource vector.
LEMMA IsVector ==
  ASSUME NEW v, v = [d \in DOMAIN v |-> v[d]], DOMAIN v \subseteq Dim,
         \A d \in DOMAIN v : v[d] \in 0..MaxInt
  PROVE  v \in Vector
<1>1. v \in [DOMAIN v -> 0..MaxInt]
  OBVIOUS
<1> QED
  BY <1>1 DEF Vector

\* The empty vector has 0 in every dimension.
LEMMA EmptyVector ==
  /\ Empty \in Vector
  /\ \A d : Get(Empty, d) = 0
<1>1. DOMAIN Empty = {} /\ Empty = [d \in DOMAIN Empty |-> Empty[d]]
  BY DEF Empty
<1> QED
  BY <1>1, IsVector, Zenon DEF Get

\* A vector of one dimension.
LEMMA ScalarVector ==
  ASSUME NEW d \in Dim, NEW x \in 0..MaxInt
  PROVE  /\ FromScalar(d, x) \in Vector
         /\ DOMAIN FromScalar(d, x) = {d}
         /\ \A e : Get(FromScalar(d, x), e) = IF e = d THEN x ELSE 0
<1>1. /\ DOMAIN FromScalar(d, x) = {d} /\ FromScalar(d, x)[d] = x
      /\ FromScalar(d, x) = [e \in {d} |-> FromScalar(d, x)[e]]
  BY DEF FromScalar
<1> QED
  BY <1>1, IsVector DEF Get

(***************************************************************************)
(* add: an unsaturated addition yields a vector, between the left operand  *)
(* and the exact sum, and the exact sum if no dimension overflows.         *)
(***************************************************************************)
LEMMA AddVector ==
  ASSUME NEW a \in Vector, NEW b \in Vector
  PROVE  /\ Add(a, b) \in Vector
         /\ \A d : Get(a, d) <= Get(Add(a, b), d)
         /\ \A d : Get(Add(a, b), d) <= Get(a, d) + Get(b, d)
<1>0. MaxInt \in Nat
  BY MaxIntAssumption
<1> DEFINE overflow == {d \in DOMAIN b : Get(a, d) + b[d] > MaxInt}
           added == {d \in DOMAIN b : \A o \in overflow : d < o}
           sum == [d \in DOMAIN a \cup added |->
                     IF d \in added THEN Get(a, d) + b[d] ELSE a[d]]
<1>1. Add(a, b) = sum
  BY DEF Add
<1>2. /\ DOMAIN a \subseteq Dim /\ DOMAIN b \subseteq Dim
      /\ \A d : Get(a, d) \in 0..MaxInt /\ Get(b, d) \in 0..MaxInt
      /\ \A d \in DOMAIN b : b[d] \in 0..MaxInt /\ Get(b, d) = b[d]
      /\ \A d \in DOMAIN a : a[d] \in 0..MaxInt /\ Get(a, d) = a[d]
      /\ \A d : d \notin DOMAIN a => Get(a, d) = 0
  BY VectorShape DEF Get
<1>3. \A d \in Dim : ~(d < d)
  BY DimAssumption
<1>4. \A d \in added : /\ d \in DOMAIN b
                       /\ Get(a, d) + b[d] \in 0..MaxInt
  BY <1>0, <1>2, <1>3
<1>5. /\ DOMAIN sum = DOMAIN a \cup added
      /\ \A d \in DOMAIN sum : sum[d] = IF d \in added THEN Get(a, d) + b[d] ELSE a[d]
      /\ sum = [d \in DOMAIN sum |-> sum[d]]
  OBVIOUS
<1> HIDE DEF added, sum
<1>6. sum \in Vector
  <2>1. DOMAIN sum \subseteq Dim
    BY <1>2, <1>4, <1>5
  <2>2. \A d \in DOMAIN sum : sum[d] \in 0..MaxInt
    BY <1>2, <1>4, <1>5
  <2> QED
    BY <1>5, <2>1, <2>2, IsVector, Zenon
<1>7. ASSUME NEW d
      PROVE  /\ Get(a, d) <= Get(sum, d)
             /\ Get(sum, d) <= Get(a, d) + Get(b, d)
  <2>0. Get(a, d) \in 0..MaxInt /\ Get(b, d) \in 0..MaxInt
    BY <1>2
  <2>1. CASE d \in added
    <3>1. Get(sum, d) = Get(a, d) + Get(b, d)
      BY <1>2, <1>4, <1>5, <2>1 DEF Get
    <3> QED
      BY <2>0, <3>1
  <2>2. CASE d \notin added
    <3>1. Get(sum, d) = Get(a, d)
      BY <1>2, <1>5, <2>2 DEF Get
    <3> QED
      BY <2>0, <3>1
  <2> QED
    BY <2>1, <2>2
<1> QED
  BY <1>1, <1>6, <1>7

\* Add does not saturate where the sums fit.
LEMMA AddExact ==
  ASSUME NEW a \in Vector, NEW b \in Vector,
         \A d \in Dim : Get(a, d) + Get(b, d) <= MaxInt
  PROVE  /\ DOMAIN Add(a, b) = DOMAIN a \cup DOMAIN b
         /\ \A d : Get(Add(a, b), d) = Get(a, d) + Get(b, d)
<1>0. MaxInt \in Nat
  BY MaxIntAssumption
<1>1. /\ DOMAIN a \subseteq Dim /\ DOMAIN b \subseteq Dim
      /\ \A d : Get(a, d) \in 0..MaxInt /\ Get(b, d) \in 0..MaxInt
      /\ \A d \in DOMAIN b : b[d] \in 0..MaxInt /\ Get(b, d) = b[d]
      /\ \A d \in DOMAIN a : a[d] \in 0..MaxInt /\ Get(a, d) = a[d]
      /\ \A d : d \notin DOMAIN a => Get(a, d) = 0
      /\ \A d : d \notin DOMAIN b => Get(b, d) = 0
  BY VectorShape DEF Get
<1>2. {d \in DOMAIN b : Get(a, d) + b[d] > MaxInt} = {}
  BY <1>0, <1>1
<1>3. Add(a, b) = [d \in DOMAIN a \cup DOMAIN b |->
                     IF d \in DOMAIN b THEN Get(a, d) + b[d] ELSE a[d]]
  BY <1>2 DEF Add
<1>4. DOMAIN Add(a, b) = DOMAIN a \cup DOMAIN b
  BY <1>3
<1>5. ASSUME NEW d PROVE Get(Add(a, b), d) = Get(a, d) + Get(b, d)
  <2>1. CASE d \in DOMAIN b
    BY <1>1, <1>3, <1>4, <2>1 DEF Get
  <2>2. CASE d \in DOMAIN a /\ d \notin DOMAIN b
    <3>1. Get(Add(a, b), d) = a[d]
      BY <1>3, <1>4, <2>2 DEF Get
    <3> QED
      BY <1>1, <2>2, <3>1
  <2>3. CASE d \notin DOMAIN a /\ d \notin DOMAIN b
    <3>1. Get(Add(a, b), d) = 0
      BY <1>4, <2>3 DEF Get
    <3> QED
      BY <1>1, <2>3, <3>1
  <2> QED
    BY <2>1, <2>2, <2>3
<1> QED
  BY <1>4, <1>5

\* sub, which keeps the present bits and floors at zero.
LEMMA SubVector ==
  ASSUME NEW a \in Vector, NEW b \in Vector
  PROVE  /\ Sub(a, b) \in Vector
         /\ DOMAIN Sub(a, b) = DOMAIN a
         /\ \A d : Get(Sub(a, b), d) = Greater(0, Get(a, d) - Get(b, d))
         /\ \A d : Get(Sub(a, b), d) <= Get(a, d)
<1>0. MaxInt \in Nat
  BY MaxIntAssumption
<1>1. /\ DOMAIN a \subseteq Dim
      /\ \A d : Get(b, d) \in 0..MaxInt
      /\ \A d \in DOMAIN a : a[d] \in 0..MaxInt /\ Get(a, d) = a[d]
      /\ \A d : d \notin DOMAIN a => Get(a, d) = 0
  BY VectorShape DEF Get
<1>2. /\ DOMAIN Sub(a, b) = DOMAIN a
      /\ \A d \in DOMAIN a : Sub(a, b)[d] = Greater(0, a[d] - Get(b, d))
      /\ Sub(a, b) = [d \in DOMAIN Sub(a, b) |-> Sub(a, b)[d]]
  BY DEF Sub
<1>3. \A d \in DOMAIN a : Sub(a, b)[d] \in 0..MaxInt
  BY <1>0, <1>1, <1>2 DEF Greater
<1>4. Sub(a, b) \in Vector
  BY <1>1, <1>2, <1>3, IsVector, Zenon
<1>5. ASSUME NEW d, d \notin DOMAIN a
      PROVE  Get(Sub(a, b), d) = Greater(0, Get(a, d) - Get(b, d))
  <2>1. Get(Sub(a, b), d) = 0 /\ Get(a, d) = 0 /\ Get(b, d) \in 0..MaxInt
    BY <1>1, <1>2, <1>5 DEF Get
  <2> QED
    BY <1>0, <2>1 DEF Greater
<1>6. ASSUME NEW d \in DOMAIN a
      PROVE  Get(Sub(a, b), d) = Greater(0, Get(a, d) - Get(b, d))
  BY <1>1, <1>2 DEF Get
<1>7. \A d : Get(Sub(a, b), d) = Greater(0, Get(a, d) - Get(b, d))
  BY <1>5, <1>6
<1>8. \A d : Get(a, d) \in 0..MaxInt /\ Get(b, d) \in 0..MaxInt
  BY VectorShape
<1>9. \A d : Get(Sub(a, b), d) <= Get(a, d)
  BY <1>0, <1>7, <1>8 DEF Greater
<1> QED
  BY <1>2, <1>4, <1>7, <1>9

\* The burst share and the borrowed share of one dimension are amounts.
LEMMA ShareNumbers ==
  ASSUME NEW soft \in 0..MaxInt, NEW hard \in 0..MaxInt,
         NEW base \in 0..MaxInt, NEW amt \in 0..MaxInt
  PROVE  LET nc == SatAdd(base, amt)
             over(x) == Lesser(Greater(x - soft, 0), hard - soft)
         IN  /\ Greater(0, over(nc) - over(base)) \in 0..amt
             /\ Greater(0, Greater(0, nc - hard) - Greater(0, base - hard)) \in 0..amt
<1>1. PICK nc : nc = SatAdd(base, amt)
  OBVIOUS
<1>2. nc \in base..(base + amt) /\ nc <= MaxInt
  BY <1>1, MaxIntAssumption DEF SatAdd, Lesser
<1> DEFINE over(x) == Lesser(Greater(x - soft, 0), hard - soft)
<1>3. Greater(0, over(nc) - over(base)) \in 0..amt
  BY <1>2, MaxIntAssumption DEF Lesser, Greater
<1>4. Greater(0, Greater(0, nc - hard) - Greater(0, base - hard)) \in 0..amt
  BY <1>2, MaxIntAssumption DEF Greater
<1> QED
  BY <1>1, <1>3, <1>4

-----------------------------------------------------------------------------
(***************************************************************************)
(* A sum of vectors, against the exact sum of its amounts in a dimension.  *)
(***************************************************************************)
Total(f, S, d) == SumFunctionOnSet([x \in S |-> Get(f[x], d)], S)

Vectors(f, S) == \A x \in S : f[x] \in Vector

\* A total of vectors in one dimension is a natural.
LEMMA TotalNat ==
  ASSUME NEW f, NEW S, IsFiniteSet(S), Vectors(f, S), NEW d
  PROVE  Total(f, S, d) \in Nat
<1>1. AllNat([x \in S |-> Get(f[x], d)], S)
  BY VectorShape, MaxIntAssumption DEF AllNat, Vectors
<1> QED
  BY <1>1, SumNat DEF Total

\* Vectors with the same amounts have the same total.
LEMMA TotalSame ==
  ASSUME NEW f, NEW g, NEW S, IsFiniteSet(S), NEW d,
         \A x \in S : Get(f[x], d) = Get(g[x], d)
  PROVE  Total(f, S, d) = Total(g, S, d)
<1>1. [x \in S |-> Get(f[x], d)] = [x \in S |-> Get(g[x], d)]
  OBVIOUS
<1> QED
  BY <1>1 DEF Total

\* The total of no vector is 0.
LEMMA TotalEmpty ==
  ASSUME NEW f, NEW d
  PROVE  Total(f, {}, d) = 0
BY SumEmpty DEF Total

\* A part of a total is the total over the part.
LEMMA TotalOver ==
  ASSUME NEW f, NEW S, IsFiniteSet(S), NEW T \in SUBSET S, NEW d
  PROVE  Total(f, T, d) = SumFunctionOnSet([x \in S |-> Get(f[x], d)], T)
<1>1. IsFiniteSet(T)
  BY SubsetFinite
<1>2. \A x \in T : [y \in T |-> Get(f[y], d)][x] = [y \in S |-> Get(f[y], d)][x]
  OBVIOUS
<1> DEFINE g == [y \in T |-> Get(f[y], d)]
           h == [y \in S |-> Get(f[y], d)]
<1>3. \A x \in T : g[x] = h[x]
  BY <1>2
<1> HIDE DEF g, h
<1>4. SumFunctionOnSet(g, T) = SumFunctionOnSet(h, T)
  BY <1>1, <1>3, SumSame
<1> QED
  BY <1>4 DEF Total, g, h

\* One vector taken out of a total.
LEMMA TotalRemove ==
  ASSUME NEW f, NEW S, IsFiniteSet(S), Vectors(f, S), NEW d, NEW e \in S
  PROVE  Total(f, S, d) = Get(f[e], d) + Total(f, S \ {e}, d)
<1> DEFINE h == [x \in S |-> Get(f[x], d)]
<1>1. AllNat(h, S) /\ h[e] = Get(f[e], d)
  BY VectorShape, MaxIntAssumption DEF AllNat, Vectors
<1> HIDE DEF h
<1>2. SumFunctionOnSet(h, S) = h[e] + SumFunctionOnSet(h, S \ {e})
  BY <1>1, SumRemove
<1>3. Total(f, S \ {e}, d) = SumFunctionOnSet(h, S \ {e})
  BY TotalOver DEF h
<1> QED
  BY <1>1, <1>2, <1>3 DEF Total, h

\* The total of two sets with no element in common.
LEMMA TotalDisjoint ==
  ASSUME NEW f, NEW S, IsFiniteSet(S), NEW T, IsFiniteSet(T), S \cap T = {},
         Vectors(f, S \cup T), NEW d
  PROVE  Total(f, S \cup T, d) = Total(f, S, d) + Total(f, T, d)
<1> DEFINE h == [x \in S \cup T |-> Get(f[x], d)]
<1>1. AllNat(h, S \cup T)
  BY VectorShape, MaxIntAssumption DEF AllNat, Vectors
<1>2. IsFiniteSet(S \cup T)
  BY UnionFinite, Zenon
<1> HIDE DEF h
<1>3. SumFunctionOnSet(h, S \cup T) = SumFunctionOnSet(h, S) + SumFunctionOnSet(h, T)
  BY <1>1, SumDisjoint
<1>4. Total(f, S, d) = SumFunctionOnSet(h, S) /\ Total(f, T, d) = SumFunctionOnSet(h, T)
  BY <1>2, TotalOver DEF h
<1> QED
  BY <1>3, <1>4 DEF Total, h

\* The total of a part is at most the total.
LEMMA TotalPart ==
  ASSUME NEW f, NEW S, IsFiniteSet(S), Vectors(f, S), NEW T \in SUBSET S, NEW d
  PROVE  Total(f, T, d) <= Total(f, S, d)
<1> DEFINE h == [x \in S |-> Get(f[x], d)]
<1>1. AllNat(h, S)
  BY VectorShape, MaxIntAssumption DEF AllNat, Vectors
<1> HIDE DEF h
<1>2. SumFunctionOnSet(h, T) <= SumFunctionOnSet(h, S)
  BY <1>1, SumPart
<1>3. Total(f, T, d) = SumFunctionOnSet(h, T)
  BY TotalOver DEF h
<1> QED
  BY <1>2, <1>3 DEF Total, h

\* Vectors that are no larger have a total that is no larger.
LEMMA TotalMonotone ==
  ASSUME NEW f, NEW g, NEW S, IsFiniteSet(S), Vectors(f, S), Vectors(g, S), NEW d,
         \A x \in S : Get(f[x], d) <= Get(g[x], d)
  PROVE  Total(f, S, d) <= Total(g, S, d)
<1> DEFINE h == [x \in S |-> Get(f[x], d)]
           k == [x \in S |-> Get(g[x], d)]
<1>1. AllNat(h, S) /\ AllNat(k, S)
  BY VectorShape, MaxIntAssumption DEF AllNat, Vectors
<1>2. \A x \in S : h[x] <= k[x]
  OBVIOUS
<1> HIDE DEF h, k
<1>3. SumFunctionOnSet(h, S) <= SumFunctionOnSet(k, S)
  BY <1>1, <1>2, SumMonotone
<1> QED
  BY <1>3 DEF Total, h, k

\* Vectors with nothing in a dimension total 0 in it.
LEMMA TotalZero ==
  ASSUME NEW f, NEW S, IsFiniteSet(S), NEW d, \A x \in S : Get(f[x], d) = 0
  PROVE  Total(f, S, d) = 0
<1> DEFINE h == [x \in S |-> Get(f[x], d)]
<1>1. \A x \in S : h[x] = 0
  OBVIOUS
<1> HIDE DEF h
<1>2. SumFunctionOnSet(h, S) = 0
  BY <1>1, SumZero
<1> QED
  BY <1>2 DEF Total, h

-----------------------------------------------------------------------------
\* Equal vectors have the same sum.
LEMMA VSumSame ==
  ASSUME NEW f, NEW g, NEW S, IsFiniteSet(S), \A x \in S : f[x] = g[x]
  PROVE  VSum(f, S) = VSum(g, S)
<1> DEFINE Bad == {s \in SUBSET S : VSum(f, s) # VSum(g, s)}
<1>1. ASSUME Bad # {} PROVE FALSE
  <2>1. PICK s \in Bad : \A x \in s : s \ {x} \notin Bad
    BY <1>1, MinimalSubset, Zenon
  <2>2. IsFiniteSet(s)
    BY SubsetFinite
  <2>3. /\ VSum(f, s) = IF s = {} THEN Empty ELSE Add(VSum(f, s \ {First(s)}), f[First(s)])
        /\ VSum(g, s) = IF s = {} THEN Empty ELSE Add(VSum(g, s \ {First(s)}), g[First(s)])
    BY <2>2, VSumStep
  <2>4. s # {} => First(s) \in s
    BY DEF First
  <2> QED
    BY <2>1, <2>3, <2>4
<1> QED
  BY <1>1

(***************************************************************************)
(* The loop yields a vector, never more than the exact total: an overflow  *)
(* only loses amounts.                                                     *)
(***************************************************************************)
LEMMA VSumAtMost ==
  ASSUME NEW f, NEW S, IsFiniteSet(S), Vectors(f, S)
  PROVE  /\ VSum(f, S) \in Vector
         /\ \A d : Get(VSum(f, S), d) <= Total(f, S, d)
<1> DEFINE Good(s) == /\ VSum(f, s) \in Vector
                      /\ \A d : Get(VSum(f, s), d) <= Total(f, s, d)
           Bad == {s \in SUBSET S : ~Good(s)}
<1>1. ASSUME Bad # {} PROVE FALSE
  <2>1. PICK s \in Bad : \A x \in s : s \ {x} \notin Bad
    BY <1>1, MinimalSubset, Zenon
  <2>2. IsFiniteSet(s) /\ Vectors(f, s)
    BY SubsetFinite DEF Vectors
  <2>3. VSum(f, s) = IF s = {} THEN Empty ELSE Add(VSum(f, s \ {First(s)}), f[First(s)])
    BY <2>2, VSumStep
  <2>4. CASE s = {}
    BY <2>1, <2>3, <2>4, EmptyVector, TotalEmpty
  <2>5. CASE s # {}
    <3> DEFINE e == First(s)
               r == s \ {e}
    <3>1. e \in s
      BY <2>5 DEF First
    <3>2. Good(r)
      BY <2>1, <3>1
    <3>3. f[e] \in Vector /\ VSum(f, s) = Add(VSum(f, r), f[e])
      BY <2>2, <2>3, <2>5, <3>1 DEF Vectors
    <3> HIDE DEF e
    <3>4. VSum(f, s) \in Vector
      BY <3>2, <3>3, AddVector
    <3>5. ASSUME NEW d PROVE Get(VSum(f, s), d) <= Total(f, s, d)
      <4>1. Get(VSum(f, s), d) <= Get(VSum(f, r), d) + Get(f[e], d)
        BY <3>2, <3>3, AddVector
      <4>2. Total(f, s, d) = Get(f[e], d) + Total(f, r, d)
        BY <2>2, <3>1, TotalRemove
      <4>3. Get(VSum(f, r), d) <= Total(f, r, d)
        BY <3>2
      <4>4. Get(VSum(f, s), d) \in Nat /\ Get(VSum(f, r), d) \in Nat /\ Get(f[e], d) \in Nat
        BY <3>2, <3>3, <3>4, VectorShape, MaxIntAssumption
      <4>5. IsFiniteSet(r) /\ Vectors(f, r)
        BY <2>2, SubsetFinite DEF Vectors
      <4>6. Total(f, r, d) \in Nat
        BY <4>5, TotalNat
      <4> HIDE DEF r
      <4> QED
        BY <4>1, <4>2, <4>3, <4>4, <4>6
    <3> QED
      BY <2>1, <3>4, <3>5
  <2> QED
    BY <2>4, <2>5
<1>2. S \notin Bad
  BY <1>1
<1> QED
  BY <1>2

\* Where every total fits, the loop yields the totals.
LEMMA VSumExact ==
  ASSUME NEW f, NEW S, IsFiniteSet(S), Vectors(f, S),
         \A d \in Dim : Total(f, S, d) <= MaxInt
  PROVE  /\ VSum(f, S) \in Vector
         /\ \A d \in Dim : Get(VSum(f, S), d) = Total(f, S, d)
<1>0. \A s \in SUBSET S :
        /\ IsFiniteSet(s) /\ Vectors(f, s) /\ VSum(f, s) \in Vector
        /\ \A d : Total(f, s, d) \in Nat
        /\ \A d \in Dim : Total(f, s, d) <= MaxInt
  <2> TAKE s \in SUBSET S
  <2>1. IsFiniteSet(s) /\ Vectors(f, s)
    BY SubsetFinite DEF Vectors
  <2>2. VSum(f, s) \in Vector
    BY <2>1, VSumAtMost
  <2>3. \A d : Total(f, s, d) \in Nat /\ Total(f, S, d) \in Nat
    BY <2>1, TotalNat
  <2>4. \A d : Total(f, s, d) <= Total(f, S, d)
    BY TotalPart
  <2> QED
    BY <2>1, <2>2, <2>3, <2>4, MaxIntAssumption
<1> DEFINE Good(s) == \A d \in Dim : Get(VSum(f, s), d) = Total(f, s, d)
           Bad == {s \in SUBSET S : ~Good(s)}
<1>1. ASSUME Bad # {} PROVE FALSE
  <2>1. PICK s \in Bad : \A x \in s : s \ {x} \notin Bad
    BY <1>1, MinimalSubset, Zenon
  <2>3. VSum(f, s) = IF s = {} THEN Empty ELSE Add(VSum(f, s \ {First(s)}), f[First(s)])
    BY <1>0, VSumStep
  <2>4. CASE s = {}
    BY <2>1, <2>3, <2>4, EmptyVector, TotalEmpty
  <2>5. CASE s # {}
    <3> DEFINE e == First(s)
               r == s \ {e}
    <3>1. e \in s
      BY <2>5 DEF First
    <3>2. Good(r)
      BY <2>1, <3>1
    <3>3. f[e] \in Vector /\ VSum(f, s) = Add(VSum(f, r), f[e])
      BY <1>0, <2>3, <2>5, <3>1 DEF Vectors
    <3> HIDE DEF e
    <3>4. VSum(f, r) \in Vector
      BY <1>0
    <3>5. \A d \in Dim : Total(f, s, d) = Get(f[e], d) + Total(f, r, d)
      BY <1>0, <3>1, TotalRemove
    <3>6. \A d \in Dim : Get(f[e], d) \in Nat /\ Total(f, r, d) \in Nat
      BY <1>0, <3>3, VectorShape, MaxIntAssumption
    <3>7. \A d \in Dim : Get(VSum(f, r), d) + Get(f[e], d) = Total(f, s, d)
      BY <3>2, <3>5, <3>6
    <3>8. \A d \in Dim : Get(VSum(f, r), d) + Get(f[e], d) <= MaxInt
      BY <1>0, <3>7
    <3>9. \A d \in Dim : Get(VSum(f, s), d) = Get(VSum(f, r), d) + Get(f[e], d)
      <4>1. \A d : Get(Add(VSum(f, r), f[e]), d) = Get(VSum(f, r), d) + Get(f[e], d)
        BY <3>3, <3>4, <3>8, AddExact, Zenon
      <4> QED
        BY <3>3, <4>1, Zenon
    <3> QED
      BY <2>1, <3>7, <3>9
  <2> QED
    BY <2>4, <2>5
<1>2. S \notin Bad
  BY <1>1
<1> QED
  BY <1>0, <1>2

-----------------------------------------------------------------------------
(***************************************************************************)
(* The other operations on vectors, and the effective limits.              *)
(***************************************************************************)
LEMMA Min2Vector ==
  ASSUME NEW a \in Vector, NEW b \in Vector
  PROVE  /\ Min2(a, b) \in Vector
         /\ DOMAIN Min2(a, b) = DOMAIN a \cup DOMAIN b
         /\ \A d \in DOMAIN b : Get(Min2(a, b), d) <= b[d]
<1>1. /\ DOMAIN a \subseteq Dim /\ DOMAIN b \subseteq Dim
      /\ \A d \in DOMAIN a : a[d] \in 0..MaxInt
      /\ \A d \in DOMAIN b : b[d] \in 0..MaxInt
  BY VectorShape
<1>2. /\ DOMAIN Min2(a, b) = DOMAIN a \cup DOMAIN b
      /\ Min2(a, b) = [d \in DOMAIN Min2(a, b) |-> Min2(a, b)[d]]
      /\ \A d \in DOMAIN a \cup DOMAIN b :
           Min2(a, b)[d] = IF d \notin DOMAIN a THEN b[d]
                           ELSE IF d \notin DOMAIN b THEN a[d] ELSE Lesser(a[d], b[d])
  BY DEF Min2
<1>3. \A d \in DOMAIN a \cup DOMAIN b : Min2(a, b)[d] \in 0..MaxInt
  BY <1>1, <1>2 DEF Lesser
<1>4. Min2(a, b) \in Vector
  BY <1>1, <1>2, <1>3, IsVector
<1>5. \A d \in DOMAIN b : Get(Min2(a, b), d) <= b[d]
  BY <1>1, <1>2, MaxIntAssumption DEF Lesser, Get
<1> QED
  BY <1>2, <1>4, <1>5

\* The saturating sum of two vectors is a vector.
LEMMA AddSaturatingVector ==
  ASSUME NEW a \in Vector, NEW b \in Vector
  PROVE  AddSaturating(a, b) \in Vector
<1>1. /\ DOMAIN a \subseteq Dim /\ DOMAIN b \subseteq Dim
      /\ \A d : Get(a, d) \in 0..MaxInt /\ Get(b, d) \in 0..MaxInt
  BY VectorShape
<1>2. /\ DOMAIN AddSaturating(a, b) = DOMAIN a \cup DOMAIN b
      /\ AddSaturating(a, b) = [d \in DOMAIN AddSaturating(a, b) |-> AddSaturating(a, b)[d]]
      /\ \A d \in DOMAIN a \cup DOMAIN b :
           AddSaturating(a, b)[d] = SatAdd(Get(a, d), Get(b, d))
  BY DEF AddSaturating
<1>3. \A x, y \in 0..MaxInt : SatAdd(x, y) \in 0..MaxInt
  BY MaxIntAssumption DEF SatAdd, Lesser
<1>4. \A d \in DOMAIN a \cup DOMAIN b : AddSaturating(a, b)[d] \in 0..MaxInt
  BY <1>1, <1>2, <1>3
<1> QED
  BY <1>1, <1>2, <1>4, IsVector

\* merge_min: the result is a vector, set where some quota sets the limit, and
\* no larger than any of the limits.
LEMMA MergeMinVector ==
  ASSUME NEW quotas, NEW kind, \A q \in quotas : q[kind] \in Vector
  PROVE  /\ MergeMin(quotas, kind) \in Vector
         /\ \A q \in quotas : \A d \in DOMAIN q[kind] :
              d \in DOMAIN MergeMin(quotas, kind) /\ MergeMin(quotas, kind)[d] <= q[kind][d]
<1> DEFINE limits(d) == {q[kind][d] : q \in {p \in quotas : d \in DOMAIN p[kind]}}
           D == UNION {DOMAIN q[kind] : q \in quotas}
           min(d) == CHOOSE m \in limits(d) : \A l \in limits(d) : m <= l
           mm == MergeMin(quotas, kind)
<1>1. mm = [d \in D |-> min(d)]
  BY DEF MergeMin
<1>2. \A q \in quotas : DOMAIN q[kind] \subseteq Dim /\ \A d \in DOMAIN q[kind] : q[kind][d] \in 0..MaxInt
  BY VectorShape
<1>3. \A d \in D : limits(d) # {} /\ limits(d) \subseteq 0..MaxInt
  BY <1>2
<1>4. ASSUME NEW d \in D
      PROVE  min(d) \in limits(d) /\ \A l \in limits(d) : min(d) <= l
  <2> HIDE DEF limits, D
  <2>0. 0..MaxInt \subseteq Nat
    BY MaxIntAssumption
  <2>1. limits(d) # {} /\ limits(d) \subseteq Nat
    BY <1>3, <2>0
  <2>2. \E m \in limits(d) : \A l \in limits(d) : m <= l
    BY <2>1, SmallestOf
  <2> QED
    BY <2>2
<1>5. DOMAIN mm = D /\ mm = [d \in DOMAIN mm |-> mm[d]] /\ \A d \in D : mm[d] = min(d)
  BY <1>1, Zenon
<1>6. \A q \in quotas : \A d \in DOMAIN q[kind] : d \in D /\ q[kind][d] \in limits(d)
  OBVIOUS
<1>7. D \subseteq Dim
  BY <1>2
<1> HIDE DEF limits, min, D, mm
<1>8. \A d \in D : mm[d] \in 0..MaxInt
  BY <1>3, <1>4, <1>5
<1>9. mm \in Vector
  BY <1>5, <1>7, <1>8, IsVector, Zenon
<1>10. \A q \in quotas : \A d \in DOMAIN q[kind] : d \in DOMAIN mm /\ mm[d] <= q[kind][d]
  BY <1>4, <1>5, <1>6, Zenon
<1> QED
  BY <1>9, <1>10 DEF mm

\* Every limit of a folded quota is a vector.
LEMMA EffectiveVectors ==
  ASSUME NEW quotas, quotas \subseteq Quota, NEW last, NEW kind \in LimitKinds
  PROVE  /\ EffectiveLattice(quotas, last)[kind] = MergeMin(quotas, kind)
         /\ EffectiveLattice(quotas, last)[kind] \in Vector
<1>1. \A q \in quotas : q[kind] \in Vector
  BY DEF Quota, LimitKinds
<1>2. EffectiveLattice(quotas, last)[kind] = MergeMin(quotas, kind)
  BY DEF EffectiveLattice, LimitKinds
<1> QED
  BY <1>1, <1>2, MergeMinVector

-----------------------------------------------------------------------------
\* Renaming the members of a finite set gives a finite set.
LEMMA RenamedFinite ==
  ASSUME NEW S, IsFiniteSet(S), NEW m
  PROVE  IsFiniteSet({m[x] : x \in S})
<1> DEFINE R(s) == {m[x] : x \in s}
           Bad == {s \in SUBSET S : ~IsFiniteSet(R(s))}
<1>1. ASSUME Bad # {} PROVE FALSE
  <2>1. PICK s \in Bad : \A x \in s : s \ {x} \notin Bad
    BY <1>1, MinimalSubset, Zenon
  <2>2. s = {} => R(s) = {}
    OBVIOUS
  <2>3. \A x \in s : R(s) = R(s \ {x}) \cup {m[x]}
    OBVIOUS
  <2> HIDE DEF R
  <2>4. CASE s = {}
    BY <2>1, <2>2, <2>4, EmptyFinite
  <2>5. CASE s # {}
    <3>1. PICK x \in s : TRUE
      BY <2>5
    <3>2. IsFiniteSet(R(s \ {x}))
      BY <2>1
    <3>3. IsFiniteSet(R(s \ {x}) \cup {m[x]})
      BY <3>2, UnionFinite, SingletonFinite, Zenon
    <3> QED
      BY <2>1, <2>3, <3>3
  <2> QED
    BY <2>4, <2>5
<1>2. S \notin Bad
  BY <1>1
<1> QED
  BY <1>2

\* m is a renaming of the members of S to those of T that takes f to g.
Renames(m, S, T, f, g) ==
  /\ \A x \in S : m[x] \in T
  /\ \A y \in T : \E x \in S : y = m[x]
  /\ \A x, y \in S : m[x] = m[y] => x = y
  /\ \A x \in S : g[m[x]] = f[x]

\* A sum over renamed members is the same sum.
LEMMA SumRenamed ==
  ASSUME NEW S, IsFiniteSet(S), NEW f, AllNat(f, S), NEW g, NEW m, NEW T,
         Renames(m, S, T, f, g)
  PROVE  SumFunctionOnSet(g, T) = SumFunctionOnSet(f, S)
<1> DEFINE R(s) == {m[x] : x \in s}
           Bad == {s \in SUBSET S : SumFunctionOnSet(g, R(s)) # SumFunctionOnSet(f, s)}
<1>0. \A s \in SUBSET S : /\ IsFiniteSet(s) /\ IsFiniteSet(R(s))
                          /\ AllNat(f, s) /\ AllNat(g, R(s))
  <2> TAKE s \in SUBSET S
  <2>1. IsFiniteSet(s) /\ AllNat(f, s) /\ AllNat(g, R(s))
    BY SubsetFinite DEF AllNat, Renames
  <2>2. IsFiniteSet(R(s))
    BY <2>1, RenamedFinite
  <2> QED
    BY <2>1, <2>2
<1>1. ASSUME Bad # {} PROVE FALSE
  <2>1. PICK s \in Bad : \A x \in s : s \ {x} \notin Bad
    BY <1>1, MinimalSubset, Zenon
  <2>2. s = {} => R(s) = {}
    OBVIOUS
  <2>3. \A x \in s : R(s \ {x}) = R(s) \ {m[x]} /\ m[x] \in R(s)
    BY DEF Renames
  <2> HIDE DEF R
  <2>4. CASE s = {}
    BY <2>1, <2>2, <2>4, SumEmpty
  <2>5. CASE s # {}
    <3>1. PICK x \in s : TRUE
      BY <2>5
    <3>2. IsFiniteSet(R(s)) /\ AllNat(g, R(s)) /\ m[x] \in R(s)
      BY <1>0, <2>3, Zenon
    <3>3. SumFunctionOnSet(f, s) = f[x] + SumFunctionOnSet(f, s \ {x})
      BY <1>0, SumRemove
    <3>4. SumFunctionOnSet(g, R(s)) = g[m[x]] + SumFunctionOnSet(g, R(s) \ {m[x]})
      BY <3>2, SumRemove
    <3>5. SumFunctionOnSet(g, R(s \ {x})) = SumFunctionOnSet(f, s \ {x})
      BY <2>1
    <3>6. R(s \ {x}) = R(s) \ {m[x]} /\ g[m[x]] = f[x]
      BY <2>3 DEF Renames
    <3> QED
      BY <2>1, <3>3, <3>4, <3>5, <3>6, Zenon
  <2> QED
    BY <2>4, <2>5
<1>2. SumFunctionOnSet(g, R(S)) = SumFunctionOnSet(f, S)
  BY <1>1
<1>3. R(S) = T
  BY DEF Renames
<1> QED
  BY <1>2, <1>3, Zenon

\* g has at k + i, for the numbers i of S, what f has at i; T is where.
Shifts(k, S, T, f, g) ==
  /\ \A i \in S : k + i \in T
  /\ \A y \in T : \E i \in S : y = k + i
  /\ \A i \in S : g[k + i] = f[i]

\* A total over records that were appended, numbered from k + 1.
LEMMA TotalShifted ==
  ASSUME NEW S \in SUBSET Nat, IsFiniteSet(S), NEW k \in Nat, NEW f, NEW g,
         Vectors(f, S), NEW T, NEW d, Shifts(k, S, T, f, g)
  PROVE  Total(g, T, d) = Total(f, S, d)
<1> DEFINE m == [i \in S |-> k + i]
           F == [i \in S |-> Get(f[i], d)]
           G == [x \in T |-> Get(g[x], d)]
<1>1. (\A i \in S : m[i] \in T) /\ \A y \in T : \E i \in S : y = m[i]
  BY Zenon DEF Shifts
<1>2. \A x, y \in S : m[x] = m[y] => x = y
  OBVIOUS
<1>3. AllNat(F, S)
  BY VectorShape, MaxIntAssumption DEF Vectors, AllNat
<1>4. \A i \in S : G[m[i]] = F[i]
  BY DEF Shifts
<1>5. Total(f, S, d) = SumFunctionOnSet(F, S) /\ Total(g, T, d) = SumFunctionOnSet(G, T)
  BY DEF Total
<1> HIDE DEF F, G, m
<1>6. Renames(m, S, T, F, G)
  BY <1>1, <1>2, <1>4, Zenon DEF Renames
<1>7. SumFunctionOnSet(G, T) = SumFunctionOnSet(F, S)
  BY <1>3, <1>6, SumRenamed
<1> QED
  BY <1>5, <1>7

-----------------------------------------------------------------------------
\* The members of R whose owner is in s.
OwnedBy(own, R, s) == {r \in R : own[r] \in s}

\* g is what each member of S owns of f.
OwnerSums(g, S, own, R, f) ==
  \A t \in S : g[t] = SumFunctionOnSet(f, OwnedBy(own, R, {t}))

\* A sum taken owner by owner is the sum over everything that is owned.
LEMMA SumByOwner ==
  ASSUME NEW S, IsFiniteSet(S), NEW R, IsFiniteSet(R), NEW own, NEW f, AllNat(f, R),
         NEW g, OwnerSums(g, S, own, R, f)
  PROVE  SumFunctionOnSet(g, S) = SumFunctionOnSet(f, OwnedBy(own, R, S))
<1> DEFINE F(s) == SumFunctionOnSet(f, OwnedBy(own, R, s))
           G(s) == SumFunctionOnSet(g, s)
           Bad == {s \in SUBSET S : G(s) # F(s)}
<1>1. ASSUME NEW s
      PROVE  /\ IsFiniteSet(OwnedBy(own, R, s)) /\ AllNat(f, OwnedBy(own, R, s)) /\ F(s) \in Nat
  <2>1. OwnedBy(own, R, s) \subseteq R
    BY DEF OwnedBy
  <2>2. IsFiniteSet(OwnedBy(own, R, s)) /\ AllNat(f, OwnedBy(own, R, s))
    BY <2>1, SubsetFinite DEF AllNat
  <2> QED
    BY <2>2, SumNat
<1>2. \A s \in SUBSET S : IsFiniteSet(s) /\ AllNat(g, s)
  <2>1. \A t \in S : g[t] \in Nat
    BY <1>1, Zenon DEF OwnerSums
  <2> QED
    BY <2>1, SubsetFinite DEF AllNat
<1>3. ASSUME Bad # {} PROVE FALSE
  <2>1. PICK s \in Bad : \A x \in s : s \ {x} \notin Bad
    BY <1>3, MinimalSubset, Zenon
  <2>2. CASE s = {}
    <3>1. OwnedBy(own, R, s) = {}
      BY <2>2 DEF OwnedBy
    <3> QED
      BY <2>1, <2>2, <3>1, SumEmpty
  <2>3. CASE s # {}
    <3>1. PICK x \in s : TRUE
      BY <2>3
    <3>2. G(s) = g[x] + G(s \ {x})
      BY <1>2, SumRemove
    <3>3. G(s \ {x}) = F(s \ {x})
      BY <2>1
    <3>4. g[x] = F({x})
      BY DEF OwnerSums
    <3>5. /\ OwnedBy(own, R, {x}) \cup OwnedBy(own, R, s \ {x}) = OwnedBy(own, R, s)
          /\ OwnedBy(own, R, {x}) \cap OwnedBy(own, R, s \ {x}) = {}
      BY DEF OwnedBy
    <3>6. PICK A, B : A = OwnedBy(own, R, {x}) /\ B = OwnedBy(own, R, s \ {x})
      BY Zenon
    <3>7. IsFiniteSet(A) /\ IsFiniteSet(B) /\ A \cap B = {} /\ AllNat(f, A \cup B)
      BY <1>1, <3>5, <3>6, Zenon
    <3>8. SumFunctionOnSet(f, A \cup B) = SumFunctionOnSet(f, A) + SumFunctionOnSet(f, B)
      BY <3>7, SumDisjoint
    <3>9. F(s) = F({x}) + F(s \ {x})
      BY <3>5, <3>6, <3>8, Zenon
    <3>10. G(s) = F(s)
      BY <3>2, <3>3, <3>4, <3>9, Zenon
    <3> QED
      BY <2>1, <3>10, Zenon
  <2> QED
    BY <2>2, <2>3
<1>4. S \notin Bad
  BY <1>3
<1> QED
  BY <1>4

-----------------------------------------------------------------------------
\* A total to which one more member is added.
LEMMA TotalGrows ==
  ASSUME NEW f, NEW S, IsFiniteSet(S), Vectors(f, S), NEW g, \A x \in S : g[x] = f[x],
         NEW e, e \notin S, g[e] \in Vector, NEW d
  PROVE  Total(g, S \cup {e}, d) = Get(g[e], d) + Total(f, S, d)
<1>1. IsFiniteSet(S \cup {e}) /\ Vectors(g, S \cup {e}) /\ (S \cup {e}) \ {e} = S
  BY UnionFinite, SingletonFinite, Zenon DEF Vectors
<1>2. Total(g, S \cup {e}, d) = Get(g[e], d) + Total(g, (S \cup {e}) \ {e}, d)
  BY <1>1, TotalRemove
<1>3. Total(g, S, d) = Total(f, S, d)
  BY TotalSame
<1> QED
  BY <1>1, <1>2, <1>3, Zenon

\* A total over some of the members, unchanged.
LEMMA TotalShrinks ==
  ASSUME NEW f, NEW S, IsFiniteSet(S), Vectors(f, S), NEW T \in SUBSET S,
         NEW g, \A x \in T : g[x] = f[x], NEW d
  PROVE  Total(g, T, d) <= Total(f, S, d)
<1>1. IsFiniteSet(T)
  BY SubsetFinite
<1>2. Total(g, T, d) = Total(f, T, d)
  BY <1>1, TotalSame
<1> QED
  BY <1>2, TotalPart

-----------------------------------------------------------------------------
(***************************************************************************)
(* A book of loans: records of who lends how much, and how much of it is   *)
(* outstanding, in the order they were written.                            *)
(***************************************************************************)
Outstanding(book) == [l \in DOMAIN book |-> book[l].outstanding]
LendsOf(book, x) == {l \in DOMAIN book : book[l].lender = x}
LentIn(book, x, d) == Total(Outstanding(book), LendsOf(book, x), d)

LoansTyped(book) ==
  \A l \in DOMAIN book : book[l].amount \in Vector /\ book[l].outstanding \in Vector

\* Some amounts, no two of them in the same dimension, asked of from[1] to from[n].
Asks(n, need) ==
  /\ n \in Nat
  /\ need = [i \in 1..n |-> need[i]]
  /\ Vectors(need, 1..n)
  /\ \A d : \A i, j \in 1..n : Get(need[i], d) > 0 /\ Get(need[j], d) > 0 => i = j

FromOf(n, from, x) == {i \in 1..n : from[i] = x}

\* nl are the records of those loans, with no more outstanding than was lent.
LendsFit(n, need, from, nl) ==
  /\ nl = [i \in 1..n |-> nl[i]]
  /\ \A i \in 1..n : /\ nl[i].lender = from[i]
                     /\ nl[i].amount = need[i]
                     /\ nl[i].outstanding \in Vector
                     /\ \A d : Get(nl[i].outstanding, d) <= Get(need[i], d)

\* w has the elements of s and then the n elements of u.
Joined(w, s, n, u) ==
  /\ Len(s) \in Nat /\ DOMAIN s = 1..Len(s) /\ DOMAIN w = 1..(Len(s) + n)
  /\ \A i \in 1..Len(s) : i \in DOMAIN w /\ w[i] = s[i]
  /\ \A i \in 1..n : /\ Len(s) + i \in DOMAIN w /\ Len(s) + i \notin DOMAIN s
                     /\ w[Len(s) + i] = u[i]
  /\ \A k \in DOMAIN w : k \in DOMAIN s \/ \E i \in 1..n : k = Len(s) + i

\* What a sequence becomes when n records are written after it.
LEMMA JoinedIs ==
  ASSUME NEW S, NEW s \in Seq(S), NEW n \in Nat, NEW u, u = [i \in 1..n |-> u[i]],
         NEW w, w = s \o u
  PROVE  Joined(w, s, n, u)
<1> DEFINE U == {u[i] : i \in 1..n}
<1>1. u \in Seq(U) /\ Len(u) = n
  <2>1. u \in [1..n -> U]
    OBVIOUS
  <2> HIDE DEF U
  <2> QED
    BY <2>1
<1>2. s \in Seq(S \cup U) /\ u \in Seq(S \cup U)
  BY <1>1
<1> HIDE DEF U
<1>3. /\ w \in Seq(S \cup U) /\ Len(w) = Len(s) + n /\ Len(s) \in Nat
      /\ \A i \in 1..(Len(s) + n) : w[i] = IF i <= Len(s) THEN s[i] ELSE u[i - Len(s)]
  BY <1>1, <1>2
<1>4. DOMAIN s = 1..Len(s) /\ DOMAIN w = 1..(Len(s) + n)
  BY <1>3
<1>5. PICK m : m = Len(s)
  OBVIOUS
<1>6. \A i \in 1..m : i \in 1..(m + n) /\ w[i] = s[i]
  BY <1>3, <1>5
<1>7. ASSUME NEW i \in 1..n
      PROVE  m + i \in 1..(m + n) /\ m + i \notin 1..m /\ w[m + i] = u[i]
  <2>1. m + i \in 1..(m + n) /\ ~(m + i <= m) /\ (m + i) - m = i
    BY <1>3, <1>5
  <2> QED
    BY <1>3, <1>5, <2>1
<1>8. ASSUME NEW k \in 1..(m + n), k \notin 1..m
      PROVE  \E i \in 1..n : k = m + i
  <2>1. k - m \in 1..n /\ k = m + (k - m)
    BY <1>3, <1>5, <1>8
  <2> QED
    BY <2>1
<1> QED
  BY <1>3, <1>4, <1>5, <1>6, <1>7, <1>8 DEF Joined

\* Each lender is asked for finitely many amounts.
LEMMA AsksFinite ==
  ASSUME NEW n \in Nat, NEW need, Vectors(need, 1..n), NEW from, NEW x
  PROVE  /\ FromOf(n, from, x) \subseteq 1..n
         /\ IsFiniteSet(FromOf(n, from, x)) /\ Vectors(need, FromOf(n, from, x))
         /\ \A d : Total(need, FromOf(n, from, x), d) \in Nat
<1>1. FromOf(n, from, x) \subseteq 1..n
  BY DEF FromOf
<1>2. IsFiniteSet(1..n)
  BY IntervalFinite
<1>3. IsFiniteSet(FromOf(n, from, x))
  BY <1>1, <1>2, SubsetFinite, Zenon
<1>4. Vectors(need, FromOf(n, from, x))
  BY <1>1 DEF Vectors
<1> QED
  BY <1>1, <1>3, <1>4, TotalNat

\* Each lender is asked for one amount at most in each dimension.
LEMMA AskedOnce ==
  ASSUME NEW n, NEW need, Asks(n, need), NEW from, NEW x, NEW d
  PROVE  \/ Total(need, FromOf(n, from, x), d) = 0
         \/ \E i \in FromOf(n, from, x) :
              Get(need[i], d) > 0 /\ Total(need, FromOf(n, from, x), d) = Get(need[i], d)
<1>1. PICK I : I = FromOf(n, from, x)
  OBVIOUS
<1>2. I \subseteq 1..n /\ IsFiniteSet(I) /\ Vectors(need, I)
  BY <1>1, AsksFinite DEF Asks
<1>3. \A i \in I : Get(need[i], d) \in 0..MaxInt
  BY <1>2, VectorShape DEF Vectors
<1>4. \A i, j \in I : Get(need[i], d) > 0 /\ Get(need[j], d) > 0 => i = j
  BY <1>2 DEF Asks
<1>5. CASE \A i \in I : Get(need[i], d) = 0
  BY <1>1, <1>2, <1>5, TotalZero
<1>6. ASSUME NEW i \in I, Get(need[i], d) # 0
      PROVE  Get(need[i], d) > 0 /\ Total(need, I, d) = Get(need[i], d)
  <2>1. Get(need[i], d) > 0
    BY <1>3, <1>6, MaxIntAssumption
  <2>2. \A j \in I \ {i} : Get(need[j], d) = 0
    BY <1>3, <1>4, <2>1, MaxIntAssumption
  <2>3. IsFiniteSet(I \ {i})
    BY <1>2, SubsetFinite
  <2>4. Total(need, I \ {i}, d) = 0
    BY <2>2, <2>3, TotalZero
  <2>5. Total(need, I, d) = Get(need[i], d) + Total(need, I \ {i}, d)
    BY <1>2, TotalRemove
  <2> QED
    BY <1>3, <2>1, <2>4, <2>5, MaxIntAssumption
<1> QED
  BY <1>1, <1>5, <1>6

\* The book shows no more for the loans than was asked.
LEMMA LentGrows ==
  ASSUME NEW S, NEW book \in Seq(S), LoansTyped(book), NEW n \in Nat, NEW need,
         Vectors(need, 1..n), NEW from, NEW nl, LendsFit(n, need, from, nl),
         NEW grown, grown = book \o nl
  PROVE  /\ LoansTyped(grown)
         /\ \A x, d : LentIn(grown, x, d) <= LentIn(book, x, d) + Total(need, FromOf(n, from, x), d)
<1>1. PICK k : k = Len(book)
  OBVIOUS
<1>2. /\ k \in Nat /\ DOMAIN book = 1..k /\ DOMAIN grown = 1..(k + n)
      /\ \A l \in 1..k : l \in DOMAIN grown /\ grown[l] = book[l]
      /\ \A i \in 1..n : k + i \in DOMAIN grown /\ k + i \notin DOMAIN book /\ grown[k + i] = nl[i]
      /\ \A l \in DOMAIN grown : l \in DOMAIN book \/ \E i \in 1..n : l = k + i
  <2>1. nl = [i \in 1..n |-> nl[i]]
    BY DEF LendsFit
  <2>2. Joined(grown, book, n, nl)
    BY <2>1, JoinedIs, Zenon
  <2> QED
    BY <1>1, <2>2, Zenon DEF Joined
<1>3. LoansTyped(grown)
  <2>1. \A i \in 1..n : nl[i].amount \in Vector /\ nl[i].outstanding \in Vector
    BY DEF LendsFit, Vectors
  <2>2. ASSUME NEW l \in DOMAIN grown
        PROVE  grown[l].amount \in Vector /\ grown[l].outstanding \in Vector
    <3>1. (l \in DOMAIN book /\ grown[l] = book[l]) \/ \E i \in 1..n : grown[l] = nl[i]
      BY <1>2, <2>2, Zenon
    <3> QED
      BY <2>1, <3>1, Zenon DEF LoansTyped
  <2> QED
    BY <2>2, Zenon DEF LoansTyped
<1>4. ASSUME NEW x, NEW d
      PROVE  LentIn(grown, x, d) <= LentIn(book, x, d) + Total(need, FromOf(n, from, x), d)
  <2> DEFINE I == FromOf(n, from, x)
             A == LendsOf(book, x)
             B == {k + i : i \in I}
             o == [i \in 1..n |-> nl[i].outstanding]
  <2>1. PICK g, h : g = Outstanding(grown) /\ h = Outstanding(book)
    OBVIOUS
  <2>2. /\ A \subseteq 1..k /\ I \subseteq 1..n /\ I \subseteq Nat
        /\ IsFiniteSet(I) /\ IsFiniteSet(A) /\ Vectors(need, I)
    <3>1. IsFiniteSet(1..k)
      BY <1>2, IntervalFinite
    <3>2. A \subseteq 1..k
      BY <1>2 DEF LendsOf
    <3>3. I \subseteq 1..n /\ IsFiniteSet(I) /\ Vectors(need, I)
      BY AsksFinite, Zenon
    <3>4. 1..n \subseteq Nat
      OBVIOUS
    <3> QED
      BY <3>1, <3>2, <3>3, <3>4, SubsetFinite, Zenon
  <2>3. LendsOf(grown, x) = A \cup B
    <3>1. \A l \in 1..k : l \in LendsOf(grown, x) <=> l \in A
      BY <1>2, Zenon DEF LendsOf
    <3>2. \A i \in 1..n : k + i \in LendsOf(grown, x) <=> i \in I
      BY <1>2, Zenon DEF LendsOf, FromOf, LendsFit
    <3>3. LendsOf(grown, x) \subseteq DOMAIN grown
      BY DEF LendsOf
    <3>4. LendsOf(grown, x) \subseteq A \cup B
      BY <1>2, <3>1, <3>2, <3>3
    <3>5. A \subseteq LendsOf(grown, x) /\ B \subseteq LendsOf(grown, x)
      BY <2>2, <3>1, <3>2
    <3> QED
      BY <3>4, <3>5
  <2>4. A \cap B = {}
    BY <1>2, <2>2
  <2>5. /\ \A l \in A : g[l] = h[l]
        /\ \A i \in I : g[k + i] = o[i]
    BY <2>1, <1>2, <2>2 DEF Outstanding
  <2>6. Vectors(o, I) /\ \A i \in I : Get(o[i], d) <= Get(need[i], d)
    BY <2>2, Zenon DEF LendsFit, Vectors
  <2>7. IsFiniteSet(B)
    <3> DEFINE m == [i \in I |-> k + i]
    <3>1. B = {m[i] : i \in I}
      OBVIOUS
    <3> HIDE DEF m
    <3> QED
      BY <2>2, <3>1, RenamedFinite, Zenon
  <2>8. Vectors(g, A \cup B)
    BY <1>3, <2>1, <2>3 DEF Vectors, Outstanding, LendsOf, LoansTyped
  <2>9. LentIn(grown, x, d) = Total(g, A \cup B, d) /\ LentIn(book, x, d) = Total(h, A, d)
    BY <2>1, <2>3, Zenon DEF LentIn
  <2>10. Total(g, B, d) = Total(o, I, d)
    <3>1. Shifts(k, I, B, o, g)
      BY <2>5, Zenon DEF Shifts
    <3> HIDE DEF o, I, B
    <3> QED
      BY <1>2, <2>2, <2>6, <3>1, TotalShifted
  <2> HIDE DEF I, A, B, o
  <2>11. Total(g, A \cup B, d) = Total(g, A, d) + Total(g, B, d)
    BY <2>2, <2>4, <2>7, <2>8, TotalDisjoint
  <2>12. Total(g, A, d) = Total(h, A, d)
    <3>1. [l \in A |-> Get(g[l], d)] = [l \in A |-> Get(h[l], d)]
      BY <2>5
    <3> QED
      BY <3>1, Zenon DEF Total
  <2>13. Total(o, I, d) <= Total(need, I, d)
    BY <2>2, <2>6, TotalMonotone, Zenon
  <2>14. /\ Total(o, I, d) \in Nat /\ Total(need, I, d) \in Nat /\ Total(g, A, d) \in Nat
    <3>1. Vectors(g, A)
      BY <2>8 DEF Vectors
    <3> QED
      BY <2>2, <2>6, <3>1, TotalNat
  <2> QED
    BY <2>9, <2>10, <2>11, <2>12, <2>13, <2>14 DEF I
<1> QED
  BY <1>3, <1>4

\* What the loop over the loans of a lender adds up to.
LEMMA LentSummed ==
  ASSUME NEW book, IsFiniteSet(DOMAIN book), LoansTyped(book), NEW x, NEW v,
         v = VSum([l \in LendsOf(book, x) |-> book[l].outstanding], LendsOf(book, x))
  PROVE  /\ v \in Vector
         /\ \A d : LentIn(book, x, d) \in Nat /\ Get(v, d) <= LentIn(book, x, d)
         /\ (\A d \in Dim : LentIn(book, x, d) <= MaxInt)
              => \A d \in Dim : Get(v, d) = LentIn(book, x, d)
<1>1. PICK T, f, o : /\ T = LendsOf(book, x) /\ o = Outstanding(book)
                     /\ f = [l \in LendsOf(book, x) |-> book[l].outstanding]
  OBVIOUS
<1>2. IsFiniteSet(T)
  BY <1>1, SubsetFinite DEF LendsOf
<1>3. (\A l \in T : f[l] = o[l]) /\ Vectors(o, T)
  BY <1>1 DEF LendsOf, Outstanding, LoansTyped, Vectors
<1>4. v = VSum(o, T)
  BY <1>1, <1>2, <1>3, VSumSame
<1>5. \A d : LentIn(book, x, d) = Total(o, T, d)
  BY <1>1, Zenon DEF LentIn
<1>6. v \in Vector /\ \A d : Total(o, T, d) \in Nat /\ Get(v, d) <= Total(o, T, d)
  BY <1>2, <1>3, <1>4, VSumAtMost, TotalNat, Zenon
<1>7. (\A d \in Dim : Total(o, T, d) <= MaxInt) => \A d \in Dim : Get(v, d) = Total(o, T, d)
  BY <1>2, <1>3, <1>4, VSumExact, Zenon
<1> QED
  BY <1>5, <1>6, <1>7, Zenon

\* A book in which nothing more is outstanding shows no more.
LEMMA LentShrinks ==
  ASSUME NEW book, IsFiniteSet(DOMAIN book), LoansTyped(book), NEW less, DOMAIN less = DOMAIN book,
         \A l \in DOMAIN book : /\ less[l].lender = book[l].lender
                                /\ less[l].outstanding \in Vector
                                /\ \A d : Get(less[l].outstanding, d) <= Get(book[l].outstanding, d)
  PROVE  \A x, d : LentIn(less, x, d) <= LentIn(book, x, d)
<1> SUFFICES ASSUME NEW x, NEW d PROVE LentIn(less, x, d) <= LentIn(book, x, d)
  OBVIOUS
<1>1. PICK g, h, A : g = Outstanding(less) /\ h = Outstanding(book) /\ A = LendsOf(book, x)
  OBVIOUS
<1>2. LendsOf(less, x) = A
  BY <1>1 DEF LendsOf
<1>3. IsFiniteSet(A)
  BY <1>1, SubsetFinite DEF LendsOf
<1>4. Vectors(g, A) /\ Vectors(h, A) /\ \A l \in A : Get(g[l], d) <= Get(h[l], d)
  BY <1>1, Zenon DEF LendsOf, Outstanding, LoansTyped, Vectors
<1>5. LentIn(less, x, d) = Total(g, A, d) /\ LentIn(book, x, d) = Total(h, A, d)
  BY <1>1, <1>2, Zenon DEF LentIn
<1> QED
  BY <1>3, <1>4, <1>5, TotalMonotone

-----------------------------------------------------------------------------
(***************************************************************************)
(* Rolling windows: the total and the samples it is of.                    *)
(***************************************************************************)
Sample == [at : Nat, amount : Nat]

\* The amounts of the samples, by their place in the deque.
AmountsIn(s) == [i \in DOMAIN s |-> s[i].amount]

WindowExact(w) ==
  /\ w = [samples |-> w.samples, total |-> w.total]
  /\ w.samples \in Seq(Sample)
  /\ w.total = Amount(w.samples)

\* The amounts are naturals, and Amount is their sum.
LEMMA AmountIs ==
  ASSUME NEW s \in Seq(Sample)
  PROVE  /\ Len(s) \in Nat /\ DOMAIN s = 1..Len(s) /\ IsFiniteSet(1..Len(s))
         /\ AllNat(AmountsIn(s), 1..Len(s))
         /\ Amount(s) = SumFunctionOnSet(AmountsIn(s), 1..Len(s))
         /\ Amount(s) \in Nat
<1>1. Len(s) \in Nat /\ DOMAIN s = 1..Len(s)
  OBVIOUS
<1>2. IsFiniteSet(1..Len(s))
  BY <1>1, IntervalFinite
<1>3. AllNat(AmountsIn(s), 1..Len(s))
  <2>1. \A i \in 1..Len(s) : s[i] \in Sample
    OBVIOUS
  <2>2. \A i \in 1..Len(s) : s[i].amount \in Nat
    BY <2>1 DEF Sample
  <2> QED
    BY <1>1, <2>2, Zenon DEF AllNat, AmountsIn
<1>4. DOMAIN AmountsIn(s) = 1..Len(s)
  BY <1>1, Zenon DEF AmountsIn
<1>5. Amount(s) = SumFunctionOnSet(AmountsIn(s), 1..Len(s))
  BY <1>4, Zenon DEF Amount, SumFunction, AmountsIn
<1> QED
  BY <1>1, <1>2, <1>3, <1>5, SumNat, Zenon

\* expire pops a part from the front, of samples that have left the window.
LEMMA PoppedIs ==
  ASSUME NEW s \in Seq(Sample), NEW at \in Nat
  PROVE  /\ Popped(s, at) \in 0..Len(s)
         /\ \A i \in 1..Popped(s, at) : s[i].at <= at - WindowNs
<1> DEFINE kept == {i \in 1..Len(s) : s[i].at > at - WindowNs}
           least == CHOOSE i \in kept : \A j \in kept : i <= j
<1>1. Len(s) \in Nat /\ WindowNs \in Nat /\ \A i \in 1..Len(s) : s[i].at \in Nat
  <2>1. \A i \in 1..Len(s) : s[i] \in Sample
    OBVIOUS
  <2>2. \A i \in 1..Len(s) : s[i].at \in Nat
    BY <2>1 DEF Sample
  <2>3. Len(s) \in Nat
    OBVIOUS
  <2> QED
    BY <2>2, <2>3, WindowNsAssumption
<1>2. Popped(s, at) = IF kept = {} THEN Len(s) ELSE least - 1
  BY Zenon DEF Popped
<1>3. \A i \in 1..Len(s) : i \notin kept => s[i].at <= at - WindowNs
  BY <1>1
<1>4. kept \subseteq 1..Len(s)
  BY Zenon
<1> HIDE DEF kept
<1>5. kept # {} => least \in kept /\ \A j \in kept : least <= j
  <2>1. kept \subseteq Nat
    BY <1>4
  <2> QED
    BY <2>1, SmallestOf, Zenon
<1> HIDE DEF least
<1>6. CASE kept = {}
  <2>1. Popped(s, at) = Len(s)
    BY <1>2, <1>6, Zenon
  <2> QED
    BY <1>1, <1>3, <1>6, <2>1
<1>7. CASE kept # {}
  <2>1. Popped(s, at) = least - 1
    BY <1>2, <1>7, Zenon
  <2>2. least \in 1..Len(s)
    BY <1>4, <1>5, <1>7, Zenon
  <2>3. \A i \in 1..(least - 1) : i \in 1..Len(s) /\ ~(least <= i)
    BY <1>1, <2>2
  <2>4. \A i \in 1..(least - 1) : i \notin kept
    BY <1>5, <1>7, <2>3, Zenon
  <2> QED
    BY <1>1, <1>3, <2>1, <2>2, <2>3, <2>4
<1> QED
  BY <1>6, <1>7, Zenon

\* Expiring keeps the total the sum of the samples that are left.
LEMMA ExpireExact ==
  ASSUME NEW w, WindowExact(w), NEW at \in Nat
  PROVE  /\ WindowExact(Expire(w, at))
         /\ Expire(w, at).total = SumFunctionOnSet(AmountsIn(w.samples),
                                    (Popped(w.samples, at) + 1)..Len(w.samples))
\* The amounts of the first samples.
<1>FrontAmount.
  ASSUME NEW s \in Seq(Sample), NEW n \in 0..Len(s)
  PROVE  /\ SubSeq(s, 1, n) \in Seq(Sample)
         /\ Amount(SubSeq(s, 1, n)) = SumFunctionOnSet(AmountsIn(s), 1..n)
  <2> USE <1>FrontAmount
  <2>1. PICK u, L : u = SubSeq(s, 1, n) /\ L = Len(s)
    BY Zenon
  <2>2. L \in Nat /\ n \in Nat /\ n <= L
    BY <2>1
  <2>3. u \in Seq(Sample) /\ Len(u) = n /\ \A i \in 1..n : u[i] = s[i]
    BY <2>1, <2>2
  <2>4. \A i \in 1..n : i \in 1..L /\ i \in DOMAIN s /\ i \in DOMAIN u
    BY <2>1, <2>2, <2>3
  <2>5. \A i \in 1..n : AmountsIn(u)[i] = AmountsIn(s)[i]
    BY <2>3, <2>4, Zenon DEF AmountsIn
  <2>6. IsFiniteSet(1..n)
    BY <2>2, IntervalFinite
  <2>7. SumFunctionOnSet(AmountsIn(u), 1..n) = SumFunctionOnSet(AmountsIn(s), 1..n)
    BY <2>5, <2>6, SumSame, Zenon
  <2> QED
    BY <2>1, <2>3, <2>7, AmountIs, Zenon
\* The amounts of the others.
<1>BackAmount.
  ASSUME NEW s \in Seq(Sample), NEW n \in 0..Len(s)
  PROVE  /\ SubSeq(s, n + 1, Len(s)) \in Seq(Sample)
         /\ Amount(SubSeq(s, n + 1, Len(s))) = SumFunctionOnSet(AmountsIn(s), (n + 1)..Len(s))
  <2> USE <1>BackAmount
  <2>1. PICK u, L, m : /\ u = SubSeq(s, n + 1, Len(s)) /\ L = Len(s)
                       /\ m = [i \in 1..(L - n) |-> n + i]
    BY Zenon
  <2>2. L \in Nat /\ n \in Nat /\ n <= L /\ L - n \in Nat
    BY <2>1
  <2>3. u \in Seq(Sample) /\ Len(u) = L - n /\ \A i \in 1..(L - n) : u[i] = s[n + i]
    BY <2>1, <2>2
  <2>4. \A i \in 1..(L - n) : /\ m[i] = n + i /\ n + i \in (n + 1)..L /\ n + i \in 1..L
                              /\ n + i \in DOMAIN s /\ i \in DOMAIN u
    BY <2>1, <2>2, <2>3
  <2>5. \A i \in 1..(L - n) : AmountsIn(s)[m[i]] = AmountsIn(u)[i]
    BY <2>3, <2>4, Zenon DEF AmountsIn
  <2>6. \A y \in (n + 1)..L : \E i \in 1..(L - n) : y = m[i]
    <3> TAKE y \in (n + 1)..L
    <3>1. y - n \in 1..(L - n) /\ n + (y - n) = y
      BY <2>2
    <3> QED
      BY <2>4, <3>1, Zenon
  <2>7. \A i, j \in 1..(L - n) : m[i] = m[j] => i = j
    BY <2>2, <2>4
  <2>8. Renames(m, 1..(L - n), (n + 1)..L, AmountsIn(u), AmountsIn(s))
    BY <2>4, <2>5, <2>6, <2>7, Zenon DEF Renames
  <2>9. /\ IsFiniteSet(1..(L - n)) /\ AllNat(AmountsIn(u), 1..(L - n))
        /\ Amount(u) = SumFunctionOnSet(AmountsIn(u), 1..(L - n))
    BY <2>3, AmountIs, Zenon
  <2>10. SumFunctionOnSet(AmountsIn(s), (n + 1)..L) = SumFunctionOnSet(AmountsIn(u), 1..(L - n))
    <3>1. PICK S, T, f, g : /\ S = 1..(L - n) /\ T = (n + 1)..L
                            /\ f = AmountsIn(u) /\ g = AmountsIn(s)
      BY Zenon
    <3>2. IsFiniteSet(S) /\ AllNat(f, S) /\ Renames(m, S, T, f, g)
      BY <2>8, <2>9, <3>1, Zenon
    <3>3. SumFunctionOnSet(g, T) = SumFunctionOnSet(f, S)
      BY <3>2, SumRenamed
    <3> QED
      BY <3>1, <3>3, Zenon
  <2> QED
    BY <2>1, <2>3, <2>9, <2>10, Zenon
<1>1. PICK s, n, L, front, back : /\ s = w.samples /\ n = Popped(s, at) /\ L = Len(s)
                                  /\ front = SubSeq(s, 1, n) /\ back = SubSeq(s, n + 1, L)
  BY Zenon
<1>2. s \in Seq(Sample) /\ w.total = Amount(s)
  BY <1>1, Zenon DEF WindowExact
<1>3. n \in 0..L /\ L \in Nat
  BY <1>1, <1>2, PoppedIs, AmountIs, Zenon
<1>4. PICK f, S, T : f = AmountsIn(s) /\ S = 1..n /\ T = (n + 1)..L
  BY Zenon
<1>5. /\ back \in Seq(Sample)
      /\ Amount(front) = SumFunctionOnSet(f, S) /\ Amount(back) = SumFunctionOnSet(f, T)
  BY <1>1, <1>2, <1>3, <1>4, <1>FrontAmount, <1>BackAmount, Zenon
<1>6. Amount(s) = SumFunctionOnSet(f, 1..L) /\ AllNat(f, 1..L)
  BY <1>1, <1>2, <1>4, AmountIs, Zenon
<1>7. IsFiniteSet(S) /\ IsFiniteSet(T) /\ S \cap T = {} /\ 1..L = S \cup T
  <2>1. n \in Int /\ n + 1 \in Int /\ L \in Int /\ 1 \in Int
    BY <1>3
  <2>2. IsFiniteSet(1..n) /\ IsFiniteSet((n + 1)..L)
    BY <2>1, IntervalFinite, Zenon
  <2>3. (1..n) \cap ((n + 1)..L) = {} /\ 1..L = (1..n) \cup ((n + 1)..L)
    BY <1>3
  <2> QED
    BY <1>4, <2>2, <2>3, Zenon
<1>8. /\ SumFunctionOnSet(f, S \cup T) = SumFunctionOnSet(f, S) + SumFunctionOnSet(f, T)
      /\ SumFunctionOnSet(f, S) \in Nat /\ SumFunctionOnSet(f, T) \in Nat
  <2>1. AllNat(f, S \cup T) /\ AllNat(f, S) /\ AllNat(f, T)
    BY <1>6, <1>7, Zenon DEF AllNat
  <2> QED
    BY <1>7, <2>1, SumDisjoint, SumNat
<1>9. PICK a, b : a = SumFunctionOnSet(f, S) /\ b = SumFunctionOnSet(f, T)
  BY Zenon
<1>10. (a + b) - a = b
  BY <1>8, <1>9
<1>11. w.total - Amount(front) = b
  BY <1>2, <1>5, <1>6, <1>7, <1>8, <1>9, <1>10, Zenon
<1>12. Expire(w, at) = [samples |-> back, total |-> b]
  BY <1>1, <1>11, Zenon DEF Expire
<1>13. [samples |-> back, total |-> b].samples = back /\ [samples |-> back, total |-> b].total = b
  OBVIOUS
<1> QED
  BY <1>1, <1>4, <1>5, <1>9, <1>12, <1>13, Zenon DEF WindowExact

\* What is inside the window that ends at clock, by place in the deque.
RecentIn(s, clock) == [i \in DOMAIN s |-> IF s[i].at > clock - WindowNs THEN s[i].amount ELSE 0]

\* It is a part of the amounts.
LEMMA RecentIs ==
  ASSUME NEW clock \in Nat, NEW w, WindowExact(w)
  PROVE  /\ InWindow(w, clock) = SumFunctionOnSet(RecentIn(w.samples, clock), 1..Len(w.samples))
         /\ \A i \in 1..Len(w.samples) :
              /\ RecentIn(w.samples, clock)[i] \in Nat
              /\ RecentIn(w.samples, clock)[i] <= w.samples[i].amount
              /\ w.samples[i].at <= clock - WindowNs => RecentIn(w.samples, clock)[i] = 0
<1>1. PICK s, L : s = w.samples /\ L = Len(s)
  BY Zenon
<1>2. s \in Seq(Sample)
  BY <1>1, Zenon DEF WindowExact
<1>3. L \in Nat /\ DOMAIN s = 1..L
  BY <1>1, <1>2, AmountIs, Zenon
<1>4. DOMAIN RecentIn(s, clock) = 1..L
  BY <1>3, Zenon DEF RecentIn
<1>5. InWindow(w, clock) = SumFunctionOnSet(RecentIn(s, clock), 1..L)
  BY <1>1, <1>4, Zenon DEF InWindow, SumFunction, RecentIn
<1>6. ASSUME NEW i \in 1..L
      PROVE  /\ RecentIn(s, clock)[i] \in Nat
             /\ RecentIn(s, clock)[i] <= s[i].amount
             /\ s[i].at <= clock - WindowNs => RecentIn(s, clock)[i] = 0
  <2>1. s[i] \in Sample
    BY <1>1, <1>2
  <2>2. PICK a, x, r : a = s[i].at /\ x = s[i].amount /\ r = RecentIn(s, clock)[i]
    BY Zenon
  <2>3. a \in Nat /\ x \in Nat /\ WindowNs \in Nat
    BY <2>1, <2>2, WindowNsAssumption DEF Sample
  <2>4. r = IF a > clock - WindowNs THEN x ELSE 0
    BY <1>3, <2>2, Zenon DEF RecentIn
  <2>5. r \in Nat /\ r <= x /\ (a <= clock - WindowNs => r = 0)
    BY <2>3, <2>4
  <2> QED
    BY <2>2, <2>5, Zenon
<1> QED
  BY <1>1, <1>5, <1>6, Zenon

\* No more than the total is inside the window.
LEMMA RecentWithinTotal ==
  ASSUME NEW clock \in Nat, NEW w, WindowExact(w)
  PROVE  w.total >= InWindow(w, clock) /\ w.total \in Nat
<1>1. PICK s, S, f, h : /\ s = w.samples /\ S = 1..Len(s)
                        /\ f = AmountsIn(s) /\ h = RecentIn(s, clock)
  BY Zenon
<1>2. s \in Seq(Sample) /\ w.total = Amount(s)
  BY <1>1, Zenon DEF WindowExact
<1>3. /\ IsFiniteSet(S) /\ AllNat(f, S) /\ w.total = SumFunctionOnSet(f, S)
      /\ w.total \in Nat /\ S = DOMAIN s
  BY <1>1, <1>2, AmountIs, Zenon
<1>4. InWindow(w, clock) = SumFunctionOnSet(h, S) /\ AllNat(h, S) /\ \A i \in S : h[i] <= s[i].amount
  BY <1>1, RecentIs, Zenon DEF AllNat
<1>5. \A i \in S : h[i] <= f[i]
  BY <1>1, <1>3, <1>4, Zenon DEF AmountsIn
<1>6. SumFunctionOnSet(h, S) <= SumFunctionOnSet(f, S)
  BY <1>3, <1>4, <1>5, SumMonotone
<1>7. SumFunctionOnSet(h, S) \in Nat
  BY <1>3, <1>4, SumNat
<1>8. PICK x, y : x = SumFunctionOnSet(h, S) /\ y = SumFunctionOnSet(f, S)
  BY Zenon
<1>9. y >= x
  BY <1>3, <1>6, <1>7, <1>8
<1> QED
  BY <1>3, <1>4, <1>8, <1>9, Zenon

\* add keeps the total exact, and drops nothing that is still in the window.
LEMMA SampleAdded ==
  ASSUME NEW clock \in Nat, NEW w, WindowExact(w), NEW at \in Nat, at <= clock,
         NEW amount \in Int, w.total + amount <= MaxInt
  PROVE  /\ WindowExact(AddSample(w, at, amount))
         /\ AddSample(w, at, amount).total >= InWindow(w, clock)
\* A deque with one sample more.
<1>AppendedAmount.
  ASSUME NEW s \in Seq(Sample), NEW e \in Sample
  PROVE  /\ Append(s, e) \in Seq(Sample) /\ Len(Append(s, e)) = Len(s) + 1
         /\ \A i \in 1..Len(s) : Append(s, e)[i] = s[i]
         /\ Amount(Append(s, e)) = Amount(s) + e.amount
  <2> USE <1>AppendedAmount
  <2>1. PICK u, L : u = Append(s, e) /\ L = Len(s)
    BY Zenon
  <2>2. /\ L \in Nat /\ u \in Seq(Sample) /\ Len(u) = L + 1
        /\ \A i \in 1..L : u[i] = s[i]
        /\ u[L + 1] = e
    BY <2>1
  <2>3. /\ L \in 0..(L + 1) /\ L + 1 \in 1..(L + 1) /\ (L + 1)..(L + 1) = {L + 1}
        /\ 1..(L + 1) = 1..L \cup {L + 1} /\ (1..L) \cap {L + 1} = {}
        /\ e.amount \in Nat
    BY <2>2 DEF Sample
  <2>4. AmountsIn(u)[L + 1] = e.amount
    BY <2>2, <2>3, AmountIs, Zenon DEF AmountsIn
  <2>5. SumFunctionOnSet(AmountsIn(u), {L + 1}) = e.amount
    BY <2>3, <2>4, SumSingle, Zenon
  <2>6. SumFunctionOnSet(AmountsIn(u), 1..L) = Amount(s)
    <3>1. \A i \in 1..L : i \in DOMAIN u /\ i \in DOMAIN s
      BY <2>1, <2>2
    <3>2. \A i \in 1..L : AmountsIn(u)[i] = AmountsIn(s)[i]
      BY <2>2, <3>1, Zenon DEF AmountsIn
    <3>3. IsFiniteSet(1..L) /\ Amount(s) = SumFunctionOnSet(AmountsIn(s), 1..L)
      BY <2>1, AmountIs, Zenon
    <3> QED
      BY <3>2, <3>3, SumSame, Zenon
  <2>7. Amount(u) = SumFunctionOnSet(AmountsIn(u), 1..L) + SumFunctionOnSet(AmountsIn(u), {L + 1})
    <3>1. PICK f, S, T : f = AmountsIn(u) /\ S = 1..L /\ T = {L + 1}
      BY Zenon
    <3>2. AllNat(f, S \cup T) /\ Amount(u) = SumFunctionOnSet(f, S \cup T)
      BY <2>2, <2>3, <3>1, AmountIs, Zenon
    <3>3. IsFiniteSet(S) /\ IsFiniteSet(T) /\ S \cap T = {}
      <4>1. IsFiniteSet(1..L)
        BY <2>2, IntervalFinite
      <4> QED
        BY <2>3, <3>1, <4>1, SingletonFinite, Zenon
    <3>4. SumFunctionOnSet(f, S \cup T) = SumFunctionOnSet(f, S) + SumFunctionOnSet(f, T)
      BY <3>2, <3>3, SumDisjoint
    <3> QED
      BY <3>1, <3>2, <3>4, Zenon
  <2> QED
    BY <2>1, <2>2, <2>5, <2>6, <2>7, Zenon
<1>1. CASE amount < 0
  BY <1>1, RecentWithinTotal, Zenon DEF AddSample
<1>2. CASE ~(amount < 0)
  <2>1. PICK s, L, e, u, v : /\ s = w.samples /\ L = Len(s) /\ e = [at |-> at, amount |-> amount]
                             /\ u = Append(s, e)
                             /\ v = [samples |-> u, total |-> SatAdd(w.total, amount)]
    BY Zenon
  <2>2. AddSample(w, at, amount) = Expire(v, at)
    BY <1>2, <2>1, Zenon DEF AddSample
  <2>3. amount \in Nat
    BY <1>2
  <2>4. e \in Sample /\ e.amount = amount
    BY <2>1, <2>3 DEF Sample
  <2>5. s \in Seq(Sample) /\ w.total = Amount(s)
    BY <2>1, Zenon DEF WindowExact
  <2>6. /\ u \in Seq(Sample) /\ Len(u) = L + 1 /\ (\A i \in 1..L : u[i] = s[i])
        /\ Amount(u) = Amount(s) + amount
    BY <2>1, <2>4, <2>5, <1>AppendedAmount, Zenon
  <2>7. w.total \in Nat /\ L \in Nat
    BY <2>1, <2>5, AmountIs, Zenon
  <2>8. SatAdd(w.total, amount) = w.total + amount
    BY <2>3, <2>7, MaxIntAssumption DEF SatAdd, Lesser
  <2>9. v.samples = u /\ v.total = w.total + amount
    BY <2>1, <2>8
  <2>10. WindowExact(v)
    BY <2>1, <2>5, <2>6, <2>9, Zenon DEF WindowExact
  <2>11. PICK n : n = Popped(u, at)
    BY Zenon
  <2>12. /\ WindowExact(Expire(v, at))
         /\ Expire(v, at).total = SumFunctionOnSet(AmountsIn(u), (n + 1)..(L + 1))
    BY <2>6, <2>9, <2>10, <2>11, ExpireExact, Zenon
  <2>13. n \in 0..(L + 1) /\ \A i \in 1..n : u[i].at <= at - WindowNs
    BY <2>6, <2>11, PoppedIs, Zenon
  <2>14. PICK S, R, T, f, h : /\ S = 1..L /\ R = {i \in S : i <= n} /\ T = (n + 1)..(L + 1)
                              /\ f = AmountsIn(u) /\ h = RecentIn(s, clock)
    BY Zenon
  <2>15. /\ InWindow(w, clock) = SumFunctionOnSet(h, S) /\ AllNat(h, S)
         /\ \A i \in S : h[i] <= s[i].amount
         /\ \A i \in S : s[i].at <= clock - WindowNs => h[i] = 0
    BY <2>1, <2>14, RecentIs, Zenon DEF AllNat
  <2>16. AllNat(f, 1..(L + 1)) /\ IsFiniteSet(1..(L + 1)) /\ DOMAIN u = 1..(L + 1)
    BY <2>6, <2>14, AmountIs, Zenon
  <2>17. /\ S \subseteq 1..(L + 1) /\ T \subseteq 1..(L + 1) /\ R \subseteq S
         /\ S \ R \subseteq T /\ R \cap (S \ R) = {} /\ R \cup (S \ R) = S
         /\ R \subseteq 1..n
    BY <2>7, <2>13, <2>14
  <2>18. IsFiniteSet(S) /\ IsFiniteSet(T) /\ IsFiniteSet(R) /\ IsFiniteSet(S \ R)
    <3>1. IsFiniteSet(S) /\ IsFiniteSet(T)
      BY <2>16, <2>17, SubsetFinite, Zenon
    <3>2. S \ R \subseteq S
      BY Zenon
    <3> QED
      BY <2>17, <3>1, <3>2, SubsetFinite, Zenon
  <2>19. AllNat(f, T) /\ AllNat(f, S \ R) /\ AllNat(h, S \ R) /\ AllNat(h, R)
    BY <2>15, <2>16, <2>17, Zenon DEF AllNat
  <2>20. \A i \in S \ R : h[i] <= f[i]
    <3> SUFFICES ASSUME NEW i \in S \ R PROVE h[i] <= f[i]
      BY Zenon
    <3>1. f[i] = u[i].amount /\ u[i] = s[i]
      BY <2>6, <2>14, <2>16, <2>17, Zenon DEF AmountsIn
    <3> QED
      BY <2>15, <3>1, Zenon
  <2>21. \A i \in R : h[i] = 0
    <3> SUFFICES ASSUME NEW i \in R PROVE h[i] = 0
      BY Zenon
    <3>1. i \in S /\ i \in 1..n /\ u[i] = s[i]
      BY <2>6, <2>14, <2>17, Zenon
    <3>2. s[i].at <= at - WindowNs
      BY <2>13, <3>1, Zenon
    <3>3. s[i].at \in Nat /\ WindowNs \in Nat
      <4>1. s[i] \in Sample
        BY <2>1, <2>5, <2>14, <3>1
      <4> QED
        BY <4>1, WindowNsAssumption DEF Sample
    <3>4. s[i].at <= clock - WindowNs
      BY <3>2, <3>3
    <3> QED
      BY <2>15, <3>1, <3>4, Zenon
  <2>22. SumFunctionOnSet(h, R) = 0
    BY <2>18, <2>21, SumZero, Zenon
  <2>23. SumFunctionOnSet(h, S) = SumFunctionOnSet(h, R) + SumFunctionOnSet(h, S \ R)
    BY <2>15, <2>17, <2>18, SumDisjoint
  <2>24. SumFunctionOnSet(h, S \ R) <= SumFunctionOnSet(f, S \ R)
    BY <2>18, <2>19, <2>20, SumMonotone
  <2>25. SumFunctionOnSet(f, S \ R) <= SumFunctionOnSet(f, T)
    BY <2>17, <2>18, <2>19, SumPart, Zenon
  <2>26. PICK a, b, c : /\ a = SumFunctionOnSet(h, S \ R) /\ b = SumFunctionOnSet(f, S \ R)
                        /\ c = SumFunctionOnSet(f, T)
    BY Zenon
  <2>27. a \in Nat /\ b \in Nat /\ c \in Nat
    BY <2>18, <2>19, <2>26, SumNat, Zenon
  <2>28. a <= b /\ b <= c /\ InWindow(w, clock) = 0 + a
    BY <2>15, <2>22, <2>23, <2>24, <2>25, <2>26, Zenon
  <2>29. c >= InWindow(w, clock)
    BY <2>27, <2>28
  <2> QED
    BY <2>2, <2>12, <2>14, <2>26, <2>29, Zenon
<1> QED
  BY <1>1, <1>2, Zenon

===============================================================================
