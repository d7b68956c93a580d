----------------------------- MODULE EngineProofs -----------------------------
(***************************************************************************)
(* The inductive invariant of the quota engine's records, for any tenants, *)
(* quotas, requests and bounds.                                            *)
(***************************************************************************)
EXTENDS EngineProperties, TLAPS

(***************************************************************************)
(* The two ways in which the engine changes its loan records, appending    *)
(* loans and returning a set of them, keep the two sides of the book in    *)
(* agreement.                                                              *)
(***************************************************************************)
\* A function on 1..n is a sequence of length n.
LEMMA FunctionIsSequence ==
  ASSUME NEW s, NEW n \in Nat, s = [i \in 1..n |-> s[i]]
  PROVE  IsSequence(s) /\ Len(s) = n /\ DOMAIN s = 1..n
<1>1. s \in [1..n -> Range(s)]
  BY DEF Range
<1> QED
  BY <1>1 DEF IsSequence

\* What a sequence is: a function on 1..Len(s).
LEMMA SeqIsFunction ==
  ASSUME NEW T, NEW s \in Seq(T)
  PROVE  Len(s) \in Nat /\ DOMAIN s = 1..Len(s) /\ s = [i \in 1..Len(s) |-> s[i]]
OBVIOUS

\* The same, of a sequence over any set.
LEMMA SequenceIsFunction ==
  ASSUME NEW s, IsSequence(s)
  PROVE  Len(s) \in Nat /\ DOMAIN s = 1..Len(s) /\ s = [i \in 1..Len(s) |-> s[i]]
BY SeqIsFunction DEF IsSequence

\* w has the elements of s and then those of u.
Joins(w, s, u) ==
  /\ IsSequence(w)
  /\ Len(w) = Len(s) + Len(u)
  /\ \A i \in 1..Len(s) : w[i] = s[i]
  /\ \A i \in 1..Len(u) : w[Len(s) + i] = u[i]

\* The elements of a concatenation.
LEMMA ConcatIsSequence ==
  ASSUME NEW s, IsSequence(s), NEW u, IsSequence(u), NEW w, w = s \o u
  PROVE  Joins(w, s, u)
<1> DEFINE S == Range(s) \cup Range(u)
<1>1. s \in Seq(S) /\ u \in Seq(S)
  BY DEF IsSequence
<1>2. /\ w \in Seq(S)
      /\ Len(w) = Len(s) + Len(u)
      /\ \A i \in 1..(Len(s) + Len(u)) :
           w[i] = IF i <= Len(s) THEN s[i] ELSE u[i - Len(s)]
  BY <1>1
<1>3. Len(s) \in Nat /\ Len(u) \in Nat
  BY <1>1
<1> HIDE DEF S
<1>4. IsSequence(w)
  <2>1. w = [i \in 1..Len(w) |-> w[i]] /\ Len(w) \in Nat
    BY <1>2, SeqIsFunction, Zenon
  <2> QED
    BY <2>1, FunctionIsSequence, Zenon
<1>5. \A i \in 1..Len(u) : w[Len(s) + i] = u[i]
  <2> TAKE i \in 1..Len(u)
  <2>1. /\ Len(s) + i \in 1..(Len(s) + Len(u)) /\ ~(Len(s) + i <= Len(s))
        /\ (Len(s) + i) - Len(s) = i
    BY <1>3
  <2> QED
    BY <2>1, <1>2
<1>6. \A i \in 1..Len(s) : w[i] = s[i]
  <2> TAKE i \in 1..Len(s)
  <2>1. i \in 1..(Len(s) + Len(u)) /\ i <= Len(s)
    BY <1>3
  <2> QED
    BY <2>1, <1>2
<1> QED
  BY <1>2, <1>4, <1>5, <1>6, Zenon DEF Joins

\* What Append does to a sequence.
LEMMA AppendIsSequence ==
  ASSUME NEW s, IsSequence(s), NEW x
  PROVE  /\ IsSequence(Append(s, x))
         /\ DOMAIN Append(s, x) = 1..(Len(s) + 1)
         /\ \A i \in 1..Len(s) : Append(s, x)[i] = s[i]
         /\ Append(s, x)[Len(s) + 1] = x
<1> DEFINE S == Range(s) \cup {x}
           w == Append(s, x)
<1>1. s \in Seq(S) /\ x \in S
  BY DEF IsSequence
<1>2. /\ w \in Seq(S)
      /\ Len(w) = Len(s) + 1
      /\ \A i \in 1..Len(s) : w[i] = s[i]
      /\ w[Len(s) + 1] = x
  BY <1>1
<1> HIDE DEF S, w
<1>3. w = [i \in 1..Len(w) |-> w[i]] /\ Len(w) \in Nat
  BY <1>2, SeqIsFunction
<1>4. IsSequence(w) /\ DOMAIN w = 1..Len(w)
  BY <1>3, FunctionIsSequence
<1> QED
  BY <1>2, <1>4 DEF w

-----------------------------------------------------------------------------
\* nl and nb are the two sides of n loans to t that GrowLedger can append.
LoansFit(t, n, nl, nb, returned) ==
  /\ nl = [i \in 1..n |-> nl[i]]
  /\ nb = [i \in 1..n |-> nb[i]]
  /\ \A i \in 1..n :
       /\ nb[i].lending = Len(lends) + i
       /\ Agree(nb[i], nl[i])
       /\ DOMAIN nl[i] = LendFields
       /\ DOMAIN nb[i] = BorrowFields
       /\ nb[i].borrower = t
       /\ nb[i].lender \in Tenant
       /\ nb[i].recalled = returned

\* The step appends n loans to t, all open or all returned.
LoansAdded(t, n, returned) ==
  /\ LedgerTyped' /\ LedgerConserved'
  /\ Len(borrows) \in Nat
  /\ DOMAIN borrows = 1..Len(borrows)
  /\ Len(borrows') = Len(borrows) + n
  /\ DOMAIN borrows' = 1..(Len(borrows) + n)
  /\ \A b \in DOMAIN borrows :
       /\ borrows'[b] = borrows[b]
       /\ lends'[borrows[b].lending] = lends[borrows[b].lending]
  /\ \A i \in 1..n :
       /\ borrows'[Len(borrows) + i].borrower = t
       /\ borrows'[Len(borrows) + i].recalled = returned

(***************************************************************************)
(* Appending n loans whose two sides agree (borrow_impl) keeps the book    *)
(* typed and in agreement, and leaves every earlier loan as it was.        *)
(***************************************************************************)
LEMMA GrowLedger ==
  ASSUME LedgerTyped, LedgerConserved,
         NEW t \in Tenant, NEW n \in Nat, NEW nl, NEW nb, NEW returned \in BOOLEAN,
         LoansFit(t, n, nl, nb, returned),
         lends' = lends \o nl,
         borrows' = borrows \o nb
  PROVE  LoansAdded(t, n, returned)
<1>0. /\ nl = [i \in 1..n |-> nl[i]]
      /\ nb = [i \in 1..n |-> nb[i]]
      /\ \A i \in 1..n : /\ nb[i].lending = Len(lends) + i
                         /\ Agree(nb[i], nl[i])
                         /\ DOMAIN nl[i] = LendFields
                         /\ DOMAIN nb[i] = BorrowFields
                         /\ nb[i].borrower = t
                         /\ nb[i].lender \in Tenant
                         /\ nb[i].recalled = returned
  BY DEF LoansFit
<1> DEFINE L == Len(lends)
           M == Len(borrows)
<1>1. /\ IsSequence(lends) /\ IsSequence(borrows)
      /\ L \in Nat /\ DOMAIN lends = 1..L
      /\ M \in Nat /\ DOMAIN borrows = 1..M
  BY SequenceIsFunction DEF LedgerTyped
<1>2. /\ IsSequence(nl) /\ Len(nl) = n
      /\ IsSequence(nb) /\ Len(nb) = n
  BY <1>0, FunctionIsSequence
<1>3. /\ IsSequence(lends') /\ Len(lends') = L + n
      /\ \A l \in 1..L : lends'[l] = lends[l]
      /\ \A i \in 1..n : lends'[L + i] = nl[i]
  <2>1. Joins(lends', lends, nl)
    BY <1>1, <1>2, ConcatIsSequence, Zenon
  <2> QED
    BY <1>2, <2>1, Zenon DEF Joins
<1>4. /\ IsSequence(borrows') /\ Len(borrows') = M + n
      /\ \A b \in 1..M : borrows'[b] = borrows[b]
      /\ \A i \in 1..n : borrows'[M + i] = nb[i]
  <2>1. Joins(borrows', borrows, nb)
    BY <1>1, <1>2, ConcatIsSequence, Zenon
  <2> QED
    BY <1>2, <2>1, Zenon DEF Joins
<1>5. DOMAIN lends' = 1..(L + n) /\ DOMAIN borrows' = 1..(M + n)
  BY <1>3, <1>4, SequenceIsFunction
<1> HIDE DEF L, M
<1>6. \A b \in 1..(M + n) : b \in 1..M \/ \E i \in 1..n : b = M + i
  <2> SUFFICES ASSUME NEW b \in 1..(M + n), b \notin 1..M
               PROVE  \E i \in 1..n : b = M + i
    OBVIOUS
  <2>1. b - M \in 1..n /\ b = M + (b - M)
    BY <1>1
  <2> QED
    BY <2>1
<1>7. \A l \in 1..(L + n) : l \in 1..L \/ \E i \in 1..n : l = L + i
  <2> SUFFICES ASSUME NEW l \in 1..(L + n), l \notin 1..L
               PROVE  \E i \in 1..n : l = L + i
    OBVIOUS
  <2>1. l - L \in 1..n /\ l = L + (l - L)
    BY <1>1
  <2> QED
    BY <2>1
<1>8. \A b \in 1..M : borrows[b].lending \in 1..L
  BY <1>1 DEF LedgerTyped
<1>9. \A i \in 1..n : nb[i].lending = L + i /\ L + i \in 1..(L + n) /\ L + i \notin 1..L
  BY <1>0, <1>1 DEF L
<1>10. 1..L \subseteq 1..(L + n)
  BY <1>1
<1>11. LedgerTyped'
  <2>1. \A l \in DOMAIN lends' : /\ DOMAIN lends'[l] = LendFields
                                 /\ lends'[l].lender \in Tenant
                                 /\ lends'[l].borrower \in Tenant
    <3> SUFFICES ASSUME NEW l \in 1..(L + n)
                 PROVE  /\ DOMAIN lends'[l] = LendFields
                        /\ lends'[l].lender \in Tenant
                        /\ lends'[l].borrower \in Tenant
      BY <1>5, Zenon
    <3>1. CASE l \in 1..L
      BY <3>1, <1>1, <1>3, Zenon DEF LedgerTyped
    <3>2. CASE l \notin 1..L
      <4>1. PICK i \in 1..n : l = L + i
        BY <3>2, <1>7
      <4>2. lends'[l] = nl[i] /\ Agree(nb[i], nl[i])
        BY <4>1, <1>0, <1>3, Zenon
      <4> QED
        BY <4>2, <1>0 DEF Agree
    <3> QED
      BY <3>1, <3>2, Zenon
  <2>2. \A b \in DOMAIN borrows' :
          /\ DOMAIN borrows'[b] = BorrowFields
          /\ borrows'[b].borrower \in Tenant /\ borrows'[b].lender \in Tenant
          /\ borrows'[b].lending \in DOMAIN lends'
          /\ borrows'[b].recalled \in BOOLEAN
    <3> SUFFICES ASSUME NEW b \in 1..(M + n)
                 PROVE  /\ DOMAIN borrows'[b] = BorrowFields
                        /\ borrows'[b].borrower \in Tenant /\ borrows'[b].lender \in Tenant
                        /\ borrows'[b].lending \in DOMAIN lends'
                        /\ borrows'[b].recalled \in BOOLEAN
      BY <1>5, Zenon
    <3>1. CASE b \in 1..M
      BY <3>1, <1>1, <1>4, <1>5, <1>8, <1>10 DEF LedgerTyped
    <3>2. CASE b \notin 1..M
      <4>1. PICK i \in 1..n : b = M + i
        BY <3>2, <1>6
      <4>2. borrows'[b] = nb[i] /\ nb[i].lending \in DOMAIN lends'
        BY <4>1, <1>4, <1>5, <1>9, Zenon
      <4>3. /\ DOMAIN nb[i] = BorrowFields /\ nb[i].borrower \in Tenant
            /\ nb[i].lender \in Tenant /\ nb[i].recalled \in BOOLEAN
        BY <1>0, Zenon
      <4> QED
        BY <4>2, <4>3, Zenon
    <3> QED
      BY <3>1, <3>2, Zenon
  <2> QED
    BY <1>3, <1>4, <2>1, <2>2, Zenon DEF LedgerTyped
<1>12. \A b \in DOMAIN borrows' : Agree(borrows'[b], lends'[borrows'[b].lending])
  <2> SUFFICES ASSUME NEW b \in 1..(M + n)
               PROVE  Agree(borrows'[b], lends'[borrows'[b].lending])
    BY <1>5, Zenon
  <2>1. CASE b \in 1..M
    <3>1. borrows'[b] = borrows[b] /\ lends'[borrows[b].lending] = lends[borrows[b].lending]
      BY <2>1, <1>3, <1>4, <1>8, Zenon
    <3>2. Agree(borrows[b], lends[borrows[b].lending])
      BY <2>1, <1>1, Zenon DEF LedgerConserved
    <3> QED
      BY <3>1, <3>2, Zenon
  <2>2. CASE b \notin 1..M
    <3>1. PICK i \in 1..n : b = M + i
      BY <2>2, <1>6
    <3>2. borrows'[b] = nb[i] /\ lends'[nb[i].lending] = nl[i]
      BY <3>1, <1>3, <1>4, <1>9, Zenon
    <3> QED
      BY <3>2, <1>0
  <2> QED
    BY <2>1, <2>2, Zenon
<1>13. \A b, c \in DOMAIN borrows' : borrows'[b].lending = borrows'[c].lending => b = c
  <2> SUFFICES ASSUME NEW b \in 1..(M + n), NEW c \in 1..(M + n),
                      borrows'[b].lending = borrows'[c].lending
               PROVE  b = c
    BY <1>5, Zenon
  <2>1. CASE b \in 1..M /\ c \in 1..M
    BY <2>1, <1>1, <1>4, Zenon DEF LedgerConserved
  <2>2. CASE b \notin 1..M /\ c \notin 1..M
    <3>1. PICK i \in 1..n : b = M + i
      BY <2>2, <1>6
    <3>2. PICK j \in 1..n : c = M + j
      BY <2>2, <1>6
    <3>3. L + i = L + j
      BY <3>1, <3>2, <1>4, <1>9, Zenon
    <3> QED
      BY <3>1, <3>2, <3>3, <1>1
  <2>3. CASE b \in 1..M /\ c \notin 1..M
    <3>1. PICK i \in 1..n : c = M + i
      BY <2>3, <1>6
    <3>2. borrows'[c].lending = L + i /\ borrows'[b].lending \in 1..L
      BY <2>3, <3>1, <1>4, <1>8, <1>9, Zenon
    <3> QED
      BY <3>2, <1>9
  <2>4. CASE b \notin 1..M /\ c \in 1..M
    <3>1. PICK i \in 1..n : b = M + i
      BY <2>4, <1>6
    <3>2. borrows'[b].lending = L + i /\ borrows'[c].lending \in 1..L
      BY <2>4, <3>1, <1>4, <1>8, <1>9, Zenon
    <3> QED
      BY <3>2, <1>9
  <2> QED
    BY <2>1, <2>2, <2>3, <2>4
<1>14. LedgerConserved'
  BY <1>12, <1>13, Zenon DEF LedgerConserved
<1>15. \A b \in 1..M : /\ borrows'[b] = borrows[b]
                       /\ lends'[borrows[b].lending] = lends[borrows[b].lending]
  BY <1>3, <1>4, <1>8, Zenon
<1>16. \A i \in 1..n : borrows'[M + i].borrower = t /\ borrows'[M + i].recalled = returned
  BY <1>0, <1>4, Zenon
<1> QED
  BY <1>1, <1>4, <1>5, <1>11, <1>14, <1>15, <1>16, Zenon DEF M, LoansAdded

(***************************************************************************)
(* Returning a set B of borrows (return_borrow) lowers both sides of every *)
(* loan of B that is still open, and touches no other.                     *)
(***************************************************************************)
LEMMA ReturnLedger ==
  ASSUME LedgerTyped, LedgerConserved,
         NEW B \in SUBSET DOMAIN borrows,
         borrows' = ReturnedBorrows(B),
         lends' = ReturnedLends(B)
  PROVE  /\ LedgerTyped'
         /\ LedgerConserved'
         /\ Len(borrows') = Len(borrows)
         /\ DOMAIN borrows' = DOMAIN borrows
         /\ \A b \in DOMAIN borrows :
              /\ borrows'[b].borrower = borrows[b].borrower
              /\ borrows'[b].lending = borrows[b].lending
              /\ lends'[borrows[b].lending].lender = lends[borrows[b].lending].lender
              /\ lends'[borrows[b].lending].amount = lends[borrows[b].lending].amount
              /\ borrows'[b].recalled = (borrows[b].recalled \/ b \in B)
<1> DEFINE M == Len(borrows)
           L == Len(lends)
           R == Returning(B)
<1>1. /\ M \in Nat /\ DOMAIN borrows = 1..M
      /\ L \in Nat /\ DOMAIN lends = 1..L
  BY SequenceIsFunction DEF LedgerTyped
<1>2. borrows' = [b \in 1..M |-> borrows'[b]] /\ lends' = [l \in 1..L |-> lends'[l]]
  BY <1>1, Zenon DEF ReturnedBorrows, ReturnedLends
<1>3. /\ IsSequence(borrows') /\ Len(borrows') = M /\ DOMAIN borrows' = 1..M
      /\ IsSequence(lends') /\ Len(lends') = L /\ DOMAIN lends' = 1..L
  BY <1>1, <1>2, FunctionIsSequence, Zenon
<1>4. \A b \in 1..M :
        borrows'[b] = IF b \in R
                      THEN [borrows[b] EXCEPT !.consumed = Sub(@, @), !.recalled = TRUE]
                      ELSE borrows[b]
  BY <1>1, Zenon DEF ReturnedBorrows
<1>5. \A b \in R : b \in 1..M /\ b \in B /\ ~borrows[b].recalled
  BY <1>1 DEF Returning
<1>6. \A b \in 1..M : borrows[b].lending \in 1..L
  BY <1>1 DEF LedgerTyped
<1>7. \A b \in 1..M :
        lends'[borrows[b].lending] =
          IF b \in R
          THEN [lends[borrows[b].lending] EXCEPT !.outstanding = Sub(@, borrows[b].consumed)]
          ELSE lends[borrows[b].lending]
  <2> SUFFICES ASSUME NEW b \in 1..M
               PROVE  lends'[borrows[b].lending] =
                        IF b \in R
                        THEN [lends[borrows[b].lending] EXCEPT
                                !.outstanding = Sub(@, borrows[b].consumed)]
                        ELSE lends[borrows[b].lending]
    OBVIOUS
  <2>1. \A c \in R : borrows[c].lending = borrows[b].lending => c = b
    BY <1>1, <1>5 DEF LedgerConserved
  <2>2. CASE b \in R
    <3>1. (CHOOSE c \in R : borrows[c].lending = borrows[b].lending) = b
      BY <2>1, <2>2
    <3> QED
      BY <2>2, <3>1, <1>1, <1>6, Zenon DEF ReturnedLends
  <2>3. CASE b \notin R
    BY <2>1, <2>3, <1>1, <1>6, Zenon DEF ReturnedLends
  <2> QED
    BY <2>2, <2>3
<1> HIDE DEF M, L, R
<1>8. \A b \in 1..M :
        /\ DOMAIN borrows'[b] = BorrowFields
        /\ borrows'[b].borrower = borrows[b].borrower
        /\ borrows'[b].lender = borrows[b].lender
        /\ borrows'[b].lending = borrows[b].lending
        /\ borrows'[b].amount = borrows[b].amount
        /\ borrows'[b].consumed = IF b \in R THEN Sub(borrows[b].consumed, borrows[b].consumed)
                                             ELSE borrows[b].consumed
        /\ borrows'[b].recalled = (borrows[b].recalled \/ b \in R)
  <2> SUFFICES ASSUME NEW b \in 1..M
               PROVE  /\ DOMAIN borrows'[b] = BorrowFields
                      /\ borrows'[b].borrower = borrows[b].borrower
                      /\ borrows'[b].lender = borrows[b].lender
                      /\ borrows'[b].lending = borrows[b].lending
                      /\ borrows'[b].amount = borrows[b].amount
                      /\ borrows'[b].consumed = IF b \in R
                                                THEN Sub(borrows[b].consumed, borrows[b].consumed)
                                                ELSE borrows[b].consumed
                      /\ borrows'[b].recalled = (borrows[b].recalled \/ b \in R)
    OBVIOUS
  <2>1. DOMAIN borrows[b] = BorrowFields /\ borrows[b].recalled \in BOOLEAN
    BY <1>1 DEF LedgerTyped
  <2>2. CASE b \in R
    BY <2>1, <2>2, <1>4, Zenon DEF BorrowFields
  <2>3. CASE b \notin R
    BY <2>1, <2>3, <1>4, Zenon
  <2> QED
    BY <2>2, <2>3
<1>9. \A l \in 1..L :
        /\ DOMAIN lends'[l] = LendFields
        /\ lends'[l].lender = lends[l].lender
        /\ lends'[l].borrower = lends[l].borrower
        /\ lends'[l].amount = lends[l].amount
  BY <1>1 DEF ReturnedLends, LedgerTyped, LendFields
<1>10. \A b \in 1..M :
         lends'[borrows[b].lending].outstanding =
           IF b \in R THEN Sub(lends[borrows[b].lending].outstanding, borrows[b].consumed)
                      ELSE lends[borrows[b].lending].outstanding
  BY <1>1, <1>6, <1>7, Zenon DEF LedgerTyped, LendFields
<1>11. LedgerTyped'
  <2>1. \A l \in 1..L : lends[l].lender \in Tenant /\ lends[l].borrower \in Tenant
    BY <1>1 DEF LedgerTyped
  <2>2. \A b \in 1..M : /\ borrows[b].borrower \in Tenant
                        /\ borrows[b].lender \in Tenant
                        /\ borrows'[b].recalled \in BOOLEAN
    BY <1>1, <1>8, Zenon DEF LedgerTyped
  <2> QED
    BY <2>1, <2>2, <1>3, <1>6, <1>8, <1>9 DEF LedgerTyped
<1>12. \A b \in 1..M : Agree(borrows'[b], lends'[borrows'[b].lending])
  <2> SUFFICES ASSUME NEW b \in 1..M
               PROVE  Agree(borrows'[b], lends'[borrows[b].lending])
    BY <1>8
  <2>1. Agree(borrows[b], lends[borrows[b].lending])
    BY <1>1 DEF LedgerConserved
  <2>2. CASE b \in R
    <3>1. borrows[b].consumed = borrows[b].amount
      BY <2>1, <2>2, <1>5 DEF Agree
    <3>2. lends[borrows[b].lending].outstanding = borrows[b].amount
      BY <2>1, <3>1 DEF Agree
    <3>3. borrows'[b].recalled
      BY <2>2, <1>8, Zenon
    <3>4. borrows'[b].consumed = Sub(borrows'[b].amount, borrows'[b].amount)
      BY <2>2, <3>1, <1>8
    <3>5. lends'[borrows[b].lending].outstanding = borrows'[b].consumed
      BY <2>2, <3>1, <3>2, <1>8, <1>10
    <3>6. /\ borrows'[b].lender = borrows[b].lender
          /\ borrows'[b].borrower = borrows[b].borrower
          /\ borrows'[b].amount = borrows[b].amount
      BY <1>8
    <3>7. LET l == borrows[b].lending
          IN  /\ lends'[l].lender = lends[l].lender
              /\ lends'[l].borrower = lends[l].borrower
              /\ lends'[l].amount = lends[l].amount
      BY <1>6, <1>9
    <3> QED
      BY <2>1, <3>3, <3>4, <3>5, <3>6, <3>7, Zenon DEF Agree
  <2>3. CASE b \notin R
    BY <2>1, <2>3, <1>4, <1>7, Zenon
  <2> QED
    BY <2>2, <2>3
<1>13. LedgerConserved'
  BY <1>1, <1>3, <1>8, <1>12 DEF LedgerConserved
<1>14. \A b \in 1..M : borrows'[b].recalled = (borrows[b].recalled \/ b \in B)
  BY <1>1, <1>8 DEF R, Returning
<1> QED
  BY <1>1, <1>3, <1>6, <1>8, <1>9, <1>11, <1>13, <1>14, Zenon DEF M

-----------------------------------------------------------------------------
(***************************************************************************)
(* The loans of a run of borrow_impl calls are ones GrowLedger can append: *)
(* open, or returned at once by a rollback.                                *)
(***************************************************************************)
LEMMA OpenLoansAgree ==
  ASSUME NEW t \in Tenant, NEW n \in Nat, NEW need, need = [i \in 1..n |-> need[i]],
         NEW from \in [1..n -> Tenant], \A i \in 1..n : from[i] # t
  PROVE  LoansFit(t, n, NewLends(t, need, from), NewBorrows(t, need, from), FALSE)
<1>1. Len(need) = n
  BY FunctionIsSequence
<1> QED
  BY <1>1 DEF LoansFit, NewLends, NewBorrows, Agree, LendFields, BorrowFields

\* The loans a rolled-back reservation leaves behind are settled on both sides.
LEMMA ReturnedLoansAgree ==
  ASSUME NEW t \in Tenant, NEW n \in Nat, NEW need, need = [i \in 1..n |-> need[i]],
         NEW from \in [1..n -> Tenant], \A i \in 1..n : from[i] # t
  PROVE  LoansFit(t, n, CancelledLends(t, need, from), CancelledBorrows(t, need, from), TRUE)
<1>1. Len(need) = n
  BY FunctionIsSequence
<1> DEFINE nl == CancelledLends(t, need, from)
           nb == CancelledBorrows(t, need, from)
<1>2. nl = [i \in 1..n |-> [lender |-> from[i], borrower |-> t, amount |-> need[i],
                            outstanding |-> Sub(need[i], need[i])]]
  BY <1>1 DEF CancelledLends, NewLends
<1>3. /\ nb = [i \in 1..n |-> nb[i]]
      /\ \A i \in 1..n :
           /\ DOMAIN nb[i] = BorrowFields
           /\ nb[i].borrower = t /\ nb[i].lender = from[i]
           /\ nb[i].lending = Len(lends) + i
           /\ nb[i].amount = need[i] /\ nb[i].consumed = Sub(need[i], need[i])
           /\ nb[i].recalled = TRUE
  <2>1. nb = [i \in 1..n |->
                [[borrower |-> t, lender |-> from[i], lending |-> Len(lends) + i,
                  amount |-> need[i], consumed |-> need[i], recalled |-> FALSE]
                 EXCEPT !.consumed = Sub(@, @), !.recalled = TRUE]]
    BY <1>1 DEF CancelledBorrows, NewBorrows
  <2> HIDE DEF nb
  <2>2. \A i \in 1..n : DOMAIN nb[i] = BorrowFields
    BY <2>1, Zenon DEF BorrowFields
  <2>3. \A i \in 1..n : /\ nb[i].borrower = t /\ nb[i].lender = from[i]
                        /\ nb[i].lending = Len(lends) + i
    BY <2>1, Zenon
  <2>4. \A i \in 1..n : /\ nb[i].amount = need[i]
                        /\ nb[i].consumed = Sub(need[i], need[i])
                        /\ nb[i].recalled = TRUE
    BY <2>1, Zenon
  <2>5. nb = [i \in 1..n |-> nb[i]]
    BY <2>1, Zenon
  <2> QED
    BY <2>2, <2>3, <2>4, <2>5
<1> HIDE DEF nl, nb
<1>4. LoansFit(t, n, nl, nb, TRUE)
  <2>1. nl = [i \in 1..n |-> nl[i]]
    BY <1>2
  <2>2. \A i \in 1..n : DOMAIN nl[i] = LendFields
    BY <1>2 DEF LendFields
  <2>3. \A i \in 1..n : Agree(nb[i], nl[i])
    BY <1>2, <1>3 DEF Agree
  <2> QED
    BY <1>3, <2>1, <2>2, <2>3 DEF LoansFit
<1> QED
  BY <1>4, Zenon DEF nl, nb

-----------------------------------------------------------------------------
\* The records do not change.
LEMMA RecordsStutter ==
  ASSUME Records, UNCHANGED <<resVars, allocations, ledgerVars>>
  PROVE  Records'
BY DEF Records, resVars, ledgerVars, LedgerTyped, ReservationsTyped, AllocationsTyped,
       LedgerConserved, FundingSound, AllocationsLive

-----------------------------------------------------------------------------
\* The frame of the calls that may borrow.
BorrowFrame == UNCHANGED <<authVars, quotaVars, windows, allocations, now>>

\* borrow_impl, as borrow and lend call it.
LEMMA OpenLoanAdds ==
  ASSUME Records, NEW t \in Tenant, NEW amount, NEW from \in Tenant,
         OpenLoan(t, amount, from)
  PROVE  LoansAdded(t, 1, FALSE)
<1> DEFINE need == <<amount>>
           lender == <<from>>
           nl == NewLends(t, need, lender)
           nb == NewBorrows(t, need, lender)
<1>1. need = [i \in 1..1 |-> need[i]] /\ lender \in [1..1 -> Tenant]
  OBVIOUS
<1>2. \A i \in 1..1 : lender[i] # t
  BY DEF OpenLoan, CanLend
<1>3. lends' = lends \o nl /\ borrows' = borrows \o nb
  BY DEF OpenLoan
<1> HIDE DEF need, lender
<1>4. LoansFit(t, 1, nl, nb, FALSE)
  BY <1>1, <1>2, OpenLoansAgree, Zenon
<1> HIDE DEF nl, nb
<1> QED
  BY <1>3, <1>4, GrowLedger, Zenon DEF Records

\* reserve borrows what it needs and adds one reservation, backed by that.
LEMMA ReserveAdds ==
  ASSUME Records, NEW t \in Tenant, NEW req \in Requests, NEW auth,
         Reserve(t, req, auth)
  PROVE  \E n \in Nat :
           /\ LoansAdded(t, n, FALSE)
           /\ AddReservation(t, req, BurstOf(t, req), {Len(borrows) + i : i \in 1..n})
           /\ BorrowFrame
           /\ DOMAIN usage' = Tenant
<1>2. PICK n, dims : n \in 0..MaxBorrows /\
        \E from \in [1..n -> Tenant] :
          LET need == Excesses(t, req, dims, n)
              burst == BurstOf(t, req)
          IN  /\ \A i \in 1..n : CanLend(from[i], t, need[i])
              /\ lends' = lends \o NewLends(t, need, from)
              /\ borrows' = borrows \o NewBorrows(t, need, from)
              /\ AddReservation(t, req, burst, {Len(borrows) + i : i \in 1..n})
              /\ UNCHANGED <<authVars, quotaVars, windows, allocations, now>>
              /\ usage' = [WithLent(need, from) EXCEPT ![t] = Synced(t,
                     IF IsEmpty(burst) THEN @
                     ELSE [@ EXCEPT !.burst_active = TRUE,
                                    !.burst_expires = BurstUntil(t)])]
  BY Zenon DEF Reserve
<1>1. n \in Nat
  BY <1>2, BoundAssumption
<1> DEFINE need == Excesses(t, req, dims, n)
<1>3. PICK from \in [1..n -> Tenant] :
        /\ \A i \in 1..n : CanLend(from[i], t, need[i])
        /\ lends' = lends \o NewLends(t, need, from)
        /\ borrows' = borrows \o NewBorrows(t, need, from)
        /\ AddReservation(t, req, BurstOf(t, req), {Len(borrows) + i : i \in 1..n})
        /\ UNCHANGED <<authVars, quotaVars, windows, allocations, now>>
        /\ DOMAIN usage' = DOMAIN WithLent(need, from)
  BY <1>2, Zenon
<1>4. need = [i \in 1..n |-> need[i]]
  BY DEF Excesses
<1> DEFINE nl == NewLends(t, need, from)
           nb == NewBorrows(t, need, from)
<1> HIDE DEF need
<1>5. \A i \in 1..n : from[i] # t
  BY <1>3 DEF CanLend
<1>6. LoansFit(t, n, nl, nb, FALSE)
  BY <1>1, <1>4, <1>5, OpenLoansAgree, Zenon
<1> HIDE DEF nl, nb
<1>7. lends' = lends \o nl /\ borrows' = borrows \o nb
  BY <1>3 DEF nl, nb
<1>8. LoansAdded(t, n, FALSE)
  BY <1>1, <1>6, <1>7, GrowLedger, Zenon DEF Records
<1>9. DOMAIN usage' = Tenant
  BY <1>3 DEF WithLent
<1> QED
  BY <1>1, <1>3, <1>8, <1>9, Zenon DEF BorrowFrame

\* A rolled back reserve leaves returned loans behind, and no reservation.
LEMMA RollbackAdds ==
  ASSUME Records, NEW t \in Tenant, NEW req \in Requests, NEW auth,
         ReserveRolledBack(t, req, auth)
  PROVE  \E n \in Nat :
           /\ LoansAdded(t, n, TRUE)
           /\ UNCHANGED resVars
           /\ BorrowFrame
           /\ DOMAIN usage' = Tenant
<1>2. PICK n, dims : n \in 1..MaxBorrows /\
        LET need == Excesses(t, req, dims, n)
        IN  \E from \in [1..n -> Tenant] :
              /\ \A i \in 1..n : CanLend(from[i], t, need[i])
              /\ lends' = lends \o CancelledLends(t, need, from)
              /\ borrows' = borrows \o CancelledBorrows(t, need, from)
              /\ usage' = CancelledUsage(t, need, from)
  BY Zenon DEF ReserveRolledBack
<1> DEFINE need == Excesses(t, req, dims, n)
<1>3. PICK from \in [1..n -> Tenant] :
        /\ \A i \in 1..n : CanLend(from[i], t, need[i])
        /\ lends' = lends \o CancelledLends(t, need, from)
        /\ borrows' = borrows \o CancelledBorrows(t, need, from)
        /\ DOMAIN usage' = DOMAIN WithLent(need, from)
  BY <1>2, Zenon DEF CancelledUsage
<1>4. need = [i \in 1..n |-> need[i]] /\ n \in Nat
  BY <1>2, BoundAssumption DEF Excesses
<1> DEFINE nl == CancelledLends(t, need, from)
           nb == CancelledBorrows(t, need, from)
<1> HIDE DEF need
<1>5. \A i \in 1..n : from[i] # t
  BY <1>3 DEF CanLend
<1>6. LoansFit(t, n, nl, nb, TRUE)
  BY <1>4, <1>5, ReturnedLoansAgree, Zenon
<1>7. lends' = lends \o nl /\ borrows' = borrows \o nb
  BY <1>3
<1> HIDE DEF nl, nb
<1>8. LoansAdded(t, n, TRUE)
  BY <1>4, <1>6, <1>7, GrowLedger, Zenon DEF Records
<1>9. DOMAIN usage' = Tenant
  BY <1>3 DEF WithLent
<1>10. UNCHANGED resVars /\ BorrowFrame
  BY DEF ReserveRolledBack, BorrowFrame
<1> QED
  BY <1>4, <1>8, <1>9, <1>10, Zenon

-----------------------------------------------------------------------------
(***************************************************************************)
(* Each call keeps the records consistent.                                 *)
(***************************************************************************)
\* Loans that borrow_impl adds leave the earlier ones in place.
LEMMA AddedKeepsOld ==
  ASSUME NEW t, NEW n \in Nat, NEW returned, LoansAdded(t, n, returned)
  PROVE  \A b \in DOMAIN borrows : b \in DOMAIN borrows' /\ borrows'[b] = borrows[b]
<1>1. /\ Len(borrows) \in Nat /\ DOMAIN borrows = 1..Len(borrows)
      /\ DOMAIN borrows' = 1..(Len(borrows) + n)
      /\ \A b \in DOMAIN borrows : borrows'[b] = borrows[b]
  BY Zenon DEF LoansAdded
<1>2. 1..Len(borrows) \subseteq 1..(Len(borrows) + n)
  BY <1>1
<1> QED
  BY <1>1, <1>2, Zenon

-----------------------------------------------------------------------------
\* The rest of the invariant, for a step that leaves authority and quotas alone.
LEMMA HeadFrame ==
  ASSUME AuthorityTyped, QuotasTyped, UNCHANGED <<authVars, quotaVars, now>>,
         DOMAIN usage' = Tenant, DOMAIN windows' = Tenant
  PROVE  AuthorityTyped' /\ QuotasTyped'
BY Zenon DEF AuthorityTyped, QuotasTyped, authVars, quotaVars

\* An engine that was just created satisfies it.
LEMMA InitKeeps ==
  ASSUME Init
  PROVE  IInv
<1>1. IsSequence(<<>>)
  BY DEF IsSequence
<1>2. LedgerTyped /\ AllocationsTyped
  BY <1>1 DEF Init, LedgerTyped, AllocationsTyped
<1>3. ReservationsTyped /\ LedgerConserved /\ FundingSound /\ AllocationsLive
  BY DEF Init, ReservationsTyped, LedgerConserved, FundingSound, AllocationsLive
<1>4. AuthorityTyped /\ QuotasTyped
  BY InputAssumption DEF Init, AuthorityTyped, QuotasTyped
<1> QED
  BY <1>2, <1>3, <1>4 DEF IInv, Records

\* Every step keeps the inductive invariant.
LEMMA NextKeeps == IInv /\ [Next]_vars => IInv'
\* Only what an allocation uses changes (resize, residency observations).
<1>UsedChanges.
  ASSUME Records, UNCHANGED <<resVars, ledgerVars>>,
         DOMAIN allocations' = DOMAIN allocations, IsSequence(allocations'),
         \A a \in DOMAIN allocations :
           /\ DOMAIN allocations'[a] = AllocationFields
           /\ \A f \in AllocationFields \ {"used"} : allocations'[a][f] = allocations[a][f]
  PROVE  Records'
  <2> USE <1>UsedChanges
  <2>1. \A a \in DOMAIN allocations :
          /\ allocations'[a].tenant = allocations[a].tenant
          /\ allocations'[a].reservation = allocations[a].reservation
          /\ allocations'[a].resources = allocations[a].resources
          /\ allocations'[a].active = allocations[a].active
    BY DEF AllocationFields
  <2>2. AllocationsTyped' /\ AllocationsLive'
    <3>1. nextRes' = nextRes /\ reservations' = reservations
      BY Zenon DEF resVars
    <3>2. AllocationsTyped'
      BY <2>1, <3>1, Zenon DEF Records, AllocationsTyped
    <3>3. AllocationsLive'
      BY <2>1, <3>1, Zenon DEF Records, AllocationsLive
    <3> QED
      BY <3>2, <3>3, Zenon
  <2>3. LedgerTyped' /\ ReservationsTyped' /\ LedgerConserved' /\ FundingSound'
    BY DEF Records, resVars, ledgerVars, LedgerTyped, ReservationsTyped, LedgerConserved, FundingSound
  <2> QED
    BY <2>2, <2>3 DEF Records
\* Loans are opened beside the reservations (borrow, lend, a rollback).
<1>RecordsGrow.
  ASSUME Records, UNCHANGED <<resVars, allocations>>,
         LedgerTyped', LedgerConserved',
         \A b \in DOMAIN borrows : b \in DOMAIN borrows' /\ borrows'[b] = borrows[b]
  PROVE  Records'
  <2> USE <1>RecordsGrow
  <2>1. AllocationsTyped' /\ AllocationsLive'
    BY DEF Records, resVars, AllocationsTyped, AllocationsLive
  <2>2. ReservationsTyped' /\ FundingSound'
    BY DEF Records, resVars, ReservationsTyped, FundingSound
  <2> QED
    BY <2>1, <2>2, Zenon DEF Records
\* reserve, with whatever it borrows, keeps the records in order.
<1>ReserveKeeps.
  ASSUME Records, NEW t \in Tenant, NEW req \in Requests, NEW auth,
         Reserve(t, req, auth)
  PROVE  Records'
  <2> USE <1>ReserveKeeps
  <2>1. PICK n \in Nat :
          /\ LoansAdded(t, n, FALSE)
          /\ AddReservation(t, req, BurstOf(t, req), {Len(borrows) + i : i \in 1..n})
          /\ BorrowFrame
    BY ReserveAdds, Zenon
  <2> DEFINE bids == {Len(borrows) + i : i \in 1..n}
             old == DOMAIN reservations
  <2>2. /\ nextRes \in Nat \ {0} /\ nextRes' = nextRes + 1
        /\ nextRes \notin old
        /\ old \subseteq 1..(nextRes - 1)
        /\ DOMAIN reservations' = old \cup {nextRes}
        /\ DOMAIN funding' = old \cup {nextRes}
        /\ \A r \in old : reservations'[r] = reservations[r] /\ funding'[r] = funding[r]
        /\ reservations'[nextRes] = [tenant |-> t, resources |-> req, status |-> "COMMITTED"]
        /\ funding'[nextRes].borrows = bids
    <3>1. nextRes \in Nat \ {0} /\ old \subseteq 1..(nextRes - 1) /\ DOMAIN funding = old
      BY DEF Records, ReservationsTyped
    <3>2. nextRes \notin old
      BY <3>1
    <3> HIDE DEF bids
    <3> QED
      BY <2>1, <3>1, <3>2, Zenon DEF AddReservation, Funding, bids
  <2>3. /\ bids \subseteq DOMAIN borrows'
        /\ bids \cap DOMAIN borrows = {}
        /\ DOMAIN borrows \subseteq DOMAIN borrows'
        /\ \A b \in DOMAIN borrows : borrows'[b] = borrows[b]
        /\ \A b \in bids : borrows'[b].borrower = t
    <3>1. \A b \in DOMAIN borrows : b \in DOMAIN borrows' /\ borrows'[b] = borrows[b]
      BY <2>1, AddedKeepsOld, Zenon
    <3>2. /\ Len(borrows) \in Nat /\ DOMAIN borrows = 1..Len(borrows)
          /\ DOMAIN borrows' = 1..(Len(borrows) + n)
          /\ \A i \in 1..n : borrows'[Len(borrows) + i].borrower = t
      BY <2>1, Zenon DEF LoansAdded
    <3>3. \A i \in 1..n : /\ Len(borrows) + i \in 1..(Len(borrows) + n)
                           /\ Len(borrows) + i \notin 1..Len(borrows)
      BY <3>2
    <3> QED
      BY <3>1, <3>2, <3>3, Zenon
  <2>4. \A r \in old : funding[r].borrows \subseteq DOMAIN borrows
    BY DEF Records, ReservationsTyped
  <2> HIDE DEF bids
  <2>5. ReservationsTyped'
    <3>1. DOMAIN reservations' \subseteq 1..(nextRes' - 1)
      BY <2>2
    <3>2. \A r \in DOMAIN reservations' :
            reservations'[r] \in [tenant : Tenant, resources : Requests,
                                  status : {"COMMITTED", "CONSUMED"}]
      BY <2>2 DEF Records, ReservationsTyped
    <3>3. \A r \in DOMAIN reservations' : funding'[r].borrows \subseteq DOMAIN borrows'
      BY <2>2, <2>3, <2>4, Zenon
    <3> QED
      BY <2>2, <3>1, <3>2, <3>3 DEF ReservationsTyped
  <2>6. FundingSound'
    <3>1. \A r \in DOMAIN funding' : \A b \in funding'[r].borrows :
            borrows'[b].borrower = reservations'[r].tenant
      <4> SUFFICES ASSUME NEW r \in old \cup {nextRes}, NEW b \in funding'[r].borrows
                   PROVE  borrows'[b].borrower = reservations'[r].tenant
        BY <2>2, Zenon
      <4>1. CASE r \in old
        BY <4>1, <2>2, <2>3, <2>4 DEF Records, FundingSound, ReservationsTyped
      <4>2. CASE r = nextRes
        BY <4>2, <2>2, <2>3
      <4> QED
        BY <4>1, <4>2
    <3>2. \A r, s \in DOMAIN funding' :
            r # s => funding'[r].borrows \cap funding'[s].borrows = {}
      <4>1. \A r, s \in old : r # s => funding[r].borrows \cap funding[s].borrows = {}
        BY DEF Records, FundingSound, ReservationsTyped
      <4>2. \A r \in old : funding[r].borrows \cap bids = {}
        BY <2>3, <2>4, Zenon
      <4> QED
        BY <4>1, <4>2, <2>2, Zenon
    <3> QED
      BY <3>1, <3>2 DEF FundingSound
  <2>7. allocations' = allocations
    BY <2>1, Zenon DEF BorrowFrame
  <2>8. AllocationsTyped'
    <3>1. 1..(nextRes - 1) \subseteq 1..(nextRes' - 1)
      BY <2>2
    <3> QED
      BY <2>7, <3>1, Zenon DEF Records, AllocationsTyped
  <2>9. AllocationsLive'
    BY <2>2, <2>7, Zenon DEF Records, AllocationsLive
  <2> QED
    BY <2>1, <2>5, <2>6, <2>8, <2>9, Zenon DEF Records, LoansAdded
\* So does a reserve that undoes the borrows it made.
<1>RollbackKeeps.
  ASSUME Records, NEW t \in Tenant, NEW req \in Requests, NEW auth,
         ReserveRolledBack(t, req, auth)
  PROVE  Records'
  <2> USE <1>RollbackKeeps
  <2>1. PICK n \in Nat : LoansAdded(t, n, TRUE) /\ UNCHANGED resVars /\ BorrowFrame
    BY RollbackAdds, Zenon
  <2>2. \A b \in DOMAIN borrows : b \in DOMAIN borrows' /\ borrows'[b] = borrows[b]
    BY <2>1, AddedKeepsOld, Zenon
  <2>3. LedgerTyped' /\ LedgerConserved' /\ UNCHANGED <<resVars, allocations>>
    BY <2>1 DEF LoansAdded, BorrowFrame
  <2> QED
    BY <2>2, <2>3, <1>RecordsGrow
\* So does start_allocation.
<1>StartKeeps.
  ASSUME Records, NEW t \in Tenant, NEW rid \in LiveReservations(t),
         NEW req \in Requests, NEW auth, StartAllocation(t, rid, req, auth)
  PROVE  Records'
  <2> USE <1>StartKeeps
  <2> DEFINE new == [tenant |-> t, reservation |-> rid, resources |-> req,
                     used |-> Empty, active |-> TRUE]
             N == Len(allocations)
  <2>1. rid \in DOMAIN reservations /\ reservations[rid].tenant = t
    BY DEF LiveReservations
  <2>2. IsSequence(allocations) /\ N \in Nat /\ DOMAIN allocations = 1..N
    BY SequenceIsFunction DEF Records, AllocationsTyped
  <2>3. /\ allocations' = Append(allocations, new)
        /\ reservations' = [reservations EXCEPT ![rid].status = "CONSUMED"]
        /\ UNCHANGED <<funding, nextRes, ledgerVars>>
    BY DEF StartAllocation
  <2>4. /\ IsSequence(allocations') /\ DOMAIN allocations' = 1..(N + 1)
        /\ \A a \in 1..N : allocations'[a] = allocations[a]
        /\ allocations'[N + 1] = new
    BY <2>2, <2>3, AppendIsSequence
  <2>5. /\ DOMAIN reservations' = DOMAIN reservations
        /\ \A r \in DOMAIN reservations :
             /\ reservations'[r].tenant = reservations[r].tenant
             /\ reservations'[r].resources = reservations[r].resources
             /\ reservations'[r].status = IF r = rid THEN "CONSUMED" ELSE reservations[r].status
             /\ reservations'[r] \in [tenant : Tenant, resources : Requests,
                                      status : {"COMMITTED", "CONSUMED"}]
    BY <2>3 DEF Records, ReservationsTyped
  <2>6. ReservationsTyped' /\ FundingSound'
    BY <2>3, <2>5 DEF Records, ReservationsTyped, FundingSound, ledgerVars
  <2>7. AllocationsTyped'
    <3>1. rid \in 1..(nextRes - 1)
      BY <2>1 DEF Records, ReservationsTyped
    <3>2. \A a \in 1..N : /\ DOMAIN allocations[a] = AllocationFields
                          /\ allocations[a].tenant \in Tenant
                          /\ allocations[a].reservation \in 1..(nextRes - 1)
                          /\ allocations[a].resources \in Requests
                          /\ allocations[a].active \in BOOLEAN
      BY <2>2 DEF Records, AllocationsTyped
    <3>3. /\ DOMAIN new = AllocationFields
          /\ new.tenant \in Tenant
          /\ new.reservation \in 1..(nextRes - 1)
          /\ new.resources \in Requests
          /\ new.active \in BOOLEAN
      BY <3>1 DEF AllocationFields
    <3> HIDE DEF new
    <3>4. \A a \in 1..(N + 1) : a \in 1..N \/ a = N + 1
      BY <2>2
    <3> QED
      BY <2>3, <2>4, <3>2, <3>3, <3>4, Zenon DEF AllocationsTyped
  <2>8. AllocationsLive'
    <3> SUFFICES ASSUME NEW a \in 1..(N + 1), allocations'[a].active
                 PROVE  /\ allocations'[a].reservation \in DOMAIN reservations'
                        /\ reservations'[allocations'[a].reservation].tenant
                             = allocations'[a].tenant
                        /\ reservations'[allocations'[a].reservation].status = "CONSUMED"
      BY <2>4, Zenon DEF AllocationsLive
    <3>1. CASE a \in 1..N
      <4>1. a \in DOMAIN allocations /\ allocations'[a] = allocations[a]
        BY <3>1, <2>2, <2>4, Zenon
      <4>2. /\ allocations[a].reservation \in DOMAIN reservations
            /\ reservations[allocations[a].reservation].tenant = allocations[a].tenant
            /\ reservations[allocations[a].reservation].status = "CONSUMED"
        BY <4>1, Zenon DEF Records, AllocationsLive
      <4> QED
        BY <4>1, <4>2, <2>5, Zenon
    <3>2. CASE a = N + 1
      <4>1. allocations'[a].reservation = rid /\ allocations'[a].tenant = t
        BY <3>2, <2>4
      <4> QED
        BY <4>1, <2>1, <2>5, Zenon
    <3> QED
      BY <3>1, <3>2, <2>2
  <2>9. LedgerTyped' /\ LedgerConserved'
    BY <2>3 DEF Records, ledgerVars, LedgerTyped, LedgerConserved
  <2> QED
    BY <2>6, <2>7, <2>8, <2>9 DEF Records
\* So does release, which returns loans and ends allocations.
<1>ReleaseKeeps.
  ASSUME Records, NEW t \in Tenant, NEW rid \in LiveReservations(t), NEW auth,
         Release(t, rid, auth)
  PROVE  Records'
  <2> USE <1>ReleaseKeeps
  <2> DEFINE B == funding[rid].borrows
             old == DOMAIN reservations
  <2>1. rid \in old /\ B \in SUBSET DOMAIN borrows /\ DOMAIN funding = old
    BY DEF LiveReservations, Records, ReservationsTyped
  <2>2. borrows' = ReturnedBorrows(B) /\ lends' = ReturnedLends(B)
    BY Zenon DEF Release
  <2>3. /\ LedgerTyped' /\ LedgerConserved'
        /\ DOMAIN borrows' = DOMAIN borrows
        /\ \A b \in DOMAIN borrows : borrows'[b].borrower = borrows[b].borrower
    BY <2>1, <2>2, ReturnLedger, Zenon DEF Records
  <2>4. /\ DOMAIN reservations' = old \ {rid} /\ DOMAIN funding' = old \ {rid}
        /\ \A r \in old \ {rid} : /\ reservations'[r] = reservations[r]
                                  /\ funding'[r] = funding[r]
        /\ nextRes' = nextRes
    BY <2>1 DEF Release, Restrict
  <2>5. ReservationsTyped'
    BY <2>3, <2>4, Zenon DEF Records, ReservationsTyped
  <2>6. FundingSound'
    BY <2>1, <2>3, <2>4 DEF Records, FundingSound, ReservationsTyped
  <2>7. /\ DOMAIN allocations' = DOMAIN allocations
        /\ \A a \in DOMAIN allocations :
             /\ DOMAIN allocations'[a] = AllocationFields
             /\ allocations'[a].tenant = allocations[a].tenant
             /\ allocations'[a].reservation = allocations[a].reservation
             /\ allocations'[a].resources = allocations[a].resources
             /\ allocations'[a].active = (/\ allocations[a].active
                                          /\ allocations[a].reservation # rid)
    BY Zenon DEF Release, EndedAllocations, Records, AllocationsTyped, AllocationFields
  <2>8. IsSequence(allocations')
    <3>1. Len(allocations) \in Nat /\ DOMAIN allocations = 1..Len(allocations)
      BY SequenceIsFunction DEF Records, AllocationsTyped
    <3>2. allocations' = [a \in 1..Len(allocations) |-> allocations'[a]]
      BY <3>1 DEF Release, EndedAllocations
    <3> QED
      BY <3>1, <3>2, FunctionIsSequence
  <2>9. AllocationsTyped'
    BY <2>4, <2>7, <2>8, Zenon DEF Records, AllocationsTyped
  <2>10. AllocationsLive'
    <3> SUFFICES ASSUME NEW a \in DOMAIN allocations, allocations'[a].active
                 PROVE  /\ allocations'[a].reservation \in DOMAIN reservations'
                        /\ reservations'[allocations'[a].reservation].tenant
                             = allocations'[a].tenant
                        /\ reservations'[allocations'[a].reservation].status = "CONSUMED"
      BY <2>7 DEF AllocationsLive
    <3>1. allocations[a].active /\ allocations[a].reservation # rid
      BY <2>7, Zenon
    <3>2. /\ allocations[a].reservation \in DOMAIN reservations
          /\ reservations[allocations[a].reservation].tenant = allocations[a].tenant
          /\ reservations[allocations[a].reservation].status = "CONSUMED"
      BY <3>1 DEF Records, AllocationsLive
    <3>3. /\ allocations'[a].reservation = allocations[a].reservation
          /\ allocations'[a].tenant = allocations[a].tenant
      BY <2>7, Zenon
    <3> QED
      BY <3>1, <3>2, <3>3, <2>4, Zenon
  <2> QED
    BY <2>3, <2>5, <2>6, <2>9, <2>10, Zenon DEF Records
\* So does release_allocation.
<1>ReleaseAllocationKeeps.
  ASSUME Records, NEW t \in Tenant, NEW aid \in ActiveAllocations(t), NEW auth,
         ReleaseAllocation(t, aid, auth)
  PROVE  Records'
  <2> USE <1>ReleaseAllocationKeeps
  <2>1. /\ aid \in DOMAIN allocations
        /\ allocations' = [allocations EXCEPT ![aid].active = FALSE]
        /\ UNCHANGED <<resVars, ledgerVars>>
    BY DEF ActiveAllocations, ReleaseAllocation
  <2>2. /\ DOMAIN allocations' = DOMAIN allocations
        /\ \A a \in DOMAIN allocations :
             /\ DOMAIN allocations'[a] = AllocationFields
             /\ allocations'[a].tenant = allocations[a].tenant
             /\ allocations'[a].reservation = allocations[a].reservation
             /\ allocations'[a].resources = allocations[a].resources
             /\ allocations'[a].active = (allocations[a].active /\ a # aid)
    BY <2>1, Zenon DEF Records, AllocationsTyped, AllocationFields
  <2>3. IsSequence(allocations')
    <3>1. Len(allocations) \in Nat /\ DOMAIN allocations = 1..Len(allocations)
      BY SequenceIsFunction DEF Records, AllocationsTyped
    <3>2. allocations' = [a \in 1..Len(allocations) |-> allocations'[a]]
      BY <2>1, <3>1, Zenon
    <3> QED
      BY <3>1, <3>2, FunctionIsSequence
  <2>4. AllocationsTyped'
    <3>1. \A a \in DOMAIN allocations : allocations'[a].active \in BOOLEAN
      BY <2>2, Zenon
    <3>2. \A a \in DOMAIN allocations :
            /\ DOMAIN allocations'[a] = AllocationFields
            /\ allocations'[a].tenant \in Tenant
            /\ allocations'[a].reservation \in 1..(nextRes' - 1)
            /\ allocations'[a].resources \in Requests
      BY <2>1, <2>2 DEF Records, resVars, AllocationsTyped
    <3> QED
      BY <2>2, <2>3, <3>1, <3>2 DEF AllocationsTyped
  <2>5. AllocationsLive'
    <3> SUFFICES ASSUME NEW a \in DOMAIN allocations, allocations'[a].active
                 PROVE  /\ allocations'[a].reservation \in DOMAIN reservations'
                        /\ reservations'[allocations'[a].reservation].tenant
                             = allocations'[a].tenant
                        /\ reservations'[allocations'[a].reservation].status = "CONSUMED"
      BY <2>2 DEF AllocationsLive
    <3>1. allocations[a].active
      BY <2>2, Zenon
    <3> QED
      BY <3>1, <2>1, <2>2, Zenon DEF Records, AllocationsLive, resVars
  <2>6. LedgerTyped' /\ ReservationsTyped' /\ LedgerConserved' /\ FundingSound'
    BY <2>1, Zenon DEF Records, resVars, ledgerVars, LedgerTyped, ReservationsTyped,
                LedgerConserved, FundingSound
  <2> QED
    BY <2>4, <2>5, <2>6 DEF Records
\* So does recall_borrow.
<1>RecallKeeps.
  ASSUME Records, NEW t \in Tenant, NEW bid \in OpenBorrows(t), NEW lender \in Tenant,
         NEW auth, RecallBorrow(bid, t, lender, auth)
  PROVE  Records'
  <2> USE <1>RecallKeeps
  <2>1. /\ {bid} \in SUBSET DOMAIN borrows
        /\ borrows' = ReturnedBorrows({bid}) /\ lends' = ReturnedLends({bid})
        /\ UNCHANGED <<resVars, allocations>>
    BY DEF OpenBorrows, RecallBorrow
  <2>2. /\ LedgerTyped' /\ LedgerConserved'
        /\ DOMAIN borrows' = DOMAIN borrows
        /\ \A b \in DOMAIN borrows : borrows'[b].borrower = borrows[b].borrower
    BY <2>1, ReturnLedger, Zenon DEF Records
  <2>3. ReservationsTyped' /\ FundingSound'
    BY <2>1, <2>2, Zenon DEF Records, resVars, ReservationsTyped, FundingSound
  <2>4. AllocationsTyped' /\ AllocationsLive'
    BY <2>1, Zenon DEF Records, resVars, AllocationsTyped, AllocationsLive
  <2> QED
    BY <2>2, <2>3, <2>4, Zenon DEF Records
\* So does resize_allocation, granted or denied.
<1>ResizeKeeps.
  ASSUME Records, NEW t \in Tenant, NEW aid \in ActiveAllocations(t), NEW delta, NEW auth,
         ResizeAllocation(t, aid, delta, auth)
  PROVE  Records'
  <2> USE <1>ResizeKeeps
  <2>1. PICK used : allocations' = [allocations EXCEPT ![aid].used = used]
    BY Zenon DEF ResizeAllocation
  <2>2. UNCHANGED <<resVars, ledgerVars>>
    BY DEF ResizeAllocation
  <2>3. /\ DOMAIN allocations' = DOMAIN allocations
        /\ \A a \in DOMAIN allocations :
             /\ DOMAIN allocations'[a] = AllocationFields
             /\ \A f \in AllocationFields \ {"used"} : allocations'[a][f] = allocations[a][f]
    BY <2>1 DEF Records, AllocationsTyped
  <2>4. IsSequence(allocations')
    <3>1. Len(allocations) \in Nat /\ DOMAIN allocations = 1..Len(allocations)
      BY SequenceIsFunction DEF Records, AllocationsTyped
    <3>2. allocations' = [a \in 1..Len(allocations) |-> allocations'[a]]
      BY <2>1, <3>1, Zenon
    <3> QED
      BY <3>1, <3>2, FunctionIsSequence
  <2> QED
    BY <2>2, <2>3, <2>4, <1>UsedChanges
\* Every call keeps the invariant.
<1>CallKeeps.
  ASSUME IInv, NEW auth, Call(auth)
  PROVE  IInv'
  <2> USE <1>CallKeeps
  \* So does a loan of its own, from borrow or lend.
  <2>OpenLoanKeeps.
    ASSUME Records, NEW t \in Tenant, NEW amount, NEW from \in Tenant,
           OpenLoan(t, amount, from), UNCHANGED <<resVars, allocations>>
    PROVE  Records'
    <3> USE <2>OpenLoanKeeps
    <3>1. LoansAdded(t, 1, FALSE)
      BY OpenLoanAdds, Zenon
    <3>2. \A b \in DOMAIN borrows : b \in DOMAIN borrows' /\ borrows'[b] = borrows[b]
      BY <3>1, AddedKeepsOld, Zenon
    <3> QED
      BY <3>1, <3>2, <1>RecordsGrow, Zenon DEF LoansAdded
  <2> USE DEF IInv
  <2>0. DOMAIN usage = Tenant /\ DOMAIN windows = Tenant
    BY DEF QuotasTyped
  <2>1. PICK t \in Tenant :
          \/ \E req \in Requests :
               Reserve(t, req, auth) \/ ReserveRolledBack(t, req, auth)
          \/ \E rid \in LiveReservations(t) :
               \/ \E req \in Requests : StartAllocation(t, rid, req, auth)
               \/ Release(t, rid, auth)
          \/ \E aid \in ActiveAllocations(t) :
               \/ \E delta \in Deltas : ResizeAllocation(t, aid, delta, auth)
               \/ ReleaseAllocation(t, aid, auth)
          \/ \E amount \in Loans :
               \/ Borrow(t, amount, auth)
               \/ \E lender \in Tenant : Lend(lender, t, amount, auth)
          \/ \E bid \in OpenBorrows(t), lender \in Tenant :
               RecallBorrow(bid, t, lender, auth)
    BY DEF Call
  <2>2. ASSUME NEW req \in Requests, Reserve(t, req, auth)
        PROVE  IInv'
    BY <2>0, <2>2, ReserveAdds, <1>ReserveKeeps, HeadFrame, Zenon DEF BorrowFrame
  <2>3. ASSUME NEW req \in Requests, ReserveRolledBack(t, req, auth)
        PROVE  IInv'
    BY <2>0, <2>3, RollbackAdds, <1>RollbackKeeps, HeadFrame, Zenon DEF BorrowFrame
  <2>4. ASSUME NEW rid \in LiveReservations(t), NEW req \in Requests,
               StartAllocation(t, rid, req, auth)
        PROVE  IInv'
    <3>1. UNCHANGED <<authVars, quotaVars, windows, now>> /\ DOMAIN usage' = DOMAIN usage
      BY <2>4, Zenon DEF StartAllocation
    <3> QED
      BY <2>0, <2>4, <3>1, <1>StartKeeps, HeadFrame, Zenon
  <2>5. ASSUME NEW rid \in LiveReservations(t), Release(t, rid, auth)
        PROVE  IInv'
    <3>1. UNCHANGED <<authVars, quotaVars, windows, now>> /\ DOMAIN usage' = Tenant
      BY <2>5, Zenon DEF Release, ReturnedUsage
    <3> QED
      BY <2>0, <2>5, <3>1, <1>ReleaseKeeps, HeadFrame, Zenon
  <2>6. ASSUME NEW aid \in ActiveAllocations(t), NEW delta \in Deltas,
               ResizeAllocation(t, aid, delta, auth)
        PROVE  IInv'
    <3>1. UNCHANGED <<authVars, quotaVars, windows, now>> /\ DOMAIN usage' = DOMAIN usage
      BY <2>6, Zenon DEF ResizeAllocation
    <3> QED
      BY <2>0, <2>6, <3>1, <1>ResizeKeeps, HeadFrame, Zenon
  <2>7. ASSUME NEW aid \in ActiveAllocations(t), ReleaseAllocation(t, aid, auth)
        PROVE  IInv'
    <3>1. UNCHANGED <<authVars, quotaVars, windows, now>> /\ DOMAIN usage' = DOMAIN usage
      BY <2>7 DEF ReleaseAllocation
    <3> QED
      BY <2>0, <2>7, <3>1, <1>ReleaseAllocationKeeps, HeadFrame, Zenon
  <2>8. ASSUME NEW amount \in Loans, Borrow(t, amount, auth)
        PROVE  IInv'
    <3>1. PICK from \in Tenant :
            /\ OpenLoan(t, amount, from)
            /\ UNCHANGED <<authVars, quotaVars, windows, resVars, allocations, now>>
            /\ DOMAIN usage' = Tenant
      BY <2>8 DEF Borrow, WithLent
    <3> QED
      BY <2>0, <3>1, <2>OpenLoanKeeps, HeadFrame, Zenon
  <2>9. ASSUME NEW amount \in Loans, NEW lender \in Tenant, Lend(lender, t, amount, auth)
        PROVE  IInv'
    <3>1. PICK from \in Tenant :
            /\ OpenLoan(t, amount, from)
            /\ UNCHANGED <<authVars, quotaVars, windows, resVars, allocations, now>>
            /\ DOMAIN usage' = Tenant
      BY <2>9, Zenon DEF Lend, WithLent
    <3> QED
      BY <2>0, <3>1, <2>OpenLoanKeeps, HeadFrame, Zenon
  <2>10. ASSUME NEW bid \in OpenBorrows(t), NEW lender \in Tenant,
                RecallBorrow(bid, t, lender, auth)
         PROVE  IInv'
    <3>1. UNCHANGED <<authVars, quotaVars, windows, now>> /\ DOMAIN usage' = Tenant
      BY <2>10, Zenon DEF RecallBorrow, ReturnedUsage
    <3> QED
      BY <2>0, <2>10, <3>1, <1>RecallKeeps, HeadFrame, Zenon
  <2> QED
    BY <2>1, <2>2, <2>3, <2>4, <2>5, <2>6, <2>7, <2>8, <2>9, <2>10, Zenon
\* So do policy, epoch and quota changes, observations and time.
<1>ConfigureKeeps.
  ASSUME IInv, Configure
  PROVE  IInv'
  <2> USE <1>ConfigureKeeps
  <2>1. Records'
    BY RecordsStutter, Zenon DEF IInv, Configure, SetPolicy, AdvanceEpoch, SetTenantQuota, SetGroupQuota
  <2>2. AuthorityTyped'
    <3>1. ASSUME NEW p \in PolicyGenerations, SetPolicy(p)
          PROVE  AuthorityTyped'
      BY <3>1 DEF IInv, AuthorityTyped, SetPolicy
    <3>2. ASSUME AdvanceEpoch
          PROVE  AuthorityTyped'
      BY <3>2 DEF IInv, AuthorityTyped, AdvanceEpoch
    <3>3. ASSUME NEW t \in Tenant, NEW q \in TenantQuotas[t], SetTenantQuota(t, q)
          PROVE  AuthorityTyped'
      BY <3>3 DEF IInv, AuthorityTyped, SetTenantQuota
    <3>4. ASSUME NEW g \in Group, NEW q \in GroupQuotas[g], SetGroupQuota(g, q)
          PROVE  AuthorityTyped'
      BY <3>4 DEF IInv, AuthorityTyped, SetGroupQuota
    <3> QED
      BY <3>1, <3>2, <3>3, <3>4, Zenon DEF Configure
  <2>3. QuotasTyped'
    <3>1. ASSUME NEW t \in Tenant, NEW q \in TenantQuotas[t], SetTenantQuota(t, q)
          PROVE  QuotasTyped'
      BY <3>1, Zenon DEF IInv, QuotasTyped, SetTenantQuota
    <3>2. ASSUME NEW g \in Group, NEW q \in GroupQuotas[g], SetGroupQuota(g, q)
          PROVE  QuotasTyped'
      BY <3>2 DEF IInv, QuotasTyped, SetGroupQuota
    <3>3. ASSUME AdvanceEpoch \/ \E p \in PolicyGenerations : SetPolicy(p)
          PROVE  QuotasTyped'
      BY <3>3 DEF IInv, QuotasTyped, quotaVars, AdvanceEpoch, SetPolicy
    <3> QED
      BY <3>1, <3>2, <3>3, Zenon DEF Configure
  <2> QED
    BY <2>1, <2>2, <2>3 DEF IInv
\* Observations keep the inductive invariant.
<1>ObserveKeeps.
  ASSUME IInv, Observe
  PROVE  IInv'
  <2> USE <1>ObserveKeeps
  \* So does an observed residency.
  <2>ResidencyKeeps.
    ASSUME Records, NEW t \in Tenant, NEW aid, NEW amount, ResidencyAdded(t, aid, amount)
    PROVE  Records'
    <3> USE <2>ResidencyKeeps
    <3>1. PICK total :
            allocations' = [a \in DOMAIN allocations |->
              IF a = aid
              THEN [allocations[a] EXCEPT !.used = SetAmount(@, ModelResidency, total)]
              ELSE allocations[a]]
      BY DEF ResidencyAdded
    <3>2. UNCHANGED <<resVars, ledgerVars>>
      BY DEF ResidencyAdded
    <3>3. /\ DOMAIN allocations' = DOMAIN allocations
          /\ \A a \in DOMAIN allocations :
               /\ DOMAIN allocations'[a] = AllocationFields
               /\ \A f \in AllocationFields \ {"used"} : allocations'[a][f] = allocations[a][f]
      BY <3>1 DEF Records, AllocationsTyped
    <3>4. IsSequence(allocations')
      <4>1. Len(allocations) \in Nat /\ DOMAIN allocations = 1..Len(allocations)
        BY SequenceIsFunction DEF Records, AllocationsTyped
      <4>2. allocations' = [a \in 1..Len(allocations) |-> allocations'[a]]
        BY <3>1, <4>1
      <4> QED
        BY <4>1, <4>2, FunctionIsSequence, Zenon
    <3> QED
      BY <3>2, <3>3, <3>4, <1>UsedChanges, Zenon
  <2>0. DOMAIN usage = Tenant /\ DOMAIN windows = Tenant
    BY DEF IInv, QuotasTyped
  <2>1. PICK t \in Tenant :
          \/ \E d \in Consumable, amount \in Samples, at \in 0..now :
               ObserveWindow(t, d, amount, at)
          \/ \E amount \in UsageDeltas :
               \/ \E d \in Dim : ObserveDelta(t, d, amount)
               \/ \E aid \in 0..Len(allocations) : ResidencyAdded(t, aid, amount)
               \/ ResidencyRemoved(t, amount)
    BY DEF Observe
  <2>2. /\ UNCHANGED <<authVars, quotaVars, now>>
        /\ DOMAIN usage' = Tenant /\ DOMAIN windows' = Tenant
    BY <2>0, <2>1 DEF ObserveWindow, ObserveDelta, ResidencyAdded, ResidencyRemoved
  <2>3. Records'
    <3>1. ASSUME NEW amount, NEW aid, ResidencyAdded(t, aid, amount)
          PROVE  Records'
      BY <3>1, <2>ResidencyKeeps DEF IInv
    <3>2. ASSUME UNCHANGED <<resVars, allocations, ledgerVars>>
          PROVE  Records'
      BY <3>2, RecordsStutter, Zenon DEF IInv
    <3> QED
      BY <2>1, <3>1, <3>2 DEF ObserveWindow, ObserveDelta, ResidencyRemoved
  <2> QED
    BY <2>2, <2>3, HeadFrame, Zenon DEF IInv
\* So does the passing of time,
<1>TickKeeps.
  ASSUME IInv, Tick
  PROVE  IInv'
  <2> USE <1>TickKeeps
  <2>1. Records'
    BY RecordsStutter DEF IInv, Tick
  <2>2. now' \in Nat
    BY DEF IInv, Tick, AuthorityTyped
  <2>3. UNCHANGED <<authVars, quotaVars, usage, windows>>
    BY DEF Tick
  <2>4. AuthorityTyped'
    BY <2>2, <2>3 DEF IInv, AuthorityTyped, authVars
  <2>5. QuotasTyped'
    BY <2>3, Zenon DEF IInv, QuotasTyped, quotaVars
  <2> QED
    BY <2>1, <2>4, <2>5 DEF IInv
\* and so does a step that changes nothing.
<1>StutterKeeps.
  ASSUME IInv, UNCHANGED vars
  PROVE  IInv'
  <2> USE <1>StutterKeeps
  <2>1. Records'
    BY RecordsStutter DEF IInv, vars
  <2>2. DOMAIN usage' = Tenant /\ DOMAIN windows' = Tenant /\ UNCHANGED <<authVars, quotaVars, now>>
    BY DEF IInv, QuotasTyped, vars
  <2> QED
    BY <2>1, <2>2, HeadFrame DEF IInv
<1> QED
  BY <1>CallKeeps, <1>ConfigureKeeps, <1>ObserveKeeps, <1>TickKeeps, <1>StutterKeeps DEF Next

\* The invariant is inductive.
THEOREM Invariance == Spec => []IInv
<1>1. Init => IInv
  BY InitKeeps
<1> QED
  BY <1>1, NextKeeps, PTL DEF Spec

-----------------------------------------------------------------------------
\* The records have the shape TypeOK gives them, after any sequence of calls.
THEOREM TypeCorrect == Spec => []TypeOK
<1>1. IInv => TypeOK
  BY DEF IInv, Records, TypeOK
<1> QED
  BY <1>1, Invariance, PTL

\* The two sides of every loan always agree (borrow_impl, return_borrow).
THEOREM LedgerAlwaysConserved == Spec => []LedgerConserved
<1>1. IInv => LedgerConserved
  BY DEF IInv, Records
<1> QED
  BY <1>1, Invariance, PTL

\* A reservation is funded by borrows of its own tenant, each funding only it.
THEOREM FundingAlwaysSound == Spec => []FundingSound
<1>1. IInv => FundingSound
  BY DEF IInv, Records
<1> QED
  BY <1>1, Invariance, PTL

\* No active allocation outlives its reservation (release).
THEOREM AllocationsAlwaysLive == Spec => []AllocationsLive
<1>1. IInv => AllocationsLive
  BY DEF IInv, Records
<1> QED
  BY <1>1, Invariance, PTL

-----------------------------------------------------------------------------

(***************************************************************************)
(* A step that removes a reservation returns its loans and ends its        *)
(* allocations (release).                                                  *)
(***************************************************************************)
THEOREM ReleaseAlwaysComplete == Spec => ReleaseComplete
\* Which step removes a reservation: release, and nothing else.
<1>OnlyReleaseRemoves.
  ASSUME IInv, NEW auth, Call(auth), NEW r \in DOMAIN reservations,
         r \notin DOMAIN reservations'
  PROVE  \E t \in Tenant : r \in LiveReservations(t) /\ Release(t, r, auth)
  <2> USE <1>OnlyReleaseRemoves
  <2>1. PICK t \in Tenant :
          \/ \E req \in Requests :
               Reserve(t, req, auth) \/ ReserveRolledBack(t, req, auth)
          \/ \E rid \in LiveReservations(t) :
               \/ \E req \in Requests : StartAllocation(t, rid, req, auth)
               \/ Release(t, rid, auth)
          \/ \E aid \in ActiveAllocations(t) :
               \/ \E delta \in Deltas : ResizeAllocation(t, aid, delta, auth)
               \/ ReleaseAllocation(t, aid, auth)
          \/ \E amount \in Loans :
               \/ Borrow(t, amount, auth)
               \/ \E lender \in Tenant : Lend(lender, t, amount, auth)
          \/ \E bid \in OpenBorrows(t), lender \in Tenant :
               RecallBorrow(bid, t, lender, auth)
    BY Zenon DEF Call
  <2>2. ASSUME NEW req \in Requests, Reserve(t, req, auth)
        PROVE  FALSE
    <3>1. PICK n \in Nat :
            AddReservation(t, req, BurstOf(t, req), {Len(borrows) + i : i \in 1..n})
      BY <2>2, ReserveAdds, Zenon DEF IInv
    <3>2. DOMAIN reservations' = DOMAIN reservations \cup {nextRes}
      BY <3>1 DEF AddReservation, Funding
    <3> QED
      BY <3>2
  <2>3. ASSUME NEW rid, NEW req, StartAllocation(t, rid, req, auth)
        PROVE  FALSE
    BY <2>3 DEF StartAllocation
  <2>4. ASSUME UNCHANGED resVars
        PROVE  FALSE
    BY <2>4 DEF resVars
  <2>5. ASSUME NEW rid \in LiveReservations(t), Release(t, rid, auth)
        PROVE  rid = r
    BY <2>5, Zenon DEF Release, Restrict
  <2>6. \/ \E req \in Requests : Reserve(t, req, auth)
        \/ \E rid \in LiveReservations(t) :
             (\E req \in Requests : StartAllocation(t, rid, req, auth)) \/ Release(t, rid, auth)
        \/ UNCHANGED resVars
    BY <2>1, Zenon DEF ReserveRolledBack, ResizeAllocation, ReleaseAllocation, Borrow, Lend, RecallBorrow
  <2> QED
    BY <2>2, <2>3, <2>4, <2>5, <2>6
<1>1. ASSUME IInv, NEW t \in Tenant, NEW r \in LiveReservations(t), NEW auth,
             Release(t, r, auth)
      PROVE  /\ \A b \in funding[r].borrows : borrows'[b].recalled
             /\ \A a \in DOMAIN allocations :
                  allocations[a].reservation = r => ~allocations'[a].active
  <2> DEFINE B == funding[r].borrows
  <2>1. B \in SUBSET DOMAIN borrows /\ LedgerTyped /\ LedgerConserved
    BY <1>1 DEF LiveReservations, IInv, Records, ReservationsTyped
  <2>2. borrows' = ReturnedBorrows(B) /\ lends' = ReturnedLends(B)
    BY <1>1 DEF Release
  <2>3. \A b \in DOMAIN borrows : borrows'[b].recalled = (borrows[b].recalled \/ b \in B)
    BY <2>1, <2>2, ReturnLedger, Zenon
  <2>4. \A b \in B : borrows'[b].recalled
    BY <2>1, <2>3, Zenon
  <2>5. \A a \in DOMAIN allocations :
          allocations'[a].active = (allocations[a].active /\ allocations[a].reservation # r)
    BY <1>1 DEF Release, EndedAllocations, IInv, Records, AllocationsTyped, AllocationFields
  <2> QED
    BY <2>4, <2>5, Zenon
<1>2. ASSUME IInv, NEW auth, Call(auth)
      PROVE  ReleaseStep
  BY <1>1, <1>2, <1>OnlyReleaseRemoves, Zenon DEF ReleaseStep
<1>3. ASSUME Configure \/ Observe \/ Tick
      PROVE  UNCHANGED resVars
  BY <1>3, Zenon DEF Configure, SetPolicy, AdvanceEpoch, SetTenantQuota, SetGroupQuota, Observe,
              ObserveWindow, ObserveDelta, ResidencyAdded, ResidencyRemoved, Tick
<1>4. ASSUME UNCHANGED resVars
      PROVE  ReleaseStep
  BY <1>4 DEF resVars, ReleaseStep
<1>5. IInv /\ [Next]_vars => [ReleaseStep]_vars
  BY <1>2, <1>3, <1>4 DEF Next
<1> QED
  BY <1>5, Invariance, PTL DEF Spec, ReleaseComplete

-----------------------------------------------------------------------------
(***************************************************************************)
(* The engine implements the ledger of module BorrowLedger: loans are only *)
(* appended and settled, a rolled back request leaves settled loans, and a *)
(* release settles exactly the loans of its reservation.                   *)
(***************************************************************************)
THEOREM LedgerImplemented == Spec => ImplementsLedger
\* The loan book that the records describe, before and after a step.
<1>BookShape.
  ASSUME LedgerTyped
  PROVE  /\ Len(borrows) \in Nat /\ DOMAIN borrows = 1..Len(borrows)
         /\ Len(LedgerLoans) = Len(borrows) /\ DOMAIN LedgerLoans = 1..Len(borrows)
  <2> USE <1>BookShape
  <2>1. Len(borrows) \in Nat /\ DOMAIN borrows = 1..Len(borrows)
    BY SequenceIsFunction DEF LedgerTyped
  <2>2. LedgerLoans = [b \in 1..Len(borrows) |-> LedgerLoans[b]]
    BY DEF LedgerLoans
  <2> QED
    BY <2>1, <2>2, FunctionIsSequence
\* Appending loans to the records appends them to the book.
<1>BookGrows.
  ASSUME LedgerTyped, NEW t \in Tenant, NEW n \in Nat, NEW returned \in BOOLEAN,
         LoansAdded(t, n, returned)
  PROVE  /\ Ledger!Grow(t, returned)
         /\ Ledger!Fresh = {Len(borrows) + i : i \in 1..n}
  <2> USE <1>BookGrows
  \* The same after a step.
  <2>BookShapeAfter.
    ASSUME LedgerTyped'
    PROVE  Len(LedgerLoans') = Len(borrows') /\ DOMAIN LedgerLoans' = 1..Len(borrows')
    <3> USE <2>BookShapeAfter
    <3>1. Len(borrows') \in Nat
      BY SequenceIsFunction DEF LedgerTyped
    <3>2. LedgerLoans' = [b \in 1..Len(borrows') |-> LedgerLoans'[b]]
      BY DEF LedgerLoans
    <3> QED
      BY <3>1, <3>2, FunctionIsSequence
  <2> DEFINE M == Len(borrows)
  <2>1. /\ M \in Nat /\ DOMAIN borrows = 1..M
        /\ Len(LedgerLoans) = M /\ DOMAIN LedgerLoans = 1..M
    BY <1>BookShape
  <2>2. Len(borrows') = M + n /\ DOMAIN borrows' = 1..(M + n)
    BY DEF LoansAdded
  <2>3. Len(LedgerLoans') = M + n /\ DOMAIN LedgerLoans' = 1..(M + n)
    BY <2>2, <2>BookShapeAfter DEF LoansAdded
  <2>4. /\ \A b \in 1..M : LedgerLoans[b] = Loan(borrows[b], lends[borrows[b].lending])
        /\ \A b \in 1..(M + n) :
             LedgerLoans'[b] = Loan(borrows'[b], lends'[borrows'[b].lending])
    BY <2>2 DEF LedgerLoans
  <2>5. \A b \in 1..M : /\ borrows'[b] = borrows[b]
                        /\ lends'[borrows[b].lending] = lends[borrows[b].lending]
    BY <2>1 DEF LoansAdded
  <2>6. \A i \in 1..n : /\ borrows'[M + i].borrower = t
                        /\ borrows'[M + i].recalled = returned
    BY Zenon DEF LoansAdded
  <2>7. \A b \in 1..(M + n) : /\ lends'[borrows'[b].lending].lender \in Tenant
                              /\ lends'[borrows'[b].lending].lender # borrows'[b].borrower
    BY <2>2 DEF LoansAdded, LedgerTyped, LedgerConserved, Agree
  <2> HIDE DEF M
  <2>8. \A b \in 1..M : b \in 1..(M + n) /\ LedgerLoans'[b] = LedgerLoans[b]
    <3> TAKE b \in 1..M
    <3>1. b \in 1..(M + n)
      BY <2>1
    <3> QED
      BY <3>1, <2>4, <2>5
  <2>9. \A b \in (M + 1)..(M + n) : \E i \in 1..n : b = M + i
    <3> TAKE b \in (M + 1)..(M + n)
    <3>1. b - M \in 1..n /\ b = M + (b - M)
      BY <2>1
    <3> QED
      BY <3>1
  <2>10. \A i \in 1..n : M + i \in (M + 1)..(M + n) /\ M + i \in 1..(M + n)
    BY <2>1
  <2>11. \A b \in (M + 1)..(M + n) : /\ LedgerLoans'[b].borrower = t
                                     /\ LedgerLoans'[b].lender \in Tenant \ {t}
                                     /\ LedgerLoans'[b].settled = returned
    <3> TAKE b \in (M + 1)..(M + n)
    <3>1. PICK i \in 1..n : b = M + i
      BY <2>9
    <3>2. b \in 1..(M + n) /\ borrows'[b].borrower = t /\ borrows'[b].recalled = returned
      BY <3>1, <2>6, <2>10
    <3>3. LedgerLoans'[b] = Loan(borrows'[b], lends'[borrows'[b].lending])
      BY <3>2, <2>4
    <3>4. LedgerLoans'[b].borrower = t /\ LedgerLoans'[b].lender \in Tenant \ {t}
      BY <3>2, <3>3, <2>7 DEF Loan
    <3>5. LedgerLoans'[b].settled = returned
      BY <3>2, <3>3 DEF Loan
    <3> QED
      BY <3>4, <3>5
  <2>12. Ledger!Fresh = (M + 1)..(M + n)
    BY <2>1, <2>3 DEF Ledger!Fresh
  <2>13. Ledger!Fresh = {M + i : i \in 1..n}
    BY <2>9, <2>10, <2>12
  <2>14. Ledger!Grow(t, returned)
    BY <2>1, <2>3, <2>8, <2>11, <2>12 DEF Ledger!Grow
  <2> QED
    BY <2>13, <2>14 DEF M
\* Returning a set of borrows settles their loans.
<1>BookSettles.
  ASSUME LedgerTyped, LedgerConserved, NEW B \in SUBSET DOMAIN borrows,
         borrows' = ReturnedBorrows(B), lends' = ReturnedLends(B)
  PROVE  Ledger!Settle(B)
  <2> USE <1>BookSettles
  \* Returning a borrow settles its loan and changes nothing else of it.
  <2>LoanSettles.
    ASSUME NEW b, NEW l, NEW c, NEW m,
           c.borrower = b.borrower, m.lender = l.lender, m.amount = l.amount
    PROVE  Loan(c, m) = [Loan(b, l) EXCEPT !.settled = c.recalled]
    BY <2>LoanSettles DEF Loan
  <2> DEFINE M == Len(borrows)
  <2>1. M \in Nat /\ DOMAIN borrows = 1..M /\ DOMAIN LedgerLoans = 1..M
    BY <1>BookShape
  <2>2. /\ Len(borrows') = M
        /\ \A b \in 1..M :
             /\ borrows'[b].borrower = borrows[b].borrower
             /\ borrows'[b].lending = borrows[b].lending
             /\ lends'[borrows[b].lending].lender = lends[borrows[b].lending].lender
             /\ lends'[borrows[b].lending].amount = lends[borrows[b].lending].amount
             /\ borrows'[b].recalled = (borrows[b].recalled \/ b \in B)
    BY <2>1, ReturnLedger, Zenon
  <2>3. \A b \in 1..M : borrows[b].recalled \in BOOLEAN
    BY <2>1 DEF LedgerTyped
  <2>4. LedgerLoans' = [b \in 1..M |-> Loan(borrows'[b], lends'[borrows'[b].lending])]
    BY <2>2 DEF LedgerLoans
  <2>5. LedgerLoans = [b \in 1..M |-> Loan(borrows[b], lends[borrows[b].lending])]
    BY DEF LedgerLoans
  <2> HIDE DEF M
  <2>6. \A b \in 1..M :
          LedgerLoans'[b] = IF b \in B THEN [LedgerLoans[b] EXCEPT !.settled = TRUE]
                                       ELSE LedgerLoans[b]
    <3> TAKE b \in 1..M
    <3>1. CASE b \in B
      <4>1. borrows'[b].recalled = TRUE
        BY <2>2, <3>1, Zenon
      <4>2. Loan(borrows'[b], lends'[borrows'[b].lending])
              = [Loan(borrows[b], lends[borrows[b].lending]) EXCEPT
                   !.settled = borrows'[b].recalled]
        BY <2>2, <2>LoanSettles
      <4> QED
        BY <2>4, <2>5, <3>1, <4>1, <4>2, Zenon
    <3>2. CASE b \notin B
      <4>1. borrows'[b].recalled = borrows[b].recalled
        BY <2>2, <2>3, <3>2
      <4> QED
        BY <2>2, <2>4, <2>5, <3>2, <4>1 DEF Loan
    <3> QED
      BY <3>1, <3>2
  <2>7. LedgerLoans' = [b \in 1..M |-> LedgerLoans'[b]]
    BY <2>4
  <2> QED
    BY <2>1, <2>6, <2>7 DEF Ledger!Settle
(***************************************************************************)
(* Each call is a step of the ledger, or leaves the ledger alone.          *)
(***************************************************************************)
<1>ReserveBacks.
  ASSUME Records, NEW t \in Tenant, NEW req \in Requests, NEW auth,
         Reserve(t, req, auth)
  PROVE  Ledger!Back(t)
  <2> USE <1>ReserveBacks
  <2>1. PICK n \in Nat :
          /\ LoansAdded(t, n, FALSE)
          /\ AddReservation(t, req, BurstOf(t, req), {Len(borrows) + i : i \in 1..n})
    BY ReserveAdds, Zenon
  <2> DEFINE bids == {Len(borrows) + i : i \in 1..n}
  <2>2. Ledger!Grow(t, FALSE) /\ Ledger!Fresh = bids
    BY <2>1, <1>BookGrows, Zenon DEF Records
  <2> HIDE DEF bids
  <2>3. nextRes \notin DOMAIN funding
    BY DEF Records, ReservationsTyped
  <2>4. /\ DOMAIN funding' = DOMAIN funding \cup {nextRes}
        /\ funding'[nextRes].borrows = bids
        /\ \A r \in DOMAIN funding : funding'[r] = funding[r]
    BY <2>1, <2>3, Zenon DEF AddReservation, Funding, bids
  <2>5. /\ DOMAIN LedgerBacking = DOMAIN funding
        /\ DOMAIN LedgerBacking' = DOMAIN funding \cup {nextRes}
        /\ LedgerBacking' = [x \in DOMAIN funding \cup {nextRes} |->
                               IF x = nextRes THEN bids ELSE LedgerBacking[x]]
    BY <2>3, <2>4 DEF LedgerBacking
  <2>6. nextRes \in DOMAIN LedgerBacking' \ DOMAIN LedgerBacking
    BY <2>3, <2>5
  <2> QED
    BY <2>2, <2>5, <2>6, Zenon DEF Ledger!Back
\* recall_borrow is a Recall step.
<1>RecallSettles.
  ASSUME Records, NEW t \in Tenant, NEW bid \in OpenBorrows(t), NEW lender, NEW auth,
         RecallBorrow(bid, t, lender, auth)
  PROVE  bid \in DOMAIN LedgerLoans /\ Ledger!Recall(bid)
  <2> USE <1>RecallSettles
  <2>1. bid \in DOMAIN borrows
    BY DEF OpenBorrows
  <2>2. Ledger!Settle({bid})
    BY <2>1, <1>BookSettles DEF Records, RecallBorrow
  <2>3. UNCHANGED LedgerBacking
    BY DEF RecallBorrow, resVars, LedgerBacking
  <2>4. bid \in DOMAIN LedgerLoans
    BY <2>1, <1>BookShape DEF Records
  <2> QED
    BY <2>2, <2>3, <2>4 DEF Ledger!Recall
\* release is an End step.
<1>ReleaseEnds.
  ASSUME Records, NEW t \in Tenant, NEW rid \in LiveReservations(t), NEW auth,
         Release(t, rid, auth)
  PROVE  rid \in DOMAIN LedgerBacking /\ Ledger!End(rid)
  <2> USE <1>ReleaseEnds
  <2> DEFINE B == funding[rid].borrows
  <2>1. rid \in DOMAIN funding /\ B \in SUBSET DOMAIN borrows
    BY DEF LiveReservations, Records, ReservationsTyped
  <2>2. borrows' = ReturnedBorrows(B) /\ lends' = ReturnedLends(B)
    BY DEF Release
  <2>3. Ledger!Settle(B)
    BY <2>1, <2>2, <1>BookSettles DEF Records
  <2>4. rid \in DOMAIN LedgerBacking /\ LedgerBacking[rid] = B
    BY <2>1 DEF LedgerBacking
  <2>5. /\ DOMAIN funding' = DOMAIN funding \ {rid}
        /\ \A r \in DOMAIN funding \ {rid} : funding'[r] = funding[r]
    BY Zenon DEF Release, Restrict
  <2>6. LedgerBacking' = [r \in DOMAIN LedgerBacking \ {rid} |-> LedgerBacking[r]]
    BY <2>5 DEF LedgerBacking
  <2> QED
    BY <2>3, <2>4, <2>6 DEF Ledger!End
\* What leaves the records alone is a stutter of the loan book.
<1>LedgerStutters.
  ASSUME UNCHANGED <<borrows, lends, funding>>
  PROVE  UNCHANGED Ledger!ledger
  BY <1>LedgerStutters DEF Ledger!ledger, LedgerLoans, LedgerBacking
\* Every call of the engine is a step of the loan book or a stutter.
<1>CallIsLedgerStep.
  ASSUME IInv, NEW auth, Call(auth)
  PROVE  Ledger!LedgerNext \/ UNCHANGED Ledger!ledger
  <2> USE <1>CallIsLedgerStep
  \* Loans of their own are Lend steps of the loan book.
  <2>LoansLend.
    ASSUME Records, NEW t \in Tenant, NEW n \in Nat, NEW returned \in BOOLEAN,
           LoansAdded(t, n, returned), UNCHANGED resVars
    PROVE  Ledger!Lend(t)
    <3> USE <2>LoansLend
    <3>1. Ledger!Grow(t, returned)
      BY <1>BookGrows DEF Records
    <3>2. UNCHANGED LedgerBacking
      BY DEF resVars, LedgerBacking
    <3> QED
      BY <3>1, <3>2 DEF Ledger!Lend
  <2> USE DEF IInv
  <2>1. PICK t \in Tenant :
          \/ \E req \in Requests :
               Reserve(t, req, auth) \/ ReserveRolledBack(t, req, auth)
          \/ \E rid \in LiveReservations(t) :
               \/ \E req \in Requests : StartAllocation(t, rid, req, auth)
               \/ Release(t, rid, auth)
          \/ \E aid \in ActiveAllocations(t) :
               \/ \E delta \in Deltas : ResizeAllocation(t, aid, delta, auth)
               \/ ReleaseAllocation(t, aid, auth)
          \/ \E amount \in Loans :
               \/ Borrow(t, amount, auth)
               \/ \E lender \in Tenant : Lend(lender, t, amount, auth)
          \/ \E bid \in OpenBorrows(t), lender \in Tenant :
               RecallBorrow(bid, t, lender, auth)
    BY DEF Call
  <2>2. ASSUME NEW req \in Requests, Reserve(t, req, auth)
        PROVE  Ledger!Back(t)
    BY <2>2, <1>ReserveBacks
  <2>3. ASSUME NEW req \in Requests, ReserveRolledBack(t, req, auth)
        PROVE  Ledger!Lend(t)
    BY <2>3, RollbackAdds, <2>LoansLend, Zenon
  <2>4. ASSUME NEW rid \in LiveReservations(t), Release(t, rid, auth)
        PROVE  rid \in DOMAIN LedgerBacking /\ Ledger!End(rid)
    BY <2>4, <1>ReleaseEnds
  <2>5. ASSUME NEW amount \in Loans, NEW from \in Tenant, OpenLoan(t, amount, from), UNCHANGED resVars
        PROVE  Ledger!Lend(t)
    BY <2>5, OpenLoanAdds, <2>LoansLend, Zenon
  <2>6. ASSUME NEW bid \in OpenBorrows(t), NEW lender \in Tenant,
               RecallBorrow(bid, t, lender, auth)
        PROVE  bid \in DOMAIN LedgerLoans /\ Ledger!Recall(bid)
    BY <2>6, <1>RecallSettles
  <2>7. \/ \E req \in Requests : Reserve(t, req, auth) \/ ReserveRolledBack(t, req, auth)
        \/ \E rid \in LiveReservations(t) : Release(t, rid, auth)
        \/ \E amount \in Loans, from \in Tenant : OpenLoan(t, amount, from) /\ UNCHANGED resVars
        \/ \E bid \in OpenBorrows(t), lender \in Tenant : RecallBorrow(bid, t, lender, auth)
        \/ UNCHANGED <<borrows, lends, funding>>
    BY <2>1, Zenon DEF StartAllocation, ResizeAllocation, ReleaseAllocation, Borrow, Lend,
                resVars, ledgerVars
  <2> QED
    BY <2>2, <2>3, <2>4, <2>5, <2>6, <2>7, <1>LedgerStutters DEF Ledger!LedgerNext
<1>1. Init => Ledger!LedgerInit
  <2> SUFFICES ASSUME Init
               PROVE  LedgerLoans = <<>> /\ LedgerBacking = <<>>
    BY DEF Ledger!LedgerInit
  <2>1. Len(borrows) = 0 /\ DOMAIN funding = {}
    BY DEF Init
  <2> QED
    BY <2>1 DEF LedgerLoans, LedgerBacking
<1>2. ASSUME Configure \/ Observe \/ Tick \/ UNCHANGED vars
      PROVE  UNCHANGED <<borrows, lends, funding>>
  <2>1. Configure \/ Observe \/ Tick => UNCHANGED <<resVars, ledgerVars>>
    BY Zenon DEF Configure, SetPolicy, AdvanceEpoch, SetTenantQuota, SetGroupQuota, Observe,
           ObserveWindow, ObserveDelta, ResidencyAdded, ResidencyRemoved, Tick
  <2>2. UNCHANGED vars => UNCHANGED <<resVars, ledgerVars>>
    BY DEF vars
  <2> QED
    BY <1>2, <2>1, <2>2 DEF resVars, ledgerVars
<1>3. IInv /\ [Next]_vars => [Ledger!LedgerNext]_(Ledger!ledger)
  BY <1>2, <1>CallIsLedgerStep, <1>LedgerStutters DEF Next
<1> QED
  BY <1>1, <1>3, Invariance, PTL DEF Spec, ImplementsLedger, Ledger!LedgerSpec

-----------------------------------------------------------------------------
\* Limits come from the quotas alone.
LEMMA LimitsUnchanged ==
  ASSUME UNCHANGED quotaVars, NEW t
  PROVE  effective_lattice(t)' = effective_lattice(t)
BY DEF quotaVars, effective_lattice, AncestorGroups

-----------------------------------------------------------------------------
(***************************************************************************)
(* The reserved counter of a tenant that runs nothing is what its          *)
(* reservations hold: every call that changes the one syncs the other.     *)
(***************************************************************************)
\* What remains of a reservation nothing runs under is all of it.
IdleSums == \A t \in Tenant : Idle(t) => RemainingReserved(t) = Held(t)

\* That follows from the definitions.
LEMMA IdleSumsHold == IdleSums
<1> SUFFICES ASSUME NEW t \in Tenant, Idle(t) PROVE RemainingReserved(t) = Held(t)
  BY Zenon DEF IdleSums
<1>1. ASSUME NEW r PROVE Remaining(t, r) = reservations[r].resources
  BY DEF Remaining, Idle
<1>2. [r \in LiveReservations(t) |-> Remaining(t, r)]
        = [r \in LiveReservations(t) |-> reservations[r].resources]
  BY <1>1, Zenon
<1> QED
  BY <1>2, Zenon DEF RemainingReserved, Held

\* What a step leaves of a tenant's reservations: untouched, synced, or running.
ReservedLeft(x) ==
  \/ /\ usage'[x].reserved = usage[x].reserved
     /\ Held(x)' = Held(x)
     /\ Idle(x)' => Idle(x)
  \/ usage'[x].reserved = RemainingReserved(x)'

\* The records of the tenant that Held looks at.
LEMMA HeldKept ==
  ASSUME NEW x, LiveReservations(x)' = LiveReservations(x),
         \A r \in LiveReservations(x) : reservations'[r].resources = reservations[r].resources
  PROVE  Held(x)' = Held(x)
<1>1. [r \in LiveReservations(x)' |-> reservations'[r].resources]
        = [r \in LiveReservations(x) |-> reservations[r].resources]
  BY Zenon
<1> QED
  BY <1>1, Zenon DEF Held

\* and loans leave it alone.
LeavesReserved(W) ==
  /\ DOMAIN W = Tenant
  /\ \A x \in Tenant : DOMAIN W[x] = UsageFields /\ W[x].reserved = usage[x].reserved

\* The reservations and allocations of every other tenant stay.
OthersStay(t) ==
  \A x \in Tenant \ {t} :
    /\ LiveReservations(x)' = LiveReservations(x)
    /\ \A r \in LiveReservations(x) : reservations'[r].resources = reservations[r].resources
    /\ Idle(x)' => Idle(x)

\* The counter of x is as it was, or synced.
Fine(x) ==
  usage'[x].reserved = usage[x].reserved \/ usage'[x].reserved = RemainingReserved(x)'

\* Every step keeps the reserved counter of an idle tenant exact.
LEMMA StepReserved == IInv /\ UsageShaped /\ ReservedExact /\ [Next]_vars => ReservedExact'
\* That is enough.
<1>LeftExact.
  ASSUME ReservedExact, \A x \in Tenant : ReservedLeft(x)
  PROVE  ReservedExact'
  <2> USE <1>LeftExact
  <2>1. IdleSums'
    BY IdleSumsHold, PTL
  <2> QED
    BY <2>1, Zenon DEF ReservedExact, ReservedLeft, IdleSums
\* A sync writes the reserved counter,
<1>SyncedReserved.
  ASSUME NEW x, NEW u, DOMAIN u = UsageFields
  PROVE  Synced(x, u).reserved = RemainingReserved(x)'
  BY <1>SyncedReserved DEF Synced, UsageFields, Counters
\* borrow_impl,
<1>LendingLeaves.
  ASSUME UsageShaped, NEW need, NEW from
  PROVE  LeavesReserved(WithLent(need, from))
  BY <1>LendingLeaves DEF UsageShaped, LeavesReserved, WithLent, UsageFields, Counters
\* and return_borrow.
<1>ReturningLeaves.
  ASSUME UsageShaped, NEW B
  PROVE  LeavesReserved(ReturnedUsage(B))
  BY <1>ReturningLeaves, Zenon DEF UsageShaped, LeavesReserved, ReturnedUsage, UsageFields, Counters
\* The reservations and allocations stay, and so does the counter.
<1>QuietLeft.
  ASSUME NEW x, reservations' = reservations, allocations' = allocations,
         usage'[x].reserved = usage[x].reserved
  PROVE  ReservedLeft(x)
  BY <1>QuietLeft, Zenon DEF ReservedLeft, Held, LiveReservations, Idle, ActiveAllocations
\* A call that syncs the tenant it is about.
<1>SyncedLeft.
  ASSUME NEW t \in Tenant, OthersStay(t), NEW W, LeavesReserved(W), NEW u, DOMAIN u = UsageFields,
         usage' = [W EXCEPT ![t] = Synced(t, u)], NEW x \in Tenant
  PROVE  ReservedLeft(x)
  <2> USE <1>SyncedLeft
  <2>1. CASE x = t
    BY <2>1, <1>SyncedReserved, Zenon DEF ReservedLeft, LeavesReserved
  <2>2. CASE x # t
    <3>1. usage'[x].reserved = usage[x].reserved
      BY <2>2, Zenon DEF LeavesReserved
    <3>2. Held(x)' = Held(x) /\ (Idle(x)' => Idle(x))
      BY <2>2, HeldKept, Zenon DEF OthersStay
    <3> QED
      BY <3>1, <3>2, Zenon DEF ReservedLeft
  <2> QED
    BY <2>1, <2>2, Zenon
\* reserve adds a reservation of t.
<1>ReserveLeft.
  ASSUME IInv, UsageShaped, NEW t \in Tenant, NEW req, NEW auth, Reserve(t, req, auth), NEW x \in Tenant
  PROVE  ReservedLeft(x)
  <2> USE <1>ReserveLeft
  <2>1. PICK burst, bids : AddReservation(t, req, burst, bids)
    BY Zenon DEF Reserve
  <2>2. PICK need, from :
          usage' = [WithLent(need, from) EXCEPT ![t] = Synced(t,
                      IF IsEmpty(BurstOf(t, req)) THEN @
                      ELSE [@ EXCEPT !.burst_active = TRUE, !.burst_expires = BurstUntil(t)])]
    BY Zenon DEF Reserve
  <2>3. allocations' = allocations
    BY Zenon DEF Reserve
  <2>4. nextRes \notin DOMAIN reservations
    BY DEF IInv, Records, ReservationsTyped
  <2>5. reservations' = [r \in DOMAIN reservations \cup {nextRes} |->
          IF r = nextRes THEN [tenant |-> t, resources |-> req, status |-> "COMMITTED"]
          ELSE reservations[r]]
    BY <2>1, Zenon DEF AddReservation
  <2>6. OthersStay(t)
    <3>1. ASSUME NEW y \in Tenant \ {t}
          PROVE  /\ LiveReservations(y)' = LiveReservations(y)
                 /\ \A r \in LiveReservations(y) : reservations'[r].resources = reservations[r].resources
      BY <2>4, <2>5, <3>1 DEF LiveReservations
    <3> QED
      BY <2>3, <3>1, Zenon DEF OthersStay, Idle, ActiveAllocations
  <2>7. PICK W : W = WithLent(need, from)
    BY Zenon
  <2>8. LeavesReserved(W)
    BY <2>7, <1>LendingLeaves, Zenon
  <2>9. PICK u : u = IF IsEmpty(BurstOf(t, req)) THEN W[t]
                     ELSE [W[t] EXCEPT !.burst_active = TRUE, !.burst_expires = BurstUntil(t)]
    BY Zenon
  <2>10. usage' = [W EXCEPT ![t] = Synced(t, u)]
    BY <2>2, <2>7, <2>9, Zenon
  <2>11. DOMAIN u = UsageFields
    BY <2>8, <2>9 DEF LeavesReserved
  <2> QED
    BY <2>6, <2>8, <2>10, <2>11, <1>SyncedLeft, Zenon
\* lend and recall_borrow sync both parties,
<1>BothSynced.
  ASSUME NEW W, LeavesReserved(W), NEW a \in Tenant, NEW b \in Tenant,
         usage' = [[W EXCEPT ![a] = Synced(a, @)] EXCEPT ![b] = Synced(b, @)], NEW x \in Tenant
  PROVE  Fine(x)
  <2> USE <1>BothSynced
  <2>1. PICK U : U = [W EXCEPT ![a] = Synced(a, W[a])]
    BY Zenon
  <2>2. /\ DOMAIN Synced(a, W[a]) = UsageFields
        /\ Synced(a, W[a]).reserved = RemainingReserved(a)'
    BY DEF Synced, LeavesReserved, UsageFields, Counters
  <2>3. DOMAIN U = Tenant /\ \A z \in Tenant : DOMAIN U[z] = UsageFields
    BY <2>1, <2>2, Zenon DEF LeavesReserved
  <2>4. usage' = [U EXCEPT ![b] = Synced(b, U[b])]
    BY <2>1, Zenon
  <2>5. Synced(b, U[b]).reserved = RemainingReserved(b)'
    BY <2>3, <1>SyncedReserved, Zenon
  <2>6. usage'[b] = Synced(b, U[b]) /\ \A z \in Tenant \ {b} : usage'[z] = U[z]
    BY <2>3, <2>4, Zenon
  <2>7. U[a] = Synced(a, W[a]) /\ \A z \in Tenant \ {a} : U[z] = W[z]
    BY <2>1, Zenon DEF LeavesReserved
  <2> QED
    BY <2>2, <2>5, <2>6, <2>7, Zenon DEF Fine, LeavesReserved
\* borrow and release the one whose records changed,
<1>OneFine.
  ASSUME NEW W, LeavesReserved(W), NEW t \in Tenant,
         usage' = [W EXCEPT ![t] = Synced(t, @)], NEW x \in Tenant
  PROVE  Fine(x)
  <2> USE <1>OneFine
  <2>1. Synced(t, W[t]).reserved = RemainingReserved(t)'
    BY <1>SyncedReserved, Zenon DEF LeavesReserved
  <2> QED
    BY <2>1, Zenon DEF Fine, LeavesReserved
\* and a rolled back reserve neither.
<1>RollbackFine.
  ASSUME IInv, UsageShaped, NEW t \in Tenant, NEW req, NEW auth, ReserveRolledBack(t, req, auth), NEW x \in Tenant
  PROVE  Fine(x)
  <2> USE <1>RollbackFine
  <2>0. PICK dims, n, from :
          usage' = CancelledUsage(t, Excesses(t, req, dims, n), from)
    BY Zenon DEF ReserveRolledBack
  <2>1. PICK need : need = Excesses(t, req, dims, n)
    BY Zenon
  <2>2. PICK W, back : W = WithLent(need, from) /\ back = VSum(need, DOMAIN need)
    BY Zenon
  <2>3. usage' = [W EXCEPT ![t].borrowed_consumed = Sub(Add(@, back), back),
                           ![t].debt = Sub(Add(@, back), back)]
    BY <2>0, <2>1, <2>2, Zenon DEF CancelledUsage
  <2>4. LeavesReserved(W)
    BY <2>2, <1>LendingLeaves, Zenon
  <2>5. usage'[x].reserved = W[x].reserved
    BY <2>3, <2>4 DEF LeavesReserved, UsageFields, Counters
  <2> QED
    BY <2>4, <2>5, Zenon DEF Fine, LeavesReserved
\* A rolled back reserve, borrow, lend and recall change no reservation.
<1>LoansLeft.
  ASSUME IInv, UsageShaped, NEW t \in Tenant, NEW y \in Tenant, NEW v, NEW auth,
         \/ ReserveRolledBack(t, v, auth) \/ Borrow(t, v, auth) \/ Lend(y, t, v, auth)
         \/ RecallBorrow(v, t, y, auth),
         NEW x \in Tenant
  PROVE  ReservedLeft(x)
  <2> USE <1>LoansLeft
  <2>1. reservations' = reservations /\ allocations' = allocations
    BY Zenon DEF ReserveRolledBack, Borrow, Lend, RecallBorrow, resVars
  <2>2. ASSUME ReserveRolledBack(t, v, auth) PROVE Fine(x)
    BY <2>2, <1>RollbackFine, Zenon
  <2>3. ASSUME Borrow(t, v, auth) PROVE Fine(x)
    <3>1. PICK f \in Tenant : usage' = [WithLent(<<v>>, <<f>>) EXCEPT ![t] = Synced(t, @)]
      BY <2>3, Zenon DEF Borrow
    <3>2. PICK W : W = WithLent(<<v>>, <<f>>)
      BY Zenon
    <3>3. LeavesReserved(W) /\ usage' = [W EXCEPT ![t] = Synced(t, @)]
      BY <3>1, <3>2, <1>LendingLeaves, Zenon
    <3> QED
      BY <3>3, <1>OneFine, Zenon
  <2>4. ASSUME Lend(y, t, v, auth) PROVE Fine(x)
    <3>1. PICK f \in Tenant :
            usage' = [[WithLent(<<v>>, <<f>>) EXCEPT ![y] = Synced(y, @)] EXCEPT ![t] = Synced(t, @)]
      BY <2>4, Zenon DEF Lend
    <3>2. PICK W : W = WithLent(<<v>>, <<f>>)
      BY Zenon
    <3>3. /\ LeavesReserved(W)
          /\ usage' = [[W EXCEPT ![y] = Synced(y, @)] EXCEPT ![t] = Synced(t, @)]
      BY <3>1, <3>2, <1>LendingLeaves, Zenon
    <3> QED
      BY <3>3, <1>BothSynced, Zenon
  <2>5. ASSUME RecallBorrow(v, t, y, auth) PROVE Fine(x)
    <3>2. PICK W : W = ReturnedUsage({v})
      BY Zenon
    <3>3. /\ LeavesReserved(W)
          /\ usage' = [[W EXCEPT ![t] = Synced(t, @)] EXCEPT ![y] = Synced(y, @)]
      BY <2>5, <3>2, <1>ReturningLeaves, Zenon DEF RecallBorrow
    <3> QED
      BY <3>3, <1>BothSynced, Zenon
  <2>6. Fine(x)
    BY <2>2, <2>3, <2>4, <2>5, Zenon
  <2> QED
    BY <2>1, <2>6, <1>QuietLeft, Zenon DEF ReservedLeft, Fine
\* The usage table itself leaves the counter alone.
<1>UsageLeaves.      UsageShaped => LeavesReserved(usage)
  BY Zenon DEF UsageShaped, LeavesReserved
\* start_allocation and release_allocation sync the tenant that runs.
<1>RunningLeft.
  ASSUME IInv, UsageShaped, NEW t \in Tenant, NEW rid, NEW aid, NEW req, NEW auth,
         \/ StartAllocation(t, rid, req, auth)
         \/ aid \in ActiveAllocations(t) /\ ReleaseAllocation(t, aid, auth),
         NEW x \in Tenant
  PROVE  ReservedLeft(x)
  <2> USE <1>RunningLeft
  <2>1. usage' = [usage EXCEPT ![t] = Synced(t, usage[t])]
    BY Zenon DEF StartAllocation, ReleaseAllocation
  <2>2. LeavesReserved(usage) /\ DOMAIN usage[t] = UsageFields
    BY <1>UsageLeaves, Zenon DEF LeavesReserved
  <2>3. ASSUME StartAllocation(t, rid, req, auth) PROVE OthersStay(t)
    <3> DEFINE new == [tenant |-> t, reservation |-> rid, resources |-> req,
                       used |-> Empty, active |-> TRUE]
    <3>1. /\ reservations' = [reservations EXCEPT ![rid].status = "CONSUMED"]
          /\ allocations' = Append(allocations, new)
      BY <2>3, Zenon DEF StartAllocation
    <3>2. IsSequence(allocations)
      BY Zenon DEF IInv, Records, AllocationsTyped
    <3>3. /\ DOMAIN allocations' = 1..(Len(allocations) + 1)
          /\ \A a \in 1..Len(allocations) : allocations'[a] = allocations[a]
          /\ DOMAIN allocations = 1..Len(allocations) /\ Len(allocations) \in Nat
      BY <3>1, <3>2, AppendIsSequence, SequenceIsFunction
    <3>4. /\ DOMAIN reservations' = DOMAIN reservations
          /\ \A r \in DOMAIN reservations : /\ reservations'[r].tenant = reservations[r].tenant
                                            /\ reservations'[r].resources = reservations[r].resources
      <4>1. \A r \in DOMAIN reservations :
              reservations[r] \in [tenant : Tenant, resources : Requests, status : {"COMMITTED", "CONSUMED"}]
        BY Zenon DEF IInv, Records, ReservationsTyped
      <4> QED
        BY <3>1, <4>1
    <3>5. ASSUME NEW y \in Tenant PROVE Idle(y)' => Idle(y)
      <4>1. ASSUME NEW a \in ActiveAllocations(y) PROVE a \in ActiveAllocations(y)'
        <5>1. a \in DOMAIN allocations
          BY <4>1, Zenon DEF ActiveAllocations
        <5>2. a \in DOMAIN allocations' /\ allocations'[a] = allocations[a]
          BY <3>3, <5>1
        <5> QED
          BY <4>1, <5>2, Zenon DEF ActiveAllocations
      <4> QED
        BY <4>1, Zenon DEF Idle
    <3>6. ASSUME NEW y \in Tenant PROVE LiveReservations(y)' = LiveReservations(y)
      BY <3>4 DEF LiveReservations
    <3> QED
      BY <3>4, <3>5, <3>6 DEF OthersStay, LiveReservations
  <2>4. ASSUME aid \in ActiveAllocations(t), ReleaseAllocation(t, aid, auth) PROVE OthersStay(t)
    <3>1. reservations' = reservations /\ allocations' = [allocations EXCEPT ![aid].active = FALSE]
      BY <2>4, Zenon DEF ReleaseAllocation, resVars
    <3>2. allocations[aid].tenant = t
      BY <2>4 DEF ActiveAllocations
    <3>3. ASSUME NEW y \in Tenant \ {t} PROVE Idle(y)' => Idle(y)
      <4>1. ASSUME NEW a \in ActiveAllocations(y) PROVE a \in ActiveAllocations(y)'
        BY <3>1, <3>2, <3>3, <4>1 DEF ActiveAllocations
      <4> QED
        BY <4>1, Zenon DEF Idle
    <3> QED
      BY <3>1, <3>3, Zenon DEF OthersStay, LiveReservations
  <2> QED
    BY <2>1, <2>2, <2>3, <2>4, <1>SyncedLeft, Zenon
\* release ends the allocations of its own reservation only.
<1>ReleaseLeft.
  ASSUME IInv, UsageShaped, NEW t \in Tenant, NEW rid \in LiveReservations(t), NEW auth, Release(t, rid, auth),
         NEW x \in Tenant
  PROVE  ReservedLeft(x)
  <2> USE <1>ReleaseLeft
  <2>1. PICK W : W = ReturnedUsage(funding[rid].borrows)
    BY Zenon
  <2>2. LeavesReserved(W) /\ usage' = [W EXCEPT ![t] = Synced(t, W[t])]
    BY <2>1, <1>ReturningLeaves, Zenon DEF Release
  <2>3. DOMAIN W[t] = UsageFields
    BY <2>2, Zenon DEF LeavesReserved
  <2>4. /\ allocations' = EndedAllocations(rid)
        /\ reservations' = Restrict(reservations, DOMAIN reservations \ {rid})
    BY Zenon DEF Release
  <2>5. rid \in DOMAIN reservations /\ reservations[rid].tenant = t
    BY DEF LiveReservations
  <2>6. ASSUME NEW y \in Tenant \ {t}
        PROVE  /\ LiveReservations(y)' = LiveReservations(y)
               /\ \A r \in LiveReservations(y) : reservations'[r].resources = reservations[r].resources
    BY <2>4, <2>5, <2>6 DEF LiveReservations, Restrict
  <2>7. ASSUME NEW y \in Tenant \ {t} PROVE Idle(y)' => Idle(y)
    <3>1. ASSUME NEW a \in ActiveAllocations(y) PROVE a \in ActiveAllocations(y)'
      <4>1. a \in DOMAIN allocations /\ allocations[a].active /\ allocations[a].tenant = y
        BY <3>1 DEF ActiveAllocations
      <4>2. DOMAIN allocations[a] = AllocationFields
        BY <4>1, Zenon DEF IInv, Records, AllocationsTyped
      <4>3. reservations[allocations[a].reservation].tenant = y
        BY <4>1 DEF IInv, Records, AllocationsLive
      <4>4. allocations[a].reservation # rid
        BY <2>5, <2>7, <4>3
      <4>5. /\ a \in DOMAIN allocations' /\ allocations'[a].tenant = y
            /\ allocations'[a].active = (allocations[a].active /\ allocations[a].reservation # rid)
        BY <2>4, <4>1, <4>2 DEF EndedAllocations, AllocationFields
      <4> QED
        BY <4>1, <4>4, <4>5, Zenon DEF ActiveAllocations
    <3> QED
      BY <3>1, Zenon DEF Idle
  <2>8. OthersStay(t)
    BY <2>6, <2>7, Zenon DEF OthersStay
  <2> QED
    BY <2>2, <2>3, <2>8, <1>SyncedLeft, Zenon
\* resize_allocation, which may be denied after the write and not sync.
<1>ResizeLeft.
  ASSUME IInv, UsageShaped, NEW t \in Tenant, NEW aid \in ActiveAllocations(t), NEW delta, NEW auth,
         ResizeAllocation(t, aid, delta, auth), NEW x \in Tenant
  PROVE  ReservedLeft(x)
  <2> USE <1>ResizeLeft
  <2>1. PICK r : allocations' = [allocations EXCEPT ![aid].used = r]
    BY Zenon DEF ResizeAllocation
  <2>2. reservations' = reservations
    BY Zenon DEF ResizeAllocation, resVars
  <2>3. Fine(x)
    <3>1. LeavesReserved(usage)
      BY <1>UsageLeaves
    <3>2. CASE usage' = usage
      BY <3>2, Zenon DEF Fine
    <3>3. CASE usage' = [usage EXCEPT ![t] = Synced(t, @)]
      BY <3>1, <3>3, <1>OneFine, Zenon
    <3> QED
      BY <3>2, <3>3, Zenon DEF ResizeAllocation
  <2>4. Idle(x)' => Idle(x)
    <3>1. ASSUME NEW a \in ActiveAllocations(x) PROVE a \in ActiveAllocations(x)'
      <4>1. a \in DOMAIN allocations /\ DOMAIN allocations[a] = AllocationFields
        BY <3>1, Zenon DEF ActiveAllocations, IInv, Records, AllocationsTyped
      <4> QED
        BY <2>1, <3>1, <4>1 DEF ActiveAllocations, AllocationFields
    <3> QED
      BY <3>1, Zenon DEF Idle
  <2>5. Held(x)' = Held(x)
    BY <2>2, Zenon DEF Held, LiveReservations
  <2> QED
    BY <2>3, <2>4, <2>5, Zenon DEF Fine, ReservedLeft
\* apply_observation touches consumption only.
<1>ObserveLeft.
  ASSUME IInv, UsageShaped, Observe, NEW x \in Tenant
  PROVE  ReservedLeft(x)
  <2> USE <1>ObserveLeft
  <2>1. reservations' = reservations
    BY Zenon DEF Observe, ObserveWindow, ObserveDelta, ResidencyAdded, ResidencyRemoved, resVars
  <2>2. Held(x)' = Held(x)
    BY <2>1, Zenon DEF Held, LiveReservations
  <2>3. usage'[x].reserved = usage[x].reserved
    <3>1. usage' = usage \/ \E t \in Tenant : \E c : usage' = [usage EXCEPT ![t].consumption = c]
      BY Zenon DEF Observe, ObserveWindow, ObserveDelta, ResidencyAdded, ResidencyRemoved
    <3> QED
      BY <3>1 DEF UsageShaped, UsageFields, Counters
  <2>4. Idle(x)' => Idle(x)
    <3>1. \/ allocations' = allocations
          \/ \E aid, u : allocations' = [a \in DOMAIN allocations |->
               IF a = aid THEN [allocations[a] EXCEPT !.used = SetAmount(@, ModelResidency, u)]
               ELSE allocations[a]]
      <4>1. ASSUME NEW t, NEW aid, NEW amount, ResidencyAdded(t, aid, amount)
            PROVE  \E b, u : allocations' = [a \in DOMAIN allocations |->
                     IF a = b THEN [allocations[a] EXCEPT !.used = SetAmount(@, ModelResidency, u)]
                     ELSE allocations[a]]
        BY <4>1, Zenon DEF ResidencyAdded
      <4>2. ASSUME NEW t, NEW d, NEW amount, NEW at,
                   \/ ObserveWindow(t, d, amount, at) \/ ObserveDelta(t, d, amount)
                   \/ ResidencyRemoved(t, amount)
            PROVE  allocations' = allocations
        BY <4>2, Zenon DEF ObserveWindow, ObserveDelta, ResidencyRemoved
      <4> QED
        BY <4>1, <4>2, Zenon DEF Observe
    <3>2. ASSUME NEW a \in ActiveAllocations(x) PROVE a \in ActiveAllocations(x)'
      <4>1. a \in DOMAIN allocations /\ DOMAIN allocations[a] = AllocationFields
        BY <3>2, Zenon DEF ActiveAllocations, IInv, Records, AllocationsTyped
      <4> QED
        BY <3>1, <3>2, <4>1 DEF ActiveAllocations, AllocationFields
    <3> QED
      BY <3>2, Zenon DEF Idle
  <2> QED
    BY <2>2, <2>3, <2>4, Zenon DEF ReservedLeft
<1> SUFFICES ASSUME IInv, UsageShaped, ReservedExact, [Next]_vars PROVE ReservedExact'
  BY Zenon
<1>1. ASSUME UNCHANGED <<reservations, allocations, usage>>, NEW x \in Tenant PROVE ReservedLeft(x)
  BY <1>1, <1>QuietLeft, Zenon
<1>2. ASSUME NEW auth, Call(auth), NEW x \in Tenant PROVE ReservedLeft(x)
  <2>1. PICK t \in Tenant :
          \/ \E req \in Requests :
               Reserve(t, req, auth) \/ ReserveRolledBack(t, req, auth)
          \/ \E rid \in LiveReservations(t) :
               \/ \E req \in Requests : StartAllocation(t, rid, req, auth)
               \/ Release(t, rid, auth)
          \/ \E aid \in ActiveAllocations(t) :
               \/ \E delta \in Deltas : ResizeAllocation(t, aid, delta, auth)
               \/ ReleaseAllocation(t, aid, auth)
          \/ \E amount \in Loans :
               \/ Borrow(t, amount, auth)
               \/ \E lender \in Tenant : Lend(lender, t, amount, auth)
          \/ \E bid \in OpenBorrows(t), lender \in Tenant :
               RecallBorrow(bid, t, lender, auth)
    BY <1>2, Zenon DEF Call
  <2>2. CASE \E req \in Requests : Reserve(t, req, auth) \/ ReserveRolledBack(t, req, auth)
    BY <1>2, <2>2, <1>ReserveLeft, <1>LoansLeft, Zenon
  <2>3. CASE \E rid \in LiveReservations(t) :
               \/ \E req \in Requests : StartAllocation(t, rid, req, auth)
               \/ Release(t, rid, auth)
    BY <1>2, <2>3, <1>RunningLeft, <1>ReleaseLeft, Zenon
  <2>4. CASE \E aid \in ActiveAllocations(t) :
               \/ \E delta \in Deltas : ResizeAllocation(t, aid, delta, auth)
               \/ ReleaseAllocation(t, aid, auth)
    BY <1>2, <2>4, <1>ResizeLeft, <1>RunningLeft, Zenon
  <2>5. CASE \/ \E amount \in Loans :
                  \/ Borrow(t, amount, auth)
                  \/ \E lender \in Tenant : Lend(lender, t, amount, auth)
             \/ \E bid \in OpenBorrows(t), lender \in Tenant :
                  RecallBorrow(bid, t, lender, auth)
    BY <1>2, <2>5, <1>LoansLeft, Zenon
  <2> QED
    BY <2>1, <2>2, <2>3, <2>4, <2>5, Zenon
<1>3. ASSUME Configure PROVE UNCHANGED <<reservations, allocations, usage>>
  BY <1>3, Zenon DEF Configure, SetPolicy, AdvanceEpoch, SetTenantQuota, SetGroupQuota, resVars
<1>4. ASSUME Tick \/ UNCHANGED vars PROVE UNCHANGED <<reservations, allocations, usage>>
  BY <1>4, Zenon DEF Tick, vars, resVars
<1>5. \A x \in Tenant : ReservedLeft(x)
  BY <1>1, <1>2, <1>3, <1>4, <1>ObserveLeft, Zenon DEF Next
<1> QED
  BY <1>5, <1>LeftExact, Zenon

-----------------------------------------------------------------------------
(***************************************************************************)
(* Which steps change what is held.                                        *)
(***************************************************************************)
SameHoldings ==
  /\ DOMAIN reservations' = DOMAIN reservations
  /\ \A r \in DOMAIN reservations : /\ reservations'[r].tenant = reservations[r].tenant
                                    /\ reservations'[r].resources = reservations[r].resources

\* reserve adds a reservation, release removes one.
ReservationAdded(t, req) ==
  /\ nextRes \notin DOMAIN reservations
  /\ DOMAIN reservations' = DOMAIN reservations \cup {nextRes}
  /\ reservations'[nextRes].tenant = t /\ reservations'[nextRes].resources = req
  /\ \A r \in DOMAIN reservations : reservations'[r] = reservations[r]

ReservationRemoved ==
  /\ DOMAIN reservations' \subseteq DOMAIN reservations
  /\ \A r \in DOMAIN reservations' : reservations'[r] = reservations[r]

\* Those are the steps.
LEMMA HoldingSteps ==
  ASSUME IInv, [Next]_vars
  PROVE  \/ SameHoldings
         \/ ReservationRemoved
         \/ \E t \in Tenant : \E req \in Requests : \E auth :
              Reserve(t, req, auth) /\ ReservationAdded(t, req)
<1>1. CASE reservations' = reservations
  BY <1>1, Zenon DEF SameHoldings
<1>2. Configure \/ Tick \/ UNCHANGED vars => reservations' = reservations
  BY Zenon DEF Configure, SetPolicy, AdvanceEpoch, SetTenantQuota, SetGroupQuota, Tick, vars, resVars
<1>3. Observe => reservations' = reservations
  BY Zenon DEF Observe, ObserveWindow, ObserveDelta, ResidencyAdded, ResidencyRemoved, resVars
<1>4. ASSUME NEW t \in Tenant, NEW req \in Requests, NEW auth, Reserve(t, req, auth)
      PROVE  ReservationAdded(t, req)
  <2>1. PICK burst, bids : AddReservation(t, req, burst, bids)
    BY <1>4, Zenon DEF Reserve
  <2>2. nextRes \notin DOMAIN reservations
    BY DEF IInv, Records, ReservationsTyped
  <2> QED
    BY <2>1, <2>2 DEF AddReservation, ReservationAdded
<1>5. ASSUME NEW auth, Call(auth)
      PROVE  \/ reservations' = reservations
             \/ SameHoldings
             \/ ReservationRemoved
             \/ \E t \in Tenant : \E req \in Requests : Reserve(t, req, auth)
  <2>1. \A t, req : ReserveRolledBack(t, req, auth) => reservations' = reservations
    BY Zenon DEF ReserveRolledBack, resVars
  <2>2. ASSUME NEW t, NEW rid \in LiveReservations(t), NEW req, StartAllocation(t, rid, req, auth)
        PROVE  SameHoldings
    <3>1. reservations' = [reservations EXCEPT ![rid].status = "CONSUMED"]
      BY <2>2, Zenon DEF StartAllocation
    <3>2. \A r \in DOMAIN reservations :
            DOMAIN reservations[r] = {"tenant", "resources", "status"}
      BY DEF IInv, Records, ReservationsTyped
    <3> QED
      BY <3>1, <3>2 DEF SameHoldings
  <2>3. ASSUME NEW t, NEW rid, Release(t, rid, auth) PROVE ReservationRemoved
    <3>1. reservations' = Restrict(reservations, DOMAIN reservations \ {rid})
      BY <2>3, Zenon DEF Release
    <3> QED
      BY <3>1 DEF Restrict, ReservationRemoved
  <2>4. \A t, aid, delta : ResizeAllocation(t, aid, delta, auth) \/ ReleaseAllocation(t, aid, auth)
                          => reservations' = reservations
    BY Zenon DEF ResizeAllocation, ReleaseAllocation, resVars
  <2>5. \A t, lender, amount : Borrow(t, amount, auth) \/ Lend(lender, t, amount, auth)
                          => reservations' = reservations
    BY Zenon DEF Borrow, Lend, resVars
  <2>6. \A t, lender, bid : RecallBorrow(bid, t, lender, auth) => reservations' = reservations
    BY Zenon DEF RecallBorrow, resVars
  <2> QED
    BY <1>5, <2>1, <2>2, <2>3, <2>4, <2>5, <2>6, Zenon DEF Call
<1> QED
  BY <1>1, <1>2, <1>3, <1>4, <1>5, Zenon DEF Next

\* What no step changes: how a reservation is paid for, the amount of a borrow,
\* and who runs an allocation.
FrameKept ==
  /\ \A r \in DOMAIN reservations \cap DOMAIN reservations' : funding'[r] = funding[r]
  /\ \A b \in DOMAIN borrows : b \in DOMAIN borrows' /\ borrows'[b].amount = borrows[b].amount
  /\ \A a \in DOMAIN allocations : a \in DOMAIN allocations' /\ allocations'[a].tenant = allocations[a].tenant

\* Every step keeps the frame.
LEMMA FrameSteps ==
  ASSUME IInv, [Next]_vars
  PROVE  FrameKept
\* Every call keeps the frame.
<1>CallFrame.
  ASSUME IInv, NEW auth, Call(auth)
  PROVE  FrameKept
  <2> USE <1>CallFrame
  \* return_borrow leaves the amount of a borrow as it was.
  <2>ReturnKeepsAmounts.
    ASSUME Records, NEW B, borrows' = ReturnedBorrows(B)
    PROVE  \A b \in DOMAIN borrows : b \in DOMAIN borrows' /\ borrows'[b].amount = borrows[b].amount
    <3> USE <2>ReturnKeepsAmounts
    <3>1. \A b \in DOMAIN borrows : DOMAIN borrows[b] = BorrowFields
      BY Zenon DEF Records, LedgerTyped
    <3>2. /\ DOMAIN borrows' = DOMAIN borrows
          /\ \A b \in DOMAIN borrows :
               \/ borrows'[b] = borrows[b]
               \/ borrows'[b] = [borrows[b] EXCEPT !.consumed = Sub(borrows[b].consumed, borrows[b].consumed),
                                                   !.recalled = TRUE]
      BY Zenon DEF ReturnedBorrows
    <3> QED
      BY <3>1, <3>2, Zenon DEF BorrowFields
  <2>0. Records
    BY DEF IInv
  <2>1. ASSUME NEW t \in Tenant, NEW req \in Requests, Reserve(t, req, auth) PROVE FrameKept
    <3>1. PICK n \in Nat : /\ LoansAdded(t, n, FALSE)
                           /\ AddReservation(t, req, BurstOf(t, req), {Len(borrows) + i : i \in 1..n})
                           /\ BorrowFrame
      BY <2>0, <2>1, ReserveAdds, Zenon
    <3>2. \A b \in DOMAIN borrows : b \in DOMAIN borrows' /\ borrows'[b].amount = borrows[b].amount
      BY <3>1, AddedKeepsOld, Zenon
    <3>3. allocations' = allocations
      BY <3>1, Zenon DEF BorrowFrame
    <3>4. \A r \in DOMAIN reservations : funding'[r] = funding[r]
      <4>1. /\ funding' = [r \in DOMAIN funding \cup {nextRes} |->
                 IF r = nextRes THEN Funding(t, BurstOf(t, req), {Len(borrows) + i : i \in 1..n})
                 ELSE funding[r]]
            /\ DOMAIN funding = DOMAIN reservations
        BY <2>0, <3>1, Zenon DEF AddReservation, Records, ReservationsTyped
      <4>2. nextRes \notin DOMAIN reservations
        BY <2>0 DEF Records, ReservationsTyped
      <4> QED
        BY <4>1, <4>2, Zenon
    <3> QED
      BY <3>2, <3>3, <3>4, Zenon DEF FrameKept
  <2>2. ASSUME NEW t \in Tenant, NEW req \in Requests, ReserveRolledBack(t, req, auth) PROVE FrameKept
    <3>1. PICK n \in Nat : LoansAdded(t, n, TRUE) /\ UNCHANGED resVars /\ BorrowFrame
      BY <2>0, <2>2, RollbackAdds, Zenon
    <3>2. \A b \in DOMAIN borrows : b \in DOMAIN borrows' /\ borrows'[b].amount = borrows[b].amount
      BY <3>1, AddedKeepsOld, Zenon
    <3> QED
      BY <3>1, <3>2, Zenon DEF FrameKept, BorrowFrame, resVars
  <2>3. ASSUME NEW t, NEW rid, NEW req, StartAllocation(t, rid, req, auth) PROVE FrameKept
    <3>1. allocations' = Append(allocations, [tenant |-> t, reservation |-> rid,
                                  resources |-> req, used |-> Empty, active |-> TRUE])
      BY <2>3, Zenon DEF StartAllocation
    <3>2. IsSequence(allocations)
      BY <2>0, Zenon DEF Records, AllocationsTyped
    <3>3. \A a \in DOMAIN allocations : a \in DOMAIN allocations' /\ allocations'[a] = allocations[a]
      BY <3>1, <3>2, AppendIsSequence, SequenceIsFunction
    <3>4. funding' = funding /\ borrows' = borrows
      BY <2>3, Zenon DEF StartAllocation, ledgerVars
    <3> QED
      BY <3>3, <3>4, Zenon DEF FrameKept
  <2>4. ASSUME NEW t, NEW rid, Release(t, rid, auth) PROVE FrameKept
    <3>1. PICK B : borrows' = ReturnedBorrows(B)
      BY <2>4, Zenon DEF Release
    <3>2. \A b \in DOMAIN borrows : b \in DOMAIN borrows' /\ borrows'[b].amount = borrows[b].amount
      BY <2>0, <3>1, <2>ReturnKeepsAmounts, Zenon
    <3>3. allocations' = EndedAllocations(rid)
      BY <2>4, Zenon DEF Release
    <3>4. \A a \in DOMAIN allocations : DOMAIN allocations[a] = AllocationFields
      BY <2>0, Zenon DEF Records, AllocationsTyped
    <3>5. \A a \in DOMAIN allocations : a \in DOMAIN allocations' /\ allocations'[a].tenant = allocations[a].tenant
      BY <3>3, <3>4, Zenon DEF EndedAllocations, AllocationFields
    <3>6. /\ reservations' = Restrict(reservations, DOMAIN reservations \ {rid})
          /\ funding' = Restrict(funding, DOMAIN funding \ {rid})
          /\ DOMAIN funding = DOMAIN reservations
      BY <2>0, <2>4, Zenon DEF Release, Records, ReservationsTyped
    <3>7. \A r \in DOMAIN reservations' : funding'[r] = funding[r]
      BY <3>6 DEF Restrict
    <3> QED
      BY <3>2, <3>5, <3>7, Zenon DEF FrameKept
  <2>5. ASSUME NEW t, NEW aid, NEW delta,
               ResizeAllocation(t, aid, delta, auth) \/ ReleaseAllocation(t, aid, auth)
        PROVE  FrameKept
    <3>1. funding' = funding /\ borrows' = borrows
      BY <2>5, Zenon DEF ResizeAllocation, ReleaseAllocation, resVars, ledgerVars
    <3>2. \/ \E u : allocations' = [allocations EXCEPT ![aid].used = u]
          \/ allocations' = [allocations EXCEPT ![aid].active = FALSE]
      BY <2>5, Zenon DEF ResizeAllocation, ReleaseAllocation
    <3>3. \A a \in DOMAIN allocations : DOMAIN allocations[a] = AllocationFields
      BY <2>0, Zenon DEF Records, AllocationsTyped
    <3>4. \A a \in DOMAIN allocations : a \in DOMAIN allocations' /\ allocations'[a].tenant = allocations[a].tenant
      BY <3>2, <3>3 DEF AllocationFields
    <3> QED
      BY <3>1, <3>4, Zenon DEF FrameKept
  <2>6. ASSUME NEW t \in Tenant, NEW amount, NEW lender, Borrow(t, amount, auth) \/ Lend(lender, t, amount, auth)
        PROVE  FrameKept
    <3>1. PICK from \in Tenant : OpenLoan(t, amount, from)
      BY <2>6, Zenon DEF Borrow, Lend
    <3>2. LoansAdded(t, 1, FALSE)
      BY <2>0, <3>1, OpenLoanAdds, Zenon
    <3>3. \A b \in DOMAIN borrows : b \in DOMAIN borrows' /\ borrows'[b].amount = borrows[b].amount
      BY <3>2, AddedKeepsOld, Zenon
    <3>4. funding' = funding /\ allocations' = allocations
      BY <2>6, Zenon DEF Borrow, Lend, resVars
    <3> QED
      BY <3>3, <3>4, Zenon DEF FrameKept
  <2>7. ASSUME NEW t, NEW lender, NEW bid, RecallBorrow(bid, t, lender, auth) PROVE FrameKept
    <3>1. borrows' = ReturnedBorrows({bid}) /\ funding' = funding /\ allocations' = allocations
      BY <2>7, Zenon DEF RecallBorrow, resVars
    <3> QED
      BY <2>0, <3>1, <2>ReturnKeepsAmounts, Zenon DEF FrameKept
  <2> QED
    BY <2>1, <2>2, <2>3, <2>4, <2>5, <2>6, <2>7, Zenon DEF Call
<1>1. Configure \/ Tick \/ UNCHANGED vars =>
        funding' = funding /\ borrows' = borrows /\ allocations' = allocations
  BY Zenon DEF Configure, SetPolicy, AdvanceEpoch, SetTenantQuota, SetGroupQuota, Tick, vars,
               resVars, ledgerVars
<1>2. funding' = funding /\ borrows' = borrows /\ allocations' = allocations => FrameKept
  BY Zenon DEF FrameKept
<1>3. ASSUME Observe PROVE FrameKept
  <2>1. funding' = funding /\ borrows' = borrows
    BY <1>3, Zenon DEF Observe, ObserveWindow, ObserveDelta, ResidencyAdded, ResidencyRemoved,
                       resVars, ledgerVars
  <2>2. \/ allocations' = allocations
        \/ \E t, aid, amount : ResidencyAdded(t, aid, amount)
    BY <1>3, Zenon DEF Observe, ObserveWindow, ObserveDelta, ResidencyRemoved
  <2>3. \A a \in DOMAIN allocations : DOMAIN allocations[a] = AllocationFields
    BY Zenon DEF IInv, Records, AllocationsTyped
  <2>4. \A a \in DOMAIN allocations : a \in DOMAIN allocations' /\ allocations'[a].tenant = allocations[a].tenant
    <3>1. CASE allocations' = allocations
      BY <3>1, Zenon
    <3>2. ASSUME NEW t, NEW aid, NEW amount, ResidencyAdded(t, aid, amount)
          PROVE  \A a \in DOMAIN allocations :
                   a \in DOMAIN allocations' /\ allocations'[a].tenant = allocations[a].tenant
      BY <2>3, <3>2 DEF ResidencyAdded, AllocationFields
    <3> QED
      BY <2>2, <3>1, <3>2, Zenon
  <2> QED
    BY <2>1, <2>4, Zenon DEF FrameKept
<1> QED
  BY <1>1, <1>2, <1>3, <1>CallFrame, Zenon DEF Next

-----------------------------------------------------------------------------
(***************************************************************************)
(* The decision on a request.                                              *)
(***************************************************************************)
DimCodes == {"ALLOW_GUARANTEED", "ALLOW", "ALLOW_BURST", "ALLOW_BORROW",
             "DENY_SOFT", "DENY_HARD", "DENY_PARENT", "DENY_PHYSICAL"}

\* The ranks of the codes the decision can come to.
LEMMA RankIs ==
  /\ \A c \in DimCodes : Rank[c] \in 13..21
  /\ \A c \in DimCodes : c \in Allowed <=> Rank[c] <= 16
  /\ \A c \in DimCodes : Rank["ALLOW_GUARANTEED"] <= Rank[c]
  /\ \A c \in DimCodes \ {"ALLOW_GUARANTEED"} : Rank[c] > Rank["ALLOW_GUARANTEED"]
<1>1. /\ Rank["ALLOW_GUARANTEED"] = 13
      /\ Rank["ALLOW"] = 14
      /\ Rank["ALLOW_BURST"] = 15
      /\ Rank["ALLOW_BORROW"] = 16
      /\ Rank["DENY_SOFT"] = 18
      /\ Rank["DENY_HARD"] = 19
      /\ Rank["DENY_PARENT"] = 20
      /\ Rank["DENY_PHYSICAL"] = 21
  BY DEF Rank
<1>2. \A c \in DimCodes : Rank[c] \in 13..21
  BY <1>1 DEF DimCodes
<1>3. \A c \in DimCodes : c \in Allowed <=> Rank[c] <= 16
  BY <1>1 DEF DimCodes, Allowed
<1>4. \A c \in DimCodes \ {"ALLOW_GUARANTEED"} : Rank[c] > 13
  BY <1>1 DEF DimCodes
<1> QED
  BY <1>1, <1>2, <1>3, <1>4

\* classify_dimension comes to one of these codes.
LEMMA DimCodeIs ==
  ASSUME NEW t, NEW d, NEW amt
  PROVE  DimCode(t, d, amt) \in DimCodes
BY Zenon DEF DimCode, DimCodes

\* The codes classify chooses from.
CodesOf(t, req) == {DimCode(t, d, req[d]) : d \in DOMAIN req} \cup {"ALLOW_GUARANTEED"}

\* The decision on a request that is not empty is the most restrictive of them.
LEMMA ClassifyIs ==
  ASSUME NEW t, NEW req, ~IsEmpty(req), HasEntitlement(effective_lattice(t))
  PROVE  /\ CodesOf(t, req) \subseteq DimCodes
         /\ classify(t, req) \in CodesOf(t, req)
         /\ \A e \in CodesOf(t, req) : Rank[e] <= Rank[classify(t, req)]
\* Some code is the most restrictive.
<1>MostRestrictive.
  ASSUME NEW codes, codes \subseteq DimCodes, codes # {}
  PROVE  \E c \in codes : \A e \in codes : Rank[e] <= Rank[c]
  <2> USE <1>MostRestrictive
  <2> DEFINE top == IF "DENY_PHYSICAL" \in codes THEN "DENY_PHYSICAL"
                    ELSE IF "DENY_PARENT" \in codes THEN "DENY_PARENT"
                    ELSE IF "DENY_HARD" \in codes THEN "DENY_HARD"
                    ELSE IF "DENY_SOFT" \in codes THEN "DENY_SOFT"
                    ELSE IF "ALLOW_BORROW" \in codes THEN "ALLOW_BORROW"
                    ELSE IF "ALLOW_BURST" \in codes THEN "ALLOW_BURST"
                    ELSE IF "ALLOW" \in codes THEN "ALLOW"
                    ELSE "ALLOW_GUARANTEED"
  <2>1. top \in codes
    BY Zenon DEF DimCodes
  <2>2. \A e \in codes : Rank[e] <= Rank[top]
    BY DEF DimCodes, Rank
  <2> QED
    BY <2>1, <2>2
<1>1. CodesOf(t, req) \subseteq DimCodes /\ CodesOf(t, req) # {}
  BY DimCodeIs DEF CodesOf, DimCodes
<1>2. PICK codes : codes = CodesOf(t, req)
  BY Zenon
<1>3. classify(t, req) = CHOOSE c \in codes : \A e \in codes : Rank[e] <= Rank[c]
  BY <1>2, Zenon DEF classify, CodesOf
<1>4. \E c \in codes : \A e \in codes : Rank[e] <= Rank[c]
  BY <1>1, <1>2, <1>MostRestrictive, Zenon
<1> QED
  BY <1>1, <1>2, <1>3, <1>4, Zenon

\* The decision on a request for one resource is the code of that resource.
LEMMA ClassifyScalar ==
  ASSUME NEW t, NEW d, NEW amt, HasEntitlement(effective_lattice(t))
  PROVE  classify(t, FromScalar(d, amt)) = DimCode(t, d, amt)
<1>1. PICK req : req = FromScalar(d, amt)
  BY Zenon
<1>2. DOMAIN req = {d} /\ req[d] = amt /\ ~IsEmpty(req)
  BY <1>1 DEF FromScalar, IsEmpty
<1>3. PICK c, e : c = classify(t, req) /\ e = DimCode(t, d, amt)
  BY Zenon
<1>4. CodesOf(t, req) = {e, "ALLOW_GUARANTEED"}
  BY <1>2, <1>3 DEF CodesOf
<1>5. /\ c \in {e, "ALLOW_GUARANTEED"} /\ e \in DimCodes
      /\ Rank[e] <= Rank[c]
  BY <1>2, <1>3, <1>4, ClassifyIs, DimCodeIs, Zenon
<1>6. c = e
  <2>1. CASE e = "ALLOW_GUARANTEED"
    BY <1>5, <2>1
  <2>2. CASE e # "ALLOW_GUARANTEED" /\ c = "ALLOW_GUARANTEED"
    <3>1. "ALLOW_GUARANTEED" \in DimCodes
      BY DEF DimCodes
    <3>2. /\ Rank[e] > Rank["ALLOW_GUARANTEED"] /\ Rank[e] <= Rank["ALLOW_GUARANTEED"]
          /\ Rank[e] \in Int /\ Rank["ALLOW_GUARANTEED"] \in Int
      BY <1>5, <2>2, <3>1, RankIs
    <3> QED
      BY <3>2
  <2> QED
    BY <1>5, <2>1, <2>2
<1> QED
  BY <1>1, <1>3, <1>6, Zenon

\* A request that is allowed is allowed in every dimension.
LEMMA AllAllowed ==
  ASSUME NEW t, NEW req, classify(t, req) \in Allowed, NEW d \in DOMAIN req
  PROVE  DimCode(t, d, req[d]) \in Allowed
<1>1. ~IsEmpty(req)
  BY DEF IsEmpty
<1>2. "DENY_HARD" \notin Allowed
  BY DEF Allowed
<1>3. HasEntitlement(effective_lattice(t))
  BY <1>1, <1>2, Zenon DEF classify
<1>4. PICK c, e : c = classify(t, req) /\ e = DimCode(t, d, req[d])
  BY Zenon
<1>5. c \in DimCodes /\ e \in DimCodes /\ Rank[e] <= Rank[c]
  <2>1. e \in CodesOf(t, req)
    BY <1>4, Zenon DEF CodesOf
  <2> QED
    BY <1>1, <1>3, <1>4, <2>1, ClassifyIs, Zenon
<1>6. Rank[c] <= 16 /\ Rank[c] \in Int /\ Rank[e] \in Int
  BY <1>4, <1>5, RankIs
<1>7. Rank[e] <= 16
  BY <1>5, <1>6
<1> QED
  BY <1>4, <1>5, <1>7, RankIs, Zenon

\* What reserve admits passed parent_hard_ok in every dimension that is held.
LEMMA ReserveBelowParents ==
  ASSUME NEW t, NEW req, NEW auth, Reserve(t, req, auth), NEW d \in DOMAIN req \ Consumable
  PROVE  ParentHardOk(t, d, req[d])
<1>1. classify(t, req) \in Allowed
  BY Zenon DEF Reserve, Admitted
<1>2. DimCode(t, d, req[d]) \in Allowed
  BY <1>1, AllAllowed
<1>3. "DENY_PARENT" \notin Allowed
  BY DEF Allowed
<1>4. ~ParentHardOk(t, d, req[d]) => DimCode(t, d, req[d]) = "DENY_PARENT"
  BY Zenon DEF DimCode
<1> QED
  BY <1>2, <1>3, <1>4, Zenon

===============================================================================
