----------------------------- MODULE BorrowLedger -----------------------------
(***************************************************************************)
(* What the engine promises about borrowing: a book of loans that is only  *)
(* ever appended to, in which a loan is open until it is settled and never *)
(* again after that, and the reservations that some of the loans back.     *)
(* Module EngineProperties shows that QuotaEngine implements it.           *)
(***************************************************************************)
EXTENDS Naturals, Sequences

CONSTANT Tenant

VARIABLES loans,    \* records of lender, borrower, amount, whether settled
          backing   \* reservation ids to the loans that back them

ledger == <<loans, backing>>

LedgerInit == loans = <<>> /\ backing = <<>>

\* The entries this step appends.
Fresh == (Len(loans) + 1)..Len(loans')

\* The step only appends loans to t by other tenants, all open or all settled.
Grow(t, settled) ==
  /\ \A i \in DOMAIN loans : i \in DOMAIN loans' /\ loans'[i] = loans[i]
  /\ \A i \in Fresh :
       /\ loans'[i].borrower = t
       /\ loans'[i].lender \in Tenant \ {t}
       /\ loans'[i].settled = settled

\* The step settles the loans in S and changes nothing else.
Settle(S) ==
  loans' = [i \in DOMAIN loans |->
              IF i \in S THEN [loans[i] EXCEPT !.settled = TRUE] ELSE loans[i]]

\* t borrows, or t's request borrows and is rolled back.
Lend(t) == \E settled \in BOOLEAN : Grow(t, settled) /\ UNCHANGED backing

\* A new reservation of t, backed by the loans made for it and by no other.
Back(t) ==
  /\ Grow(t, FALSE)
  /\ \E r \in DOMAIN backing' \ DOMAIN backing :
       backing' = [x \in DOMAIN backing \cup {r} |->
                     IF x = r THEN Fresh ELSE backing[x]]

Recall(l) == Settle({l}) /\ UNCHANGED backing

\* A reservation ends: its loans are settled in the same step.
End(r) ==
  /\ Settle(backing[r])
  /\ backing' = [x \in DOMAIN backing \ {r} |-> backing[x]]

LedgerNext ==
  \/ \E t \in Tenant : Lend(t) \/ Back(t)
  \/ \E l \in DOMAIN loans : Recall(l)
  \/ \E r \in DOMAIN backing : End(r)

LedgerSpec == LedgerInit /\ [][LedgerNext]_ledger
===============================================================================
