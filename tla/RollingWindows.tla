---------------------------- MODULE RollingWindows ----------------------------
(***************************************************************************)
(* struct RollingWindow: the consumption of a consumable dimension over    *)
(* the last WindowNs.  The deque of samples is a sequence, oldest arrival  *)
(* first.                                                                  *)
(***************************************************************************)
EXTENDS Integers, Sequences, ResourceVectors

CONSTANT WindowNs     \* the window apply_observation gives a new window

ASSUME WindowNsAssumption == WindowNs \in Nat \ {0}

EmptyWindow == [samples |-> <<>>, total |-> 0]

Amount(samples) == SumFunction([i \in DOMAIN samples |-> samples[i].amount])

\* Mutant: the cutoff is one too late.
PoppedEarly(s, now) ==
  LET kept == {i \in 1..Len(s) : s[i].at > now - WindowNs + 1}
  IN  IF kept = {} THEN Len(s)
      ELSE (CHOOSE i \in kept : \A j \in kept : i <= j) - 1

(***************************************************************************)
(* expire(now) pops from the front while the front sample is at or before  *)
(* the cutoff: it stops at the first sample that is still inside, even if  *)
(* an older one sits behind it.                                            *)
(***************************************************************************)
Popped(s, now) ==
  LET kept == {i \in 1..Len(s) : s[i].at > now - WindowNs}
  IN  IF kept = {} THEN Len(s)
      ELSE (CHOOSE i \in kept : \A j \in kept : i <= j) - 1

\* Mutant: pops the samples and keeps the total.
ExpireKeepsTotal(w, now) ==
  [w EXCEPT !.samples = SubSeq(@, Popped(@, now) + 1, Len(@))]

Expire(w, now) ==
  LET s == w.samples
      n == Popped(s, now)
  IN  [samples |-> SubSeq(s, n + 1, Len(s)),
       total   |-> w.total - Amount(SubSeq(s, 1, n))]

\* add(at, amount) ignores a negative amount.
AddSample(w, at, amount) ==
  IF amount < 0
  THEN w
  ELSE Expire([samples |-> Append(w.samples, [at |-> at, amount |-> amount]),
               total   |-> SatAdd(w.total, amount)], at)

\* usage(now) returns the total and does not look at the clock.
WindowUsage(w) == w.total

\* The consumption of the window that ends now.
InWindow(w, now) ==
  SumFunction([i \in DOMAIN w.samples |->
                 IF w.samples[i].at > now - WindowNs THEN w.samples[i].amount ELSE 0])
===============================================================================
