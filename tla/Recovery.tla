------------------------------- MODULE Recovery -------------------------------
(***************************************************************************)
(* An engine whose state is saved, and loaded by a new process             *)
(* (serialize_state, deserialize_state).  Whatever happened between the    *)
(* save and the load is lost with the old process, so the new engine       *)
(* starts from a state the old one was once in, less what is not written:  *)
(* rolling windows, the clock of the burst window, and usage counters,     *)
(* which are recomputed from the records once all of them have been read.  *)
(* Module StateFile has the file itself, and the tables of groups, tenants *)
(* and quotas, which are taken to be readable here.                        *)
(***************************************************************************)
EXTENDS Compliance

CONSTANTS max_reservations, max_borrows   \* EngineSettings

(***************************************************************************)
(* The tables of records are read in this order, and the load returns at   *)
(* the first one that is over its bound, or in the middle of reservations, *)
(* at one with more borrows than the bound.  There is a lending record for *)
(* every borrow, so the lending table is within the bound if borrows are.  *)
(***************************************************************************)
ReservationsFit == Cardinality(DOMAIN reservations) <= max_reservations
Readable == {r \in DOMAIN reservations : Cardinality(funding[r].borrows) <= max_borrows}
ReservationsLoad == ReservationsFit /\ Readable = DOMAIN reservations
AllocationsLoad == ReservationsLoad /\ Len(allocations) <= max_reservations
AllLoad == AllocationsLoad /\ Len(borrows) <= max_borrows

NoWindows == [t \in Tenant |-> [d \in Consumable |-> EmptyWindow]]

\* Mutant: trusts counters that were never written.
ReloadUnsynced ==
  /\ AllLoad
  /\ UNCHANGED <<authVars, quotaVars, resVars, allocations, ledgerVars, now>>
  /\ usage' = [t \in Tenant |-> NoUsage]
  /\ windows' = NoWindows

\* A load that reads everything.
Reload ==
  /\ AllLoad
  /\ UNCHANGED <<authVars, quotaVars, resVars, allocations, ledgerVars, now>>
  /\ usage' = [t \in Tenant |-> Synced(t, NoUsage)]
  /\ windows' = NoWindows

RecoveryNext == Next \/ Reload

RecoverySpec == Init /\ [][RecoveryNext]_vars

\* The reservations that may have been read when the load returns: they are in
\* the order of their identifiers, which are random.
ReservationsRead ==
  IF ~ReservationsFit THEN {{}}
  ELSE IF ReservationsLoad THEN {DOMAIN reservations}
  ELSE SUBSET Readable

(***************************************************************************)
(* A load that returns early: the tables behind that place stay empty, and *)
(* the usage counters are not recomputed.  main and load_from go on with   *)
(* what there is.  A reservation may now refer to a borrow that is not     *)
(* there, which is as good as none: return_borrow looks it up and finds    *)
(* nothing, and identifiers, random and of 128 bits, do not come again.    *)
(***************************************************************************)
StoppedLoad ==
  /\ ~AllLoad
  /\ \E read \in ReservationsRead :
       /\ reservations' = [r \in read |-> reservations[r]]
       /\ funding' = [r \in read |-> [burst |-> funding[r].burst, borrows |-> {}]]
  /\ allocations' = IF AllocationsLoad THEN allocations ELSE <<>>
  /\ borrows' = <<>>
  /\ lends' = <<>>
  /\ usage' = [t \in Tenant |-> NoUsage]
  /\ windows' = NoWindows
  /\ UNCHANGED <<authVars, quotaVars, nextRes, now>>

AnyLoadNext == RecoveryNext \/ StoppedLoad

AnyLoadSpec == Init /\ [][AnyLoadNext]_vars

-----------------------------------------------------------------------------
(***************************************************************************)
(* README.md, Persistence: "recovery never invents capacity or usage".     *)
(* Loading, to the end or not, turns no refusal into an approval.          *)
(***************************************************************************)
LoadStep ==
  Reload \/ StoppedLoad =>
    \A t \in Tenant : \A req \in Requests :
      classify(t, req)' \in Allowed => classify(t, req) \in Allowed

RecoveryInventsNothing == [][LoadStep]_vars
===============================================================================
