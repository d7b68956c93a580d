CONSTANTS
  alice = alice
  bob = bob
  org = org
  team = team
  NoGroup = NoGroup
  Tenant = {alice, bob}
  Group = {}
  Home <- Homeless
  Parent <- NoParents
  Dim = {1}
  MaxInt = 20
  max_reservations = 9
  max_borrows = 9
  Consumable = {}
  ModelResidency = 1
  WindowNs = 2
  TenantQuotas <- LedgerQuotas
  GroupQuotas <- NoGroupQuotas
  Requests <- OneOrTwo
  Deltas = {}
  Loans <- One
  Samples = {}
  UsageDeltas = {}
  PolicyGenerations = {0}
  MaxEpoch = 1
  MaxGeneration = 3
  MaxReservations = 2
  MaxAllocations = 1
  MaxBorrows = 3
  MaxSamples = 0
  MaxTime = 0
SPECIFICATION RecoverySpec
INVARIANTS TypeOK LedgerConserved FundingSound AllocationsLive LentNeverUnderstated HardLimitHeld CountersMatchRecords RecallPossible
PROPERTIES ImplementsLedger ReleaseComplete LendWithinGuarantee
