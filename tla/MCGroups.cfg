CONSTANTS
  alice = alice
  bob = bob
  org = org
  team = team
  NoGroup = NoGroup
  Tenant = {alice, bob}
  Group = {org, team}
  Home <- TwoLevelHome
  Parent <- TwoLevelParent
  Dim = {1, 2}
  MaxInt = 20
  max_reservations = 9
  max_borrows = 9
  Consumable = {}
  ModelResidency = 1
  WindowNs = 2
  TenantQuotas <- PairQuotas
  GroupQuotas <- OrgQuotas
  Requests <- PairRequests
  Deltas = {}
  Loans = {}
  Samples = {}
  UsageDeltas = {}
  PolicyGenerations = {0}
  MaxEpoch = 1
  MaxGeneration = 4
  MaxReservations = 2
  MaxAllocations = 0
  MaxBorrows = 3
  MaxSamples = 0
  MaxTime = 0
SPECIFICATION Spec
INVARIANTS LedgerConserved LentNeverUnderstated CountersMatchRecords
PROPERTIES ImplementsLedger GroupCeiling
