CONSTANTS
  alice = alice
  bob = bob
  org = org
  team = team
  NoGroup = NoGroup
  Tenant = {alice}
  Group = {}
  Home <- Homeless
  Parent <- NoParents
  Dim = {1, 2, 3}
  MaxInt = 6
  max_reservations = 1
  max_borrows = 9
  Consumable = {3}
  ModelResidency = 2
  WindowNs = 2
  TenantQuotas <- BudgetQuotas
  GroupQuotas <- NoGroupQuotas
  Requests <- BudgetRequests
  Deltas = {}
  Loans = {}
  Samples = {1, 2}
  UsageDeltas = {}
  PolicyGenerations = {0}
  MaxEpoch = 1
  MaxGeneration = 2
  MaxReservations = 2
  MaxAllocations = 0
  MaxBorrows = 0
  MaxSamples = 3
  MaxTime = 4
SPECIFICATION AnyLoadSpec
PROPERTIES RecoveryInventsNothing
