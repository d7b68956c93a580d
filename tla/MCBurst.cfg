CONSTANTS
  alice = alice
  bob = bob
  org = org
  team = team
  NoGroup = NoGroup
  Tenant = {alice}
  Group = {}
  Home <- Homeless
  Parent <- NoParents
  Dim = {1, 2, 3}
  MaxInt = 20
  max_reservations = 9
  max_borrows = 9
  Consumable = {3}
  ModelResidency = 2
  WindowNs = 2
  TenantQuotas <- BurstQuotas
  GroupQuotas <- NoGroupQuotas
  Requests <- OneOrTwo
  Deltas = {}
  Loans = {}
  Samples = {1}
  UsageDeltas = {}
  PolicyGenerations = {0}
  MaxEpoch = 1
  MaxGeneration = 2
  MaxReservations = 4
  MaxAllocations = 0
  MaxBorrows = 0
  MaxSamples = 3
  MaxTime = 4
SPECIFICATION Spec
INVARIANTS BurstCoversSoft EnvelopeHonest WindowTotalExact
PROPERTIES WindowRemembers
